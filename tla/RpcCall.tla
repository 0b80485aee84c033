------------------------------- MODULE RpcCall ------------------------------
(***************************************************************************)
(* Calls that one thread makes through RpcChannel: CallMethod, the         *)
(* TcpClient that connects, its TcpConnection that writes the request and  *)
(* reads the response, and the timer.  Everything runs on the loop of the  *)
(* calling thread, as tasks; the network, the peer and the clock go their  *)
(* own way.                                                                *)
(*                                                                         *)
(* When ioThread, the caller is a task of a loop that is running, and      *)
(* CallMethod returns at once.  Otherwise it is a thread of its own:       *)
(* connect runs the loop of the thread, inside CallMethod, until the       *)
(* closure calls stop().                                                   *)
(*                                                                         *)
(* The packets of a message and the buffers are in PacketStream and        *)
(* BufferTraffic, the queue and its mutex in EventLoop; CallMethod is      *)
(* called after Init with a closure, as the clients of the repository do.  *)
(***************************************************************************)
EXTENDS FiniteSets, SequencesExt

CONSTANTS
  Calls,
  Callers,      \* the callers there may be: does ioThread hold of them?
  MaxReplies    \* BOUND: how many responses there are, to all calls

ASSUME CallsAssumption ==
  IsFiniteSet(Calls) /\ Callers \subseteq BOOLEAN /\ MaxReplies \in Nat

VARIABLES
  channel,      \* what RpcChannel and RpcController know of a call
  client,       \* its TcpClient and TcpConnection
  wire,         \* the peer, and what is on its way from it
  answered,     \* how many responses there have been
  timer,        \* its TimerEvent
  tasks,        \* what the loop has been given to do
  ioThread,     \* the caller is a task of a running loop
  inLoop,       \* the thread is inside loop()
  m_is_looping, m_stop_flag,
  crashed       \* a handler has used a channel that is gone, or SIGPIPE

loop == <<tasks, ioThread, inLoop, m_is_looping, m_stop_flag, crashed>>
vars == <<channel, client, wire, answered, timer, loop>>

Codes     == {"0", "usage", "connect", "serialize", "peer's", "timeout"}
Responses == {"ok", "error", "unparsable"}

Channel == [holders : SUBSET {"caller", "timer", "user"}, code : Codes,
            response : Responses \cup {"none"}, cancled : BOOLEAN,
            finished : BOOLEAN, ran : {0, 1}]
Client  == [m_fd : {"none", "connecting", "connected", "refused", "closed"},
            m_state : {"NotConnected", "Connected", "Closed"},
            interest : SUBSET {"IN", "OUT"}, onOut : {"none", "connect", "write"},
            write_done : BOOLEAN, read_done : BOOLEAN]
Wire    == [sent : BOOLEAN, replies : Seq(Responses), closed : BOOLEAN]

Timer == "timer"     \* the file descriptor of the loop's timer

Init ==
  /\ channel = [c \in Calls |-> [holders |-> {}, code |-> "0", response |-> "none",
                                 cancled |-> FALSE, finished |-> FALSE, ran |-> 0]]
  /\ client = [c \in Calls |-> [m_fd |-> "none", m_state |-> "NotConnected",
                                interest |-> {}, onOut |-> "none", write_done |-> FALSE,
                                read_done |-> FALSE]]
  /\ wire = [c \in Calls |-> [sent |-> FALSE, replies |-> <<>>, closed |-> FALSE]]
  /\ answered = 0
  /\ timer = [c \in Calls |-> "none"]
  /\ tasks = <<>>
  /\ ioThread \in Callers
  /\ inLoop = ioThread
  /\ m_is_looping = ioThread
  /\ m_stop_flag = FALSE
  /\ crashed = FALSE

Called(c) == channel[c].finished \/ client[c].m_fd # "none"
Alive(c)  == channel[c].holders # {}

-----------------------------------------------------------------------------
(* RpcController and RpcChannel::callBack, on the record of a call.          *)

SetError(ch, code) == [ch EXCEPT !.code = code]

\* Mutant: Finished() is not asked.
CallBackAlways(ch) == [ch EXCEPT !.ran = @ + 1, !.finished = TRUE]

CallBack(ch) ==
  IF ch.finished THEN ch ELSE [ch EXCEPT !.ran = @ + 1, !.finished = TRUE]

StartCancel(ch) == [ch EXCEPT !.cancled = TRUE, !.finished = TRUE]

\* Mutant: the timer's lambda does not ask for Finished().
TimeoutAlways(ch) == CallBack(SetError(StartCancel(ch), "timeout"))

\* The timer's lambda.
Timeout(ch) ==
  IF ch.finished THEN ch ELSE CallBack(SetError(StartCancel(ch), "timeout"))

\* Mutant: the error code of the response is not looked at.
OnResponseUnchecked(ch, reply) == CallBack([ch EXCEPT !.response = reply])

\* The read callback, the innermost lambda of CallMethod.
OnResponse(ch, reply) ==
  LET parsed == [ch EXCEPT !.response = reply]
  IN  CallBack(CASE reply = "unparsable" -> SetError(parsed, "serialize")
                 [] reply = "error"      -> SetError(parsed, "peer's")
                 [] OTHER                -> parsed)

\* The closure of a thread's own call ends the thread's loop.
Stopped(c, ch) == ~ioThread /\ m_is_looping /\ ch.ran > channel[c].ran

Update(c, ch) ==
  /\ channel' = [channel EXCEPT ![c] = ch]
  /\ m_stop_flag' = (m_stop_flag \/ Stopped(c, ch))

\* ~RpcChannel, ~TcpClient: the descriptor is closed, epoll forgets it.
Closed(cl) == [cl EXCEPT !.m_fd = "closed", !.interest = {}]

-----------------------------------------------------------------------------
(* TcpClient and TcpConnection, on the record of a call.                     *)

\* pushSendMessage, listenWrite.
WriteMessage(cl) ==
  [cl EXCEPT !.write_done = TRUE, !.interest = @ \cup {"OUT"}, !.onOut = "write"]

\* pushReadMessage, listenRead.
ReadMessage(cl) == [cl EXCEPT !.read_done = TRUE, !.interest = @ \cup {"IN"}]

-----------------------------------------------------------------------------
(* The calling thread.                                                      *)

MayCall(c) ==
  /\ ~crashed
  /\ ~Called(c)
  /\ ioThread \/ ~inLoop

\* No request or response, no address, or a request that cannot be serialized.
CallFails(c) ==
  /\ MayCall(c)
  /\ Update(c, CallBack(SetError(channel[c], "usage")))
  /\ UNCHANGED <<ioThread, answered, client, wire, timer, tasks, inLoop,
                 m_is_looping, crashed>>

\* Mutant: no timer for the call.
CallWithoutTimer(c, ch, cl, held) ==
  /\ client' = [client EXCEPT ![c] = cl]
  /\ timer' = timer
  /\ Update(c, [ch EXCEPT !.holders = held \cup {"timer"}])
  /\ UNCHANGED <<ioThread, answered, wire, tasks, crashed>>

\* The timer is added, the connection begun: the timer's lambda holds the
\* channel from now on, and so may the user.
CallBegins(c, ch, cl, held) ==
  /\ client' = [client EXCEPT ![c] = cl]
  /\ timer' = [timer EXCEPT ![c] = "armed"]
  /\ \E kept \in SUBSET {"user"} :
       Update(c, [ch EXCEPT !.holders = held \cup kept \cup {"timer"}])
  /\ UNCHANGED <<ioThread, answered, wire, tasks, crashed>>

\* connect returns 0: done() is called, and the loop, if it runs, does the rest.
ConnectNow(c) ==
  /\ MayCall(c)
  /\ CallBegins(c, channel[c],
                WriteMessage([client[c] EXCEPT !.m_fd = "connected",
                                               !.m_state = "Connected"]), {})
  /\ UNCHANGED <<inLoop, m_is_looping>>

\* connect, or socket, fails: done() is called.
ConnectFails(c) ==
  /\ MayCall(c)
  /\ CallBegins(c, CallBack(SetError(channel[c], "connect")),
                [client[c] EXCEPT !.m_fd = "refused"], {})
  /\ UNCHANGED <<inLoop, m_is_looping>>

Connecting(c) ==
  [client[c] EXCEPT !.m_fd = "connecting", !.interest = {"OUT"}, !.onOut = "connect"]

\* Mutant: the loop is entered without a reference to the channel.
ConnectUnheld(c) ==
  /\ MayCall(c)
  /\ inLoop' = (inLoop \/ ~m_is_looping)
  /\ m_is_looping' = TRUE
  /\ CallBegins(c, channel[c], Connecting(c), {})

\* EINPROGRESS: wait for the socket, in the loop of the caller if it runs, and
\* otherwise in one begun here.  There the caller still holds its channel.
ConnectBegins(c) ==
  /\ MayCall(c)
  /\ inLoop' = (inLoop \/ ~m_is_looping)
  /\ m_is_looping' = TRUE
  /\ CallBegins(c, channel[c], Connecting(c), IF m_is_looping THEN {} ELSE {"caller"})

\* One holder less; the last one destroys the channel.
Release(some, holder) ==
  /\ channel' = [c \in Calls |-> IF c \in some
                                 THEN [channel[c] EXCEPT !.holders = @ \ {holder}]
                                 ELSE channel[c]]
  /\ client' = [c \in Calls |-> IF c \in some /\ channel[c].holders = {holder}
                                THEN Closed(client[c]) ELSE client[c]]

UserDrops(c) ==
  /\ ~crashed
  /\ "user" \in channel[c].holders
  /\ Release({c}, "user")
  /\ UNCHANGED <<answered, wire, timer, loop>>

\* The loop ends, CallMethod returns and the caller drops its channel.
LoopEnds ==
  /\ ~crashed /\ ~ioThread /\ inLoop /\ m_stop_flag /\ tasks = <<>>
  /\ inLoop' = FALSE
  /\ Release(Calls, "caller")
  /\ UNCHANGED <<ioThread, answered, wire, timer, tasks, m_is_looping,
                 m_stop_flag, crashed>>

-----------------------------------------------------------------------------
(* The loop.                                                                *)

Task(do, call) == [do |-> do, call |-> call]

Handlers == [do : {"connect", "write", "read"}, call : Calls] \cup {Task("timer", Timer)}

\* The handlers of the descriptors that are ready.
Readable(c) == wire[c].replies # <<>> \/ wire[c].closed

Ready ==
  {Task("timer", Timer) : c \in {d \in Calls : timer[d] = "expired"}}
  \cup {Task("read", c) : c \in {d \in Calls : "IN" \in client[d].interest /\ Readable(d)}}
  \cup {Task(client[c].onOut, c) :
          c \in {d \in Calls : /\ "OUT" \in client[d].interest
                               /\ client[d].m_fd \in {"connected", "refused"}}}

\* epoll_wait reports every descriptor that is ready, in any order; what can be
\* read and written is read first, and then written.
Poll ==
  /\ ~crashed /\ inLoop /\ tasks = <<>> /\ ~m_stop_flag
  /\ Ready # {}
  /\ tasks' \in SetToSeqs(Ready)
  /\ \A j, k \in DOMAIN tasks' :
       tasks'[j].do = "read" /\ tasks'[k].call = tasks'[j].call => k \in {j, j + 1}
  /\ UNCHANGED <<ioThread, answered, channel, client, wire, timer, inLoop,
                 m_is_looping, m_stop_flag, crashed>>

\* The first task; its handler, if it is a call's, has a channel to work on.
Running(do, c) ==
  /\ ~crashed /\ inLoop /\ tasks # <<>>
  /\ Head(tasks) = Task(do, c)
  /\ tasks' = Tail(tasks)
  /\ UNCHANGED <<inLoop, m_is_looping>>

\* The callback of TcpClient::connect.
OnConnect(c) ==
  /\ Running("connect", c)
  /\ Alive(c)
  /\ LET deaf == [client[c] EXCEPT !.interest = {}]   \* deleteEpollEvent
     IN  IF client[c].m_fd = "connected"
         THEN /\ client' = [client EXCEPT ![c] =
                              WriteMessage([deaf EXCEPT !.m_state = "Connected"])]
              /\ UNCHANGED <<channel, m_stop_flag>>
         ELSE /\ client' = [client EXCEPT ![c] = [deaf EXCEPT !.onOut = "none"]]
              /\ Update(c, CallBack(SetError(channel[c], "connect")))
  /\ UNCHANGED <<ioThread, answered, wire, timer, crashed>>

\* TcpConnection::onWrite on a connection that is open: everything is written, or
\* EAGAIN.  The write callback, which asks for the response, is called either
\* way.
OnWrite(c) ==
  /\ Running("write", c)
  /\ Alive(c)
  /\ client[c].m_state = "Connected"
  /\ \E written \in BOOLEAN :
       LET cl == IF written THEN [client[c] EXCEPT !.interest = @ \ {"OUT"}]
                            ELSE client[c]
       IN  /\ wire' = [wire EXCEPT ![c].sent = @ \/ written]
           /\ client' = [client EXCEPT ![c] =
                           IF cl.write_done
                           THEN ReadMessage([cl EXCEPT !.write_done = FALSE]) ELSE cl]
  /\ UNCHANGED <<ioThread, answered, channel, timer, m_stop_flag, crashed>>

\* Nobody ignores SIGPIPE.
WriteToNobody(c) ==
  /\ Running("write", c)
  /\ Alive(c)
  /\ client[c].m_state = "Connected" /\ wire[c].closed
  /\ crashed' = TRUE
  /\ UNCHANGED <<ioThread, answered, channel, client, wire, timer, m_stop_flag>>

\* Mutant: m_read_dones.erase is missing.
OnReadKeepDone(c) ==
  /\ Running("read", c)
  /\ Alive(c)
  /\ client[c].m_state = "Connected"
  /\ IF wire[c].replies = <<>>
     THEN /\ client' = [client EXCEPT ![c].interest = {}, ![c].m_state = "Closed"]
          /\ UNCHANGED <<channel, wire, m_stop_flag>>
     ELSE /\ IF client[c].read_done
             THEN Update(c, OnResponse(channel[c], Head(wire[c].replies)))
             ELSE UNCHANGED <<channel, m_stop_flag>>
          /\ wire' = [wire EXCEPT ![c].replies = <<>>]
          /\ client' = client
  /\ UNCHANGED <<ioThread, answered, timer, crashed>>

\* TcpConnection::onRead, excute: the first response goes to the read callback,
\* which is then gone; the end of the stream closes the connection.
OnRead(c) ==
  /\ Running("read", c)
  /\ Alive(c)
  /\ client[c].m_state = "Connected"
  /\ IF wire[c].replies = <<>>
     THEN /\ client' = [client EXCEPT ![c].interest = {}, ![c].m_state = "Closed"]
          /\ UNCHANGED <<channel, wire, m_stop_flag>>
     ELSE /\ IF client[c].read_done
             THEN Update(c, OnResponse(channel[c], Head(wire[c].replies)))
             ELSE UNCHANGED <<channel, m_stop_flag>>
          /\ wire' = [wire EXCEPT ![c].replies = <<>>]
          /\ client' = [client EXCEPT ![c].read_done = FALSE]
  /\ UNCHANGED <<ioThread, answered, timer, crashed>>

\* onWrite, queued together with the onRead that has closed the connection.
NotConnected(c) ==
  /\ Running("write", c)
  /\ Alive(c)
  /\ client[c].m_state # "Connected"
  /\ UNCHANGED <<ioThread, answered, channel, client, wire, timer, m_stop_flag, crashed>>

\* Timer::onTimer: the lambdas of the calls whose time is up, and the last of
\* their references to the channels.
Due(c) == timer[c] = "expired"

OnTimer ==
  /\ Running("timer", Timer)
  /\ channel' = [c \in Calls |->
                   IF Due(c) THEN [Timeout(channel[c]) EXCEPT !.holders = @ \ {"timer"}]
                   ELSE channel[c]]
  /\ client' = [c \in Calls |->
                  IF Due(c) /\ channel[c].holders = {"timer"}
                  THEN Closed(client[c]) ELSE client[c]]
  /\ timer' = [c \in Calls |-> IF Due(c) THEN "none" ELSE timer[c]]
  /\ UNCHANGED <<ioThread, answered, wire, m_stop_flag, crashed>>

\* A handler that was queued before its channel was destroyed.
UseAfterFree(c) ==
  /\ \E do \in {"connect", "write", "read"} : Running(do, c)
  /\ ~Alive(c)
  /\ crashed' = TRUE
  /\ UNCHANGED <<ioThread, answered, channel, client, wire, timer, m_stop_flag>>

-----------------------------------------------------------------------------
(* The network, the peer, the clock.                                        *)

Answers(c, reply) ==
  /\ wire[c].sent /\ ~wire[c].closed /\ answered < MaxReplies
  /\ answered' = answered + 1
  /\ wire' = [wire EXCEPT ![c].replies = Append(@, reply)]
  /\ UNCHANGED <<channel, client, timer, loop>>

PeerCloses(c) ==
  /\ client[c].m_fd = "connected" /\ ~wire[c].closed
  /\ wire' = [wire EXCEPT ![c].closed = TRUE]
  /\ UNCHANGED <<answered, channel, client, timer, loop>>

Connects(c) ==
  /\ client[c].m_fd = "connecting"
  /\ \E result \in {"connected", "refused"} :
       client' = [client EXCEPT ![c].m_fd = result]
  /\ UNCHANGED <<answered, channel, wire, timer, loop>>

Expires(c) ==
  /\ timer[c] = "armed"
  /\ timer' = [timer EXCEPT ![c] = "expired"]
  /\ UNCHANGED <<answered, channel, client, wire, loop>>

-----------------------------------------------------------------------------

CallMethod(c) == CallFails(c) \/ ConnectNow(c) \/ ConnectFails(c) \/ ConnectBegins(c)

RunTask ==
  \/ OnTimer
  \/ \E c \in Calls : OnConnect(c) \/ OnWrite(c) \/ OnRead(c)
                      \/ WriteToNobody(c) \/ NotConnected(c) \/ UseAfterFree(c)

Environment(c) ==
  Connects(c) \/ PeerCloses(c) \/ Expires(c) \/ \E reply \in Responses : Answers(c, reply)

Next ==
  \/ Poll \/ RunTask \/ LoopEnds
  \/ \E c \in Calls : CallMethod(c) \/ UserDrops(c) \/ Environment(c)

Spec == Init /\ [][Next]_vars

\* The loop runs and time passes; neither the peer nor the caller need do
\* anything.
FairSpec ==
  /\ Spec
  /\ WF_vars(Poll) /\ WF_vars(RunTask) /\ WF_vars(LoopEnds)
  /\ \A c \in Calls : WF_vars(Expires(c))

-----------------------------------------------------------------------------
(* Properties.                                                              *)

TypeOK ==
  /\ channel \in [Calls -> Channel]
  /\ client \in [Calls -> Client]
  /\ wire \in [Calls -> Wire]
  /\ answered \in Nat
  /\ timer \in [Calls -> {"none", "armed", "expired"}]
  /\ tasks \in Seq(Handlers)
  /\ ioThread \in BOOLEAN /\ inLoop \in BOOLEAN /\ m_is_looping \in BOOLEAN
  /\ m_stop_flag \in BOOLEAN /\ crashed \in BOOLEAN

\* A call ends once, in one way, and its outcome is final: a late response does
\* not wake a call that timed out, a late timer does not cancel a call that was
\* answered, and the second of two responses is ignored.
Outcome(c) ==
  IF channel[c].cancled THEN "timeout"
  ELSE IF channel[c].finished
       THEN IF channel[c].code = "0" THEN "response" ELSE "error"
  ELSE IF Called(c) THEN "pending" ELSE "not called"

Promise == INSTANCE RpcPromise WITH outcome <- [c \in Calls |-> Outcome(c)]

PromiseSpec == Promise!Spec

\* What the closure was told stays true: once it has run, neither the error
\* code nor the response changes, whatever the network and the timer do.
ClosureIsLast ==
  [][\A c \in Calls : channel[c].ran = 1 =>
       /\ channel'[c].code = channel[c].code
       /\ channel'[c].response = channel[c].response]_vars

\* The closure is told of success if and only if the response was a good one.
ClosureIsTold ==
  \A c \in Calls : channel[c].ran = 1 =>
    (channel[c].code = "0" <=> channel[c].response = "ok")

\* Every call that is made from a loop ends, even when the peer is silent: the
\* timer sees to it.
CallsEnd == \A c \in Calls : Called(c) /\ inLoop ~> channel[c].finished \/ crashed

\* A thread's only call, which blocks in the thread's loop, keeps its channel: no
\* handler of a channel that is gone is left in the queue.
HandlersHaveChannels ==
  ~ioThread /\ inLoop =>
    \A k \in DOMAIN tasks : tasks[k].call # Timer => Alive(tasks[k].call)

\* The generated client's closure reports the outcome of every call, failed ones
\* too, and ends the program.
ClosureRuns == \A c \in Calls : Called(c) ~> channel[c].ran = 1 \/ crashed

=============================================================================
