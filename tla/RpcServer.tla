------------------------------ MODULE RpcServer -----------------------------
(***************************************************************************)
(* A server (net/tcp/tcp_server.cc) and its connections.  The main thread  *)
(* creates and starts the IO threads (net/io_thread.cc), accepts the       *)
(* connections, gives each to an IO thread and, every five seconds, drops  *)
(* those that are closed.  An IO thread runs the handlers of its own       *)
(* connections: onRead decodes and dispatches requests, whose responses    *)
(* onWrite sends, and onRead closes the connection at the end of the       *)
(* stream.  A service may keep a closure and have another thread reply.    *)
(* The threads share m_state, the FdEvents, and the connections            *)
(* themselves: handlers and closures hold a raw pointer.                   *)
(*                                                                         *)
(* The queue of an IO thread is a FifoExecutor, as EventLoop implements    *)
(* it.  Nothing closes the descriptor of a client, so no number is used    *)
(* twice.  Left out are what requests and responses look like and how many *)
(* there are (onWrite never moves the read index, so that a response is    *)
(* sent again with each later one), and m_client_counts, which nobody      *)
(* reads.                                                                  *)
(***************************************************************************)
EXTENDS Integers, FiniteSets, SequencesExt

CONSTANTS
  Conns,        \* the clients' connections, each with a descriptor
  Asking,       \* those of clients that make requests
  MaxThreads,   \* BOUND: Config::m_io_threads is in 1 .. MaxThreads
  MaxKept       \* BOUND: services keep so many closures for other threads

ASSUME ServerAssumption ==
  /\ IsFiniteSet(Conns) /\ Asking \subseteq Conns
  /\ MaxThreads \in Nat \ {0} /\ MaxKept \in Nat

VARIABLES
  m_client,     \* TcpServer: the connections that it keeps
  m_size,       \* IOThreadGroup: how many threads it has
  io,           \* io[t]: how far IOThread t has come
  started,      \* how many of them IOThreadGroup::start has started
  m_index,      \* IOThreadGroup: the thread for the next connection
  accepting,    \* where onAccept is, and on which connection
  conn,         \* TcpConnection, its FdEvent and what epoll knows of it
  peer,         \* the client, and what is on its way from it
  queue,        \* queue[t]: the tasks of IO thread t
  reported,     \* reported[t]: what is left of its result_events
  kept,         \* how many closures services have kept
  elsewhere,    \* elsewhere[c]: how far another thread's reply has come
  crashed       \* the end: see LateReply, UseAfterFree and WriteToNobody

boot == <<m_size, io, started>>
main == <<boot, m_client, m_index, accepting>>
closures == <<kept, elsewhere>>
work == <<conn, peer, queue, reported, closures, crashed>>
vars == <<main, work>>

Threads == 0 .. MaxThreads - 1

\* An IOThread is not there; its thread has no EventLoop yet; it has one and waits
\* for m_start_semaphore; it is in loop().
IoStages == {"none", "created", "ready", "looping"}

Conn == [m_state : {"NotConnected", "Connected", "Closed"}, thread : Threads,
         interest : SUBSET {"IN", "OUT"},  \* m_listen_events
         mask : SUBSET {"IN", "OUT"},      \* what epoll watches it for
         unsent : BOOLEAN]      \* responses of dispatch wait in the out buffer

\* The stream from a client is open, has ended, or was broken off by a RST.
Peer == [stage : {"away", "waiting", "accepted"}, end : {"open", "closed", "reset"},
         asks : BOOLEAN]   \* requests that have not been read

\* A handler, or the closure of addEpollEvent.  "wrote" is what is left of onWrite
\* once it has written.
Task(do, c) == [do |-> do, conn |-> c]
Tasks       == [do : {"add", "read", "write", "wrote"}, conn : Conns]

\* An epoll_event.
Event(c, events) == [conn |-> c, events |-> events]
Events           == [conn : Conns, events : SUBSET {"IN", "OUT", "ERR"}]

\* BOUND: other threads have one closure of a connection at a time.  One is to run
\* it, or has put the response into the out buffer and called listen().
Elsewhere == {"none", "kept", "listened"}

\* Where onAccept is: nowhere, or at one of its two last statements.
Nowhere  == [at |-> "nowhere"]
At(l, c) == [at |-> l, conn |-> c]

Init ==
  /\ m_client = {}
  /\ m_size \in 1 .. MaxThreads
  /\ io = [t \in Threads |-> "none"]
  /\ started = 0
  /\ m_index = -1
  /\ accepting = Nowhere
  /\ conn = [c \in Conns |-> [m_state |-> "NotConnected", thread |-> 0,
                              interest |-> {}, mask |-> {}, unsent |-> FALSE]]
  /\ peer = [c \in Conns |-> [stage |-> "away", end |-> "open", asks |-> FALSE]]
  /\ queue = [t \in Threads |-> <<>>]
  /\ reported = [t \in Threads |-> <<>>]
  /\ kept = 0 /\ elsewhere = [c \in Conns |-> "none"]
  /\ crashed = FALSE

\* Somebody holds the connection's shared_ptr: m_client, or onAccept.
Alive(c) == c \in m_client \/ (accepting # Nowhere /\ accepting.conn = c)

\* FdEvent::listen and cancle.
listen(cn, event) == [cn EXCEPT !.interest = @ \cup {event}]
cancle(cn, event) == [cn EXCEPT !.interest = @ \ {event}]

\* addEpollEvent's and deleteEpollEvent's effect on epoll, in the loop's own
\* thread: at once, and with the events of this moment.
addEpollEvent(cn)    == [cn EXCEPT !.mask = cn.interest]
deleteEpollEvent(cn) == [cn EXCEPT !.mask = {}]

\* Mutant: clear() forgets m_state.
clearKeepsState(cn) == deleteEpollEvent(cancle(cancle(cn, "IN"), "OUT"))

\* TcpConnection::clear.
clear(cn) ==
  [deleteEpollEvent(cancle(cancle(cn, "IN"), "OUT")) EXCEPT !.m_state = "Closed"]

\* Mutant: reply() without listenWrite.
replyUnlistened(cn) == [cn EXCEPT !.unsent = TRUE]

\* TcpConnection::reply: a response waits for the socket to take it.
reply(cn) == addEpollEvent(listen([cn EXCEPT !.unsent = TRUE], "OUT"))

\* What RpcDispatcher::dispatch of one request or more can do to the connection:
\* a closure replies; or none does, for there were errors, or the services keep
\* theirs.
dispatch(cn) == {reply(cn), cn}

-----------------------------------------------------------------------------
(* The main thread and the IO threads, until all of these are in loop().    *)

\* Mutant: the constructor of IOThread does not wait.
NotWaited(t) == io[t] # "none"

\* sem_wait(&m_init_semaphore) returns: the thread has made its EventLoop.
Waited(t) == io[t] \in {"ready", "looping"}

\* The constructor of IOThread t, after those before it.
CreateThread(t) ==
  /\ ~crashed /\ t < m_size /\ io[t] = "none"
  /\ \A u \in 0 .. t - 1 : Waited(u)
  /\ io' = [io EXCEPT ![t] = "created"]
  /\ UNCHANGED <<m_size, started, m_client, m_index, accepting, work>>

\* IOThread::Main: new EventLoop, sem_post(&m_init_semaphore).
MakeLoop(t) ==
  /\ ~crashed /\ io[t] = "created"
  /\ io' = [io EXCEPT ![t] = "ready"]
  /\ UNCHANGED <<m_size, started, m_client, m_index, accepting, work>>

\* IOThreadGroup::start, sem_post(&m_start_semaphore) of thread t.
StartThread(t) ==
  /\ ~crashed /\ started = t /\ t < m_size
  /\ \A u \in 0 .. m_size - 1 : Waited(u)
  /\ started' = t + 1
  /\ UNCHANGED <<m_size, io, m_client, m_index, accepting, work>>

\* IOThread::Main: sem_wait(&m_start_semaphore), loop().
EnterLoop(t) ==
  /\ ~crashed /\ io[t] = "ready" /\ t < started
  /\ io' = [io EXCEPT ![t] = "looping"]
  /\ UNCHANGED <<m_size, started, m_client, m_index, accepting, work>>

-----------------------------------------------------------------------------
(* The main thread, in its loop.                                            *)

\* The main loop runs, and none of its handlers does.
MainIdle == ~crashed /\ started = m_size /\ accepting = Nowhere

\* Mutant: the index does not come round.
NextThreadOneRound == IF m_index = -1 THEN 0 ELSE m_index

\* Mutant: the last thread is passed over.
NextThreadSkipsLast ==
  IF m_index = -1 \/ m_index >= m_size - 1 THEN 0 ELSE m_index

\* IOThreadGroup::getIOThread.
NextThread == IF m_index \in {-1, m_size} THEN 0 ELSE m_index

\* accept, getIOThread, and the constructor of TcpConnection: from listenRead
\* on, the IO thread may call onRead.
Accept(c) ==
  /\ MainIdle
  /\ peer[c].stage = "waiting"
  /\ peer' = [peer EXCEPT ![c].stage = "accepted"]
  /\ conn' = [conn EXCEPT ![c] = listen([@ EXCEPT !.thread = NextThread], "IN")]
  /\ queue' = [queue EXCEPT ![NextThread] = Append(@, Task("add", c))]
  /\ m_index' = NextThread + 1
  /\ accepting' = At("setState", c)
  /\ UNCHANGED <<boot, m_client, reported, closures, crashed>>

\* setState(Connected).
SetState ==
  /\ ~crashed /\ accepting.at = "setState"
  /\ conn' = [conn EXCEPT ![accepting.conn].m_state = "Connected"]
  /\ accepting' = At("insert", accepting.conn)
  /\ UNCHANGED <<boot, m_client, m_index, peer, queue, reported, closures, crashed>>

\* m_client.insert: the end of onAccept.
Insert ==
  /\ ~crashed /\ accepting.at = "insert"
  /\ m_client' = m_client \cup {accepting.conn}
  /\ accepting' = Nowhere
  /\ UNCHANGED <<boot, m_index, conn, peer, queue, reported, closures, crashed>>

SomeClosed == {c \in m_client : conn[c].m_state = "Closed"}

\* Mutant: a connection whose client has left is dropped at once.
SweepEnded ==
  /\ MainIdle
  /\ \E c \in m_client : peer[c].end = "closed"
  /\ m_client' = {c \in m_client : peer[c].end # "closed"}
  /\ UNCHANGED <<boot, m_index, accepting, work>>

\* ClearClientTimerFunc: the last reference of a closed connection.
Sweep ==
  /\ MainIdle
  /\ SomeClosed # {}
  /\ m_client' = m_client \ SomeClosed
  /\ UNCHANGED <<boot, m_index, accepting, work>>

-----------------------------------------------------------------------------
(* An IO thread.                                                            *)

Ended(c) == peer[c].end # "open"

Readable(c) == peer[c].asks \/ Ended(c)

\* What epoll has to say of a descriptor that it watches: EPOLLERR unasked.
Triggered(c) ==
  {e \in conn[c].mask : e = "IN" => Readable(c)}
  \cup {e \in {"ERR"} : conn[c].mask # {} /\ peer[c].end = "reset"}

Ready(t) == {c \in Conns : conn[c].thread = t /\ Triggered(c) # {}}

\* epoll_wait, once the tasks of the last one have run: all that is ready, in any
\* order.
Poll(t) ==
  /\ ~crashed /\ io[t] = "looping" /\ reported[t] = <<>>
  /\ \A k \in DOMAIN queue[t] : queue[t][k].do = "add"
  /\ Ready(t) # {}
  /\ \E order \in SetToSeqs(Ready(t)) :
       reported' = [reported EXCEPT ![t] =
                      [k \in DOMAIN order |-> Event(order[k], Triggered(order[k]))]]
  /\ UNCHANGED <<main, conn, peer, queue, closures, crashed>>

\* What is left of a report when the loop has looked at one event of it.
After(r, e) ==
  IF Head(r).events = {e} THEN Tail(r) ELSE [r EXCEPT ![1].events = @ \ {e}]

\* The loop looks at event e of the first descriptor that is left: of IN, OUT and
\* ERR, the first that is.
Dispatched(t, e) ==
  /\ ~crashed /\ reported[t] # <<>>
  /\ LET events == Head(reported[t]).events
     IN  /\ e \in events
         /\ e = "OUT" => "IN" \notin events
         /\ e = "ERR" => events = {"ERR"}
  /\ reported' = [reported EXCEPT ![t] = After(@, e)]

\* addTask(handler): between two, other threads may add tasks of theirs.
AddHandler(t, e, do) ==
  /\ Dispatched(t, e)
  /\ queue' = [queue EXCEPT ![t] = Append(@, Task(do, Head(reported[t]).conn))]
  /\ UNCHANGED <<main, conn, peer, closures, crashed>>

\* EPOLLERR: the loop takes the descriptor out of epoll, without a word to the
\* connection.
DropFailed(t) ==
  /\ Dispatched(t, "ERR")
  /\ conn' = [conn EXCEPT ![Head(reported[t]).conn] = deleteEpollEvent(@)]
  /\ UNCHANGED <<main, peer, queue, closures, crashed>>

Dispatch(t) ==
  AddHandler(t, "IN", "read") \/ AddHandler(t, "OUT", "write") \/ DropFailed(t)

\* The task of c that its thread has come to.
InFront(do, c) ==
  LET t == conn[c].thread
  IN  /\ ~crashed /\ io[t] = "looping" /\ reported[t] = <<>> /\ queue[t] # <<>>
      /\ Head(queue[t]) = Task(do, c)

\* It runs, to its end.
Running(do, c) ==
  /\ InFront(do, c)
  /\ queue' = [queue EXCEPT ![conn[c].thread] = Tail(@)]
  /\ UNCHANGED reported

\* addEpollEvent's closure: the events are those of this moment.
RunAdd(c) ==
  /\ Running("add", c)
  /\ conn' = [conn EXCEPT ![c] = addEpollEvent(@)]
  /\ UNCHANGED <<main, peer, closures, crashed>>

\* onRead and onWrite return at once when the connection is not Connected.
NotConnected(c) ==
  /\ \E do \in {"read", "write"} : Running(do, c)
  /\ Alive(c)
  /\ conn[c].m_state # "Connected"
  /\ UNCHANGED <<main, conn, peer, closures, crashed>>

\* Mutant: onRead works on a connection that onAccept has not finished.
OnReadAnyState(c) ==
  /\ Running("read", c)
  /\ Alive(c)
  /\ Ended(c)
  /\ conn' = [conn EXCEPT ![c] = clear(@)]
  /\ UNCHANGED <<main, peer, closures, crashed>>

\* onRead at the end of the stream: clear().  Requests that were read just
\* before, by a read() that filled the buffer, are not looked at.
ReadEnd(c) ==
  /\ Running("read", c)
  /\ Alive(c) /\ conn[c].m_state = "Connected"
  /\ Ended(c)
  /\ peer' = [peer EXCEPT ![c].asks = FALSE]
  /\ conn' = [conn EXCEPT ![c] = clear(@)]
  /\ UNCHANGED <<main, closures, crashed>>

\* A service keeps the closure of a request.
Keep(c) ==
  /\ kept < MaxKept /\ elsewhere[c] = "none"
  /\ kept' = kept + 1
  /\ elsewhere' = [elsewhere EXCEPT ![c] = "kept"]

\* onRead, excute, dispatch of each request.
ReadRequests(c) ==
  /\ Running("read", c)
  /\ Alive(c) /\ conn[c].m_state = "Connected"
  /\ peer[c].asks
  /\ \E cn \in dispatch(conn[c]) : conn' = [conn EXCEPT ![c] = cn]
  /\ peer' = [peer EXCEPT ![c].asks = FALSE]
  /\ UNCHANGED closures \/ Keep(c)
  /\ UNCHANGED <<main, crashed>>

\* onWrite writes the whole buffer.
WriteAll(c) ==
  /\ InFront("write", c)
  /\ Alive(c) /\ conn[c].m_state = "Connected" /\ peer[c].end # "reset"
  /\ conn' = [conn EXCEPT ![c].unsent = FALSE]
  /\ queue' = [queue EXCEPT ![conn[c].thread][1] = Task("wrote", c)]
  /\ UNCHANGED <<main, peer, reported, closures, crashed>>

\* Then it stops listening.
CancelWrite(c) ==
  /\ Running("wrote", c)
  /\ conn' = [conn EXCEPT ![c] = addEpollEvent(cancle(@, "OUT"))]
  /\ UNCHANGED <<main, peer, closures, crashed>>

\* EAGAIN: the socket has taken some of the buffer, and will be given it again.
WriteSome(c) ==
  /\ Running("write", c)
  /\ Alive(c) /\ conn[c].m_state = "Connected" /\ peer[c].end # "reset"
  /\ UNCHANGED <<main, conn, peer, closures, crashed>>

\* onWrite goes on after an error, and the second write() raises SIGPIPE, which
\* nobody ignores.
WriteToNobody(c) ==
  /\ Running("write", c)
  /\ Alive(c) /\ conn[c].m_state = "Connected" /\ peer[c].end = "reset"
  /\ crashed' = TRUE
  /\ UNCHANGED <<main, conn, peer, closures>>

\* A handler that was queued before its connection was swept.
UseAfterFree(c) ==
  /\ \E do \in {"read", "write"} : Running(do, c)
  /\ ~Alive(c)
  /\ crashed' = TRUE
  /\ UNCHANGED <<main, conn, peer, closures>>

-----------------------------------------------------------------------------
(* Another thread, in which a service runs its closure.                     *)

\* TcpConnection::reply, and listenWrite to its FdEvent::listen, which is in vain
\* while onWrite is between its last write() and its cancle(OUT): then the response
\* waits for the next one.
ReplyElsewhere(c) ==
  /\ ~crashed /\ elsewhere[c] = "kept"
  /\ Alive(c) /\ conn[c].m_state = "Connected"
  /\ conn' = [conn EXCEPT ![c] = listen(@, "OUT")]
  /\ elsewhere' = [elsewhere EXCEPT ![c] = "listened"]
  /\ UNCHANGED <<main, peer, queue, reported, kept, crashed>>

\* listenWrite's addEpollEvent: a task for the connection's thread.
AddElsewhere(c) ==
  /\ ~crashed /\ elsewhere[c] = "listened"
  /\ Alive(c)
  /\ queue' = [queue EXCEPT ![conn[c].thread] = Append(@, Task("add", c))]
  /\ elsewhere' = [elsewhere EXCEPT ![c] = "none"]
  /\ UNCHANGED <<main, conn, peer, reported, kept, crashed>>

\* The connection is closed, so that its descriptor would be watched again, and its
\* handlers run when it is gone; or it is gone.  The model ends here.
LateReply(c) ==
  /\ ~crashed
  /\ \/ elsewhere[c] = "kept" /\ ~(Alive(c) /\ conn[c].m_state = "Connected")
     \/ elsewhere[c] = "listened" /\ ~Alive(c)
  /\ crashed' = TRUE
  /\ UNCHANGED <<main, conn, peer, queue, reported, closures>>

Service(c) == ReplyElsewhere(c) \/ AddElsewhere(c) \/ LateReply(c)

-----------------------------------------------------------------------------
(* The clients.  The socket listens before there is any IO thread.          *)

Connect(c) ==
  /\ peer[c].stage = "away"
  /\ peer' = [peer EXCEPT ![c].stage = "waiting"]
  /\ UNCHANGED <<main, conn, queue, reported, closures, crashed>>

Ask(c) ==
  /\ c \in Asking
  /\ peer[c].stage # "away" /\ ~Ended(c)
  /\ peer' = [peer EXCEPT ![c].asks = TRUE]
  /\ UNCHANGED <<main, conn, queue, reported, closures, crashed>>

Leave(c) ==
  /\ peer[c].stage # "away" /\ ~Ended(c)
  /\ peer' = [peer EXCEPT ![c].end = "closed"]
  /\ UNCHANGED <<main, conn, queue, reported, closures, crashed>>

\* A client aborts, or responses come to one that has closed its socket.
Reset(c) ==
  /\ peer[c].stage # "away" /\ peer[c].end # "reset"
  /\ peer' = [peer EXCEPT ![c].end = "reset"]
  /\ UNCHANGED <<main, conn, queue, reported, closures, crashed>>

-----------------------------------------------------------------------------

MainStep ==
  \/ \E t \in Threads : CreateThread(t) \/ StartThread(t)
  \/ SetState \/ Insert \/ Sweep
  \/ \E c \in Conns : Accept(c)

Handler(c) ==
  \/ NotConnected(c) \/ UseAfterFree(c)
  \/ ReadRequests(c) \/ ReadEnd(c)
  \/ WriteAll(c) \/ CancelWrite(c) \/ WriteSome(c) \/ WriteToNobody(c)

RunTask(c) == RunAdd(c) \/ Handler(c)

ThreadStep(t) ==
  \/ MakeLoop(t) \/ EnterLoop(t)
  \/ Poll(t) \/ Dispatch(t)
  \/ \E c \in Conns : conn[c].thread = t /\ RunTask(c)

Client(c) == ~crashed /\ (Connect(c) \/ Ask(c) \/ Leave(c) \/ Reset(c))

Next ==
  \/ MainStep
  \/ \E t \in Threads : ThreadStep(t)
  \/ \E c \in Conns : Service(c) \/ Client(c)

Spec == Init /\ [][Next]_vars

\* Every thread goes on with what it has to do, the timer of the main loop and
\* each loop among it.  No client need ask or leave, no write() take the whole
\* buffer, and no service run a closure that it has kept.  (That epoll reports OUT
\* whenever it is asked is in Triggered: clients read what they are sent.)
FairSpec ==
  /\ Spec
  /\ WF_vars(MainStep)
  /\ \A t \in Threads : WF_vars(ThreadStep(t))

-----------------------------------------------------------------------------
(* Properties.                                                              *)

TypeOK ==
  /\ m_client \subseteq Conns
  /\ m_size \in 1 .. MaxThreads
  /\ io \in [Threads -> IoStages] /\ started \in 0 .. m_size
  /\ m_index \in -1 .. m_size
  /\ accepting \in {Nowhere} \cup [at : {"setState", "insert"}, conn : Conns]
  /\ conn \in [Conns -> Conn]
  /\ peer \in [Conns -> Peer]
  /\ queue \in [Threads -> Seq(Tasks)] /\ reported \in [Threads -> Seq(Events)]
  /\ kept \in 0 .. MaxKept /\ elsewhere \in [Conns -> Elsewhere]
  /\ crashed \in BOOLEAN

\* Clients may be waiting before the first IO thread is there, and yet every
\* connection is given to a thread of the group that has an EventLoop by then; and
\* none is given two connections more than another.
Given(t) == {c \in Conns : peer[c].stage = "accepted" /\ conn[c].thread = t}

WellDealt ==
  \A t \in Threads :
    /\ Given(t) # {} => t < m_size /\ io[t] \in {"ready", "looping"}
    /\ t < m_size =>
         \A u \in 0 .. m_size - 1 : Cardinality(Given(t)) <= Cardinality(Given(u)) + 1

\* A connection that was closed stays so, although onAccept makes it Connected
\* while its IO thread may already be running onRead.
ClosedIsFinal ==
  [][\A c \in Conns : conn[c].m_state = "Closed" => conn'[c].m_state = "Closed"]_vars

\* The main thread destroys connections whose handlers run in other threads.  The
\* one handler that may be left is the onWrite that epoll reported with the onRead
\* that closed the connection.  It runs before any other handler, though behind
\* what other threads have added between the two; and never is a handler taken for
\* a connection that is gone.
HandlersHaveConnections ==
  \A t \in Threads :
    /\ \A k \in DOMAIN reported[t] : Alive(reported[t][k].conn)
    /\ \A k \in DOMAIN queue[t] :
         queue[t][k].do # "add" /\ ~Alive(queue[t][k].conn)
         => /\ queue[t][k].do = "write"
            /\ \A j \in 1 .. k - 1 : queue[t][j].do = "add"

\* onWrite is about to try the socket.
Offered(c) == \E t \in Threads : queue[t] # <<>> /\ Head(queue[t]) = Task("write", c)

\* The requests of a client that stays are all read.  A response that onRead has
\* made is offered to its socket, and after an EAGAIN again, until a write() takes
\* it, whatever other threads do to the events that are listened for.
RequestsAreAnswered ==
  \A c \in Asking :
    /\ peer[c].asks ~> ~peer[c].asks \/ Ended(c) \/ crashed
    /\ conn[c].unsent ~> Offered(c) \/ Ended(c) \/ crashed

Swept(c) == peer[c].stage = "accepted" /\ ~Alive(c)

\* Nothing will be heard of the connection again: the loop has given up its
\* descriptor, and onRead has not closed it.
Stranded(c) ==
  /\ conn[c].m_state = "Connected" /\ conn[c].mask = {}
  /\ \A t \in Threads : \A k \in DOMAIN queue[t] : queue[t][k].conn # c

\* A connection whose client has left is destroyed before long: its loop sees the
\* end of the stream, whatever else is queued, and the main thread the state.  One
\* that is reset may be stranded instead, for good: the onRead that is queued with
\* EPOLLERR comes before setState(Connected), or dispatches a last request.
LeaversAreSwept ==
  \A c \in Conns :
    Ended(c) ~> \/ Swept(c)
                \/ peer[c].end = "reset" /\ Stranded(c)
                \/ crashed

=============================================================================
