----------------------------- MODULE RpcService ------------------------------
(***************************************************************************)
(* What becomes of the requests of one connection in the server: dispatch  *)
(* (net/rpc/rpc_dispatcher.cc) calls the service, whose method, as the     *)
(* generator writes it (CALL_RPC_INTERFACE), runs an RpcInterface.  The    *)
(* last reference to that replies (~RpcInterface), from whichever thread   *)
(* drops it: the service may have made a closure (newRpcClosure) that      *)
(* somebody else runs later, or never.                                     *)
(*                                                                         *)
(* Here a request is read and dispatched by the IO thread of the           *)
(* connection, which RpcServer has with its queue and its clients; of the  *)
(* connection this module keeps its state, whether epoll watches it for    *)
(* OUT, and whether the main thread has destroyed it.                      *)
(***************************************************************************)
EXTENDS Integers, FiniteSets, SequencesExt

CONSTANTS
  Requests,
  MaxCalls     \* BOUND: how often a service calls reply() on one request

ASSUME ServiceAssumption == IsFiniteSet(Requests) /\ MaxCalls \in Nat

VARIABLES
  request,     \* request[r]: its dispatch, its RpcInterface and its response
  conn,        \* the TcpConnection
  async,       \* the services make closures
  crashed      \* somebody has used a connection that is gone

vars == <<request, conn, async, crashed>>

Stages  == {"unread", "rejected", "run", "returned", "left"}
Codes   == {"ok", "error"}
Request == [stage : Stages,
            holders : SUBSET {"block", "closure"},  \* of the RpcInterface
            closure : BOOLEAN,                      \* somebody has one, not yet run
            code : Codes,                           \* ret_code of the response
            replies : Seq(Codes)]                   \* what has been sent
Conn    == [m_state : {"Connected", "Closed", "destroyed"}, out : BOOLEAN]

Init ==
  /\ request = [r \in Requests |-> [stage |-> "unread", holders |-> {},
                                    closure |-> FALSE, code |-> "ok", replies |-> <<>>]]
  /\ conn = [m_state |-> "Connected", out |-> FALSE]
  /\ async \in BOOLEAN
  /\ crashed = FALSE

\* The IO thread is inside the method of a service.
Serving == \E r \in Requests : request[r].stage \in {"run", "returned"}

\* An RpcInterface was made for the request, and has been destroyed.
Over(r) == request[r].stage = "left" /\ request[r].holders = {}

-----------------------------------------------------------------------------
(* RpcInterface, on the record of a request.                                *)

\* RpcInterface::reply: the closure of dispatch serializes the response as it
\* is, and passes it to TcpConnection::reply.
reply(rq) == [rq EXCEPT !.replies = Append(@, rq.code)]

\* Mutant: the destructor does not reply.
DropSilently(rq, holder) == [rq EXCEPT !.holders = @ \ {holder}]

\* Mutant: whoever lets go of the interface replies.
DropReplies(rq, holder) == reply([rq EXCEPT !.holders = @ \ {holder}])

\* A shared_ptr less; with the last one, ~RpcInterface.
Drop(rq, holder) ==
  LET fewer == [rq EXCEPT !.holders = @ \ {holder}]
  IN  IF fewer.holders = {} THEN reply(fewer) ELSE fewer

setError(rq) == [rq EXCEPT !.code = "error"]

\* The request is now rq; if that is one reply more, the connection has been
\* told to send it, whatever has become of it.
Update(r, rq) ==
  /\ ~crashed
  /\ request' = [request EXCEPT ![r] = rq]
  /\ IF rq.replies = request[r].replies
     THEN UNCHANGED <<conn, crashed>>
     ELSE /\ conn' = [conn EXCEPT !.out = TRUE]
          /\ crashed' = (conn.m_state = "destroyed")
  /\ UNCHANGED async

-----------------------------------------------------------------------------
(* The IO thread.                                                           *)

\* dispatch: no service name, no service, no method, or a request that cannot
\* be parsed.  The error is in the response, which nobody sends.
Reject(r) ==
  /\ ~Serving /\ conn.m_state = "Connected"
  /\ request[r].stage = "unread"
  /\ Update(r, [request[r] EXCEPT !.stage = "rejected"])

\* dispatch, and the method up to impl->run().
CallMethod(r) ==
  /\ ~Serving /\ conn.m_state = "Connected"
  /\ request[r].stage = "unread"
  /\ Update(r, [request[r] EXCEPT !.stage = "run", !.holders = {"block"}])

RunReplies(r) ==
  /\ request[r].stage = "run"
  /\ Len(request[r].replies) < MaxCalls
  /\ Update(r, reply(request[r]))

\* Mutant: the closure does not hold the interface.
NewClosureUnheld(r) ==
  /\ request[r].stage = "run" /\ async
  /\ ~request[r].closure
  /\ Update(r, [request[r] EXCEPT !.closure = TRUE])

\* newRpcClosure: one that has not been run or dropped, at a time.
NewClosure(r) ==
  /\ request[r].stage = "run" /\ async
  /\ ~request[r].closure
  /\ Update(r, [request[r] EXCEPT !.closure = TRUE, !.holders = @ \cup {"closure"}])

RunReturns(r) ==
  /\ request[r].stage = "run"
  /\ Update(r, [request[r] EXCEPT !.stage = "returned"])

\* The catch clauses.
RunThrows(r) ==
  /\ request[r].stage = "run"
  /\ Update(r, setError([request[r] EXCEPT !.stage = "returned"]))

\* The end of the block drops impl.
LeaveBlock(r) ==
  /\ request[r].stage = "returned"
  /\ Update(r, Drop([request[r] EXCEPT !.stage = "left"], "block"))

\* The responses are sent.
OnWrite ==
  /\ ~crashed /\ ~Serving
  /\ conn.m_state = "Connected" /\ conn.out
  /\ conn' = [conn EXCEPT !.out = FALSE]
  /\ UNCHANGED <<request, async, crashed>>

\* Mutant: clear() cancels IN only.
clearInOnly(cn) == [cn EXCEPT !.m_state = "Closed"]

\* TcpConnection::clear.
clear(cn) == [cn EXCEPT !.m_state = "Closed", !.out = FALSE]

\* onRead at the end of the stream.
ReadEnd ==
  /\ ~crashed /\ ~Serving
  /\ conn.m_state = "Connected"
  /\ conn' = clear(conn)
  /\ UNCHANGED <<request, async, crashed>>

\* epoll reports the descriptor of a closed connection that somebody has made
\* listen again.  While the connection exists, onWrite returns at once.
WriteAfterFree ==
  /\ ~crashed /\ ~Serving
  /\ conn.m_state = "destroyed" /\ conn.out
  /\ crashed' = TRUE
  /\ UNCHANGED <<request, conn, async>>

-----------------------------------------------------------------------------
(* The main thread: ClearClientTimerFunc.                                   *)

Sweep ==
  /\ ~crashed
  /\ conn.m_state = "Closed"
  /\ conn' = [conn EXCEPT !.m_state = "destroyed"]
  /\ UNCHANGED <<request, async, crashed>>

-----------------------------------------------------------------------------
(* Whoever has the closure, in any thread, while run() runs or later.       *)

\* The closure is run, or dropped: it is no more.
Taken(r) == [request[r] EXCEPT !.closure = FALSE]

\* The callback calls reply().
CallbackReplies(r) ==
  /\ request[r].closure
  /\ Len(request[r].replies) < MaxCalls
  /\ Update(r, reply(request[r]))

\* Run, or the last reference to a closure that was never run.
ClosureEnds(r) ==
  /\ request[r].closure
  /\ Update(r, Drop(Taken(r), "closure"))

\* Mutant: m_rpc_interface.reset() comes before setError.
ThrowsResetFirst(r) ==
  /\ request[r].closure
  /\ Update(r, setError(Drop(Taken(r), "closure")))

\* Run catches what the callback throws.
ClosureThrows(r) ==
  /\ request[r].closure
  /\ Update(r, Drop(setError(Taken(r)), "closure"))

-----------------------------------------------------------------------------

Serve(r) == RunReplies(r) \/ NewClosure(r) \/ RunReturns(r) \/ RunThrows(r)

Closure(r) == CallbackReplies(r) \/ ClosureEnds(r) \/ ClosureThrows(r)

Next ==
  \/ \E r \in Requests :
       Reject(r) \/ CallMethod(r) \/ Serve(r) \/ LeaveBlock(r) \/ Closure(r)
  \/ OnWrite \/ ReadEnd \/ WriteAfterFree \/ Sweep

Spec == Init /\ [][Next]_vars

\* Services return, and who has a closure runs it or drops it in the end.
FairSpec ==
  /\ Spec
  /\ \A r \in Requests :
       /\ WF_vars(RunReturns(r) \/ RunThrows(r)) /\ WF_vars(LeaveBlock(r))
       /\ WF_vars(ClosureEnds(r) \/ ClosureThrows(r))

-----------------------------------------------------------------------------
(* Properties.                                                              *)

TypeOK ==
  /\ request \in [Requests -> Request]
  /\ \A r \in Requests : Len(request[r].replies) <= MaxCalls + 1
  /\ conn \in Conn
  /\ async \in BOOLEAN /\ crashed \in BOOLEAN

\* Whichever thread drops the last reference, and whatever was thrown in run() or
\* in a callback, the last thing that is sent is the response as it is in the end.
LastReplyIsFinal ==
  \A r \in Requests : Over(r) =>
    request[r].replies # <<>> /\ Last(request[r].replies) = request[r].code

\* Once the interface is destroyed, nobody changes its response or replies again,
\* neither the block of the method nor a closure in another thread.
OverForGood ==
  [][\A r \in Requests : Over(r) => request'[r] = request[r]]_vars

\* Services that reply before they return cannot meet a connection that is gone, nor
\* make a closed one listen again: the thread that closes it is the one that runs
\* them.  (With closures, both happen.)
SynchronousIsSafe ==
  ~async => ~crashed /\ (conn.m_state # "Connected" => ~conn.out)

\* Every request that is passed to a service is answered.  (One that is rejected
\* never is, and its client waits for its timeout.)
ServedAreAnswered ==
  \A r \in Requests :
    request[r].stage = "run" ~> request[r].replies # <<>> \/ crashed

=============================================================================
