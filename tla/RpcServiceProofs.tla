-------------------------- MODULE RpcServiceProofs ---------------------------
(***************************************************************************)
(* What is proved of RpcService, for any number of requests and of calls   *)
(* of reply().  Each request goes its own way, so that nearly all is said  *)
(* of the record of one request, and of the steps from one such record to  *)
(* the next.                                                               *)
(***************************************************************************)
EXTENDS RpcService, SequenceTheorems, TLAPS

-----------------------------------------------------------------------------
(* The record of one request.                                               *)

IsOver(rq) == rq.stage = "left" /\ rq.holders = {}

\* The block holds the interface while it runs, and a closure holds it until it
\* has ended; nobody replies for a request that no service has seen.
Held(rq) ==
  /\ "block" \in rq.holders <=> rq.stage \in {"run", "returned"}
  /\ "closure" \in rq.holders <=> rq.closure
  /\ rq.stage \in {"unread", "rejected"} => ~rq.closure

\* The destructor's reply comes on top of at most MaxCalls others, and says what
\* the response is.
Replied(rq) ==
  /\ Len(rq.replies) <= MaxCalls + 1
  /\ ~IsOver(rq) => Len(rq.replies) <= MaxCalls
  /\ IsOver(rq) => rq.replies # <<>> /\ Last(rq.replies) = rq.code

Good(rq) == rq \in Request /\ Held(rq) /\ Replied(rq)

\* A request is good when its fields are.
LEMMA GoodFields ==
  ASSUME NEW rq \in Request, Held(rq), Replied(rq)
  PROVE  Good(rq)
BY DEF Good

\* reply() appends the response as it is.
LEMMA ReplyFields ==
  ASSUME NEW rq \in Request
  PROVE  /\ reply(rq) \in Request
         /\ reply(rq).stage = rq.stage /\ reply(rq).holders = rq.holders
         /\ reply(rq).closure = rq.closure /\ reply(rq).code = rq.code
         /\ reply(rq).replies = Append(rq.replies, rq.code)
         /\ reply(rq).replies # <<>>
         /\ Len(reply(rq).replies) = Len(rq.replies) + 1
         /\ Last(reply(rq).replies) = rq.code
<1>1. rq.replies \in Seq(Codes) /\ rq.code \in Codes
  BY DEF Request
<1>2. /\ Append(rq.replies, rq.code) \in Seq(Codes)
      /\ Len(Append(rq.replies, rq.code)) = Len(rq.replies) + 1
      /\ Append(rq.replies, rq.code)[Len(rq.replies) + 1] = rq.code
  BY <1>1
<1>3. Append(rq.replies, rq.code) # <<>>
  BY <1>1
<1>4. reply(rq) = [rq EXCEPT !.replies = Append(rq.replies, rq.code)]
  BY DEF reply
<1>5. reply(rq) \in Request
  BY <1>2, <1>4 DEF Request
<1> QED
  BY <1>2, <1>3, <1>4, <1>5 DEF Request, Last

\* A good request that is not over may reply while it has calls left.
LEMMA ReplyGood ==
  ASSUME NEW rq, Good(rq), ~IsOver(rq), Len(rq.replies) < MaxCalls
  PROVE  Good(reply(rq))
<1>1. rq \in Request
  BY DEF Good
<1>2. /\ reply(rq) \in Request
      /\ reply(rq).stage = rq.stage /\ reply(rq).holders = rq.holders
      /\ reply(rq).closure = rq.closure
      /\ Len(reply(rq).replies) = Len(rq.replies) + 1
  BY <1>1, ReplyFields
<1>3. Held(reply(rq))
  BY <1>2 DEF Good, Held
<1>4. Len(rq.replies) \in Nat
  BY <1>1 DEF Request
<1>5. Replied(reply(rq))
  BY <1>2, <1>4, ServiceAssumption DEF Replied, IsOver
<1> QED
  BY <1>2, <1>3, <1>5 DEF Good

\* What a holder leaves, before the destructor.
Without(rq, holder) == [rq EXCEPT !.holders = @ \ {holder}]

\* Drop leaves a good request when all was in order but that holder, which has
\* left the block, or was the closure that has ended.
LEMMA DropGood ==
  ASSUME NEW rq \in Request, NEW holder, rq.stage \notin {"unread", "rejected"},
         Len(rq.replies) <= MaxCalls, Held(Without(rq, holder))
  PROVE  Good(Drop(rq, holder))
<1> DEFINE fewer == Without(rq, holder)
<1>1. /\ fewer \in Request
      /\ fewer.stage = rq.stage /\ fewer.replies = rq.replies
      /\ fewer.closure = rq.closure /\ fewer.code = rq.code
  BY DEF Without, Request
<1>2. rq.replies \in Seq(Codes)
  BY DEF Request
<1>3. Len(rq.replies) \in Nat
  BY <1>2
<1>4. CASE fewer.holders = {}
  <2>1. Drop(rq, holder) = reply(fewer)
    BY <1>4 DEF Drop, Without
  <2>2. /\ reply(fewer) \in Request
        /\ reply(fewer).stage = fewer.stage /\ reply(fewer).holders = fewer.holders
        /\ reply(fewer).closure = fewer.closure /\ reply(fewer).code = fewer.code
        /\ reply(fewer).replies # <<>>
        /\ Len(reply(fewer).replies) = Len(fewer.replies) + 1
        /\ Last(reply(fewer).replies) = fewer.code
    BY <1>1, ReplyFields
  <2>3. Held(reply(fewer))
    BY <2>2 DEF Held
  <2>4. rq.stage = "left"
    BY <1>1, <1>4 DEF Held, Request, Stages
  <2>5. Replied(reply(fewer))
    BY <1>1, <1>3, <1>4, <2>2, <2>4, ServiceAssumption DEF Replied, IsOver
  <2> QED
    BY <2>1, <2>2, <2>3, <2>5 DEF Good
<1>5. CASE fewer.holders # {}
  <2>1. Drop(rq, holder) = fewer
    BY <1>5 DEF Drop, Without
  <2>2. Replied(fewer)
    BY <1>1, <1>3, <1>5, ServiceAssumption DEF Replied, IsOver
  <2> QED
    BY <1>1, <2>1, <2>2 DEF Good
<1> QED
  BY <1>4, <1>5

-----------------------------------------------------------------------------
(* The invariant.                                                           *)

\* The thread that serves is the one that would close the connection.  Without
\* closures nobody else replies.
Inv ==
  /\ request \in [Requests -> Request]
  /\ \A r \in Requests : Good(request[r])
  /\ conn \in Conn /\ async \in BOOLEAN /\ crashed \in BOOLEAN
  /\ Serving => conn.m_state = "Connected"
  /\ ~async => /\ \A r \in Requests : ~request[r].closure
               /\ ~crashed
               /\ conn.m_state # "Connected" => ~conn.out

\* Nobody has done anything yet.
LEMMA InitInv == Init => Inv
<1> SUFFICES ASSUME Init PROVE Inv
  OBVIOUS
<1> DEFINE new == [stage |-> "unread", holders |-> {}, closure |-> FALSE,
                   code |-> "ok", replies |-> <<>>]
<1>1. \A r \in Requests : request[r] = new
  BY DEF Init
<1>2. new \in Request
  BY DEF Request, Stages, Codes
<1>3. Held(new)
  BY DEF Held
<1>4. Len(new.replies) = 0
  BY DEF Init
<1>5. Replied(new)
  BY <1>4, ServiceAssumption DEF Replied, IsOver
<1>6. Good(new)
  BY <1>2, <1>3, <1>5 DEF Good
<1>7. request \in [Requests -> Request]
  BY <1>2 DEF Init
<1>8. ~Serving
  BY <1>1 DEF Serving
<1>9. conn \in Conn /\ conn.out = FALSE
  BY DEF Init, Conn
<1> HIDE DEF new
<1>10. \A r \in Requests : Good(request[r])
  BY <1>1, <1>6
<1>11. \A r \in Requests : ~request[r].closure
  BY <1>1 DEF new
<1> QED
  BY <1>7, <1>8, <1>9, <1>10, <1>11 DEF Inv, Init

\* A request that takes a good step keeps the invariant: it is served, if it is, on
\* a connection that is there, and without closures it replies on one, too.
LEMMA UpdateInv ==
  ASSUME Inv, NEW r \in Requests, NEW rq, Good(rq), Update(r, rq),
         rq.stage \in {"run", "returned"} => conn.m_state = "Connected",
         ~async => ~rq.closure,
         ~async /\ rq.replies # request[r].replies => conn.m_state = "Connected"
  PROVE  Inv'
<1>1. rq \in Request
  BY DEF Good
<1>2. request' = [request EXCEPT ![r] = rq]
  BY DEF Update
<1>3. request' \in [Requests -> Request]
  BY <1>1, <1>2 DEF Inv
<1>4. \A s \in Requests : request'[s] = IF s = r THEN rq ELSE request[s]
  BY <1>2 DEF Inv
<1>5. \A s \in Requests : Good(request'[s])
  BY <1>4 DEF Inv
<1>6. async' = async /\ crashed = FALSE
  BY DEF Update, Inv
<1>7. conn' \in Conn /\ conn'.m_state = conn.m_state
  BY DEF Update, Inv, Conn
<1>8. Serving' => conn.m_state = "Connected"
  BY <1>4 DEF Serving, Inv
<1>9. ASSUME ~async
      PROVE  \A s \in Requests : ~request'[s].closure
  BY <1>4, <1>9 DEF Inv
<1>10. ASSUME ~async
       PROVE  ~crashed' /\ (conn'.m_state # "Connected" => ~conn'.out)
  <2>1. CASE rq.replies = request[r].replies
    BY <1>10, <2>1 DEF Update, Inv
  <2>2. CASE rq.replies # request[r].replies
    <3>1. conn.m_state = "Connected"
      BY <1>10, <2>2
    <3>2. crashed' = FALSE
      BY <2>2, <3>1 DEF Update
    <3> QED
      BY <1>7, <3>1, <3>2
  <2> QED
    BY <2>1, <2>2
<1>11. crashed' \in BOOLEAN
  BY DEF Update, Inv
<1> QED
  BY <1>3, <1>5, <1>6, <1>7, <1>8, <1>9, <1>10, <1>11 DEF Inv

\* What the invariant says of one request.
LEMMA InvOf ==
  ASSUME Inv, NEW r \in Requests
  PROVE  /\ request[r] \in Request /\ Held(request[r]) /\ Replied(request[r])
         /\ Good(request[r])
         /\ request[r].replies \in Seq(Codes) /\ Len(request[r].replies) \in Nat
         /\ request[r].stage \in {"run", "returned"} => conn.m_state = "Connected"
         /\ ~async => ~request[r].closure
BY DEF Inv, Good, Request, Serving

\* The steps of dispatch.
LEMMA DispatchInv ==
  ASSUME Inv, NEW r \in Requests, Reject(r) \/ CallMethod(r)
  PROVE  Inv'
<1>1. request[r] \in Request /\ Held(request[r]) /\ Replied(request[r])
  BY InvOf
<1>2. CASE Reject(r)
  <2> DEFINE rq == [request[r] EXCEPT !.stage = "rejected"]
  <2>1. rq \in Request
    BY <1>1 DEF Request, Stages
  <2>2. Held(rq) /\ ~rq.closure
    BY <1>1, <1>2 DEF Held, Reject, Request
  <2>3. Replied(rq)
    BY <1>1, <1>2 DEF Replied, IsOver, Reject, Request
  <2>4. Good(rq)
    BY <2>1, <2>2, <2>3 DEF Good
  <2>5. rq.stage = "rejected" /\ rq.replies = request[r].replies
    BY <1>1 DEF Request
  <2>6. Update(r, rq)
    BY <1>2 DEF Reject
  <2> HIDE DEF rq
  <2> QED
    BY <2>2, <2>4, <2>5, <2>6, UpdateInv
<1>3. CASE CallMethod(r)
  <2> DEFINE rq == [request[r] EXCEPT !.stage = "run", !.holders = {"block"}]
  <2>1. rq \in Request
    BY <1>1 DEF Request, Stages
  <2>2. Held(rq) /\ ~rq.closure
    BY <1>1, <1>3 DEF Held, CallMethod, Request
  <2>3. Replied(rq)
    BY <1>1, <1>3 DEF Replied, IsOver, CallMethod, Request
  <2>4. Good(rq)
    BY <2>1, <2>2, <2>3 DEF Good
  <2>5. rq.replies = request[r].replies /\ conn.m_state = "Connected"
    BY <1>1, <1>3 DEF Request, CallMethod
  <2>6. Update(r, rq)
    BY <1>3 DEF CallMethod
  <2> HIDE DEF rq
  <2> QED
    BY <2>2, <2>4, <2>5, <2>6, UpdateInv
<1> QED
  BY <1>2, <1>3

\* The steps of the method, up to its end.
LEMMA ServeInv ==
  ASSUME Inv, NEW r \in Requests, Serve(r)
  PROVE  Inv'
<1>1. /\ request[r] \in Request /\ Held(request[r]) /\ Replied(request[r])
      /\ Good(request[r])
      /\ ~async => ~request[r].closure
  BY InvOf
<1>2. request[r].stage = "run" /\ ~IsOver(request[r])
  BY DEF Serve, RunReplies, NewClosure, RunReturns, RunThrows, IsOver
<1>3. conn.m_state = "Connected"
  BY <1>2, InvOf
<1>4. CASE RunReplies(r)
  <2>1. Good(reply(request[r]))
    BY <1>1, <1>2, <1>4, ReplyGood DEF RunReplies
  <2>2. reply(request[r]).closure = request[r].closure
    BY <1>1, ReplyFields
  <2>3. Update(r, reply(request[r]))
    BY <1>4 DEF RunReplies
  <2> QED
    BY <1>1, <1>3, <2>1, <2>2, <2>3, UpdateInv
<1>5. CASE NewClosure(r)
  <2> DEFINE rq == [request[r] EXCEPT !.closure = TRUE, !.holders = @ \cup {"closure"}]
  <2>1. rq \in Request
    BY <1>1 DEF Request
  <2>2. Held(rq)
    BY <1>1, <1>2 DEF Held, Request
  <2>3. Replied(rq)
    BY <1>1, <1>2 DEF Replied, IsOver, Request
  <2>4. Good(rq)
    BY <2>1, <2>2, <2>3 DEF Good
  <2>5. Update(r, rq) /\ async
    BY <1>5 DEF NewClosure
  <2> HIDE DEF rq
  <2> QED
    BY <1>3, <2>4, <2>5, UpdateInv
<1>6. CASE RunReturns(r)
  <2> DEFINE rq == [request[r] EXCEPT !.stage = "returned"]
  <2>1. rq \in Request
    BY <1>1 DEF Request, Stages
  <2>2. Held(rq) /\ rq.closure = request[r].closure
    BY <1>1, <1>2 DEF Held, Request
  <2>3. Replied(rq)
    BY <1>1, <1>2 DEF Replied, IsOver, Request
  <2>4. Good(rq)
    BY <2>1, <2>2, <2>3 DEF Good
  <2>5. Update(r, rq)
    BY <1>6 DEF RunReturns
  <2> HIDE DEF rq
  <2> QED
    BY <1>1, <1>3, <2>2, <2>4, <2>5, UpdateInv
<1>7. CASE RunThrows(r)
  <2> DEFINE rq == setError([request[r] EXCEPT !.stage = "returned"])
  <2>1. rq \in Request
    BY <1>1 DEF Request, Stages, Codes, setError
  <2>2. Held(rq) /\ rq.closure = request[r].closure
    BY <1>1, <1>2 DEF Held, Request, setError
  <2>3. Replied(rq)
    BY <1>1, <1>2 DEF Replied, IsOver, Request, setError
  <2>4. Good(rq)
    BY <2>1, <2>2, <2>3 DEF Good
  <2>5. Update(r, rq)
    BY <1>7 DEF RunThrows
  <2> HIDE DEF rq
  <2> QED
    BY <1>1, <1>3, <2>2, <2>4, <2>5, UpdateInv
<1> QED
  BY <1>4, <1>5, <1>6, <1>7 DEF Serve

\* Drop takes nothing else.
LEMMA DropFields ==
  ASSUME NEW rq \in Request, NEW holder
  PROVE  Drop(rq, holder).stage = rq.stage /\ Drop(rq, holder).closure = rq.closure
<1>1. /\ Without(rq, holder) \in Request
      /\ Without(rq, holder).stage = rq.stage
      /\ Without(rq, holder).closure = rq.closure
  BY DEF Without, Request
<1>2. Drop(rq, holder) \in {Without(rq, holder), reply(Without(rq, holder))}
  BY DEF Drop, Without
<1> QED
  BY <1>1, <1>2, ReplyFields

\* The end of the block.
LEMMA LeaveBlockInv ==
  ASSUME Inv, NEW r \in Requests, LeaveBlock(r)
  PROVE  Inv'
<1> DEFINE rq == [request[r] EXCEPT !.stage = "left"]
<1>1. /\ request[r] \in Request /\ Held(request[r]) /\ Replied(request[r])
      /\ ~async => ~request[r].closure
  BY InvOf
<1>2. request[r].stage = "returned"
  BY DEF LeaveBlock
<1>3. conn.m_state = "Connected"
  BY <1>2, InvOf
<1>4. rq \in Request /\ rq.stage = "left" /\ rq.closure = request[r].closure
  BY <1>1 DEF Request, Stages
<1>5. Held(Without(rq, "block"))
  BY <1>1, <1>2 DEF Held, Without, Request
<1>6. Len(rq.replies) <= MaxCalls
  BY <1>1, <1>2 DEF Replied, IsOver, Request
<1>7. Update(r, Drop(rq, "block"))
  BY DEF LeaveBlock
<1> HIDE DEF rq
<1>8. Good(Drop(rq, "block"))
  BY <1>4, <1>5, <1>6, DropGood
<1>9. Drop(rq, "block").closure = request[r].closure
  BY <1>4, DropFields
<1> QED
  BY <1>1, <1>3, <1>7, <1>8, <1>9, UpdateInv

\* The steps of whoever has the closure.
LEMMA ClosureInv ==
  ASSUME Inv, NEW r \in Requests, Closure(r)
  PROVE  Inv'
<1>1. /\ request[r] \in Request /\ Held(request[r]) /\ Replied(request[r])
      /\ Good(request[r])
      /\ ~async => ~request[r].closure
      /\ request[r].stage \in {"run", "returned"} => conn.m_state = "Connected"
  BY InvOf
<1>2. request[r].closure
  BY DEF Closure, CallbackReplies, ClosureEnds, ClosureThrows
<1>3. async
  BY <1>1, <1>2 DEF Inv
<1>4. /\ "closure" \in request[r].holders /\ request[r].stage \notin {"unread", "rejected"}
      /\ ~IsOver(request[r])
  BY <1>1, <1>2 DEF Held, IsOver
<1>5. CASE CallbackReplies(r)
  <2>1. Good(reply(request[r]))
    BY <1>1, <1>4, <1>5, ReplyGood DEF CallbackReplies
  <2>2. reply(request[r]).stage = request[r].stage
    BY <1>1, ReplyFields
  <2>3. Update(r, reply(request[r]))
    BY <1>5 DEF CallbackReplies
  <2> QED
    BY <1>1, <1>3, <2>1, <2>2, <2>3, UpdateInv
<1>6. ASSUME NEW rq \in Request, rq.stage = request[r].stage,
             rq.holders = request[r].holders, rq.replies = request[r].replies,
             ~rq.closure, Update(r, Drop(rq, "closure"))
      PROVE  Inv'
  <2>1. Held(Without(rq, "closure"))
    BY <1>1, <1>4, <1>6 DEF Held, Without, Request
  <2>2. Len(rq.replies) <= MaxCalls
    BY <1>1, <1>4, <1>6 DEF Replied
  <2>3. Good(Drop(rq, "closure"))
    BY <1>4, <1>6, <2>1, <2>2, DropGood
  <2>4. Drop(rq, "closure").stage = request[r].stage
    BY <1>6, DropFields
  <2> QED
    BY <1>1, <1>3, <1>6, <2>3, <2>4, UpdateInv
<1>7. CASE ClosureEnds(r)
  <2> DEFINE rq == Taken(r)
  <2>1. /\ rq \in Request /\ rq.stage = request[r].stage
        /\ rq.holders = request[r].holders /\ rq.replies = request[r].replies
        /\ ~rq.closure
    BY <1>1 DEF Taken, Request
  <2>2. Update(r, Drop(rq, "closure"))
    BY <1>7 DEF ClosureEnds
  <2> HIDE DEF rq
  <2> QED
    BY <1>6, <2>1, <2>2
<1>8. CASE ClosureThrows(r)
  <2> DEFINE rq == setError(Taken(r))
  <2>1. /\ rq \in Request /\ rq.stage = request[r].stage
        /\ rq.holders = request[r].holders /\ rq.replies = request[r].replies
        /\ ~rq.closure
    BY <1>1 DEF Taken, setError, Request, Codes
  <2>2. Update(r, Drop(rq, "closure"))
    BY <1>8 DEF ClosureThrows
  <2> HIDE DEF rq
  <2> QED
    BY <1>6, <2>1, <2>2
<1> QED
  BY <1>5, <1>7, <1>8 DEF Closure

\* The steps that change the connection alone.
LEMMA ConnInv ==
  ASSUME Inv, OnWrite \/ ReadEnd \/ WriteAfterFree \/ Sweep
  PROVE  Inv'
<1>1. request' = request /\ async' = async
  BY DEF OnWrite, ReadEnd, WriteAfterFree, Sweep
<1>2. /\ request' \in [Requests -> Request]
      /\ \A r \in Requests : Good(request'[r])
      /\ async' \in BOOLEAN
      /\ ~async' => \A r \in Requests : ~request'[r].closure
  BY <1>1 DEF Inv
<1>3. Serving' <=> Serving
  BY <1>1 DEF Serving
<1>4. CASE OnWrite
  <2>1. conn' \in Conn /\ conn'.m_state = conn.m_state /\ conn'.out = FALSE
    BY <1>4 DEF OnWrite, Inv, Conn
  <2> QED
    BY <1>1, <1>2, <1>3, <1>4, <2>1 DEF OnWrite, Inv
<1>5. CASE ReadEnd
  <2>1. conn' \in Conn /\ conn'.out = FALSE
    BY <1>5 DEF ReadEnd, clear, Inv, Conn
  <2> QED
    BY <1>1, <1>2, <1>3, <1>5, <2>1 DEF ReadEnd, Inv
<1>6. CASE WriteAfterFree
  BY <1>1, <1>2, <1>3, <1>6 DEF WriteAfterFree, Inv
<1>7. CASE Sweep
  <2>1. conn' \in Conn /\ conn'.out = conn.out /\ conn.m_state = "Closed"
    BY <1>7 DEF Sweep, Inv, Conn
  <2> QED
    BY <1>1, <1>2, <1>3, <1>7, <2>1 DEF Sweep, Inv
<1> QED
  BY <1>4, <1>5, <1>6, <1>7

\* Every step keeps the invariant.
LEMMA NextInv == Inv /\ [Next]_vars => Inv'
<1> SUFFICES ASSUME Inv, [Next]_vars PROVE Inv'
  OBVIOUS
<1>1. CASE UNCHANGED vars
  BY <1>1 DEF vars, Inv, Serving
<1>2. CASE Next
  BY <1>2, DispatchInv, ServeInv, LeaveBlockInv, ClosureInv, ConnInv DEF Next
<1> QED
  BY <1>1, <1>2

\* The invariant holds in every reachable state.
LEMMA Invariance == Spec => []Inv
BY InitInv, NextInv, PTL DEF Spec

-----------------------------------------------------------------------------
(* The theorems.                                                            *)

\* Everything has its type, and each interface replies once more, when it is
\* destroyed, than it was asked to (Drop, ~RpcInterface).
THEOREM TypeCorrect == Spec => []TypeOK
<1>1. Inv => TypeOK
  BY DEF Inv, TypeOK, Good, Replied
<1> QED
  BY <1>1, Invariance, PTL

\* The last thing that is sent for a request is its response as it is in the end,
\* whichever thread drops the last reference, and whatever was thrown.
THEOREM FinalReply == Spec => []LastReplyIsFinal
<1>1. Inv => LastReplyIsFinal
  BY DEF Inv, LastReplyIsFinal, Good, Replied, Over, IsOver
<1> QED
  BY <1>1, Invariance, PTL

\* Services that reply before they return never meet a connection that is gone, and
\* never make a closed one listen.
THEOREM SynchronousServices == Spec => []SynchronousIsSafe
<1>1. Inv => SynchronousIsSafe
  BY DEF Inv, SynchronousIsSafe
<1> QED
  BY <1>1, Invariance, PTL

\* A destroyed interface is left alone by its block, and by closures in any thread.
THEOREM OverMeansOver == Spec => OverForGood
<1>1. ASSUME Inv, [Next]_vars, NEW r \in Requests, Over(r)
      PROVE  request'[r] = request[r]
  <2>1. request[r].stage = "left" /\ ~request[r].closure
    BY <1>1, InvOf DEF Over, Held
  <2>2. ASSUME NEW s \in Requests, NEW rq, s # r, Update(s, rq)
        PROVE  request'[r] = request[r]
    BY <1>1, <2>2 DEF Update, Inv
  <2>3. ASSUME NEW s \in Requests,
               Reject(s) \/ CallMethod(s) \/ Serve(s) \/ LeaveBlock(s) \/ Closure(s)
        PROVE  request'[r] = request[r]
    <3>1. s # r
      BY <2>1, <2>3 DEF Reject, CallMethod, Serve, RunReplies, NewClosure, RunReturns,
           RunThrows, LeaveBlock, Closure, CallbackReplies, ClosureEnds, ClosureThrows
    <3> QED
      BY <2>2, <2>3, <3>1 DEF Reject, CallMethod, Serve, RunReplies, NewClosure,
           RunReturns, RunThrows, LeaveBlock, Closure, CallbackReplies, ClosureEnds,
           ClosureThrows
  <2> QED
    BY <1>1, <2>3 DEF Next, vars, OnWrite, ReadEnd, WriteAfterFree, Sweep
<1>2. Inv /\ [Next]_vars =>
        [\A r \in Requests : Over(r) => request'[r] = request[r]]_vars
  BY <1>1
<1> QED
  BY <1>2, Invariance, PTL DEF Spec, OverForGood

=============================================================================
