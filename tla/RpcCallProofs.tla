---------------------------- MODULE RpcCallProofs ---------------------------
(***************************************************************************)
(* What is proved of RpcCall, for any calls and either kind of caller; and *)
(* of a thread that makes one call, that it keeps its channel.             *)
(***************************************************************************)
EXTENDS RpcCall, FiniteSetTheorems, TLAPS

-----------------------------------------------------------------------------
(* The invariant.  For the records of one call: it is finished by its        *)
(* closure or by cancelling, never both; what the closure was told cannot    *)
(* change, for nothing is left that could bring another response; and its    *)
(* callbacks come one after the other.                                       *)

Ended(ch) ==
  /\ ch.finished <=> (ch.ran = 1 \/ ch.cancled)
  /\ ch.ran = 1 => ~ch.cancled
  /\ ch.ran = 1 => (ch.code = "0" <=> ch.response = "ok")
  /\ ~ch.finished => ch.code = "0" /\ ch.response = "none"

Staged(cl) ==
  /\ cl.onOut = "connect" => ~cl.read_done /\ ~cl.write_done
  /\ ~(cl.read_done /\ cl.write_done)
  /\ "OUT" \in cl.interest => cl.onOut # "none"

Quiet(cl) == ~cl.read_done /\ ~cl.write_done /\ cl.onOut # "connect"

Begun(ch, cl, t) ==
  cl.m_fd = "none" => /\ cl.onOut = "none" /\ cl.interest = {}
                      /\ ~cl.read_done /\ ~cl.write_done
                      /\ ch.holders = {} /\ t = "none"

CallInv(ch, cl, t) ==
  Ended(ch) /\ Staged(cl) /\ Begun(ch, cl, t) /\ (ch.ran = 1 => Quiet(cl))

\* A connecting socket has one handler in the queue at most.
QueueInv(q, cls) ==
  /\ \A k \in DOMAIN q : q[k].do = "connect" => cls[q[k].call].onOut = "connect"
  /\ \A j, k \in DOMAIN q : q[j].do = "connect" /\ q[j] = q[k] => j = k

Inv ==
  /\ TypeOK
  /\ \A c \in Calls : CallInv(channel[c], client[c], timer[c])
  /\ QueueInv(tasks, client)

-----------------------------------------------------------------------------
(* What a step does to one call: its records still satisfy the invariant,    *)
(* what its closure was told stays, and its outcome moves as promised.       *)

Timers == {"none", "armed", "expired"}

CallOK(ch, cl, t) ==
  ch \in Channel /\ cl \in Client /\ t \in Timers /\ CallInv(ch, cl, t)

Kept(ch, next) ==
  ch.ran = 1 => next.code = ch.code /\ next.response = ch.response

OutcomeOf(ch, cl) ==
  IF ch.cancled THEN "timeout"
  ELSE IF ch.finished
       THEN IF ch.code = "0" THEN "response" ELSE "error"
  ELSE IF ch.finished \/ cl.m_fd # "none" THEN "pending" ELSE "not called"

Moves(from, to) ==
  \/ from = to
  \/ from = "not called" /\ to = "pending"
  \/ from \in {"not called", "pending"} /\ to \in {"response", "error"}

CallStep(ch, cl, t, ch2, cl2, t2) ==
  CallOK(ch2, cl2, t2) /\ Kept(ch, ch2) /\ Moves(OutcomeOf(ch, cl), OutcomeOf(ch2, cl2))

\* callBack on a call that has not ended: only ran and finished change.
LEMMA CallBackFields ==
  ASSUME NEW ch \in Channel, ~ch.finished, ch.ran = 0
  PROVE  /\ CallBack(ch) \in Channel
         /\ CallBack(ch).ran = 1 /\ CallBack(ch).finished = TRUE
         /\ CallBack(ch).code = ch.code /\ CallBack(ch).response = ch.response
         /\ CallBack(ch).cancled = ch.cancled /\ CallBack(ch).holders = ch.holders
<1>1. CallBack(ch) = [ch EXCEPT !.ran = ch.ran + 1, !.finished = TRUE]
  BY DEF CallBack
<1>2. ch.ran + 1 = 1
  OBVIOUS
<1> QED
  BY <1>1, <1>2 DEF Channel

\* SetError: only the code changes.
LEMMA SetErrorFields ==
  ASSUME NEW ch \in Channel, NEW code \in Codes
  PROVE  /\ SetError(ch, code) \in Channel
         /\ SetError(ch, code).ran = ch.ran /\ SetError(ch, code).finished = ch.finished
         /\ SetError(ch, code).code = code /\ SetError(ch, code).response = ch.response
         /\ SetError(ch, code).cancled = ch.cancled
         /\ SetError(ch, code).holders = ch.holders
  BY DEF Channel, SetError

\* An error that ends a call, wherever it is found.
LEMMA FailedFields ==
  ASSUME NEW ch \in Channel, Ended(ch), ~ch.finished, NEW code \in Codes \ {"0"}
  PROVE  LET ch2 == CallBack(SetError(ch, code))
         IN  /\ ch2 \in Channel /\ Ended(ch2) /\ Kept(ch, ch2)
             /\ ch2.ran = 1 /\ ch2.finished = TRUE /\ ch2.cancled = FALSE
             /\ ch2.code = code /\ ch2.holders = ch.holders
<1>1. ch.ran = 0 /\ ch.cancled = FALSE /\ ch.response = "none"
  BY DEF Ended, Channel
<1> DEFINE failed == SetError(ch, code)
<1>2. /\ failed \in Channel /\ ~failed.finished /\ failed.ran = 0
      /\ failed.code = code /\ failed.response = "none" /\ failed.cancled = FALSE
      /\ failed.holders = ch.holders
  BY <1>1, SetErrorFields
<1> HIDE DEF failed
<1>3. /\ CallBack(failed) \in Channel
      /\ CallBack(failed).ran = 1 /\ CallBack(failed).finished = TRUE
      /\ CallBack(failed).code = code /\ CallBack(failed).response = "none"
      /\ CallBack(failed).cancled = FALSE /\ CallBack(failed).holders = ch.holders
  BY <1>2, CallBackFields
<1>4. Ended(CallBack(failed))
  BY <1>3 DEF Ended
<1>5. Kept(ch, CallBack(failed))
  BY <1>1 DEF Kept
<1> QED
  BY <1>3, <1>4, <1>5 DEF failed

\* CallMethod fails before there is a timer or a socket.
LEMMA FailsOK ==
  ASSUME NEW ch, NEW cl, NEW t, CallOK(ch, cl, t), ~ch.finished, cl.m_fd = "none",
         NEW code \in Codes \ {"0"}
  PROVE  CallStep(ch, cl, t, CallBack(SetError(ch, code)), cl, t)
<1> DEFINE ch2 == CallBack(SetError(ch, code))
<1>1. /\ ch2 \in Channel /\ Ended(ch2) /\ Kept(ch, ch2)
      /\ ch2.ran = 1 /\ ch2.finished = TRUE /\ ch2.cancled = FALSE
      /\ ch2.code = code /\ ch2.holders = ch.holders
  BY FailedFields DEF CallOK, CallInv
<1> HIDE DEF ch2
<1>2. Begun(ch2, cl, t) /\ Quiet(cl)
  BY <1>1 DEF CallOK, CallInv, Begun, Quiet
<1>3. CallOK(ch2, cl, t)
  BY <1>1, <1>2 DEF CallOK, CallInv
<1>4. OutcomeOf(ch, cl) = "not called"
  BY DEF OutcomeOf, CallOK, CallInv, Ended
<1>5. OutcomeOf(ch2, cl) = "error"
  BY <1>1 DEF OutcomeOf
<1>6. CallStep(ch, cl, t, ch2, cl, t)
  BY <1>1, <1>3, <1>4, <1>5 DEF CallStep, Moves
<1> QED
  BY <1>6 DEF ch2

\* A call begins on a socket whose connect has returned 0, has failed, or is
\* under way.
LEMMA BeginsOK ==
  ASSUME NEW ch, NEW cl, NEW t, CallOK(ch, cl, t), ~ch.finished, cl.m_fd = "none",
         NEW held \in SUBSET {"caller", "timer", "user"},
         NEW ch2, NEW cl2,
         \/ /\ ch2 = [ch EXCEPT !.holders = held]
            /\ cl2 = WriteMessage([cl EXCEPT !.m_fd = "connected",
                                             !.m_state = "Connected"])
         \/ /\ ch2 = [ch EXCEPT !.holders = held]
            /\ cl2 = [cl EXCEPT !.m_fd = "connecting", !.interest = {"OUT"},
                               !.onOut = "connect"]
         \/ /\ ch2 = [CallBack(SetError(ch, "connect")) EXCEPT !.holders = held]
            /\ cl2 = [cl EXCEPT !.m_fd = "refused"]
  PROVE  CallStep(ch, cl, t, ch2, cl2, "armed")
<1>1. /\ ch \in Channel /\ cl \in Client /\ Ended(ch)
      /\ ch.ran = 0 /\ ch.cancled = FALSE
      /\ cl.onOut = "none" /\ cl.interest = {}
      /\ cl.read_done = FALSE /\ cl.write_done = FALSE
  BY DEF CallOK, CallInv, Begun, Ended, Channel, Client
<1>2. OutcomeOf(ch, cl) = "not called"
  BY <1>1 DEF OutcomeOf
<1>3. CASE ch2 = [ch EXCEPT !.holders = held] /\ cl2.m_fd # "none"
           /\ cl2 \in Client /\ Staged(cl2)
  <2>1. /\ ch2 \in Channel /\ ch2.ran = 0 /\ ch2.finished = ch.finished
        /\ ch2.cancled = FALSE /\ ch2.code = ch.code /\ ch2.response = ch.response
    BY <1>1, <1>3 DEF Channel
  <2>2. Ended(ch2)
    BY <1>1, <2>1 DEF Ended
  <2>3. CallOK(ch2, cl2, "armed") /\ Kept(ch, ch2)
    BY <1>3, <2>1, <2>2 DEF CallOK, CallInv, Begun, Kept, Timers
  <2>4. OutcomeOf(ch2, cl2) = "pending"
    BY <1>3, <2>1 DEF OutcomeOf
  <2> QED
    BY <1>2, <2>3, <2>4 DEF CallStep, Moves
<1>4. CASE cl2 = WriteMessage([cl EXCEPT !.m_fd = "connected", !.m_state = "Connected"])
           /\ ch2 = [ch EXCEPT !.holders = held]
  <2>1. cl2 = [cl EXCEPT !.m_fd = "connected", !.m_state = "Connected",
                         !.write_done = TRUE, !.interest = {"OUT"}, !.onOut = "write"]
    BY <1>1, <1>4 DEF WriteMessage, Client
  <2>2. cl2 \in Client /\ cl2.m_fd # "none"
    BY <1>1, <2>1 DEF Client
  <2>3. Staged(cl2)
    BY <1>1, <2>1 DEF Client, Staged
  <2> QED
    BY <1>3, <1>4, <2>2, <2>3
<1>5. CASE cl2 = [cl EXCEPT !.m_fd = "connecting", !.interest = {"OUT"},
                            !.onOut = "connect"]
           /\ ch2 = [ch EXCEPT !.holders = held]
  <2>1. cl2 \in Client /\ cl2.m_fd # "none"
    BY <1>1, <1>5 DEF Client
  <2>2. Staged(cl2)
    BY <1>1, <1>5 DEF Client, Staged
  <2> QED
    BY <1>3, <1>5, <2>1, <2>2
<1>6. CASE ch2 = [CallBack(SetError(ch, "connect")) EXCEPT !.holders = held]
           /\ cl2 = [cl EXCEPT !.m_fd = "refused"]
  <2> DEFINE failed == CallBack(SetError(ch, "connect"))
  <2>1. /\ failed \in Channel /\ Ended(failed) /\ Kept(ch, failed)
        /\ failed.ran = 1 /\ failed.finished = TRUE /\ failed.cancled = FALSE
        /\ failed.code = "connect"
    <3>1. "connect" \in Codes \ {"0"}
      BY DEF Codes
    <3> QED
      BY <1>1, <3>1, FailedFields
  <2>2. ch2 = [failed EXCEPT !.holders = held]
    BY <1>6
  <2> HIDE DEF failed
  <2>3. /\ ch2 \in Channel /\ ch2.ran = 1 /\ ch2.finished = TRUE
        /\ ch2.cancled = FALSE /\ ch2.code = "connect"
        /\ ch2.response = failed.response
    BY <2>1, <2>2 DEF Channel
  <2>4. Ended(ch2) /\ Kept(ch, ch2)
    BY <1>1, <2>1, <2>3 DEF Ended, Kept
  <2>5. cl2 \in Client /\ cl2.m_fd = "refused"
    BY <1>1, <1>6 DEF Client
  <2>6. Staged(cl2) /\ Quiet(cl2)
    BY <1>1, <1>6 DEF Client, Staged, Quiet
  <2>7. CallOK(ch2, cl2, "armed")
    BY <2>3, <2>4, <2>5, <2>6 DEF CallOK, CallInv, Begun, Timers
  <2>8. OutcomeOf(ch2, cl2) = "error"
    BY <2>3 DEF OutcomeOf
  <2> QED
    BY <1>2, <2>4, <2>7, <2>8 DEF CallStep, Moves
<1> QED
  BY <1>4, <1>5, <1>6

\* An error found by a handler, for a call that may have timed out before.
LEMMA ErrorOK ==
  ASSUME NEW ch, NEW cl, NEW t, CallOK(ch, cl, t), ch.ran = 0, cl.m_fd # "none",
         NEW code \in Codes \ {"0"},
         NEW cl2 \in Client, cl2.m_fd = cl.m_fd, Staged(cl2), Quiet(cl2)
  PROVE  CallStep(ch, cl, t, CallBack(SetError(ch, code)), cl2, t)
<1> DEFINE failed == SetError(ch, code)
           ch2    == CallBack(failed)
<1>1. ch \in Channel /\ Ended(ch) /\ t \in Timers
  BY DEF CallOK, CallInv
<1>2. CASE ~ch.finished
  <2>1. /\ ch2 \in Channel /\ Ended(ch2) /\ Kept(ch, ch2)
        /\ ch2.finished = TRUE /\ ch2.cancled = FALSE
        /\ ch2.code = code /\ ch2.holders = ch.holders
    BY <1>1, <1>2, FailedFields
  <2> HIDE DEF ch2
  <2>2. CallOK(ch2, cl2, t)
    BY <1>1, <2>1 DEF CallOK, CallInv, Begun
  <2>3. OutcomeOf(ch, cl) = "pending" /\ OutcomeOf(ch2, cl2) = "error"
    BY <1>1, <1>2, <2>1 DEF OutcomeOf, Ended
  <2>4. CallStep(ch, cl, t, ch2, cl2, t)
    BY <2>1, <2>2, <2>3 DEF CallStep, Moves
  <2> QED
    BY <2>4 DEF ch2
<1>3. CASE ch.finished
  <2>1. /\ failed \in Channel /\ failed.finished /\ failed.ran = 0
        /\ failed.cancled = ch.cancled /\ ch.cancled
    BY <1>1, <1>3, SetErrorFields DEF Ended
  <2> HIDE DEF failed
  <2>2. ch2 = failed
    BY <2>1 DEF CallBack
  <2>3. Ended(failed) /\ Kept(ch, failed)
    BY <2>1 DEF Ended, Kept
  <2>4. CallOK(failed, cl2, t)
    BY <1>1, <2>1, <2>3 DEF CallOK, CallInv, Begun
  <2>5. OutcomeOf(ch, cl) = "timeout" /\ OutcomeOf(failed, cl2) = "timeout"
    BY <2>1 DEF OutcomeOf
  <2>6. CallStep(ch, cl, t, ch2, cl2, t)
    BY <2>2, <2>3, <2>4, <2>5 DEF CallStep, Moves
  <2> QED
    BY <2>6 DEF failed
<1> QED
  BY <1>2, <1>3

\* A response, for a call that may have timed out before.
LEMMA ResponseFields ==
  ASSUME NEW ch \in Channel, Ended(ch), ch.ran = 0, NEW reply \in Responses
  PROVE  LET ch2 == OnResponse(ch, reply)
         IN  /\ ch2 \in Channel /\ Ended(ch2) /\ Kept(ch, ch2)
             /\ ch2.finished = TRUE /\ ch2.cancled = ch.cancled
             /\ ch2.holders = ch.holders
<1> DEFINE ch2      == OnResponse(ch, reply)
           parsed   == [ch EXCEPT !.response = reply]
           failed   == SetError(parsed, IF reply = "error" THEN "peer's" ELSE "serialize")
           found == IF reply = "ok" THEN parsed ELSE failed
<1>1. /\ parsed \in Channel /\ parsed.ran = 0 /\ parsed.response = reply
      /\ parsed.code = ch.code /\ parsed.finished = ch.finished
      /\ parsed.cancled = ch.cancled /\ parsed.holders = ch.holders
  BY DEF Channel, Responses
<1>2. ch2 = CallBack(found)
  BY DEF OnResponse, Responses
<1> HIDE DEF parsed, ch2
<1>3. /\ found \in Channel /\ found.ran = 0 /\ found.response = reply
      /\ found.finished = ch.finished /\ found.cancled = ch.cancled
      /\ found.holders = ch.holders
      /\ reply = "ok" => found.code = ch.code
      /\ reply # "ok" => found.code # "0"
  <2>1. {"peer's", "serialize"} \subseteq Codes
    BY DEF Codes
  <2> QED
    BY <1>1, <2>1, SetErrorFields
<1> HIDE DEF found
<1>4. Kept(ch, ch2)
  BY DEF Kept
<1>5. CASE ch.finished
  <2>1. ch2 = found /\ ch.cancled
    BY <1>2, <1>3, <1>5 DEF CallBack, Ended
  <2>2. Ended(ch2)
    BY <1>3, <1>5, <2>1 DEF Ended
  <2>3. ch.finished = TRUE
    BY <1>5 DEF Channel
  <2> QED
    BY <1>3, <1>4, <2>1, <2>2, <2>3 DEF ch2
<1>6. CASE ~ch.finished
  <2>1. ch.code = "0" /\ ch.cancled = FALSE
    BY <1>6 DEF Ended, Channel
  <2>2. /\ ch2 \in Channel /\ ch2.ran = 1 /\ ch2.finished = TRUE
        /\ ch2.code = found.code /\ ch2.response = reply
        /\ ch2.cancled = FALSE /\ ch2.holders = ch.holders
    BY <1>2, <1>3, <1>6, <2>1, CallBackFields
  <2>3. Ended(ch2)
    BY <1>3, <2>1, <2>2 DEF Ended
  <2> QED
    BY <1>4, <2>1, <2>2, <2>3 DEF ch2
<1> QED
  BY <1>5, <1>6 DEF ch2

\* One reference less; the last one takes the client with it.
LEMMA ReleaseOK ==
  ASSUME NEW ch, NEW cl, NEW t, CallOK(ch, cl, t), NEW holder,
         NEW ch2, ch2 = [ch EXCEPT !.holders = @ \ {holder}],
         NEW cl2, cl2 = IF ch.holders = {holder} THEN Closed(cl) ELSE cl
  PROVE  CallStep(ch, cl, t, ch2, cl2, t)
<1>1. ch \in Channel /\ cl \in Client /\ t \in Timers
  BY DEF CallOK
<1>2. /\ ch2 \in Channel /\ ch2.ran = ch.ran /\ ch2.finished = ch.finished
      /\ ch2.cancled = ch.cancled /\ ch2.code = ch.code /\ ch2.response = ch.response
      /\ ch2.holders \subseteq ch.holders
  BY <1>1 DEF Channel
<1>3. /\ cl2 \in Client /\ cl2.interest \subseteq cl.interest /\ cl2.onOut = cl.onOut
      /\ cl2.read_done = cl.read_done /\ cl2.write_done = cl.write_done
      /\ cl2.m_fd = cl.m_fd \/ (cl2.m_fd = "closed" /\ ch.holders # {})
  BY <1>1 DEF Client, Closed
<1>4. cl.m_fd = "none" <=> cl2.m_fd = "none"
  BY <1>3 DEF CallOK, CallInv, Begun
<1>5. Ended(ch2) /\ Kept(ch, ch2)
  BY <1>2 DEF CallOK, CallInv, Ended, Kept
<1>6. Staged(cl2) /\ (Quiet(cl) => Quiet(cl2))
  BY <1>3 DEF CallOK, CallInv, Staged, Quiet
<1>7. Begun(ch2, cl2, t)
  BY <1>2, <1>3, <1>4 DEF CallOK, CallInv, Begun
<1>8. CallOK(ch2, cl2, t)
  BY <1>1, <1>2, <1>3, <1>5, <1>6, <1>7 DEF CallOK, CallInv
<1>9. OutcomeOf(ch, cl) = OutcomeOf(ch2, cl2)
  BY <1>2, <1>4 DEF OutcomeOf
<1> QED
  BY <1>5, <1>8, <1>9 DEF CallStep, Moves

\* Nothing happens to the call.
LEMMA SameOK ==
  ASSUME NEW ch, NEW cl, NEW t, CallOK(ch, cl, t)
  PROVE  CallStep(ch, cl, t, ch, cl, t)
  BY DEF CallStep, Kept, Moves

-----------------------------------------------------------------------------
(* Steps of the calls together.                                              *)

CallsOK ==
  /\ channel \in [Calls -> Channel] /\ client \in [Calls -> Client]
  /\ timer \in [Calls -> Timers]
  /\ \A c \in Calls : CallOK(channel[c], client[c], timer[c])

KeptAll == \A c \in Calls : Kept(channel[c], channel'[c])

PromiseStep == [Promise!Next]_[c \in Calls |-> Outcome(c)]

CallsStep == CallsOK' /\ KeptAll /\ PromiseStep

Rest ==
  /\ wire \in [Calls -> Wire]
  /\ answered \in Nat
  /\ ioThread \in BOOLEAN /\ inLoop \in BOOLEAN /\ m_is_looping \in BOOLEAN
  /\ m_stop_flag \in BOOLEAN /\ crashed \in BOOLEAN

\* The invariant, in the parts that its steps are proved by.
LEMMA InvParts ==
  Inv <=> CallsOK /\ Rest /\ tasks \in Seq(Handlers) /\ QueueInv(tasks, client)
BY DEF Inv, TypeOK, CallsOK, CallOK, Rest, Timers

LEMMA InvPartsNext ==
  Inv' <=> CallsOK' /\ Rest' /\ (tasks \in Seq(Handlers))' /\ QueueInv(tasks, client)'
BY DEF Inv, TypeOK, CallsOK, CallOK, Rest, Timers

\* The outcome of RpcCall is a function of the records.
LEMMA OutcomeIs ==
  /\ \A c \in Calls : Outcome(c) = OutcomeOf(channel[c], client[c])
  /\ \A c \in Calls : Outcome(c)' = OutcomeOf(channel'[c], client'[c])
BY DEF Outcome, OutcomeOf, Called

\* One call moves, the others stay.
LEMMA OneCall ==
  ASSUME CallsOK, NEW c \in Calls, NEW ch, NEW cl, NEW t,
         CallStep(channel[c], client[c], timer[c], ch, cl, t),
         channel' = [channel EXCEPT ![c] = ch],
         client' = [client EXCEPT ![c] = cl],
         timer' = [timer EXCEPT ![c] = t]
  PROVE  CallsStep
<1>1. /\ channel'[c] = ch /\ client'[c] = cl /\ timer'[c] = t
      /\ \A d \in Calls \ {c} : /\ channel'[d] = channel[d] /\ client'[d] = client[d]
                               /\ timer'[d] = timer[d]
  BY DEF CallsOK
<1>2. CallOK(ch, cl, t) /\ Kept(channel[c], ch)
  BY DEF CallStep
<1>3. /\ channel' \in [Calls -> Channel] /\ client' \in [Calls -> Client]
      /\ timer' \in [Calls -> Timers]
  BY <1>2 DEF CallsOK, CallOK
<1>4. \A d \in Calls : CallOK(channel'[d], client'[d], timer'[d])
  BY <1>1, <1>2 DEF CallsOK
<1>5. KeptAll
  BY <1>1, <1>2 DEF KeptAll, Kept
<1>6. PromiseStep
  <2> DEFINE o == [d \in Calls |-> Outcome(d)]
             n == OutcomeOf(ch, cl)
  <2>1. \A d \in Calls \ {c} : o'[d] = o[d]
    BY <1>1, OutcomeIs
  <2>2. o'[c] = n /\ Moves(o[c], n)
    BY <1>1, OutcomeIs DEF CallStep
  <2>3. o' = [o EXCEPT ![c] = n]
    BY <2>1, <2>2
  <2> HIDE DEF o, n
  <2>4. CASE o[c] = n
    <3>1. o' = o
      BY <2>3, <2>4 DEF o
    <3> QED
      BY <3>1 DEF PromiseStep, o
  <2>5. CASE o[c] = "not called" /\ n = "pending"
    <3>1. Promise!Call(c)
      BY <2>3, <2>5 DEF Promise!Call, o
    <3> QED
      BY <3>1 DEF PromiseStep, Promise!Next
  <2>6. CASE o[c] \in {"not called", "pending"} /\ n \in {"response", "error"}
    <3>1. Promise!End(c, n)
      BY <2>3, <2>6 DEF Promise!End, o
    <3> QED
      BY <2>6, <3>1 DEF PromiseStep, Promise!Next
  <2> QED
    BY <2>2, <2>4, <2>5, <2>6 DEF Moves
<1> QED
  BY <1>3, <1>4, <1>5, <1>6 DEF CallsStep, CallsOK

\* No call moves.
LEMMA NoCall ==
  ASSUME CallsOK, channel' = channel, client' = client, timer' = timer
  PROVE  CallsStep
<1>1. CallsOK' /\ KeptAll
  BY DEF CallsOK, KeptAll, Kept
<1>2. [c \in Calls |-> Outcome(c)]' = [c \in Calls |-> Outcome(c)]
  BY OutcomeIs
<1> QED
  BY <1>1, <1>2 DEF CallsStep, PromiseStep

\* The queue keeps what the invariant says of it while connecting sockets
\* stay so.
LEMMA QueueKept ==
  ASSUME tasks \in Seq(Handlers), QueueInv(tasks, client), tasks' = tasks,
         \A d \in Calls : client[d].onOut = "connect" => client'[d].onOut = "connect"
  PROVE  (tasks \in Seq(Handlers))' /\ QueueInv(tasks, client)'
<1>1. \A k \in DOMAIN tasks : tasks[k].do = "connect" => tasks[k].call \in Calls
  BY DEF Handlers, Task
<1> QED
  BY <1>1 DEF QueueInv

\* The same when a task is taken: a connect handler was the only one of its
\* call.
LEMMA QueueTail ==
  ASSUME tasks \in Seq(Handlers), QueueInv(tasks, client),
         tasks # <<>>, tasks' = Tail(tasks),
         \A d \in Calls : client[d].onOut = "connect" /\ Head(tasks) # Task("connect", d)
                         => client'[d].onOut = "connect"
  PROVE  (tasks \in Seq(Handlers))' /\ QueueInv(tasks, client)'
<1>1. tasks' \in Seq(Handlers)
  OBVIOUS
<1>2. /\ Len(tasks) \in Nat \ {0} /\ DOMAIN tasks = 1 .. Len(tasks)
      /\ DOMAIN tasks' = 1 .. (Len(tasks) - 1)
      /\ \A k \in DOMAIN tasks' : tasks'[k] = tasks[k + 1]
      /\ Head(tasks) = tasks[1]
  OBVIOUS
<1>3. \A k \in DOMAIN tasks' : k \in Nat /\ k + 1 \in DOMAIN tasks /\ k + 1 # 1
  BY <1>2
<1>4. ASSUME NEW k \in DOMAIN tasks', tasks'[k].do = "connect"
      PROVE  client'[tasks'[k].call].onOut = "connect"
  <2>1. tasks'[k] = tasks[k + 1] /\ k + 1 \in DOMAIN tasks /\ tasks[k + 1] \in Handlers
    BY <1>2, <1>3
  <2>2. tasks'[k].call \in Calls /\ tasks'[k] = Task("connect", tasks'[k].call)
    BY <1>4, <2>1 DEF Handlers, Task
  <2>3. client[tasks'[k].call].onOut = "connect"
    BY <1>4, <2>1 DEF QueueInv
  <2>4. Head(tasks) # tasks'[k]
    BY <1>2, <1>3, <1>4, <2>1 DEF QueueInv
  <2> QED
    BY <2>2, <2>3, <2>4
<1>5. ASSUME NEW j \in DOMAIN tasks', NEW k \in DOMAIN tasks',
             tasks'[j].do = "connect", tasks'[j] = tasks'[k]
      PROVE  j = k
  <2>1. j + 1 = k + 1
    BY <1>2, <1>3, <1>5 DEF QueueInv
  <2> QED
    BY <1>3, <2>1
<1> QED
  BY <1>1, <1>4, <1>5 DEF QueueInv

-----------------------------------------------------------------------------
(* The steps.                                                                *)

Good == Inv' /\ KeptAll /\ PromiseStep

\* CallMethod, up to where the loop takes over.
LEMMA CallMethodGood ==
  ASSUME Inv, NEW c \in Calls, CallMethod(c)
  PROVE  Good
<1> DEFINE ch == channel[c]
           cl == client[c]
           t  == timer[c]
<1>1. /\ CallsOK /\ Rest /\ tasks \in Seq(Handlers) /\ QueueInv(tasks, client)
      /\ CallOK(ch, cl, t) /\ ch \in Channel /\ cl \in Client
      /\ channel \in [Calls -> Channel] /\ client \in [Calls -> Client]
      /\ timer \in [Calls -> Timers]
  BY InvParts DEF CallsOK, CallOK
<1>2. /\ ~ch.finished /\ cl.m_fd = "none" /\ cl.onOut # "connect"
      /\ tasks' = tasks /\ wire' = wire /\ answered' = answered
      /\ ioThread' = ioThread /\ crashed' = crashed
  BY <1>1 DEF CallMethod, CallFails, ConnectNow, ConnectFails, ConnectBegins, CallBegins,
              MayCall, Called, CallOK, CallInv, Begun
<1>3. ASSUME NEW next, Update(c, next)
      PROVE  channel' = [channel EXCEPT ![c] = next] /\ m_stop_flag' \in BOOLEAN
  BY <1>1, <1>3, Zenon DEF Update, Stopped, Rest
<1>4. inLoop' \in BOOLEAN /\ m_is_looping' \in BOOLEAN
  BY <1>1, Zenon DEF CallMethod, CallFails, ConnectNow, ConnectFails, ConnectBegins, Rest
<1>5. ASSUME NEW next, NEW cl2, NEW t2, CallStep(ch, cl, t, next, cl2, t2),
             Update(c, next), client' = [client EXCEPT ![c] = cl2],
             timer' = [timer EXCEPT ![c] = t2]
      PROVE  Good
  <2>1. CallsStep
    BY <1>1, <1>3, <1>5, OneCall
  <2>2. \A d \in Calls : client[d].onOut = "connect" => client'[d].onOut = "connect"
    BY <1>1, <1>2, <1>5
  <2>3. (tasks \in Seq(Handlers))' /\ QueueInv(tasks, client)'
    BY <1>1, <1>2, <2>2, QueueKept
  <2>4. Rest'
    BY <1>1, <1>2, <1>3, <1>4, <1>5 DEF Rest
  <2> QED
    BY <2>1, <2>3, <2>4, InvPartsNext DEF Good, CallsStep
<1>6. CASE CallFails(c)
  <2>1. "usage" \in Codes \ {"0"}
    BY DEF Codes
  <2>2. CallStep(ch, cl, t, CallBack(SetError(ch, "usage")), cl, t)
    BY <1>1, <1>2, <2>1, FailsOK
  <2>3. client' = [client EXCEPT ![c] = cl] /\ timer' = [timer EXCEPT ![c] = t]
    BY <1>1, <1>6 DEF CallFails
  <2> QED
    BY <1>5, <1>6, <2>2, <2>3 DEF CallFails
<1>7. ASSUME NEW next, NEW cl2, NEW held \in SUBSET {"caller"},
             CallBegins(c, next, cl2, held),
             \/ /\ next = ch
                /\ cl2 = WriteMessage([cl EXCEPT !.m_fd = "connected",
                                                 !.m_state = "Connected"])
             \/ next = ch /\ cl2 = Connecting(c)
             \/ /\ next = CallBack(SetError(ch, "connect"))
                /\ cl2 = [cl EXCEPT !.m_fd = "refused"]
      PROVE  Good
  <2>1. PICK kept \in SUBSET {"user"} :
          Update(c, [next EXCEPT !.holders = held \cup kept \cup {"timer"}])
    BY <1>7, Zenon DEF CallBegins
  <2> DEFINE all  == held \cup kept \cup {"timer"}
             ch2 == [next EXCEPT !.holders = all]
  <2>2. all \in SUBSET {"caller", "timer", "user"}
    OBVIOUS
  <2>3. Connecting(c) = [cl EXCEPT !.m_fd = "connecting", !.interest = {"OUT"},
                                   !.onOut = "connect"]
    BY DEF Connecting
  <2> HIDE DEF all
  <2>4. CallStep(ch, cl, t, ch2, cl2, "armed")
    BY <1>1, <1>2, <1>7, <2>2, <2>3, BeginsOK
  <2>5. client' = [client EXCEPT ![c] = cl2] /\ timer' = [timer EXCEPT ![c] = "armed"]
    BY <1>7, Zenon DEF CallBegins
  <2> QED
    BY <1>5, <2>1, <2>4, <2>5 DEF all
<1>8. CASE ConnectNow(c)
  BY <1>7, <1>8 DEF ConnectNow
<1>9. CASE ConnectFails(c)
  BY <1>7, <1>9 DEF ConnectFails
<1>10. CASE ConnectBegins(c)
  BY <1>7, <1>10 DEF ConnectBegins
<1> QED
  BY <1>6, <1>8, <1>9, <1>10 DEF CallMethod

\* References that are dropped, by the user or at the end of the loop.
LEMMA ReleaseGood ==
  ASSUME Inv, NEW some \in SUBSET Calls, NEW holder, Release(some, holder),
         timer' = timer
  PROVE  CallsStep /\ \A c \in Calls : client'[c].onOut = client[c].onOut
<1>1. CallsOK
  BY InvParts
<1>2. \A c \in Calls : CallStep(channel[c], client[c], timer[c],
                                channel'[c], client'[c], timer'[c])
  <2>1. TAKE c \in Calls
  <2>2. CallOK(channel[c], client[c], timer[c]) /\ timer'[c] = timer[c]
    BY <1>1 DEF CallsOK
  <2>3. CASE c \in some
    <3>1. /\ channel'[c] = [channel[c] EXCEPT !.holders = @ \ {holder}]
          /\ client'[c] = IF channel[c].holders = {holder}
                          THEN Closed(client[c]) ELSE client[c]
      BY <2>3 DEF Release
    <3> QED
      BY <2>2, <3>1, ReleaseOK
  <2>4. CASE c \notin some
    BY <2>2, <2>4, SameOK DEF Release
  <2> QED
    BY <2>3, <2>4
<1>3. \A c \in Calls : /\ CallOK(channel'[c], client'[c], timer'[c])
                       /\ Kept(channel[c], channel'[c])
  BY <1>2 DEF CallStep
<1>4. CallsOK'
  <2>1. channel' = [c \in Calls |-> channel'[c]] /\ client' = [c \in Calls |-> client'[c]]
    BY Zenon DEF Release
  <2>2. channel' \in [Calls -> Channel] /\ client' \in [Calls -> Client]
    BY <1>3, <2>1 DEF CallOK
  <2> QED
    BY <1>1, <1>3, <2>2 DEF CallsOK
<1>5. \A c \in Calls : client'[c].onOut = client[c].onOut
  <2>1. TAKE c \in Calls
  <2>2. client[c] \in Client
    BY <1>1 DEF CallsOK, CallOK
  <2>3. Closed(client[c]).onOut = client[c].onOut
    BY <2>2 DEF Closed, Client
  <2>4. client'[c] = Closed(client[c]) \/ client'[c] = client[c]
    BY DEF Release
  <2> QED
    BY <2>3, <2>4
<1>6. \A c \in Calls : OutcomeOf(channel'[c], client'[c]) = OutcomeOf(channel[c], client[c])
  <2>1. TAKE c \in Calls
  <2>2. CallOK(channel[c], client[c], timer[c])
    BY <1>1 DEF CallsOK
  <2>3. /\ channel'[c].cancled = channel[c].cancled
        /\ channel'[c].finished = channel[c].finished
        /\ channel'[c].code = channel[c].code
    BY <2>2 DEF Release, CallOK, Channel
  <2>4. client'[c].m_fd = "none" <=> client[c].m_fd = "none"
    <3>1. CASE c \in some /\ channel[c].holders = {holder}
      <4>1. client[c].m_fd # "none"
        BY <2>2, <3>1 DEF CallOK, CallInv, Begun
      <4>2. client'[c].m_fd = "closed"
        BY <2>2, <3>1 DEF Release, Closed, CallOK, Client
      <4> QED
        BY <4>1, <4>2
    <3>2. CASE ~(c \in some /\ channel[c].holders = {holder})
      BY <3>2 DEF Release
    <3> QED
      BY <3>1, <3>2
  <2> QED
    BY <2>3, <2>4 DEF OutcomeOf
<1>7. PromiseStep
  <2>1. [c \in Calls |-> Outcome(c)]' = [c \in Calls |-> Outcome(c)]
    BY <1>6, OutcomeIs
  <2> QED
    BY <2>1 DEF PromiseStep
<1> QED
  BY <1>3, <1>4, <1>5, <1>7 DEF CallsStep, KeptAll

\* Everything but the records and the queue.
LEMMA DropsGood ==
  ASSUME Inv, LoopEnds \/ \E c \in Calls : UserDrops(c)
  PROVE  Good
<1>1. Rest /\ tasks \in Seq(Handlers) /\ QueueInv(tasks, client)
  BY InvParts
<1>2. PICK some \in SUBSET Calls, holder \in {"caller", "user"} : Release(some, holder)
  BY DEF LoopEnds, UserDrops
<1>3. timer' = timer /\ tasks' = tasks /\ Rest'
  BY <1>1 DEF LoopEnds, UserDrops, Rest, loop
<1>4. CallsStep /\ \A c \in Calls : client'[c].onOut = client[c].onOut
  BY <1>2, <1>3, ReleaseGood
<1>5. (tasks \in Seq(Handlers))' /\ QueueInv(tasks, client)'
  BY <1>1, <1>3, <1>4, QueueKept
<1> QED
  BY <1>3, <1>4, <1>5, InvPartsNext DEF Good, CallsStep

\* The network, the peer and the clock.
LEMMA EnvironmentGood ==
  ASSUME Inv, NEW c \in Calls, Environment(c)
  PROVE  Good
<1>1. /\ CallsOK /\ Rest /\ tasks \in Seq(Handlers) /\ QueueInv(tasks, client)
      /\ CallOK(channel[c], client[c], timer[c]) /\ client[c] \in Client
      /\ channel \in [Calls -> Channel] /\ client \in [Calls -> Client]
      /\ timer \in [Calls -> Timers]
  BY InvParts DEF CallsOK, CallOK
<1>2. /\ tasks' = tasks /\ channel' = channel /\ ioThread' = ioThread
      /\ inLoop' = inLoop /\ m_is_looping' = m_is_looping
      /\ m_stop_flag' = m_stop_flag /\ crashed' = crashed
  BY DEF Environment, Connects, PeerCloses, Expires, Answers, loop
<1>3. wire' \in [Calls -> Wire] /\ answered' \in Nat
  <2>1. CASE Connects(c) \/ Expires(c)
    BY <1>1, <2>1 DEF Connects, Expires, Rest
  <2>2. CASE PeerCloses(c)
    <3>1. [wire[c] EXCEPT !.closed = TRUE] \in Wire
      BY <1>1 DEF Rest, Wire
    <3> QED
      BY <1>1, <2>2, <3>1 DEF PeerCloses, Rest
  <2>3. ASSUME NEW reply \in Responses, Answers(c, reply)
        PROVE  wire' \in [Calls -> Wire] /\ answered' \in Nat
    <3>1. Append(wire[c].replies, reply) \in Seq(Responses)
      BY <1>1 DEF Rest, Wire
    <3>2. [wire[c] EXCEPT !.replies = Append(@, reply)] \in Wire
      BY <1>1, <3>1 DEF Rest, Wire
    <3> QED
      BY <1>1, <2>3, <3>2 DEF Answers, Rest
  <2> QED
    BY <2>1, <2>2, <2>3 DEF Environment
<1>4. Rest'
  BY <1>1, <1>2, <1>3 DEF Rest
<1>5. CallsStep /\ \A d \in Calls : client'[d].onOut = client[d].onOut
  <2>1. CASE client' = client /\ timer' = timer
    BY <1>1, <1>2, <2>1, NoCall
  <2>2. CASE Expires(c)
    <3>1. timer[c] = "armed"
      BY <2>2 DEF Expires
    <3>2. CallOK(channel[c], client[c], "expired")
      BY <1>1, <3>1 DEF CallOK, CallInv, Begun, Timers
    <3>3. CallStep(channel[c], client[c], timer[c], channel[c], client[c], "expired")
      BY <3>2 DEF CallStep, Kept, Moves
    <3>4. /\ channel' = [channel EXCEPT ![c] = channel[c]]
          /\ client' = [client EXCEPT ![c] = client[c]] /\ client' = client
          /\ timer' = [timer EXCEPT ![c] = "expired"]
      BY <1>1, <2>2 DEF Expires
    <3>5. CallsStep
      BY <1>1, <3>3, <3>4, OneCall
    <3> QED
      BY <3>4, <3>5
  <2>3. CASE Connects(c)
    <3>1. PICK result \in {"connected", "refused"} :
            client' = [client EXCEPT ![c] = [client[c] EXCEPT !.m_fd = result]]
      BY <2>3 DEF Connects
    <3> DEFINE cl2 == [client[c] EXCEPT !.m_fd = result]
    <3>2. /\ cl2 \in Client /\ cl2.m_fd # "none" /\ cl2.onOut = client[c].onOut
          /\ cl2.interest = client[c].interest
          /\ cl2.read_done = client[c].read_done
          /\ cl2.write_done = client[c].write_done /\ client[c].m_fd # "none"
      BY <1>1, <2>3 DEF Client, Connects
    <3>3. /\ channel' = [channel EXCEPT ![c] = channel[c]]
          /\ client' = [client EXCEPT ![c] = cl2]
          /\ timer' = [timer EXCEPT ![c] = timer[c]]
      BY <1>1, <2>3, <3>1 DEF Connects
    <3> HIDE DEF cl2
    <3>4. CallOK(channel[c], cl2, timer[c])
      BY <1>1, <3>2 DEF CallOK, CallInv, Staged, Quiet, Begun
    <3>5. CallStep(channel[c], client[c], timer[c], channel[c], cl2, timer[c])
      BY <3>2, <3>4 DEF CallStep, Kept, Moves, OutcomeOf
    <3>6. CallsStep
      BY <1>1, <3>3, <3>5, OneCall
    <3> QED
      BY <1>1, <3>2, <3>3, <3>6
  <2> QED
    BY <2>1, <2>2, <2>3 DEF Environment, PeerCloses, Answers
<1>6. (tasks \in Seq(Handlers))' /\ QueueInv(tasks, client)'
  BY <1>1, <1>2, <1>5, QueueKept
<1> QED
  BY <1>4, <1>5, <1>6, InvPartsNext DEF Good, CallsStep

\* What the loop queues: handlers of descriptors, each once.
LEMMA PollGood ==
  ASSUME Inv, Poll
  PROVE  Good
<1>1. /\ CallsOK /\ Rest /\ tasks' \in SetToSeqs(Ready)
      /\ channel' = channel /\ client' = client /\ timer' = timer
  BY InvParts DEF Poll
<1>2. CallsStep
  BY <1>1, NoCall
<1>3. Rest'
  BY <1>1 DEF Rest, Poll
<1>4. Ready \subseteq Handlers
  <2>1. \A c \in Calls : "OUT" \in client[c].interest =>
          client[c].onOut \in {"connect", "write"}
    BY <1>1 DEF CallsOK, CallOK, CallInv, Staged, Client
  <2> QED
    BY <2>1 DEF Ready, Handlers, Task
<1>5. /\ tasks' \in Seq(Ready)
      /\ \A j, k \in DOMAIN tasks' : tasks'[j] = tasks'[k] => j = k
  <2>1. IsFiniteSet(Ready)
    <3> DEFINE dos   == {"timer", "connect", "write", "read", "none"}
               calls == Calls \cup {Timer}
               all   == {Task(p[1], p[2]) : p \in dos \X calls}
               f     == [p \in dos \X calls |-> Task(p[1], p[2])]
    <3>1. Ready \subseteq all
      <4>1. \A c \in Calls : client[c].onOut \in {"none", "connect", "write"}
        BY <1>1 DEF CallsOK, CallOK, Client
      <4>2. \A do \in dos, c \in calls : Task(do, c) \in all
        <5> TAKE do \in dos, c \in calls
        <5>1. <<do, c>> \in dos \X calls /\ Task(<<do, c>>[1], <<do, c>>[2]) = Task(do, c)
          OBVIOUS
        <5> QED
          BY <5>1, Zenon
      <4> HIDE DEF all
      <4> QED
        BY <4>1, <4>2 DEF Ready
    <3>2. IsFiniteSet(dos) /\ IsFiniteSet(calls)
      <4>1. dos = {"timer"} \cup {"connect"} \cup {"write"} \cup {"read"} \cup {"none"}
        OBVIOUS
      <4>2. IsFiniteSet({"timer"})
        BY FS_Singleton
      <4>3. IsFiniteSet({"timer"} \cup {"connect"} \cup {"write"} \cup {"read"}
                          \cup {"none"})
        BY <4>2, FS_AddElement
      <4> QED
        BY <4>1, <4>3, CallsAssumption, FS_AddElement
    <3> HIDE DEF dos, calls
    <3>3. f \in Surjection(dos \X calls, all)
      BY DEF Surjection
    <3>4. IsFiniteSet(all)
      BY <3>2, <3>3, FS_Product, FS_Surjection
    <3> QED
      BY <3>1, <3>4, FS_Subset
  <2>2. Cardinality(Ready) \in Nat
    BY <2>1, FS_CardinalityType
  <2> QED
    BY <1>1, <2>2 DEF SetToSeqs
<1>6. tasks' \in Seq(Handlers)
  BY <1>4, <1>5
<1>7. \A k \in DOMAIN tasks' : tasks'[k].do = "connect" =>
        client'[tasks'[k].call].onOut = "connect"
  <2>1. ASSUME NEW a \in Ready, a.do = "connect"
        PROVE  client[a.call].onOut = "connect"
    BY <2>1 DEF Ready, Task
  <2>2. \A k \in DOMAIN tasks' : tasks'[k] \in Ready
    BY <1>5
  <2> QED
    BY <1>1, <2>1, <2>2
<1>8. QueueInv(tasks, client)'
  BY <1>5, <1>7 DEF QueueInv
<1> QED
  BY <1>2, <1>3, <1>6, <1>8, InvPartsNext DEF Good, CallsStep

\* What every task has in common: it is the head of the queue, and for the
\* socket of a call.
LEMMA TaskGood ==
  ASSUME Inv, NEW do, NEW c, Running(do, c), CallsStep, Rest',
         \A d \in Calls : client[d].onOut = "connect" /\ Head(tasks) # Task("connect", d)
                         => client'[d].onOut = "connect"
  PROVE  Good
<1>1. tasks \in Seq(Handlers) /\ QueueInv(tasks, client)
      /\ tasks # <<>> /\ tasks' = Tail(tasks)
  BY InvParts DEF Running
<1>2. (tasks \in Seq(Handlers))' /\ QueueInv(tasks, client)'
  BY <1>1, QueueTail
<1> QED
  BY <1>2, InvPartsNext DEF Good, CallsStep

\* The tasks that find nobody to work for.
LEMMA IdleTaskGood ==
  ASSUME Inv, NEW c \in Calls, WriteToNobody(c) \/ NotConnected(c) \/ UseAfterFree(c)
  PROVE  Good
<1>1. PICK do \in {"connect", "write", "read"} : Running(do, c)
  BY DEF WriteToNobody, NotConnected, UseAfterFree
<1>2. CallsOK /\ Rest
  BY InvParts
<1>3. channel' = channel /\ client' = client /\ timer' = timer
  BY DEF WriteToNobody, NotConnected, UseAfterFree
<1>4. Rest'
  BY <1>1, <1>2 DEF Rest, WriteToNobody, NotConnected, UseAfterFree, Running
<1> QED
  BY <1>1, <1>2, <1>3, <1>4, NoCall, TaskGood

\* The socket of a call has connected, or has not.
LEMMA OnConnectGood ==
  ASSUME Inv, NEW c \in Calls, OnConnect(c)
  PROVE  Good
<1> DEFINE ch   == channel[c]
           cl   == client[c]
           t    == timer[c]
           deaf == [cl EXCEPT !.interest = {}]
<1>1. /\ CallsOK /\ Rest /\ tasks \in Seq(Handlers) /\ QueueInv(tasks, client)
      /\ CallOK(ch, cl, t) /\ ch \in Channel /\ cl \in Client
      /\ channel \in [Calls -> Channel] /\ client \in [Calls -> Client]
      /\ timer \in [Calls -> Timers]
  BY InvParts DEF CallsOK, CallOK
<1>2. cl.onOut = "connect"
  <2>1. tasks # <<>> /\ Head(tasks) = Task("connect", c)
    BY DEF OnConnect, Running
  <2>2. 1 \in DOMAIN tasks /\ tasks[1].do = "connect" /\ tasks[1].call = c
    BY <1>1, <2>1 DEF Task
  <2> QED
    BY <1>1, <2>2 DEF QueueInv
<1>3. /\ ch.ran = 0 /\ cl.read_done = FALSE /\ cl.write_done = FALSE
      /\ cl.m_fd # "none" /\ ~Quiet(cl)
  BY <1>1, <1>2 DEF CallOK, CallInv, Staged, Begun, Quiet, Channel, Client
<1>4. Running("connect", c) /\ Head(tasks) = Task("connect", c)
  BY DEF OnConnect, Running
<1>5. ASSUME NEW next, NEW cl2, CallStep(ch, cl, t, next, cl2, t),
             channel' = [channel EXCEPT ![c] = next], m_stop_flag' \in BOOLEAN,
             client' = [client EXCEPT ![c] = cl2]
      PROVE  Good
  <2>1. timer' = [timer EXCEPT ![c] = t]
    BY <1>1 DEF OnConnect
  <2>2. CallsStep
    BY <1>1, <1>5, <2>1, OneCall
  <2>3. \A d \in Calls : client[d].onOut = "connect" /\ Head(tasks) # Task("connect", d)
                         => client'[d].onOut = "connect"
    BY <1>1, <1>4, <1>5
  <2>4. Rest'
    BY <1>1, <1>4, <1>5 DEF Rest, OnConnect, Running
  <2> QED
    BY <1>4, <2>2, <2>3, <2>4, TaskGood
<1>6. CASE cl.m_fd = "connected"
  <2> DEFINE cl2 == WriteMessage([deaf EXCEPT !.m_state = "Connected"])
  <2>1. cl2 = [cl EXCEPT !.m_state = "Connected", !.write_done = TRUE,
                         !.interest = {"OUT"}, !.onOut = "write"]
    BY <1>1 DEF WriteMessage, Client
  <2>2. /\ cl2 \in Client /\ cl2.m_fd = cl.m_fd /\ cl2.onOut = "write"
        /\ cl2.write_done = TRUE /\ cl2.read_done = FALSE
    BY <1>1, <1>3, <2>1, ZenonT(40) DEF Client
  <2>3. client' = [client EXCEPT ![c] = cl2] /\ channel' = channel
        /\ m_stop_flag' = m_stop_flag
    BY <1>6 DEF OnConnect
  <2> HIDE DEF cl2
  <2>4. CallOK(ch, cl2, t)
    BY <1>1, <1>3, <2>2 DEF CallOK, CallInv, Staged, Begun, Quiet
  <2>5. CallStep(ch, cl, t, ch, cl2, t)
    BY <2>2, <2>4 DEF CallStep, Kept, Moves, OutcomeOf
  <2>6. channel' = [channel EXCEPT ![c] = ch] /\ m_stop_flag' \in BOOLEAN
    BY <1>1, <2>3 DEF Rest
  <2> QED
    BY <1>5, <2>3, <2>5, <2>6
<1>7. CASE cl.m_fd # "connected"
  <2> DEFINE cl2 == [deaf EXCEPT !.onOut = "none"]
  <2>1. /\ cl2 \in Client /\ cl2.m_fd = cl.m_fd /\ cl2.onOut = "none" /\ cl2.interest = {}
        /\ cl2.write_done = FALSE /\ cl2.read_done = FALSE
    BY <1>1, <1>3 DEF Client
  <2>2. client' = [client EXCEPT ![c] = cl2]
        /\ Update(c, CallBack(SetError(ch, "connect")))
    BY <1>7 DEF OnConnect
  <2> HIDE DEF cl2
  <2>3. Staged(cl2) /\ Quiet(cl2)
    BY <2>1 DEF Staged, Quiet
  <2>4. "connect" \in Codes \ {"0"}
    BY DEF Codes
  <2>5. CallStep(ch, cl, t, CallBack(SetError(ch, "connect")), cl2, t)
    BY <1>1, <1>3, <2>1, <2>3, <2>4, ErrorOK
  <2>6. /\ channel' = [channel EXCEPT ![c] = CallBack(SetError(ch, "connect"))]
        /\ m_stop_flag' \in BOOLEAN
    BY <1>1, <2>2, Zenon DEF Update, Stopped, Rest
  <2> QED
    BY <1>5, <2>2, <2>5, <2>6
<1> QED
  BY <1>6, <1>7

\* A connection writes; its write callback makes it wait for the response.
LEMMA OnWriteGood ==
  ASSUME Inv, NEW c \in Calls, OnWrite(c)
  PROVE  Good
<1> DEFINE ch == channel[c]
           cl == client[c]
           t  == timer[c]
<1>1. /\ CallsOK /\ Rest
      /\ CallOK(ch, cl, t) /\ ch \in Channel /\ cl \in Client
      /\ channel \in [Calls -> Channel] /\ client \in [Calls -> Client]
      /\ timer \in [Calls -> Timers] /\ wire \in [Calls -> Wire]
  BY InvParts DEF CallsOK, CallOK, Rest
<1>2. Running("write", c) /\ channel' = channel /\ timer' = timer /\ ch.holders # {}
  BY DEF OnWrite, Alive
<1>3. PICK written \in BOOLEAN :
        LET some == IF written THEN [cl EXCEPT !.interest = @ \ {"OUT"}] ELSE cl
        IN  /\ wire' = [wire EXCEPT ![c].sent = @ \/ written]
            /\ client' = [client EXCEPT ![c] =
                            IF some.write_done
                            THEN ReadMessage([some EXCEPT !.write_done = FALSE]) ELSE some]
  BY DEF OnWrite
<1> DEFINE some == IF written THEN [cl EXCEPT !.interest = @ \ {"OUT"}] ELSE cl
           cl2  == IF some.write_done
                   THEN ReadMessage([some EXCEPT !.write_done = FALSE]) ELSE some
<1>4. /\ some \in Client /\ some.interest \subseteq cl.interest
      /\ some.m_fd = cl.m_fd /\ some.onOut = cl.onOut
      /\ some.write_done = cl.write_done /\ some.read_done = cl.read_done
  BY <1>1 DEF Client
<1> HIDE DEF some
<1>5. /\ cl2 \in Client /\ cl2.m_fd = cl.m_fd /\ cl2.onOut = cl.onOut
      /\ "OUT" \in cl2.interest => "OUT" \in cl.interest
      /\ IF cl.write_done THEN cl2.write_done = FALSE /\ cl2.read_done = TRUE
         ELSE cl2.write_done = cl.write_done /\ cl2.read_done = cl.read_done
  BY <1>4 DEF Client, ReadMessage
<1>6. client' = [client EXCEPT ![c] = cl2]
  BY <1>3 DEF some
<1> HIDE DEF cl2
<1>7. cl.m_fd # "none"
  BY <1>1, <1>2 DEF CallOK, CallInv, Begun
<1>8. CallOK(ch, cl2, t)
  BY <1>1, <1>5, <1>7 DEF CallOK, CallInv, Staged, Begun, Quiet
<1>9. CallStep(ch, cl, t, ch, cl2, t)
  BY <1>5, <1>8 DEF CallStep, Kept, Moves, OutcomeOf
<1>10. CallsStep
  <2>1. channel' = [channel EXCEPT ![c] = ch] /\ timer' = [timer EXCEPT ![c] = t]
    BY <1>1, <1>2
  <2> QED
    BY <1>1, <1>6, <1>9, <2>1, OneCall
<1>11. Rest'
  <2>1. [wire[c] EXCEPT !.sent = @ \/ written] \in Wire
    BY <1>1, Zenon DEF Wire
  <2>2. wire' = [wire EXCEPT ![c] = [wire[c] EXCEPT !.sent = @ \/ written]]
    BY <1>1, <1>3
  <2>3. wire' \in [Calls -> Wire]
    BY <1>1, <2>1, <2>2
  <2> QED
    BY <1>1, <2>3 DEF Rest, OnWrite, Running
<1>12. \A d \in Calls : client[d].onOut = "connect" => client'[d].onOut = "connect"
  BY <1>1, <1>5, <1>6
<1> QED
  BY <1>2, <1>10, <1>11, <1>12, TaskGood

\* A connection reads: the end of the stream, a response nobody waits for, or
\* the response.
LEMMA OnReadGood ==
  ASSUME Inv, NEW c \in Calls, OnRead(c)
  PROVE  Good
<1> DEFINE ch    == channel[c]
           cl    == client[c]
           t     == timer[c]
           reply == Head(wire[c].replies)
<1>1. /\ CallsOK /\ Rest
      /\ CallOK(ch, cl, t) /\ ch \in Channel /\ cl \in Client
      /\ channel \in [Calls -> Channel] /\ client \in [Calls -> Client]
      /\ timer \in [Calls -> Timers] /\ wire \in [Calls -> Wire]
  BY InvParts DEF CallsOK, CallOK, Rest
<1>2. Running("read", c) /\ timer' = [timer EXCEPT ![c] = t] /\ cl.m_fd # "none"
  BY <1>1 DEF OnRead, Alive, CallOK, CallInv, Begun
<1>3. ASSUME NEW next, NEW cl2, CallStep(ch, cl, t, next, cl2, t),
             channel' = [channel EXCEPT ![c] = next], m_stop_flag' \in BOOLEAN,
             client' = [client EXCEPT ![c] = cl2], cl2.onOut = cl.onOut,
             wire' \in [Calls -> Wire]
      PROVE  Good
  <2>1. CallsStep
    BY <1>1, <1>2, <1>3, OneCall
  <2>2. \A d \in Calls : client[d].onOut = "connect" => client'[d].onOut = "connect"
    BY <1>1, <1>3
  <2>3. Rest'
    BY <1>1, <1>2, <1>3 DEF Rest, OnRead, Running
  <2> QED
    BY <1>2, <2>1, <2>2, <2>3, TaskGood
<1>4. CASE wire[c].replies = <<>>
  <2> DEFINE cl2 == [cl EXCEPT !.interest = {}, !.m_state = "Closed"]
  <2>1. /\ cl2 \in Client /\ cl2.m_fd = cl.m_fd /\ cl2.onOut = cl.onOut
        /\ cl2.interest = {} /\ cl2.write_done = cl.write_done
        /\ cl2.read_done = cl.read_done
    BY <1>1 DEF Client
  <2>2. client' = [client EXCEPT ![c] = cl2]
    BY <1>1, <1>4 DEF OnRead
  <2> HIDE DEF cl2
  <2>3. channel' = [channel EXCEPT ![c] = ch] /\ m_stop_flag' \in BOOLEAN
        /\ wire' \in [Calls -> Wire]
    BY <1>1, <1>4 DEF OnRead, Rest
  <2>4. CallOK(ch, cl2, t)
    BY <1>1, <1>2, <2>1 DEF CallOK, CallInv, Staged, Begun, Quiet
  <2>5. CallStep(ch, cl, t, ch, cl2, t)
    BY <2>1, <2>4 DEF CallStep, Kept, Moves, OutcomeOf
  <2> QED
    BY <1>3, <2>1, <2>2, <2>3, <2>5
<1>5. CASE wire[c].replies # <<>>
  <2> DEFINE cl2 == [cl EXCEPT !.read_done = FALSE]
  <2>1. /\ cl2 \in Client /\ cl2.m_fd = cl.m_fd /\ cl2.onOut = cl.onOut
        /\ cl2.interest = cl.interest /\ cl2.write_done = cl.write_done
        /\ cl2.read_done = FALSE
    BY <1>1 DEF Client
  <2>2. client' = [client EXCEPT ![c] = cl2]
    BY <1>5 DEF OnRead
  <2> HIDE DEF cl2
  <2>3. reply \in Responses /\ wire' \in [Calls -> Wire]
    <3>1. wire[c] \in Wire /\ [wire[c] EXCEPT !.replies = <<>>] \in Wire
      <4>1. wire[c] \in Wire
        BY <1>1
      <4>2. <<>> \in Seq(Responses)
        OBVIOUS
      <4> QED
        BY <4>1, <4>2 DEF Wire
    <3>2. reply \in Responses
      BY <1>5, <3>1 DEF Wire
    <3>3. wire' = [wire EXCEPT ![c] = [wire[c] EXCEPT !.replies = <<>>]]
      BY <1>1, <1>5 DEF OnRead
    <3> QED
      BY <1>1, <3>1, <3>2, <3>3
  <2>4. CASE cl.read_done
    <3>1. Update(c, OnResponse(ch, reply))
      BY <1>5, <2>4 DEF OnRead
    <3>2. /\ channel' = [channel EXCEPT ![c] = OnResponse(ch, reply)]
          /\ m_stop_flag' \in BOOLEAN
      BY <1>1, <3>1, Zenon DEF Update, Stopped, Rest
    <3>3. ch.ran = 0 /\ Ended(ch) /\ Staged(cl) /\ t \in Timers
      BY <1>1, <2>4 DEF CallOK, CallInv, Quiet, Channel
    <3> DEFINE ch2 == OnResponse(ch, reply)
    <3>4. /\ ch2 \in Channel /\ Ended(ch2) /\ Kept(ch, ch2)
          /\ ch2.finished = TRUE /\ ch2.cancled = ch.cancled
          /\ ch2.holders = ch.holders
      <4> HIDE DEF reply
      <4> QED
        BY <1>1, <2>3, <3>3, ResponseFields
    <3> HIDE DEF ch2
    <3>5. Staged(cl2) /\ Quiet(cl2) /\ Begun(ch2, cl2, t)
      BY <1>1, <1>2, <2>1, <2>4, <3>3 DEF Staged, Quiet, Begun
    <3>6. CallOK(ch2, cl2, t)
      BY <2>1, <3>3, <3>4, <3>5 DEF CallOK, CallInv
    <3>7. Moves(OutcomeOf(ch, cl), OutcomeOf(ch2, cl2))
      <4>1. CASE ch.finished
        <5>1. ch.cancled
          BY <3>3, <4>1 DEF Ended
        <5> QED
          BY <3>4, <5>1 DEF Moves, OutcomeOf
      <4>2. CASE ~ch.finished
        <5>1. ~ch.cancled
          BY <3>3, <4>2 DEF Ended
        <5>2. OutcomeOf(ch, cl) = "pending"
          BY <1>2, <4>2, <5>1 DEF OutcomeOf
        <5>3. OutcomeOf(ch2, cl2) \in {"response", "error"}
          BY <3>4, <5>1 DEF OutcomeOf
        <5> QED
          BY <5>2, <5>3 DEF Moves
      <4> QED
        BY <4>1, <4>2
    <3>8. CallStep(ch, cl, t, ch2, cl2, t)
      BY <3>4, <3>6, <3>7 DEF CallStep
    <3> QED
      BY <1>3, <2>1, <2>2, <2>3, <3>2, <3>8 DEF ch2
  <2>5. CASE ~cl.read_done
    <3>1. channel' = [channel EXCEPT ![c] = ch] /\ m_stop_flag' \in BOOLEAN
      BY <1>1, <1>5, <2>5 DEF OnRead, Rest
    <3>2. CallOK(ch, cl2, t)
      BY <1>1, <1>2, <2>1, <2>5 DEF CallOK, CallInv, Staged, Begun, Quiet
    <3>3. CallStep(ch, cl, t, ch, cl2, t)
      BY <2>1, <3>2 DEF CallStep, Kept, Moves, OutcomeOf
    <3> QED
      BY <1>3, <2>1, <2>2, <2>3, <3>1, <3>3
  <2> QED
    BY <2>4, <2>5
<1> QED
  BY <1>4, <1>5

\* The lambda of one call, whose time is up, and the reference it gives back.
LEMMA TimeoutOK ==
  ASSUME NEW ch, NEW cl, NEW t, CallOK(ch, cl, t), t = "expired",
         NEW ch2, ch2 = [Timeout(ch) EXCEPT !.holders = @ \ {"timer"}],
         NEW cl2, cl2 = IF ch.holders = {"timer"} THEN Closed(cl) ELSE cl
  PROVE  /\ CallOK(ch2, cl2, "none") /\ Kept(ch, ch2) /\ cl2.onOut = cl.onOut
         /\ IF ch.finished THEN OutcomeOf(ch2, cl2) = OutcomeOf(ch, cl)
            ELSE OutcomeOf(ch, cl) = "pending" /\ OutcomeOf(ch2, cl2) = "timeout"
<1>1. /\ ch \in Channel /\ cl \in Client /\ Ended(ch) /\ Staged(cl)
      /\ cl.m_fd # "none" /\ (ch.ran = 1 => Quiet(cl))
  BY DEF CallOK, CallInv, Begun
<1>2. /\ cl2 \in Client /\ cl2.m_fd # "none" /\ cl2.onOut = cl.onOut
      /\ cl2.interest \subseteq cl.interest
      /\ cl2.read_done = cl.read_done /\ cl2.write_done = cl.write_done
  BY <1>1 DEF Client, Closed
<1>3. /\ ch2 \in Channel /\ Ended(ch2) /\ Kept(ch, ch2) /\ ch2.ran = ch.ran
      /\ IF ch.finished
         THEN ch2.finished = TRUE /\ ch2.cancled = ch.cancled /\ ch2.code = ch.code
         ELSE ch2.cancled = TRUE
  <2>1. CASE ch.finished
    <3>1. ch2 = [ch EXCEPT !.holders = @ \ {"timer"}] /\ ch.finished = TRUE
      BY <1>1, <2>1 DEF Timeout, Channel
    <3>2. /\ ch2 \in Channel /\ ch2.ran = ch.ran /\ ch2.finished = TRUE
          /\ ch2.cancled = ch.cancled /\ ch2.code = ch.code
          /\ ch2.response = ch.response
      BY <1>1, <3>1, ZenonT(40) DEF Channel
    <3> QED
      BY <1>1, <2>1, <3>2 DEF Ended, Kept
  <2>2. CASE ~ch.finished
    <3> DEFINE late == SetError(StartCancel(ch), "timeout")
    <3>1. /\ late \in Channel /\ late.finished = TRUE /\ late.cancled = TRUE
          /\ late.ran = ch.ran
      BY <1>1 DEF Channel, SetError, StartCancel, Codes
    <3> HIDE DEF late
    <3>2. Timeout(ch) = late
      <4>1. Timeout(ch) = CallBack(late)
        BY <2>2 DEF Timeout, late
      <4> QED
        BY <3>1, <4>1 DEF CallBack
    <3>3. /\ ch2 \in Channel /\ ch2.finished = TRUE /\ ch2.cancled = TRUE
          /\ ch2.ran = ch.ran
      BY <3>1, <3>2 DEF Channel
    <3>4. ch.ran # 1
      BY <1>1, <2>2 DEF Ended
    <3> QED
      BY <2>2, <3>3, <3>4 DEF Ended, Kept
  <2> QED
    BY <2>1, <2>2
<1>4. Staged(cl2) /\ (ch2.ran = 1 => Quiet(cl2)) /\ Begun(ch2, cl2, "none")
  BY <1>1, <1>2, <1>3 DEF Staged, Quiet, Begun
<1>5. CallOK(ch2, cl2, "none")
  BY <1>2, <1>3, <1>4 DEF CallOK, CallInv, Timers
<1>6. IF ch.finished THEN OutcomeOf(ch2, cl2) = OutcomeOf(ch, cl)
      ELSE OutcomeOf(ch, cl) = "pending" /\ OutcomeOf(ch2, cl2) = "timeout"
  BY <1>1, <1>2, <1>3 DEF OutcomeOf, Ended
<1> QED
  BY <1>2, <1>3, <1>5, <1>6

\* The timer's handler: every call whose time is up and that has not ended
\* times out, in one step.
LEMMA OnTimerGood ==
  ASSUME Inv, OnTimer
  PROVE  Good
<1>1. CallsOK /\ Rest
  BY InvParts
<1>2. \A c \in Calls :
        /\ channel'[c] = IF Due(c)
                         THEN [Timeout(channel[c]) EXCEPT !.holders = @ \ {"timer"}]
                         ELSE channel[c]
        /\ client'[c] = IF Due(c) /\ channel[c].holders = {"timer"}
                        THEN Closed(client[c]) ELSE client[c]
        /\ timer'[c] = IF Due(c) THEN "none" ELSE timer[c]
  BY DEF OnTimer
<1>3. ASSUME NEW c \in Calls
      PROVE  /\ CallOK(channel'[c], client'[c], timer'[c])
             /\ Kept(channel[c], channel'[c])
             /\ client'[c].onOut = client[c].onOut
             /\ IF Due(c) /\ ~channel[c].finished
                THEN Outcome(c) = "pending" /\ Outcome(c)' = "timeout"
                ELSE Outcome(c)' = Outcome(c)
  <2>1. CallOK(channel[c], client[c], timer[c])
    BY <1>1 DEF CallsOK
  <2>2. CASE Due(c)
    <3>1. /\ timer[c] = "expired" /\ timer'[c] = "none"
          /\ channel'[c] = [Timeout(channel[c]) EXCEPT !.holders = @ \ {"timer"}]
          /\ client'[c] = IF channel[c].holders = {"timer"}
                          THEN Closed(client[c]) ELSE client[c]
      BY <1>2, <2>2 DEF Due
    <3>2. /\ CallOK(channel'[c], client'[c], "none")
          /\ Kept(channel[c], channel'[c]) /\ client'[c].onOut = client[c].onOut
          /\ IF channel[c].finished
             THEN OutcomeOf(channel'[c], client'[c]) = OutcomeOf(channel[c], client[c])
             ELSE /\ OutcomeOf(channel[c], client[c]) = "pending"
                  /\ OutcomeOf(channel'[c], client'[c]) = "timeout"
      BY <2>1, <3>1, TimeoutOK
    <3> QED
      BY <2>2, <3>1, <3>2, OutcomeIs
  <2>3. CASE ~Due(c)
    <3>1. channel'[c] = channel[c] /\ client'[c] = client[c] /\ timer'[c] = timer[c]
      BY <1>2, <2>3
    <3> QED
      BY <2>1, <2>3, <3>1, OutcomeIs DEF Kept
  <2> QED
    BY <2>2, <2>3
<1>4. CallsOK'
  <2>1. /\ channel' = [c \in Calls |-> channel'[c]]
        /\ client' = [c \in Calls |-> client'[c]]
        /\ timer' = [c \in Calls |-> timer'[c]]
    BY Zenon DEF OnTimer
  <2>2. /\ channel' \in [Calls -> Channel] /\ client' \in [Calls -> Client]
        /\ timer' \in [Calls -> Timers]
    BY <1>3, <2>1 DEF CallOK
  <2> QED
    BY <1>3, <2>2 DEF CallsOK
<1>5. PromiseStep
  <2> DEFINE o    == [c \in Calls |-> Outcome(c)]
             some == {c \in Calls : Due(c) /\ ~channel[c].finished}
  <2>1. \A c \in some : o[c] = "pending"
    BY <1>3
  <2>2. o' = [c \in Calls |-> IF c \in some THEN "timeout" ELSE o[c]]
    BY <1>3
  <2>3. Promise!TimeOut(some)
    BY <2>1, <2>2 DEF Promise!TimeOut
  <2>4. some \in SUBSET Calls
    OBVIOUS
  <2> HIDE DEF some
  <2> QED
    BY <2>3, <2>4 DEF PromiseStep, Promise!Next
<1>6. Rest' /\ Running("timer", Timer)
  BY <1>1 DEF Rest, OnTimer, Running
<1>7. CallsStep
  BY <1>3, <1>4, <1>5 DEF CallsStep, KeptAll
<1> QED
  BY <1>3, <1>6, <1>7, TaskGood

-----------------------------------------------------------------------------
(* The theorems.                                                             *)

\* No call has been made, and nothing is on its way.
LEMMA InitInv == Init => Inv
<1> SUFFICES ASSUME Init PROVE Inv
  OBVIOUS
<1>1. ASSUME NEW c \in Calls
      PROVE  CallOK(channel[c], client[c], timer[c]) /\ wire[c] \in Wire
  <2>1. /\ channel[c] = [holders |-> {}, code |-> "0", response |-> "none",
                         cancled |-> FALSE, finished |-> FALSE, ran |-> 0]
        /\ client[c] = [m_fd |-> "none", m_state |-> "NotConnected", interest |-> {},
                        onOut |-> "none", write_done |-> FALSE, read_done |-> FALSE]
        /\ wire[c] = [sent |-> FALSE, replies |-> <<>>, closed |-> FALSE]
        /\ timer[c] = "none"
    BY DEF Init
  <2>2. channel[c] \in Channel /\ Ended(channel[c])
    BY <2>1 DEF Channel, Codes, Ended
  <2>3. client[c] \in Client /\ Staged(client[c]) /\ Begun(channel[c], client[c], timer[c])
    BY <2>1 DEF Client, Staged, Begun
  <2>4. <<>> \in Seq(Responses)
    OBVIOUS
  <2>5. wire[c] \in Wire
    BY <2>1, <2>4 DEF Wire
  <2> QED
    BY <2>1, <2>2, <2>3, <2>5 DEF CallOK, CallInv, Timers
<1>2. CallsOK
  <2>1. /\ channel = [c \in Calls |-> channel[c]] /\ client = [c \in Calls |-> client[c]]
        /\ timer = [c \in Calls |-> timer[c]]
    BY Zenon DEF Init
  <2>2. /\ channel \in [Calls -> Channel] /\ client \in [Calls -> Client]
        /\ timer \in [Calls -> Timers]
    BY <1>1, <2>1 DEF CallOK
  <2> QED
    BY <1>1, <2>2 DEF CallsOK
<1>3. Rest
  <2>1. wire = [c \in Calls |-> wire[c]]
    BY Zenon DEF Init
  <2>2. wire \in [Calls -> Wire]
    BY <1>1, <2>1
  <2>3. ioThread \in BOOLEAN
    BY CallsAssumption DEF Init
  <2> QED
    BY <2>2, <2>3 DEF Init, Rest
<1>4. tasks \in Seq(Handlers) /\ QueueInv(tasks, client)
  BY DEF Init, QueueInv
<1> QED
  BY <1>2, <1>3, <1>4, InvParts

\* Every step keeps the invariant, what closures were told, and the promise.
LEMMA StepGood == Inv /\ [Next]_vars => Good
<1> SUFFICES ASSUME Inv, [Next]_vars PROVE Good
  OBVIOUS
<1>1. CASE UNCHANGED vars
  <2>1. /\ channel' = channel /\ client' = client /\ timer' = timer /\ tasks' = tasks
        /\ wire' = wire /\ answered' = answered /\ ioThread' = ioThread
        /\ inLoop' = inLoop /\ m_is_looping' = m_is_looping
        /\ m_stop_flag' = m_stop_flag /\ crashed' = crashed
    BY <1>1 DEF vars, loop
  <2>2. CallsOK /\ Rest /\ tasks \in Seq(Handlers) /\ QueueInv(tasks, client)
    BY InvParts
  <2>3. CallsStep /\ Rest'
    BY <2>1, <2>2, NoCall DEF Rest
  <2>4. (tasks \in Seq(Handlers))' /\ QueueInv(tasks, client)'
    BY <2>1, <2>2 DEF QueueInv
  <2> QED
    BY <2>3, <2>4, InvPartsNext DEF Good, CallsStep
<1>2. CASE Poll
  BY <1>2, PollGood
<1>3. CASE RunTask
  BY <1>3, OnTimerGood, OnConnectGood, OnWriteGood, OnReadGood, IdleTaskGood DEF RunTask
<1>4. CASE LoopEnds
  BY <1>4, DropsGood
<1>5. CASE \E c \in Calls : CallMethod(c) \/ UserDrops(c) \/ Environment(c)
  BY <1>5, CallMethodGood, DropsGood, EnvironmentGood
<1> QED
  BY <1>1, <1>2, <1>3, <1>4, <1>5 DEF Next

\* The invariant holds of every state of every behaviour.
THEOREM Invariance == Spec => []Inv
<1>1. Inv /\ [Next]_vars => Inv'
  BY StepGood DEF Good
<1> QED
  BY <1>1, InitInv, PTL DEF Spec

\* The records and the queue are what CallMethod and the loop take them for.
THEOREM TypeCorrect == Spec => []TypeOK
<1>1. Inv => TypeOK
  BY DEF Inv
<1> QED
  BY <1>1, Invariance, PTL

\* callBack runs the closure with code 0 if and only if the response it parsed
\* was a good one.
THEOREM ToldTheTruth == Spec => []ClosureIsTold
<1>1. Inv => ClosureIsTold
  BY DEF Inv, CallInv, Ended, ClosureIsTold
<1> QED
  BY <1>1, Invariance, PTL

\* Once the closure has run, no response and no timer changes what it was told.
THEOREM ToldForGood == Spec => ClosureIsLast
<1> DEFINE Final == \A c \in Calls : channel[c].ran = 1 =>
                      /\ channel'[c].code = channel[c].code
                      /\ channel'[c].response = channel[c].response
<1>1. Inv /\ [Next]_vars => [Final]_vars
  BY StepGood DEF Good, KeptAll, Kept
<1> HIDE DEF Final
<1>2. Spec => [][Final]_vars
  BY <1>1, Invariance, PTL DEF Spec
<1> QED
  BY <1>2 DEF ClosureIsLast, Final

\* CallMethod, its callbacks and its timer keep the promise: a call ends once,
\* in one way, for good.
THEOREM KeepsPromise == Spec => PromiseSpec
<1>1. Init => Promise!Init
  <2> SUFFICES ASSUME Init PROVE Promise!Init
    OBVIOUS
  <2>1. \A c \in Calls : Outcome(c) = "not called"
    BY DEF Init, Outcome, Called
  <2> QED
    BY <2>1 DEF Promise!Init
<1>2. Inv /\ [Next]_vars => PromiseStep
  BY StepGood DEF Good
<1> QED
  BY <1>1, <1>2, Invariance, PTL DEF Spec, PromiseSpec, Promise!Spec, PromiseStep


-----------------------------------------------------------------------------
(* A call that blocks in the loop of its thread.                             *)

\* The call that began the loop keeps its channel until the loop ends.
LoopHeld ==
  ~ioThread /\ inLoop => \E c \in Calls : "caller" \in channel[c].holders

\* Only the end of the loop makes a caller let go.
LEMMA CallerHolds ==
  ASSUME Inv, [Next]_vars, ~LoopEnds,
         NEW c \in Calls, "caller" \in channel[c].holders
  PROVE  "caller" \in channel'[c].holders
<1>1. /\ CallsOK /\ channel \in [Calls -> Channel] /\ wire \in [Calls -> Wire]
      /\ \A d \in Calls : CallOK(channel[d], client[d], timer[d]) /\ channel[d] \in Channel
  BY InvParts DEF CallsOK, CallOK, Rest
<1>2. Called(c)
  BY <1>1 DEF Called, CallOK, CallInv, Begun
<1>3. ASSUME NEW d \in Calls, NEW ch, channel' = [channel EXCEPT ![d] = ch],
             d = c => "caller" \in ch.holders
      PROVE  "caller" \in channel'[c].holders
  BY <1>1, <1>3
<1>4. CASE channel' = channel
  BY <1>4
<1>5. ASSUME NEW d \in Calls, CallMethod(d)
      PROVE  "caller" \in channel'[c].holders
  <2>1. d # c
    BY <1>2, <1>5 DEF CallMethod, CallFails, ConnectNow, ConnectFails, ConnectBegins, MayCall
  <2>2. \E ch : channel' = [channel EXCEPT ![d] = ch]
    BY <1>5, Zenon DEF CallMethod, CallFails, ConnectNow, ConnectFails, ConnectBegins,
                       CallBegins, Update
  <2> QED
    BY <1>3, <2>1, <2>2
<1>6. ASSUME NEW d \in Calls, UserDrops(d)
      PROVE  "caller" \in channel'[c].holders
  BY <1>1, <1>6 DEF UserDrops, Release, Channel
<1>7. ASSUME NEW d \in Calls, OnConnect(d)
      PROVE  "caller" \in channel'[c].holders
  <2>1. CASE client[d].m_fd = "connected"
    BY <1>4, <1>7, <2>1 DEF OnConnect
  <2>2. CASE client[d].m_fd # "connected"
    <3> DEFINE ch == CallBack(SetError(channel[d], "connect"))
    <3>1. channel' = [channel EXCEPT ![d] = ch]
      BY <1>7, <2>2, Zenon DEF OnConnect, Update
    <3>2. ch.holders = channel[d].holders
      BY <1>1 DEF SetError, CallBack, Channel
    <3> HIDE DEF ch
    <3> QED
      BY <1>3, <3>1, <3>2
  <2> QED
    BY <2>1, <2>2
<1>8. ASSUME NEW d \in Calls, OnRead(d)
      PROVE  "caller" \in channel'[c].holders
  <2> DEFINE ch == OnResponse(channel[d], Head(wire[d].replies))
  <2>1. channel' = channel \/ channel' = [channel EXCEPT ![d] = ch]
    BY <1>8, Zenon DEF OnRead, Update
  <2>2. ch.holders = channel[d].holders
    BY <1>1 DEF OnResponse, SetError, CallBack, Channel
  <2> HIDE DEF ch
  <2> QED
    BY <1>3, <1>4, <2>1, <2>2
<1>9. CASE OnTimer
  <2>1. Timeout(channel[c]).holders = channel[c].holders /\ Timeout(channel[c]) \in Channel
    <3> DEFINE late == SetError(StartCancel(channel[c]), "timeout")
    <3>1. late \in Channel /\ late.finished = TRUE /\ late.holders = channel[c].holders
      BY <1>1, ZenonT(40) DEF Channel, SetError, StartCancel, Codes
    <3>2. Timeout(channel[c]) = IF channel[c].finished THEN channel[c] ELSE CallBack(late)
      BY DEF Timeout
    <3> HIDE DEF late
    <3>3. CallBack(late) = late
      BY <3>1 DEF CallBack
    <3> QED
      BY <1>1, <3>1, <3>2, <3>3
  <2>2. channel'[c] = channel[c]
        \/ channel'[c] = [Timeout(channel[c]) EXCEPT !.holders = @ \ {"timer"}]
    BY <1>9 DEF OnTimer
  <2> QED
    BY <2>1, <2>2 DEF Channel
<1>10. channel' = channel \/ OnTimer
       \/ \E d \in Calls : CallMethod(d) \/ UserDrops(d) \/ OnConnect(d) \/ OnRead(d)
  BY Zenon DEF Next, RunTask, Environment, vars, Poll, OnWrite, WriteToNobody, NotConnected,
         UseAfterFree, Connects, PeerCloses, Expires, Answers
<1> QED
  BY <1>4, <1>5, <1>6, <1>7, <1>8, <1>9, <1>10

\* The loop is begun by a call that holds its channel, and while it runs its
\* thread makes no other.
LEMMA LoopHeldStep == Inv /\ LoopHeld /\ [Next]_vars => LoopHeld'
<1> SUFFICES ASSUME Inv, LoopHeld, [Next]_vars, ~ioThread', inLoop'
             PROVE  \E c \in Calls : "caller" \in channel'[c].holders
  BY DEF LoopHeld
<1>1. ioThread' = ioThread
  BY Zenon DEF Next, vars, loop, Poll, RunTask, OnTimer, OnConnect, OnWrite, OnRead, WriteToNobody,
     NotConnected, UseAfterFree, LoopEnds, CallMethod, CallFails, ConnectNow, ConnectFails,
     ConnectBegins, CallBegins, UserDrops, Environment, Connects, PeerCloses, Expires, Answers
<1>2. ~LoopEnds
  BY DEF LoopEnds
<1>3. CASE inLoop
  BY <1>1, <1>2, <1>3, CallerHolds DEF LoopHeld
<1>4. CASE ~inLoop
  <2>1. PICK c \in Calls : ConnectBegins(c)
    BY <1>4, Zenon DEF Next, vars, loop, Poll, RunTask, OnTimer, OnConnect, OnWrite, OnRead,
       WriteToNobody, NotConnected, UseAfterFree, LoopEnds, Running, CallMethod, CallFails,
       ConnectNow, ConnectFails, UserDrops, Environment, Connects, PeerCloses, Expires, Answers
  <2>2. ~m_is_looping
    BY <1>4, <2>1 DEF ConnectBegins
  <2>3. CallBegins(c, channel[c], Connecting(c), {"caller"})
    BY <2>1, <2>2 DEF ConnectBegins
  <2>4. PICK kept \in SUBSET {"user"} :
          channel' = [channel EXCEPT ![c] =
                        [channel[c] EXCEPT !.holders = {"caller"} \cup kept \cup {"timer"}]]
    BY <2>3, Zenon DEF CallBegins, Update
  <2>5. channel \in [Calls -> Channel]
    BY InvParts DEF CallsOK
  <2> QED
    BY <2>4, <2>5 DEF Channel
<1> QED
  BY <1>3, <1>4

\* The thread's only call, which is what RpcChannel serves: its handlers find
\* the channel there, whatever the peer, the user and the timer do.
THEOREM OnlyCallKeepsChannel ==
  ASSUME \A c, d \in Calls : c = d
  PROVE  Spec => []HandlersHaveChannels
<1>1. Init => LoopHeld
  BY DEF Init, LoopHeld
<1>2. Spec => []LoopHeld
  BY <1>1, LoopHeldStep, Invariance, PTL DEF Spec
<1>3. Inv /\ LoopHeld => HandlersHaveChannels
  <2> SUFFICES ASSUME Inv, LoopHeld, ~ioThread, inLoop,
                      NEW k \in DOMAIN tasks, tasks[k].call # Timer
               PROVE  Alive(tasks[k].call)
    BY DEF HandlersHaveChannels
  <2>1. tasks[k] \in Handlers
    BY InvParts
  <2>2. tasks[k].call \in Calls
    BY <2>1 DEF Handlers, Task
  <2> QED
    BY <2>2 DEF LoopHeld, Alive
<1> QED
  BY <1>2, <1>3, Invariance, PTL

=============================================================================
