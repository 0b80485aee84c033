----------------------------- MODULE RpcPromise -----------------------------
(***************************************************************************)
(* What an RPC promises its caller: a call ends once, in one way, and its  *)
(* outcome never changes afterwards.  The closure is told of a response    *)
(* and of an error; of a timeout it is not.                                *)
(***************************************************************************)
CONSTANT Calls

VARIABLE outcome

Ended == {"response", "error", "timeout"}

Init == outcome = [c \in Calls |-> "not called"]

Call(c) ==
  /\ outcome[c] = "not called"
  /\ outcome' = [outcome EXCEPT ![c] = "pending"]

\* Also at once, within CallMethod.
End(c, how) ==
  /\ outcome[c] \in {"not called", "pending"}
  /\ outcome' = [outcome EXCEPT ![c] = how]

\* The loop may time several calls out in one task.
TimeOut(some) ==
  /\ \A c \in some : outcome[c] = "pending"
  /\ outcome' = [c \in Calls |-> IF c \in some THEN "timeout" ELSE outcome[c]]

Next ==
  \/ \E c \in Calls : Call(c) \/ \E how \in {"response", "error"} : End(c, how)
  \/ \E some \in SUBSET Calls : TimeOut(some)

Spec == Init /\ [][Next]_outcome

=============================================================================
