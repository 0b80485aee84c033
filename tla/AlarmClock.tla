----------------------------- MODULE AlarmClock ------------------------------
(***************************************************************************)
(* What a timer promises: an alarm that is set rings once, not before its  *)
(* time has come, and not at all when it is taken back while it is set.    *)
(***************************************************************************)
EXTENDS Integers

CONSTANTS Events, Off

VARIABLES
  left,   \* left[e]: how long before e is due, or Off
  owed    \* the events that were due, and have not rung

vars == <<left, owed>>

Init == left = [e \in Events |-> Off] /\ owed = {}

Set(e) ==
  /\ left[e] = Off
  /\ left'[e] \in Nat
  /\ left' = [left EXCEPT ![e] = left'[e]]
  /\ UNCHANGED owed

Cancel(e) ==
  /\ left' = [left EXCEPT ![e] = Off]
  /\ UNCHANGED owed

Pass ==
  /\ DOMAIN left' = Events
  /\ \A e \in Events :
       IF left[e] = Off THEN left'[e] = Off
                        ELSE left'[e] # Off /\ left'[e] <= left[e]
  /\ UNCHANGED owed

Take(due) ==
  /\ due \cap owed = {}
  /\ \A e \in due : left[e] # Off /\ left[e] <= 0
  /\ left' = [e \in Events |-> IF e \in due THEN Off ELSE left[e]]
  /\ owed' = owed \cup due

Ring(e) ==
  /\ e \in owed
  /\ owed' = owed \ {e}
  /\ UNCHANGED left

Next ==
  \/ Pass
  \/ \E e \in Events : Set(e) \/ Cancel(e) \/ Ring(e)
  \/ \E due \in SUBSET Events : Take(due)

Spec == Init /\ [][Next]_vars

=============================================================================
