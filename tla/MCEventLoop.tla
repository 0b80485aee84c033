---------------------------- MODULE MCEventLoop -----------------------------
(* EventLoop for TLC.  The other threads are interchangeable. *)
EXTENDS EventLoop, TLC

CallersSymmetry == Permutations(Callers)

=============================================================================
