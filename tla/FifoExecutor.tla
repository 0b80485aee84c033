---------------------------- MODULE FifoExecutor ----------------------------
(***************************************************************************)
(* What EventLoop promises to those who give it tasks: the tasks submitted *)
(* by all threads form one queue, every task enters it once, at its end,   *)
(* and leaves it once, from its head, when it is executed.  How the queue  *)
(* is stored, locked and handed over to the loop is EventLoop's business.  *)
(***************************************************************************)
EXTENDS Sequences

CONSTANT Task       \* whatever can be submitted

VARIABLE queue      \* the tasks submitted and not yet executed, oldest first

Init == queue = <<>>

Submit(task) == queue' = Append(queue, task)

Execute == queue # <<>> /\ queue' = Tail(queue)

Next == (\E task \in Task : Submit(task)) \/ Execute

Spec == Init /\ [][Next]_queue

=============================================================================
