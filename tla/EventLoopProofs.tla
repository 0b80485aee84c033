--------------------------- MODULE EventLoopProofs --------------------------
(***************************************************************************)
(* What is proved of EventLoop, for any threads, descriptors and bounds.   *)
(***************************************************************************)
EXTENDS EventLoop, SequenceTheorems, TLAPS

USE DEF Threads, AllFds, Events

-----------------------------------------------------------------------------
(* Types.                                                                   *)

\* A task made of an operation and a descriptor is a task.
LEMMA TaskType ==
  /\ \A fd \in AllFds, op \in {"add", "del", "in", "out"} : T(op, fd) \in Task
  /\ \A task \in Task : task.fd \in AllFds
BY DEF Task, T

\* ADD_TO_EPOLL keeps the types of the loop's list and of epoll's.
LEMMA AddToEpollType ==
  ASSUME TypeOK, NEW fd \in AllFds, NEW events \in SUBSET Events,
         AddToEpoll(fd, events)
  PROVE  /\ m_listen_fds' \in SUBSET AllFds
         /\ watched' \in SUBSET AllFds
         /\ mask' \in [AllFds -> SUBSET Events]
BY DEF TypeOK, AddToEpoll

\* So does DELETE_TO_EPOLL.
LEMMA DeleteToEpollType ==
  ASSUME TypeOK, NEW fd \in AllFds, DeleteToEpoll(fd)
  PROVE  /\ m_listen_fds' \in SUBSET AllFds
         /\ watched' \in SUBSET AllFds
         /\ mask' \in [AllFds -> SUBSET Events]
BY DEF TypeOK, DeleteToEpoll, epollVars

\* What epoll reports of an fd are events.
LEMMA ReportedType ==
  ASSUME TypeOK, NEW fd \in AllFds
  PROVE  Reported(fd) \in SUBSET Events
BY DEF TypeOK, Reported

\* The initial state has the types.
LEMMA InitType == Init => TypeOK
<1> SUFFICES ASSUME Init PROVE TypeOK
  OBVIOUS
<1>1. /\ pc \in [Threads -> CallerPC \cup LoopPC]
      /\ pc[LoopThread] \in LoopPC
      /\ \A t \in Callers : pc[t] \in CallerPC
  BY DEF Init, CallerPC, LoopPC
<1>2. /\ arg \in [Threads -> Task \cup {NoTask}]
      /\ m_pending_tasks \in Seq(Task)
      /\ tmp_tasks \in Seq(Task)
  BY DEF Init
<1>3. /\ mask \in [AllFds -> SUBSET Events]
      /\ interest \in [AllFds -> SUBSET Events]
      /\ ready \in [AllFds -> SUBSET Events]
      /\ results \in [AllFds -> SUBSET Events]
  BY DEF Init
<1>4. /\ m_mutex \in Threads \cup {NoThread}
      /\ m_stop_flag \in BOOLEAN
      /\ m_is_looping \in BOOLEAN
      /\ m_listen_fds \in SUBSET AllFds
      /\ watched \in SUBSET AllFds
      /\ current \in AllFds
      /\ calls \in Nat
  BY DEF Init
<1> QED
  BY <1>1, <1>2, <1>3, <1>4 DEF TypeOK


\* What addTask is given is a task: TypeOK alone is not inductive, as arg[t] is
\* NoTask between two calls.
ArgOK == \A t \in Threads : pc[t] \in {"addTask", "push"} => arg[t] \in Task

TypeInv == TypeOK /\ ArgOK

\* The steps of addTask keep the types, in every thread.
LEMMA AddTaskType ==
  ASSUME TypeInv, NEW t \in Threads, AddTaskStep(t)
  PROVE  TypeInv'
<1> USE ThreadsAssumption
    DEF Goto, flagVars, epollVars, fdVars, waitVars, CallerPC, LoopPC, TypeInv,
        ArgOK, TypeOK
<1>1. CASE AddTaskLock(t)
  BY <1>1 DEF AddTaskLock, Lock, taskVars
<1>2. CASE AddTaskPush(t)
  <2>1. arg[t] \in Task
    BY <1>2 DEF AddTaskPush
  <2> QED
    BY <1>2, <2>1 DEF AddTaskPush, Unlock, taskVars
<1>3. CASE AddTaskWakeup(t)
  BY <1>3 DEF AddTaskWakeup, WakeupEffect, taskVars
<1>4. CASE AddTaskReturn(t)
  BY <1>4 DEF AddTaskReturn, Unlock, taskVars
<1> QED
  BY <1>1, <1>2, <1>3, <1>4 DEF AddTaskStep

\* So do the calls of the other threads.
LEMMA CallType ==
  ASSUME TypeInv, NEW t \in Callers, Call(t) \/ StopWakeup(t)
  PROVE  TypeInv'
<1> USE ThreadsAssumption
    DEF Goto, flagVars, epollVars, fdVars, waitVars, taskVars, CallerPC, LoopPC,
        TypeInv, ArgOK, TypeOK
<1>1. ASSUME NEW fd \in Fds, NEW event \in {"IN", "OUT"},
             CallAddEpollEvent(t, fd, event)
      PROVE  TypeInv'
  <2>1. T("add", fd) \in Task
    BY TaskType
  <2> QED
    BY <1>1, <2>1 DEF CallAddEpollEvent
<1>2. ASSUME NEW fd \in Fds, CallDeleteEpollEvent(t, fd)
      PROVE  TypeInv'
  <2>1. T("del", fd) \in Task
    BY TaskType
  <2> QED
    BY <1>2, <2>1 DEF CallDeleteEpollEvent
<1>3. CASE CallStop(t)
  BY <1>3 DEF CallStop
<1>4. CASE StopWakeup(t)
  BY <1>4 DEF StopWakeup, WakeupEffect
<1> QED
  BY <1>1, <1>2, <1>3, <1>4 DEF Call

\* Executing a task takes it off tmp_tasks.
LEMMA NextTaskType ==
  ASSUME TypeInv, NEW task, NextTask(task)
  PROVE  /\ task \in Task
         /\ tmp_tasks' \in Seq(Task)
         /\ tmp_tasks = <<task>> \o tmp_tasks'
BY HeadTailProperties DEF TypeInv, TypeOK, NextTask

\* Every task keeps the types, whatever its handler does to the loop.
LEMMA RunTaskType ==
  ASSUME TypeInv, RunTask
  PROVE  TypeInv'
<1>1. ASSUME NEW task, NextTask(task),
             m_stop_flag' \in BOOLEAN,
             m_listen_fds' \in SUBSET AllFds,
             watched' \in SUBSET AllFds,
             mask' \in [AllFds -> SUBSET Events],
             interest' \in [AllFds -> SUBSET Events],
             ready' \in [AllFds -> SUBSET Events]
      PROVE  TypeInv'
  <2>1. tmp_tasks' \in Seq(Task)
    BY <1>1, NextTaskType
  <2> QED
    BY <1>1, <2>1 DEF NextTask, waitVars, TypeInv, ArgOK, TypeOK
<1> USE DEF TypeInv
<1>2. ASSUME NEW fd \in AllFds, RunAdd(fd)
      PROVE  TypeInv'
  <2>1. interest[fd] \in SUBSET Events
    BY DEF TypeOK
  <2> QED
    BY <1>1, <1>2, <2>1, AddToEpollType DEF RunAdd, TypeOK, fdVars
<1>3. ASSUME NEW fd \in AllFds, RunDelete(fd)
      PROVE  TypeInv'
  BY <1>1, <1>3, DeleteToEpollType DEF RunDelete, TypeOK, fdVars
<1>4. CASE RunWakeupHandler
  <2>1. ready' \in [AllFds -> SUBSET Events]
    BY <1>4 DEF RunWakeupHandler, TypeOK
  <2> QED
    BY <1>1, <1>4, <2>1 DEF RunWakeupHandler, TypeOK, epollVars
<1>5. ASSUME NEW fd \in AllFds, RunReadHandler(fd)
      PROVE  TypeInv'
  <2>1. /\ ready' \in [AllFds -> SUBSET Events]
        /\ interest' \in [AllFds -> SUBSET Events]
        /\ m_stop_flag' \in BOOLEAN
    <3>1. ready' \in [AllFds -> SUBSET Events]
      <4>1. ready \in [AllFds -> SUBSET Events]
        BY DEF TypeOK
      <4> QED
        BY <1>5, <4>1 DEF RunReadHandler
    <3>2. interest' \in [AllFds -> SUBSET Events]
      BY <1>5 DEF RunReadHandler, TypeOK
    <3>3. m_stop_flag' \in BOOLEAN
      BY <1>5 DEF RunReadHandler, TypeOK
    <3> QED
      BY <3>1, <3>2, <3>3
  <2>2. /\ m_listen_fds' \in SUBSET AllFds
        /\ watched' \in SUBSET AllFds
        /\ mask' \in [AllFds -> SUBSET Events]
    <3>1. interest'[fd] \in SUBSET Events
      BY <2>1
    <3> QED
      BY <1>5, <3>1, AddToEpollType, DeleteToEpollType
      DEF RunReadHandler, TypeOK, epollVars
  <2>3. NextTask(T("in", fd))
    BY <1>5 DEF RunReadHandler
  <2> QED
    BY <1>1, <2>1, <2>2, <2>3
<1>6. ASSUME NEW fd \in AllFds, RunWriteHandler(fd)
      PROVE  TypeInv'
  <2>1. interest' \in [AllFds -> SUBSET Events]
    BY <1>6 DEF RunWriteHandler, TypeOK
  <2>2. /\ m_listen_fds' \in SUBSET AllFds
        /\ watched' \in SUBSET AllFds
        /\ mask' \in [AllFds -> SUBSET Events]
    <3>1. interest'[fd] \in SUBSET Events
      BY <2>1
    <3> QED
      BY <1>6, <3>1, AddToEpollType DEF RunWriteHandler, TypeOK, epollVars
  <2>3. NextTask(T("out", fd)) /\ UNCHANGED <<m_stop_flag, ready>>
    BY <1>6 DEF RunWriteHandler
  <2> QED
    BY <1>1, <2>1, <2>2, <2>3 DEF TypeOK
<1> QED
  BY <1>2, <1>3, <1>4, <1>5, <1>6 DEF RunTask

\* The steps of loop() other than the tasks keep the types.
LEMMA LoopType ==
  ASSUME TypeInv, LoopStep, ~RunTask, ~AddTaskStep(LoopThread)
  PROVE  TypeInv'
<1> USE ThreadsAssumption
    DEF Goto, flagVars, epollVars, fdVars, waitVars, taskVars, CallerPC, LoopPC,
        TypeInv, ArgOK, TypeOK
<1>1. CASE LoopEnter
  BY <1>1 DEF LoopEnter
<1>2. CASE LoopCheck
  BY <1>2 DEF LoopCheck
<1>3. CASE LoopLock
  BY <1>3 DEF LoopLock, Lock
<1>4. CASE LoopSwap
  BY <1>4 DEF LoopSwap, Unlock
<1>5. CASE LoopWait
  BY <1>5 DEF LoopWait
<1>6. CASE EpollReturns
  <2>1. PICK chosen \in SUBSET AllFds :
          results' = [fd \in AllFds |->
                        IF fd \in chosen THEN Reported(fd) ELSE {}]
    BY <1>6 DEF EpollReturns
  <2>2. \A fd \in AllFds : Reported(fd) \in SUBSET Events
    BY ReportedType
  <2>3. results' \in [AllFds -> SUBSET Events]
    BY <2>1, <2>2
  <2> QED
    BY <1>6, <2>3 DEF EpollReturns
<1>7. CASE EpollTimesOut
  BY <1>7 DEF EpollTimesOut
<1>8. CASE LoopIterate
  BY <1>8 DEF LoopIterate, Unlock
<1>9. ASSUME NEW fd \in AllFds, NEW event \in {"IN", "OUT"},
             NEW op \in {"in", "out"}, DispatchHandler(fd, event, op)
      PROVE  TypeInv'
  <2>1. T(op, fd) \in Task
    BY TaskType
  <2> QED
    BY <1>9, <2>1 DEF DispatchHandler, Dispatching
<1>10. ASSUME NEW fd \in AllFds, DispatchError(fd)
       PROVE  TypeInv'
  <2>1. /\ m_listen_fds' \in SUBSET AllFds
        /\ watched' \in SUBSET AllFds
        /\ mask' \in [AllFds -> SUBSET Events]
    BY <1>10, DeleteToEpollType DEF DispatchError
  <2> QED
    BY <1>10, <2>1 DEF DispatchError, Dispatching
<1> QED
  BY <1>1, <1>2, <1>3, <1>4, <1>5, <1>6, <1>7, <1>8, <1>9, <1>10
  DEF LoopStep, Dispatch

\* So does what happens around the loop.
LEMMA WorldType ==
  ASSUME TypeInv,
         \/ \E fd \in Fds, what \in {"IN", "ERR"} : Arrive(fd, what)
         \/ \E fd \in MayClose : CloseFd(fd)
  PROVE  TypeInv'
<1> USE FdsAssumption
    DEF flagVars, epollVars, fdVars, waitVars, taskVars, TypeInv, ArgOK, TypeOK
<1>1. ASSUME NEW fd \in Fds, NEW what \in {"IN", "ERR"}, Arrive(fd, what)
      PROVE  TypeInv'
  BY <1>1 DEF Arrive
<1>2. ASSUME NEW fd \in MayClose, CloseFd(fd)
      PROVE  TypeInv'
  BY <1>2 DEF CloseFd
<1> QED
  BY <1>1, <1>2

\* Every variable keeps its type: in particular only tasks reach the queue, so
\* that cb() is always the closure that somebody passed to addTask.
THEOREM TypeCorrect == Spec => [](TypeOK /\ ArgOK)
<1>1. Init => TypeInv
  <2>1. Init => ArgOK
    BY DEF Init, ArgOK
  <2> QED
    BY <2>1, InitType DEF TypeInv
<1>2. TypeInv /\ [Next]_vars => TypeInv'
  <2> SUFFICES ASSUME TypeInv, [Next]_vars PROVE TypeInv'
    OBVIOUS
  <2>1. CASE Next
    BY <2>1, AddTaskType, CallType, RunTaskType, LoopType, WorldType
    DEF Next, CallerStep, LoopStep
  <2>2. CASE UNCHANGED vars
    BY <2>2 DEF vars, TypeInv, TypeOK, ArgOK
  <2> QED
    BY <2>1, <2>2
<1> QED
  BY <1>1, <1>2, PTL DEF Spec, TypeInv

-----------------------------------------------------------------------------
(* The list of the loop and epoll's.                                        *)

\* epoll never watches an fd that the loop does not list, however additions,
\* deletions, errors and closed descriptors follow each other: the early return
\* of deleteEpollEvent never leaves an fd registered.
THEOREM WatchedIsListedAlways == Spec => []WatchedIsListed
<1>1. Init => WatchedIsListed
  BY DEF Init, WatchedIsListed
<1>2. WatchedIsListed /\ [Next]_vars => WatchedIsListed'
  <2> SUFFICES ASSUME WatchedIsListed, [Next]_vars PROVE WatchedIsListed'
    OBVIOUS
  <2>1. ASSUME NEW fd, NEW events, AddToEpoll(fd, events)
        PROVE  WatchedIsListed'
    BY <2>1 DEF AddToEpoll, WatchedIsListed
  <2>2. ASSUME NEW fd, DeleteToEpoll(fd)
        PROVE  WatchedIsListed'
    BY <2>2 DEF DeleteToEpoll, WatchedIsListed, epollVars
  <2>3. ASSUME UNCHANGED epollVars
        PROVE  WatchedIsListed'
    BY <2>3 DEF WatchedIsListed, epollVars
  <2>4. CASE RunTask
    BY <2>1, <2>2, <2>3, <2>4
    DEF RunTask, RunAdd, RunDelete, RunWakeupHandler, RunReadHandler,
        RunWriteHandler
  <2>5. CASE Dispatch
    BY <2>2, <2>3, <2>5 DEF Dispatch, DispatchHandler, DispatchError
  <2>6. CASE \E fd \in MayClose : CloseFd(fd)
    BY <2>6 DEF CloseFd, WatchedIsListed
  <2>7. CASE \E t \in Threads : AddTaskStep(t)
    BY <2>3, <2>7
    DEF AddTaskStep, AddTaskLock, AddTaskPush, AddTaskWakeup, AddTaskReturn
  <2>8. CASE \E t \in Callers : Call(t) \/ StopWakeup(t)
    BY <2>3, <2>8
    DEF Call, CallAddEpollEvent, CallDeleteEpollEvent, CallStop, StopWakeup
  <2>9. CASE \/ LoopEnter \/ LoopCheck \/ LoopLock \/ LoopSwap \/ LoopWait
             \/ EpollReturns \/ EpollTimesOut \/ LoopIterate
    BY <2>3, <2>9
    DEF LoopEnter, LoopCheck, LoopLock, LoopSwap, LoopWait, EpollReturns,
        EpollTimesOut, LoopIterate
  <2>10. CASE \E fd \in Fds, what \in {"IN", "ERR"} : Arrive(fd, what)
    BY <2>3, <2>10 DEF Arrive
  <2>11. CASE UNCHANGED vars
    BY <2>3, <2>11 DEF vars, epollVars
  <2> QED
    BY <2>4, <2>5, <2>6, <2>7, <2>8, <2>9, <2>10, <2>11
    DEF Next, CallerStep, LoopStep
<1> QED
  BY <1>1, <1>2, PTL DEF Spec

-----------------------------------------------------------------------------
(* The queue.                                                               *)

\* The only steps that touch the queue of tasks: a push, the swap, and the
\* execution of a task.
LEMMA QueueSteps ==
  ASSUME [Next]_vars
  PROVE  \/ \E t \in Threads : AddTaskPush(t)
         \/ \E task : NextTask(task)
         \/ LoopSwap
         \/ UNCHANGED taskVars
<1> USE DEF taskVars
<1>1. CASE RunTask
  BY <1>1
  DEF RunTask, RunAdd, RunDelete, RunWakeupHandler, RunReadHandler,
      RunWriteHandler
<1>2. CASE Dispatch
  BY <1>2 DEF Dispatch, DispatchHandler, DispatchError
<1>3. CASE \E fd \in MayClose : CloseFd(fd)
  BY <1>3 DEF CloseFd
<1>4. CASE \E t \in Threads : AddTaskStep(t)
  BY <1>4 DEF AddTaskStep, AddTaskLock, AddTaskWakeup, AddTaskReturn
<1>5. CASE \E t \in Callers : Call(t) \/ StopWakeup(t)
  BY <1>5
  DEF Call, CallAddEpollEvent, CallDeleteEpollEvent, CallStop, StopWakeup
<1>6. CASE \/ LoopEnter \/ LoopCheck \/ LoopLock \/ LoopSwap \/ LoopWait
           \/ EpollReturns \/ EpollTimesOut \/ LoopIterate
  BY <1>6
  DEF LoopEnter, LoopCheck, LoopLock, LoopWait, EpollReturns, EpollTimesOut,
      LoopIterate
<1>7. CASE \E fd \in Fds, what \in {"IN", "ERR"} : Arrive(fd, what)
  BY <1>7 DEF Arrive
<1>8. CASE UNCHANGED vars
  BY <1>8 DEF vars
<1> QED
  BY <1>1, <1>2, <1>3, <1>4, <1>5, <1>6, <1>7, <1>8
  DEF Next, CallerStep, LoopStep

\* The loop leaves the loop over tmp_tasks only when it is empty.
LEMMA RunLeft ==
  ASSUME TypeInv, [Next]_vars, pc[LoopThread] = "run", pc'[LoopThread] # "run"
  PROVE  tmp_tasks' = <<>>
<1> USE ThreadsAssumption DEF Goto, TypeInv, TypeOK
<1>1. CASE RunTask
  BY <1>1
  DEF RunTask, RunAdd, RunDelete, RunWakeupHandler, RunReadHandler,
      RunWriteHandler, NextTask
<1>2. CASE Dispatch
  BY <1>2 DEF Dispatch, DispatchHandler, DispatchError, Dispatching
<1>3. CASE \E fd \in MayClose : CloseFd(fd)
  BY <1>3 DEF CloseFd
<1>4. CASE \E t \in Threads : AddTaskStep(t)
  BY <1>4 DEF AddTaskStep, AddTaskLock, AddTaskPush, AddTaskWakeup, AddTaskReturn
<1>5. CASE \E t \in Callers : Call(t) \/ StopWakeup(t)
  BY <1>5
  DEF Call, CallAddEpollEvent, CallDeleteEpollEvent, CallStop, StopWakeup
<1>6. CASE \/ LoopEnter \/ LoopCheck \/ LoopLock \/ LoopSwap \/ LoopWait
           \/ EpollReturns \/ EpollTimesOut \/ LoopIterate
  BY <1>6
  DEF LoopEnter, LoopCheck, LoopLock, LoopSwap, LoopWait, EpollReturns,
      EpollTimesOut, LoopIterate, taskVars
<1>7. CASE \E fd \in Fds, what \in {"IN", "ERR"} : Arrive(fd, what)
  BY <1>7 DEF Arrive
<1>8. CASE UNCHANGED vars
  BY <1>8 DEF vars
<1> QED
  BY <1>1, <1>2, <1>3, <1>4, <1>5, <1>6, <1>7, <1>8
  DEF Next, CallerStep, LoopStep

\* Outside of the loop over it, tmp_tasks is empty: swap() never throws away a
\* task.
BatchInRun == pc[LoopThread] # "run" => tmp_tasks = <<>>

LEMMA BatchStep ==
  ASSUME TypeInv, BatchInRun, [Next]_vars
  PROVE  BatchInRun'
<1> SUFFICES ASSUME pc'[LoopThread] # "run" PROVE tmp_tasks' = <<>>
  BY DEF BatchInRun
<1>1. CASE pc[LoopThread] = "run"
  BY <1>1, RunLeft
<1>2. CASE pc[LoopThread] # "run"
  <2>1. tmp_tasks = <<>>
    BY <1>2 DEF BatchInRun
  <2>2. ~LoopSwap
    BY ThreadsAssumption DEF LoopSwap, Goto, TypeInv, TypeOK
  <2> QED
    BY <1>2, <2>1, <2>2, QueueSteps DEF AddTaskPush, NextTask, taskVars
<1> QED
  BY <1>1, <1>2

\* The initial state has all of it.
LEMMA BatchInit == Init => BatchInRun
BY DEF Init, BatchInRun

\* EventLoop implements the FIFO executor: whatever the interleaving of pushes,
\* swaps, handlers and waits, up to a data race every task is executed once, in
\* the order in which tasks were pushed.
THEOREM ImplementsExecutor == Spec => ExecutorSpec
<1>1. Init => Executor!Init
  BY DEF Init, Executor!Init
<1>2. TypeInv /\ BatchInRun /\ [Next]_vars
      => [Executor!Next]_(tmp_tasks \o m_pending_tasks)
  <2> SUFFICES ASSUME TypeInv, BatchInRun, [Next]_vars
               PROVE  [Executor!Next]_(tmp_tasks \o m_pending_tasks)
    OBVIOUS
  <2> USE DEF TypeInv, TypeOK
  <2>1. ASSUME NEW t \in Threads, AddTaskPush(t)
        PROVE  Executor!Submit(arg[t]) /\ arg[t] \in Task
    <3>1. arg[t] \in Task
      BY <2>1 DEF AddTaskPush, ArgOK
    <3>2. tmp_tasks' = tmp_tasks /\ m_pending_tasks' = Append(m_pending_tasks, arg[t])
      BY <2>1 DEF AddTaskPush
    <3>3. tmp_tasks \o Append(m_pending_tasks, arg[t])
            = Append(tmp_tasks \o m_pending_tasks, arg[t])
      BY <3>1
    <3> QED
      BY <3>1, <3>2, <3>3 DEF Executor!Submit
  <2>2. ASSUME NEW task, NextTask(task)
        PROVE  Executor!Execute
    <3>1. tmp_tasks # <<>> /\ tmp_tasks' = Tail(tmp_tasks)
            /\ m_pending_tasks' = m_pending_tasks
      BY <2>2 DEF NextTask
    <3>2. tmp_tasks \o m_pending_tasks # <<>>
            /\ Tail(tmp_tasks \o m_pending_tasks) = Tail(tmp_tasks) \o m_pending_tasks
      BY <3>1
    <3> QED
      BY <3>1, <3>2 DEF Executor!Execute
  <2>3. ASSUME LoopSwap
        PROVE  UNCHANGED (tmp_tasks \o m_pending_tasks)
    <3>1. tmp_tasks = <<>>
      BY <2>3 DEF LoopSwap, BatchInRun
    <3> QED
      BY <2>3, <3>1 DEF LoopSwap
  <2> QED
    BY <2>1, <2>2, <2>3, QueueSteps DEF Executor!Next, taskVars
<1> QED
  BY <1>1, <1>2, BatchInit, BatchStep, TypeCorrect, PTL
  DEF Spec, Executor!Spec, TypeInv, ExecutorSpec

-----------------------------------------------------------------------------
(* The handlers in the queue.                                               *)

\* What is in a queue after a push.
LEMMA QueuedAppend ==
  ASSUME NEW queue \in Seq(Task), NEW last \in Task, NEW task
  PROVE  Queued(task, Append(queue, last)) <=> Queued(task, queue) \/ task = last
BY DEF Queued

\* A push leaves every handler in the queue once, unless it pushes one again.
LEMMA OnceAppend ==
  ASSUME NEW queue \in Seq(Task), NEW last \in Task, Once(queue),
         last \in Handler => ~Queued(last, queue)
  PROVE  Once(Append(queue, last))
BY DEF Once, Queued

\* So does the execution of the first task.
LEMMA OnceTail ==
  ASSUME NEW queue \in Seq(Task), queue # <<>>, Once(queue)
  PROVE  Once(Tail(queue))
<1>1. /\ Len(Tail(queue)) = Len(queue) - 1
      /\ \A i \in 1 .. Len(Tail(queue)) : Tail(queue)[i] = queue[i + 1]
  OBVIOUS
<1>2. SUFFICES ASSUME NEW i \in 1 .. Len(Tail(queue)), NEW j \in 1 .. Len(Tail(queue)),
                      Tail(queue)[i] = Tail(queue)[j], Tail(queue)[i] \in Handler
               PROVE  i = j
  BY DEF Once
<1>3. i + 1 \in 1 .. Len(queue) /\ j + 1 \in 1 .. Len(queue)
  BY <1>1
<1>4. i + 1 = j + 1
  BY <1>1, <1>2, <1>3 DEF Once
<1> QED
  BY <1>4

\* What the handlers of a state must be for pc[LoopThread] = label.
PhaseMoves(label) ==
  \/ label \in {"idle", "check", "lock", "swap"} /\ tmp_tasks = <<>>
  \/ label = "wait" /\ pc[LoopThread] = "run" /\ tmp_tasks = <<>>
  \/ label = "dispatch" /\ pc[LoopThread] \in {"wait", "return"}
  \/ label = "push" /\ pc[LoopThread] = "addTask"
  \/ label = "done" /\ tmp_tasks = <<>>
  \/ label = pc[LoopThread]

\* A step that leaves the queues, the results and the task of the loop's own
\* thread alone keeps the phases, when the loop goes on as loop() does.
LEMMA PhasesFrame ==
  ASSUME TypeInv, HandlersHavePhases, PhaseMoves(pc'[LoopThread]),
         UNCHANGED <<tmp_tasks, m_pending_tasks, results>>,
         arg'[LoopThread] = arg[LoopThread],
         \A t \in Callers : pc'[t] \in {"addTask", "push"} => arg'[t] \in Task \ Handler
  PROVE  HandlersHavePhases'
<1>1. (pc[LoopThread] # "run" => tmp_tasks = <<>>)'
  BY DEF PhaseMoves, HandlersHavePhases
<1>2. (pc[LoopThread] \in {"run", "wait"} =>
         \A task \in Handler : ~Queued(task, m_pending_tasks))'
  BY DEF PhaseMoves, HandlersHavePhases, Queued
<1>3. (Dispatched => \A task \in Handler :
         Queued(task, m_pending_tasks) => EventOf(task) \notin results[task.fd])'
  BY DEF PhaseMoves, HandlersHavePhases, Queued, Dispatched, EventOf
<1>4. (pc[LoopThread] \in {"addTask", "push"} =>
         /\ arg[LoopThread] \in Handler
         /\ ~Queued(arg[LoopThread], m_pending_tasks)
         /\ EventOf(arg[LoopThread]) \notin results[arg[LoopThread].fd])'
  BY DEF PhaseMoves, HandlersHavePhases, Queued, EventOf
<1>5. Once(tmp_tasks)' /\ Once(m_pending_tasks)'
  BY DEF HandlersHavePhases, Once
<1> QED
  BY <1>1, <1>2, <1>3, <1>4, <1>5 DEF HandlersHavePhases

\* A call of another thread is pushed: it is no handler.
LEMMA PhasesCallerPush ==
  ASSUME TypeInv, HandlersHavePhases, NEW t \in Callers, AddTaskPush(t)
  PROVE  HandlersHavePhases'
<1> USE ThreadsAssumption
<1>1. /\ t \in Threads /\ t # LoopThread /\ pc \in [Threads -> CallerPC \cup LoopPC]
      /\ arg \in [Threads -> Task \cup {NoTask}] /\ m_pending_tasks \in Seq(Task)
  BY DEF TypeInv, TypeOK
<1>2. /\ UNCHANGED <<tmp_tasks, results>>
      /\ m_pending_tasks' = Append(m_pending_tasks, arg[t])
      /\ pc'[LoopThread] = pc[LoopThread] /\ arg'[LoopThread] = arg[LoopThread]
      /\ \A u \in Callers : pc'[u] \in {"addTask", "push"} =>
           pc[u] \in {"addTask", "push"} /\ arg'[u] = arg[u]
  BY <1>1 DEF AddTaskPush, Goto, waitVars
<1>3. arg[t] \in Task \ Handler
  BY DEF AddTaskPush, HandlersHavePhases
<1>4. \A task \in Handler :
        Queued(task, m_pending_tasks)' <=> Queued(task, m_pending_tasks)
  <2> SUFFICES ASSUME NEW task \in Handler
               PROVE  Queued(task, m_pending_tasks') <=> Queued(task, m_pending_tasks)
    BY DEF Queued
  <2> QED
    BY <1>1, <1>2, <1>3, QueuedAppend
<1>5. Once(m_pending_tasks)'
  <2>1. Once(Append(m_pending_tasks, arg[t]))
    BY <1>1, <1>3, OnceAppend DEF HandlersHavePhases
  <2> QED
    BY <1>2, <2>1 DEF Once
<1>6. Once(tmp_tasks)' /\ (pc[LoopThread] # "run" => tmp_tasks = <<>>)'
  BY <1>2 DEF HandlersHavePhases, Once
<1>7. (pc[LoopThread] \in {"run", "wait"} =>
         \A task \in Handler : ~Queued(task, m_pending_tasks))'
  BY <1>2, <1>4 DEF HandlersHavePhases
<1>8. (Dispatched => \A task \in Handler :
         Queued(task, m_pending_tasks) => EventOf(task) \notin results[task.fd])'
  BY <1>2, <1>4 DEF HandlersHavePhases, Dispatched, EventOf
<1>9. (pc[LoopThread] \in {"addTask", "push"} =>
         /\ arg[LoopThread] \in Handler
         /\ ~Queued(arg[LoopThread], m_pending_tasks)
         /\ EventOf(arg[LoopThread]) \notin results[arg[LoopThread].fd])'
  <2> SUFFICES ASSUME pc[LoopThread] \in {"addTask", "push"}
               PROVE  /\ arg[LoopThread] \in Handler
                      /\ ~Queued(arg[LoopThread], m_pending_tasks')
                      /\ EventOf(arg[LoopThread]) \notin results[arg[LoopThread].fd]
    BY <1>2 DEF EventOf, Queued
  <2>1. arg[LoopThread] \in Handler /\ ~Queued(arg[LoopThread], m_pending_tasks)
    BY DEF HandlersHavePhases
  <2> QED
    BY <1>4, <2>1 DEF HandlersHavePhases, Queued
<1>10. (\A u \in Callers : pc[u] \in {"addTask", "push"} => arg[u] \in Task \ Handler)'
  BY <1>2 DEF HandlersHavePhases
<1> QED
  BY <1>5, <1>6, <1>7, <1>8, <1>9, <1>10 DEF HandlersHavePhases

\* The loop's own thread pushes a handler: its event has left the results.
LEMMA PhasesLoopPush ==
  ASSUME TypeInv, HandlersHavePhases, AddTaskPush(LoopThread)
  PROVE  HandlersHavePhases'
<1> USE ThreadsAssumption
<1>1. /\ pc \in [Threads -> CallerPC \cup LoopPC] /\ arg \in [Threads -> Task \cup {NoTask}]
      /\ m_pending_tasks \in Seq(Task) /\ pc[LoopThread] = "push"
  BY DEF TypeInv, TypeOK, AddTaskPush
<1>2. /\ UNCHANGED <<tmp_tasks, results>>
      /\ m_pending_tasks' = Append(m_pending_tasks, arg[LoopThread])
      /\ pc'[LoopThread] = "return"
      /\ \A u \in Callers : pc'[u] = pc[u] /\ arg'[u] = arg[u]
  BY <1>1 DEF AddTaskPush, Goto, waitVars
<1>3. /\ arg[LoopThread] \in Handler /\ arg[LoopThread] \in Task
      /\ ~Queued(arg[LoopThread], m_pending_tasks)
      /\ EventOf(arg[LoopThread]) \notin results[arg[LoopThread].fd]
  BY <1>1 DEF HandlersHavePhases, Handler
<1>4. Once(m_pending_tasks)'
  <2>1. Once(Append(m_pending_tasks, arg[LoopThread]))
    BY <1>1, <1>3, OnceAppend DEF HandlersHavePhases
  <2> QED
    BY <1>2, <2>1 DEF Once
<1>5. Once(tmp_tasks)' /\ tmp_tasks' = <<>>
  BY <1>1, <1>2 DEF HandlersHavePhases, Once
<1>6. \A task \in Handler :
         Queued(task, m_pending_tasks)' => EventOf(task) \notin results[task.fd]
  <2> SUFFICES ASSUME NEW task \in Handler, Queued(task, m_pending_tasks')
               PROVE  EventOf(task) \notin results[task.fd]
    BY DEF Queued
  <2>1. Queued(task, m_pending_tasks) \/ task = arg[LoopThread]
    BY <1>1, <1>2, <1>3, QueuedAppend
  <2> QED
    BY <1>1, <1>3, <2>1 DEF HandlersHavePhases, Dispatched
<1>7. (\A u \in Callers : pc[u] \in {"addTask", "push"} => arg[u] \in Task \ Handler)'
  BY <1>2 DEF HandlersHavePhases
<1>8. (Dispatched => \A task \in Handler :
         Queued(task, m_pending_tasks) => EventOf(task) \notin results[task.fd])'
  BY <1>2, <1>6 DEF EventOf
<1> QED
  BY <1>2, <1>4, <1>5, <1>7, <1>8 DEF HandlersHavePhases

\* swap() hands over a queue with every handler once, and leaves an empty one.
LEMMA PhasesSwap ==
  ASSUME TypeInv, HandlersHavePhases, LoopSwap
  PROVE  HandlersHavePhases'
<1>1. /\ tmp_tasks' = m_pending_tasks /\ m_pending_tasks' = <<>>
      /\ pc'[LoopThread] = "run"
      /\ \A u \in Callers : pc'[u] = pc[u] /\ arg'[u] = arg[u]
  BY ThreadsAssumption DEF LoopSwap, Goto, TypeInv, TypeOK
<1>2. \A task \in Handler : ~Queued(task, m_pending_tasks)'
  BY <1>1 DEF Queued
<1>3. Once(tmp_tasks)' /\ Once(m_pending_tasks)'
  BY <1>1 DEF HandlersHavePhases, Once
<1>4. (\A u \in Callers : pc[u] \in {"addTask", "push"} => arg[u] \in Task \ Handler)'
  BY <1>1 DEF HandlersHavePhases
<1> QED
  BY <1>1, <1>2, <1>3, <1>4 DEF HandlersHavePhases, Dispatched

\* A task is executed, whatever it does.
LEMMA PhasesRun ==
  ASSUME TypeInv, HandlersHavePhases, NEW task, NextTask(task)
  PROVE  HandlersHavePhases'
<1>1. /\ UNCHANGED <<pc, arg, m_pending_tasks, results>> /\ pc[LoopThread] = "run"
      /\ tmp_tasks \in Seq(Task) /\ tmp_tasks # <<>> /\ tmp_tasks' = Tail(tmp_tasks)
  BY DEF NextTask, TypeInv, TypeOK, waitVars
<1>2. Once(tmp_tasks)'
  <2>1. Once(Tail(tmp_tasks))
    BY <1>1, OnceTail DEF HandlersHavePhases
  <2> QED
    BY <1>1, <2>1 DEF Once
<1>3. Once(m_pending_tasks)'
  BY <1>1 DEF HandlersHavePhases, Once
<1>4. (pc[LoopThread] \in {"run", "wait"} =>
         \A one \in Handler : ~Queued(one, m_pending_tasks))'
  BY <1>1 DEF HandlersHavePhases, Queued
<1>5. (\A u \in Callers : pc[u] \in {"addTask", "push"} => arg[u] \in Task \ Handler)'
  BY <1>1 DEF HandlersHavePhases
<1> QED
  BY <1>1, <1>2, <1>3, <1>4, <1>5 DEF HandlersHavePhases, Dispatched

\* epoll_wait returns when no handler is queued, so its results are for none.
LEMMA PhasesReturn ==
  ASSUME TypeInv, HandlersHavePhases, EpollReturns
  PROVE  HandlersHavePhases'
<1>1. /\ UNCHANGED <<tmp_tasks, m_pending_tasks, arg>> /\ pc[LoopThread] = "wait"
      /\ pc'[LoopThread] = "dispatch" /\ \A u \in Callers : pc'[u] = pc[u]
  BY ThreadsAssumption DEF EpollReturns, Goto, TypeInv, TypeOK, taskVars
<1>2. \A task \in Handler : ~Queued(task, m_pending_tasks)'
  BY <1>1 DEF HandlersHavePhases, Queued
<1>3. Once(tmp_tasks)' /\ Once(m_pending_tasks)'
  BY <1>1 DEF HandlersHavePhases, Once
<1>4. (\A u \in Callers : pc[u] \in {"addTask", "push"} => arg[u] \in Task \ Handler)'
  BY <1>1 DEF HandlersHavePhases
<1> QED
  BY <1>1, <1>2, <1>3, <1>4 DEF HandlersHavePhases

\* An event leaves the results with the handler that the loop will push, or with
\* none.
LEMMA PhasesDispatch ==
  ASSUME TypeInv, HandlersHavePhases, Dispatch
  PROVE  HandlersHavePhases'
<1> USE ThreadsAssumption
<1>1. /\ pc \in [Threads -> CallerPC \cup LoopPC] /\ arg \in [Threads -> Task \cup {NoTask}]
      /\ results \in [AllFds -> SUBSET Events]
  BY DEF TypeInv, TypeOK
<1>2. /\ UNCHANGED <<tmp_tasks, m_pending_tasks>> /\ pc[LoopThread] = "dispatch"
      /\ \A u \in Callers : pc'[u] = pc[u] /\ arg'[u] = arg[u]
  BY <1>1 DEF Dispatch, DispatchHandler, DispatchError, Dispatching, Goto, taskVars
<1>3. Once(tmp_tasks)' /\ Once(m_pending_tasks)' /\ tmp_tasks' = <<>>
  BY <1>2 DEF HandlersHavePhases, Once
<1>4. (\A u \in Callers : pc[u] \in {"addTask", "push"} => arg[u] \in Task \ Handler)'
  BY <1>2 DEF HandlersHavePhases
<1>5. \A fd \in AllFds : results'[fd] \subseteq results[fd]
  BY <1>1 DEF Dispatch, DispatchHandler, DispatchError
<1>6. \A task \in Handler : Queued(task, m_pending_tasks)' =>
        /\ Queued(task, m_pending_tasks)
        /\ EventOf(task) \notin results[task.fd] /\ EventOf(task) \notin results'[task.fd]
  <2> SUFFICES ASSUME NEW task \in Handler, Queued(task, m_pending_tasks)
               PROVE  /\ EventOf(task) \notin results[task.fd]
                      /\ EventOf(task) \notin results'[task.fd]
    BY <1>2 DEF Queued
  <2>1. task.fd \in AllFds
    BY TaskType DEF Handler
  <2> QED
    BY <1>2, <1>5, <2>1 DEF HandlersHavePhases, Dispatched
<1>7. (Dispatched => \A task \in Handler :
         Queued(task, m_pending_tasks) => EventOf(task) \notin results[task.fd])'
  BY <1>6 DEF EventOf
<1>8. ASSUME NEW fd \in AllFds, NEW event \in {"IN", "OUT"}, NEW op \in {"in", "out"},
             (event = "IN") <=> (op = "in"), DispatchHandler(fd, event, op)
      PROVE  HandlersHavePhases'
  <2>1. /\ pc'[LoopThread] = "addTask" /\ arg'[LoopThread] = T(op, fd)
        /\ event \in results[fd] /\ event \notin results'[fd]
    BY <1>1, <1>8 DEF DispatchHandler, Goto
  <2>2. T(op, fd) \in Handler /\ EventOf(T(op, fd)) = event /\ T(op, fd).fd = fd
    BY <1>8 DEF T, Handler, Task, EventOf
  <2>3. ~Queued(T(op, fd), m_pending_tasks)'
    BY <1>6, <2>1, <2>2
  <2>4. /\ arg'[LoopThread] \in Handler
        /\ ~Queued(arg'[LoopThread], m_pending_tasks')
        /\ EventOf(arg'[LoopThread]) \notin results'[arg'[LoopThread].fd]
    BY <2>1, <2>2, <2>3 DEF Queued
  <2>5. (pc[LoopThread] \in {"addTask", "push"} =>
           /\ arg[LoopThread] \in Handler
           /\ ~Queued(arg[LoopThread], m_pending_tasks)
           /\ EventOf(arg[LoopThread]) \notin results[arg[LoopThread].fd])'
    BY <2>4 DEF Queued, EventOf
  <2> QED
    BY <1>3, <1>4, <1>7, <2>1, <2>5 DEF HandlersHavePhases
<1>9. ASSUME NEW fd \in AllFds, DispatchError(fd)
      PROVE  HandlersHavePhases'
  <2>1. pc'[LoopThread] = "dispatch"
    BY <1>2, <1>9 DEF DispatchError
  <2> QED
    BY <1>3, <1>4, <1>7, <2>1 DEF HandlersHavePhases
<1> QED
  BY <1>8, <1>9 DEF Dispatch

\* The other steps of the loop move it from one phase to the next.
LEMMA PhasesLoop ==
  ASSUME TypeInv, HandlersHavePhases,
         \/ LoopEnter \/ LoopCheck \/ LoopLock \/ LoopWait \/ EpollTimesOut
         \/ LoopIterate \/ AddTaskLock(LoopThread) \/ AddTaskReturn(LoopThread)
  PROVE  HandlersHavePhases'
<1> USE ThreadsAssumption
<1>1. /\ UNCHANGED <<tmp_tasks, m_pending_tasks, results, arg>>
      /\ \A u \in Callers : pc'[u] = pc[u]
  BY DEF LoopEnter, LoopCheck, LoopLock, LoopWait, EpollTimesOut, LoopIterate, AddTaskLock,
     AddTaskReturn, Goto, TypeInv, TypeOK, taskVars, waitVars
<1>2. pc \in [Threads -> CallerPC \cup LoopPC] /\ BatchInRun
  BY DEF TypeInv, TypeOK, HandlersHavePhases, BatchInRun
<1>3. PhaseMoves(pc'[LoopThread])
  BY <1>2 DEF LoopEnter, LoopCheck, LoopLock, LoopWait, EpollTimesOut, LoopIterate,
     AddTaskLock, AddTaskReturn, Goto, PhaseMoves, BatchInRun
<1>4. \A t \in Callers : pc'[t] \in {"addTask", "push"} => arg'[t] \in Task \ Handler
  BY <1>1 DEF HandlersHavePhases
<1> QED
  BY <1>1, <1>3, <1>4, PhasesFrame

\* So do the steps of the other threads that push nothing.
LEMMA PhasesCaller ==
  ASSUME TypeInv, HandlersHavePhases, NEW t \in Callers,
         \/ Call(t) \/ StopWakeup(t)
         \/ AddTaskLock(t) \/ AddTaskWakeup(t) \/ AddTaskReturn(t)
  PROVE  HandlersHavePhases'
<1> USE ThreadsAssumption
<1>1. pc \in [Threads -> CallerPC \cup LoopPC] /\ arg \in [Threads -> Task \cup {NoTask}]
  BY DEF TypeInv, TypeOK
<1>2. /\ UNCHANGED <<tmp_tasks, m_pending_tasks, results>>
      /\ pc'[LoopThread] = pc[LoopThread] /\ arg'[LoopThread] = arg[LoopThread]
  BY <1>1 DEF Call, CallAddEpollEvent, CallDeleteEpollEvent, CallStop, StopWakeup, AddTaskLock,
     AddTaskWakeup, AddTaskReturn, Goto, taskVars, waitVars
<1>3. ASSUME NEW u \in Callers, pc'[u] \in {"addTask", "push"}
      PROVE  \/ arg'[u] = arg[u] /\ pc[u] \in {"addTask", "push"}
             \/ \E fd \in Fds, op \in {"add", "del"} : arg'[u] = T(op, fd)
  BY <1>1, <1>3 DEF Call, CallAddEpollEvent, CallDeleteEpollEvent, CallStop, StopWakeup,
     AddTaskLock, AddTaskWakeup, AddTaskReturn, Goto
<1>4. \A fd \in Fds, op \in {"add", "del"} : T(op, fd) \in Task \ Handler
  BY TaskType DEF T, Handler
<1>5. \A u \in Callers : pc'[u] \in {"addTask", "push"} => arg'[u] \in Task \ Handler
  BY <1>3, <1>4 DEF HandlersHavePhases
<1> QED
  BY <1>2, <1>5, PhasesFrame DEF PhaseMoves

\* And what happens around the loop.
LEMMA PhasesWorld ==
  ASSUME TypeInv, HandlersHavePhases,
         \/ \E fd \in Fds, what \in {"IN", "ERR"} : Arrive(fd, what)
         \/ \E fd \in MayClose : CloseFd(fd)
         \/ UNCHANGED vars
  PROVE  HandlersHavePhases'
<1>1. UNCHANGED <<pc, arg, tmp_tasks, m_pending_tasks, results>>
  BY DEF Arrive, CloseFd, vars, taskVars, waitVars
<1>2. \A t \in Callers : pc'[t] \in {"addTask", "push"} => arg'[t] \in Task \ Handler
  BY <1>1 DEF HandlersHavePhases
<1> QED
  BY <1>1, <1>2, PhasesFrame DEF PhaseMoves

\* Every step keeps the phases.
LEMMA PhasesStep ==
  ASSUME TypeInv, HandlersHavePhases, [Next]_vars
  PROVE  HandlersHavePhases'
<1>1. ASSUME RunTask PROVE HandlersHavePhases'
  BY <1>1, PhasesRun
  DEF RunTask, RunAdd, RunDelete, RunWakeupHandler, RunReadHandler, RunWriteHandler
<1>2. ~AddTaskWakeup(LoopThread)
  BY DEF AddTaskWakeup, TypeInv, TypeOK, LoopPC
<1>3. ASSUME LoopStep PROVE HandlersHavePhases'
  BY <1>1, <1>2, <1>3, PhasesLoop, PhasesSwap, PhasesReturn, PhasesDispatch, PhasesLoopPush
  DEF LoopStep, AddTaskStep
<1>4. ASSUME NEW t \in Callers, Call(t) \/ CallerStep(t) PROVE HandlersHavePhases'
  BY <1>4, PhasesCaller, PhasesCallerPush DEF CallerStep, AddTaskStep
<1> QED
  BY <1>3, <1>4, PhasesWorld DEF Next

\* A handler waits once at the most, although epoll reports its fd again as long as
\* it has not run.
THEOREM QueuedOnce == Spec => []HandlersQueuedOnce
<1>1. Init => HandlersHavePhases
  BY DEF Init, HandlersHavePhases, Queued, Once, Dispatched
<1>2. ASSUME TypeInv, HandlersHavePhases PROVE HandlersQueuedOnce
  <2>1. tmp_tasks \in Seq(Task) /\ m_pending_tasks \in Seq(Task)
    BY <1>2 DEF TypeInv, TypeOK
  <2>2. CASE pc[LoopThread] = "run"
    <3>1. \A task \in Handler : ~Queued(task, m_pending_tasks)
      BY <1>2, <2>2 DEF HandlersHavePhases
    <3>2. Once(tmp_tasks)
      BY <1>2 DEF HandlersHavePhases
    <3>3. ASSUME NEW i \in 1 .. Len(Waiting), Waiting[i] \in Handler
          PROVE  i \in 1 .. Len(tmp_tasks) /\ Waiting[i] = tmp_tasks[i]
      <4>1. /\ Len(Waiting) = Len(tmp_tasks) + Len(m_pending_tasks)
            /\ Waiting[i] = IF i <= Len(tmp_tasks) THEN tmp_tasks[i]
                            ELSE m_pending_tasks[i - Len(tmp_tasks)]
        BY <2>1, <3>3 DEF Waiting
      <4>2. ASSUME i > Len(tmp_tasks) PROVE FALSE
        <5>1. i - Len(tmp_tasks) \in 1 .. Len(m_pending_tasks)
          BY <2>1, <4>1, <4>2
        <5> QED
          BY <2>1, <3>1, <3>3, <4>1, <4>2, <5>1 DEF Queued
      <4> QED
        BY <2>1, <4>1, <4>2
    <3> QED
      BY <3>2, <3>3 DEF HandlersQueuedOnce, Once
  <2>3. CASE pc[LoopThread] # "run"
    <3>1. tmp_tasks = <<>> /\ Once(m_pending_tasks)
      BY <1>2, <2>3 DEF HandlersHavePhases
    <3>2. Waiting = m_pending_tasks
      BY <2>1, <3>1 DEF Waiting
    <3> QED
      BY <3>1, <3>2 DEF HandlersQueuedOnce
  <2> QED
    BY <2>2, <2>3
<1> QED
  BY <1>1, <1>2, PhasesStep, TypeCorrect, PTL DEF Spec, TypeInv

=============================================================================
