----------------------------- MODULE EventLoop ------------------------------
(***************************************************************************)
(* rocket::EventLoop (net/eventloop.cc): one thread runs loop(), any other *)
(* thread may call addEpollEvent(), deleteEpollEvent() and stop().  A call *)
(* of another thread becomes a task in m_pending_tasks, protected by       *)
(* m_mutex, and a write to the eventfd that wakes the loop.                *)
(*                                                                         *)
(* m_mutex is taken through a ScopeMutex, whose unlock() does not clear    *)
(* m_is_lock: its destructor unlocks the mutex a second time, whoever      *)
(* holds it by then.  Two threads may then be inside the critical section. *)
(* Both change a std::queue, so nothing is known of the program once that  *)
(* has happened: a behaviour of this specification ends there (Raced), and *)
(* every property holds up to there.                                       *)
(*                                                                         *)
(* Outside of this repository: epoll and the eventfd (level-triggered      *)
(* readiness), and the peers of the descriptors.  The handlers of an fd    *)
(* are those of TcpConnection, reduced to the calls they make here.        *)
(***************************************************************************)
EXTENDS Integers, Sequences, FiniteSets

CONSTANTS
  Callers,      \* the threads other than the one that runs loop()
  LoopThread,   \* the thread that created the EventLoop and runs loop()
  NoThread,     \* "m_mutex is free"
  Fds,          \* the descriptors of the users of the loop
  WakeFd,       \* m_wakeup_fd, an eventfd
  MayClose,     \* the descriptors whose owner closes them while they are listed
  MaxEvents,    \* g_epoll_max_events
  MaxCalls      \* BOUND: how many calls the other threads make

Threads == Callers \cup {LoopThread}
AllFds  == Fds \cup {WakeFd}
Events  == {"IN", "OUT", "ERR"}

ASSUME ThreadsAssumption ==
  /\ LoopThread \notin Callers
  /\ NoThread \notin Callers \cup {LoopThread}

ASSUME FdsAssumption == WakeFd \notin Fds /\ MayClose \subseteq Fds

ASSUME BoundsAssumption == MaxEvents \in Nat \ {0} /\ MaxCalls \in Nat

(***************************************************************************)
(* A task is one of the two closures of addEpollEvent/deleteEpollEvent, or *)
(* a copy of the read ("in") or write ("out") callback of an FdEvent.      *)
(***************************************************************************)
Task    == [op : {"add", "del", "in", "out"}, fd : AllFds]
Handler == {task \in Task : task.op \in {"in", "out"}}
NoTask  == [op |-> "none", fd |-> WakeFd]

T(op, fd) == [op |-> op, fd |-> fd]

VARIABLES
  pc,               \* pc[t]: where thread t is
  arg,              \* arg[t]: the task that t is passing to addTask
  m_mutex,          \* the thread that locked it last, or NoThread
  m_pending_tasks,
  tmp_tasks,        \* the queue that loop() swapped out
  m_stop_flag,
  m_is_looping,
  m_listen_fds,     \* the fds that the loop believes epoll watches
  watched,          \* the fds that epoll watches
  mask,             \* mask[fd]: the events epoll watches fd for
  interest,         \* interest[fd]: m_listen_events of fd's FdEvent
  ready,            \* ready[fd]: input or an error is there; the eventfd counter
  results,          \* results[fd]: result_events, what is left to dispatch
  current,          \* the fd of trigger_event
  calls             \* how many calls the other threads have made

vars == <<pc, arg, m_mutex, m_pending_tasks, tmp_tasks, m_stop_flag,
          m_is_looping, m_listen_fds, watched, mask, interest, ready,
          results, current, calls>>
taskVars  == <<m_pending_tasks, tmp_tasks>>
epollVars == <<m_listen_fds, watched, mask>>
fdVars    == <<interest, ready>>
waitVars  == <<results, current>>
flagVars  == <<m_stop_flag, m_is_looping>>

CallerPC == {"idle", "addTask", "push", "wakeup", "return", "stop"}
LoopPC   == {"idle", "check", "lock", "swap", "run", "wait", "dispatch",
             "addTask", "push", "return", "done"}

(***************************************************************************)
(* The constructor has registered the eventfd (the timer's fd is one of    *)
(* Fds: its registration is a call like any other).                        *)
(***************************************************************************)
Init ==
  /\ pc = [t \in Threads |-> "idle"]
  /\ arg = [t \in Threads |-> NoTask]
  /\ m_mutex = NoThread
  /\ m_pending_tasks = <<>>
  /\ tmp_tasks = <<>>
  /\ m_stop_flag = FALSE
  /\ m_is_looping = FALSE
  /\ m_listen_fds = {WakeFd}
  /\ watched = {WakeFd}
  /\ mask = [fd \in AllFds |-> IF fd = WakeFd THEN {"IN"} ELSE {}]
  /\ interest = [fd \in AllFds |-> IF fd = WakeFd THEN {"IN"} ELSE {}]
  /\ ready = [fd \in AllFds |-> {}]
  /\ results = [fd \in AllFds |-> {}]
  /\ current = WakeFd
  /\ calls = 0

-----------------------------------------------------------------------------
\* Helpers.

Goto(t, label) == pc' = [pc EXCEPT ![t] = label]

\* ScopeMutex's constructor, and its unlock() or destructor: the default
\* pthread mutex is freed by an unlock, whoever locked it.
Lock(t) == m_mutex = NoThread /\ m_mutex' = t
Unlock  == m_mutex' = NoThread

\* m_wakeup_fd_event->wakeup(): one more on the eventfd.
WakeupEffect == ready' = [ready EXCEPT ![WakeFd] = {"IN"}]

\* ADD_TO_EPOLL: EPOLL_CTL_ADD or _MOD, chosen by m_listen_fds.  ADD fails for
\* an fd that epoll watches, MOD for one that it does not; the fd is listed
\* whatever the outcome.  The events are those of the FdEvent at this moment.
AddToEpoll(fd, events) ==
  /\ IF fd \in m_listen_fds <=> fd \in watched
     THEN /\ watched' = watched \cup {fd}
          /\ mask' = [mask EXCEPT ![fd] = events]
     ELSE UNCHANGED <<watched, mask>>
  /\ m_listen_fds' = m_listen_fds \cup {fd}

\* Mutant: the fd is taken off the list but epoll is not told.
DeleteFromListOnly(fd) ==
  m_listen_fds' = m_listen_fds \ {fd} /\ UNCHANGED <<watched, mask>>

\* DELETE_TO_EPOLL: nothing for an fd that is not listed.
DeleteToEpoll(fd) ==
  IF fd \in m_listen_fds
  THEN /\ watched' = watched \ {fd}
       /\ mask' = [mask EXCEPT ![fd] = {}]
       /\ m_listen_fds' = m_listen_fds \ {fd}
  ELSE UNCHANGED epollVars

\* What epoll_wait has to say about fd.
Reported(fd) ==
  IF fd \in watched
  THEN (mask[fd] \cap ({"OUT"} \cup ready[fd])) \cup (ready[fd] \cap {"ERR"})
  ELSE {}

\* Two threads are at, or inside, an access to m_pending_tasks.
InQueueAccess(t) == pc[t] \in {"swap", "push"}
Raced == \E t, u \in Threads : t # u /\ InQueueAccess(t) /\ InQueueAccess(u)

-----------------------------------------------------------------------------
(* addTask, in any thread.  The loop's own thread adds the handlers of the  *)
(* events it dispatches and wakes nobody.                                   *)

AddTaskLock(t) ==
  /\ pc[t] = "addTask"
  /\ Lock(t)
  /\ Goto(t, "push")
  /\ UNCHANGED <<arg, taskVars, flagVars, epollVars, fdVars, waitVars, calls>>

\* Mutant: the closure is moved from before it is pushed.
AddTaskPushMovedFrom(t) ==
  /\ pc[t] = "push"
  /\ m_pending_tasks' = Append(m_pending_tasks, NoTask)
  /\ arg' = [arg EXCEPT ![t] = NoTask]
  /\ Unlock
  /\ Goto(t, IF t = LoopThread THEN "return" ELSE "wakeup")
  /\ UNCHANGED <<tmp_tasks, flagVars, epollVars, fdVars, waitVars, calls>>

\* m_pending_tasks.push(cb); lock.unlock();
AddTaskPush(t) ==
  /\ pc[t] = "push"
  /\ m_pending_tasks' = Append(m_pending_tasks, arg[t])
  /\ arg' = [arg EXCEPT ![t] = NoTask]
  /\ Unlock
  /\ Goto(t, IF t = LoopThread THEN "return" ELSE "wakeup")
  /\ UNCHANGED <<tmp_tasks, flagVars, epollVars, fdVars, waitVars, calls>>

AddTaskWakeup(t) ==
  /\ pc[t] = "wakeup"
  /\ WakeupEffect
  /\ Goto(t, "return")
  /\ UNCHANGED <<arg, m_mutex, taskVars, flagVars, epollVars, interest,
                 waitVars, calls>>

\* The destructor of the ScopeMutex unlocks once more.
AddTaskReturn(t) ==
  /\ pc[t] = "return"
  /\ Unlock
  /\ Goto(t, IF t = LoopThread THEN "dispatch" ELSE "idle")
  /\ UNCHANGED <<arg, taskVars, flagVars, epollVars, fdVars, waitVars, calls>>

-----------------------------------------------------------------------------
(* The calls of the other threads.                                          *)

\* FdEvent::listen(), then addEpollEvent(): as the caller is not the loop's
\* thread, the registration is left to a task.
CallAddEpollEvent(t, fd, event) ==
  /\ pc[t] = "idle" /\ calls < MaxCalls
  /\ interest' = [interest EXCEPT ![fd] = @ \cup {event}]
  /\ arg' = [arg EXCEPT ![t] = T("add", fd)]
  /\ Goto(t, "addTask")
  /\ calls' = calls + 1
  /\ UNCHANGED <<m_mutex, taskVars, flagVars, epollVars, ready, waitVars>>

CallDeleteEpollEvent(t, fd) ==
  /\ pc[t] = "idle" /\ calls < MaxCalls
  /\ arg' = [arg EXCEPT ![t] = T("del", fd)]
  /\ Goto(t, "addTask")
  /\ calls' = calls + 1
  /\ UNCHANGED <<m_mutex, taskVars, flagVars, epollVars, fdVars, waitVars>>

\* stop(): the flag, then wakeup().
CallStop(t) ==
  /\ pc[t] = "idle" /\ calls < MaxCalls
  /\ m_stop_flag' = TRUE
  /\ Goto(t, "stop")
  /\ calls' = calls + 1
  /\ UNCHANGED <<arg, m_mutex, taskVars, m_is_looping, epollVars, fdVars,
                 waitVars>>

StopWakeup(t) ==
  /\ pc[t] = "stop"
  /\ WakeupEffect
  /\ Goto(t, "idle")
  /\ UNCHANGED <<arg, m_mutex, taskVars, flagVars, epollVars, interest,
                 waitVars, calls>>

AddTaskStep(t) ==
  AddTaskLock(t) \/ AddTaskPush(t) \/ AddTaskWakeup(t) \/ AddTaskReturn(t)

Call(t) ==
  \/ \E fd \in Fds, event \in {"IN", "OUT"} : CallAddEpollEvent(t, fd, event)
  \/ \E fd \in Fds : CallDeleteEpollEvent(t, fd)
  \/ CallStop(t)

-----------------------------------------------------------------------------
(* loop().                                                                  *)

\* Mutant: loop() resets m_stop_flag when it begins.
LoopEnterReset ==
  /\ pc[LoopThread] = "idle"
  /\ m_is_looping' = TRUE
  /\ m_stop_flag' = FALSE
  /\ Goto(LoopThread, "check")
  /\ UNCHANGED <<arg, m_mutex, taskVars, epollVars, fdVars, waitVars, calls>>

LoopEnter ==
  /\ pc[LoopThread] = "idle"
  /\ m_is_looping' = TRUE
  /\ Goto(LoopThread, "check")
  /\ UNCHANGED <<arg, m_mutex, taskVars, m_stop_flag, epollVars, fdVars,
                 waitVars, calls>>

\* while (!m_stop_flag)
LoopCheck ==
  /\ pc[LoopThread] = "check"
  /\ Goto(LoopThread, IF m_stop_flag THEN "done" ELSE "lock")
  /\ UNCHANGED <<arg, m_mutex, taskVars, flagVars, epollVars, fdVars,
                 waitVars, calls>>

LoopLock ==
  /\ pc[LoopThread] = "lock"
  /\ Lock(LoopThread)
  /\ Goto(LoopThread, "swap")
  /\ UNCHANGED <<arg, taskVars, flagVars, epollVars, fdVars, waitVars, calls>>

\* Mutant: m_pending_tasks is copied, not swapped out.
LoopCopy ==
  /\ pc[LoopThread] = "swap"
  /\ tmp_tasks' = m_pending_tasks
  /\ Unlock
  /\ Goto(LoopThread, "run")
  /\ UNCHANGED <<arg, m_pending_tasks, flagVars, epollVars, fdVars, waitVars,
                 calls>>

\* m_pending_tasks.swap(tmp_tasks); lock.unlock();
LoopSwap ==
  /\ pc[LoopThread] = "swap"
  /\ tmp_tasks' = m_pending_tasks
  /\ m_pending_tasks' = <<>>
  /\ Unlock
  /\ Goto(LoopThread, "run")
  /\ UNCHANGED <<arg, flagVars, epollVars, fdVars, waitVars, calls>>

\* The next task is `task'; what it does is for the action to say.
NextTask(task) ==
  /\ pc[LoopThread] = "run"
  /\ tmp_tasks # <<>>
  /\ task = Head(tmp_tasks)
  /\ tmp_tasks' = Tail(tmp_tasks)
  /\ UNCHANGED <<pc, arg, m_mutex, m_pending_tasks, m_is_looping, waitVars,
                 calls>>

RunAdd(fd) ==
  /\ NextTask(T("add", fd))
  /\ AddToEpoll(fd, interest[fd])
  /\ UNCHANGED <<m_stop_flag, fdVars>>

RunDelete(fd) ==
  /\ NextTask(T("del", fd))
  /\ DeleteToEpoll(fd)
  /\ UNCHANGED <<m_stop_flag, fdVars>>

\* The read callback of m_wakeup_fd_event reads the eventfd down to zero.
RunWakeupHandler ==
  /\ NextTask(T("in", WakeFd))
  /\ ready' = [ready EXCEPT ![WakeFd] = {}]
  /\ UNCHANGED <<m_stop_flag, epollVars, interest>>

\* Mutant: the read callback returns before it reads.
RunReadHandlerEarlyReturn(fd) ==
  /\ fd # WakeFd
  /\ NextTask(T("in", fd))
  /\ UNCHANGED <<m_stop_flag, epollVars, fdVars>>

\* A read callback takes the input (of a connection; that one whose m_state is not
\* Connected yet returns at once is left out: onAccept's setState is on its way, and
\* epoll reports the input again until then).  Then it has nothing to say, or answers
\* (listen for OUT, addEpollEvent), or gives the fd up (cancle, twice, and
\* deleteEpollEvent), or stops the loop (what an RPC client's closure does).
RunReadHandler(fd) ==
  /\ fd # WakeFd
  /\ NextTask(T("in", fd))
  /\ \/ /\ ready' = [ready EXCEPT ![fd] = @ \ {"IN"}]
        /\ UNCHANGED <<m_stop_flag, epollVars, interest>>
     \/ /\ ready' = [ready EXCEPT ![fd] = @ \ {"IN"}]
        /\ interest' = [interest EXCEPT ![fd] = @ \cup {"OUT"}]
        /\ AddToEpoll(fd, interest'[fd])
        /\ UNCHANGED m_stop_flag
     \/ /\ ready' = [ready EXCEPT ![fd] = @ \ {"IN"}]
        /\ interest' = [interest EXCEPT ![fd] = {}]
        /\ DeleteToEpoll(fd)
        /\ UNCHANGED m_stop_flag
     \/ /\ ready' = [ready EXCEPT ![fd] = @ \ {"IN"}, ![WakeFd] = {"IN"}]
        /\ m_stop_flag' = TRUE
        /\ UNCHANGED <<epollVars, interest>>

\* A write callback writes everything, stops listening for OUT and registers what is
\* left; or the socket does not take it all (EAGAIN), or the connection is not
\* Connected, and nothing changes.
RunWriteHandler(fd) ==
  /\ fd # WakeFd
  /\ NextTask(T("out", fd))
  /\ \/ /\ interest' = [interest EXCEPT ![fd] = @ \ {"OUT"}]
        /\ AddToEpoll(fd, interest'[fd])
     \/ UNCHANGED <<epollVars, interest>>
  /\ UNCHANGED <<m_stop_flag, ready>>

RunTask ==
  \/ \E fd \in AllFds : \/ RunAdd(fd)
                        \/ RunDelete(fd)
                        \/ RunReadHandler(fd)
                        \/ RunWriteHandler(fd)
  \/ RunWakeupHandler

\* Mutant: "if (!tmp_tasks.empty())", epoll_wait after one task.
LoopWaitAfterOne ==
  /\ pc[LoopThread] = "run"
  /\ Goto(LoopThread, "wait")
  /\ UNCHANGED <<arg, m_mutex, taskVars, flagVars, epollVars, fdVars,
                 waitVars, calls>>

\* while (!tmp_tasks.empty()) ends, epoll_wait begins.
LoopWait ==
  /\ pc[LoopThread] = "run"
  /\ tmp_tasks = <<>>
  /\ Goto(LoopThread, "wait")
  /\ UNCHANGED <<arg, m_mutex, taskVars, flagVars, epollVars, fdVars,
                 waitVars, calls>>

\* epoll_wait returns with as many of the ready fds as result_events holds.
EpollReturns ==
  /\ pc[LoopThread] = "wait"
  /\ \E chosen \in SUBSET {fd \in AllFds : Reported(fd) # {}} :
       /\ chosen # {}
       /\ \/ chosen = {fd \in AllFds : Reported(fd) # {}}
          \/ Cardinality(chosen) = MaxEvents
       /\ Cardinality(chosen) <= MaxEvents
       /\ results' = [fd \in AllFds |->
                        IF fd \in chosen THEN Reported(fd) ELSE {}]
  /\ Goto(LoopThread, "dispatch")
  /\ UNCHANGED <<arg, m_mutex, taskVars, flagVars, epollVars, fdVars, current,
                 calls>>

\* Mutant: epoll_wait without a time limit.
EpollNeverTimesOut == FALSE /\ UNCHANGED vars

\* No event for g_epoll_max_timeout milliseconds (or a signal: rt < 0).
EpollTimesOut ==
  /\ pc[LoopThread] = "wait"
  /\ \A fd \in AllFds : Reported(fd) = {}
  /\ Goto(LoopThread, "dispatch")
  /\ UNCHANGED <<arg, m_mutex, taskVars, flagVars, epollVars, fdVars,
                 waitVars, calls>>

\* trigger_event is fd's: the fds come in any order, the events of one fd
\* together.
Dispatching(fd) ==
  /\ pc[LoopThread] = "dispatch"
  /\ results[fd] # {}
  /\ results[current] = {} \/ fd = current
  /\ current' = fd

DispatchHandler(fd, event, op) ==
  /\ Dispatching(fd)
  /\ event \in results[fd]
  /\ event = "OUT" => "IN" \notin results[fd]
  /\ results' = [results EXCEPT ![fd] = @ \ {event}]
  /\ arg' = [arg EXCEPT ![LoopThread] = T(op, fd)]
  /\ Goto(LoopThread, "addTask")
  /\ UNCHANGED <<m_mutex, taskVars, flagVars, epollVars, fdVars, calls>>

\* deleteEpollEvent in the loop's own thread.  No code passes listen() an
\* error callback: there is no handler to add.
DispatchError(fd) ==
  /\ Dispatching(fd)
  /\ results[fd] = {"ERR"}
  /\ results' = [results EXCEPT ![fd] = {}]
  /\ DeleteToEpoll(fd)
  /\ UNCHANGED <<pc, arg, m_mutex, taskVars, flagVars, fdVars, calls>>

Dispatch ==
  \E fd \in AllFds : \/ DispatchHandler(fd, "IN", "in")
                     \/ DispatchHandler(fd, "OUT", "out")
                     \/ DispatchError(fd)

\* The end of the iteration: the ScopeMutex of loop() unlocks once more.
LoopIterate ==
  /\ pc[LoopThread] = "dispatch"
  /\ \A fd \in AllFds : results[fd] = {}
  /\ Unlock
  /\ Goto(LoopThread, "check")
  /\ UNCHANGED <<arg, taskVars, flagVars, epollVars, fdVars, waitVars, calls>>

LoopStep ==
  \/ LoopEnter \/ LoopCheck \/ LoopLock \/ LoopSwap \/ RunTask \/ LoopWait
  \/ EpollReturns \/ EpollTimesOut \/ Dispatch \/ LoopIterate
  \/ AddTaskStep(LoopThread)

-----------------------------------------------------------------------------
(* The world around: input arrives, sockets break, their owner closes them. *)

Arrive(fd, what) ==
  /\ what \notin ready[fd]
  /\ ready' = [ready EXCEPT ![fd] = @ \cup {what}]
  /\ UNCHANGED <<pc, arg, m_mutex, taskVars, flagVars, epollVars, interest,
                 waitVars, calls>>

\* TcpClient closes its socket between two tasks of its own thread, without
\* deleteEpollEvent: epoll forgets the fd, the loop does not.
CloseFd(fd) ==
  /\ pc[LoopThread] = "run"
  /\ fd \in watched
  /\ watched' = watched \ {fd}
  /\ mask' = [mask EXCEPT ![fd] = {}]
  /\ ready' = [ready EXCEPT ![fd] = {}]
  /\ UNCHANGED <<pc, arg, m_mutex, taskVars, flagVars, m_listen_fds, interest,
                 waitVars, calls>>

CallerStep(t) == AddTaskStep(t) \/ StopWakeup(t)

Next ==
  /\ ~Raced
  /\ \/ \E t \in Callers : Call(t) \/ CallerStep(t)
     \/ LoopStep
     \/ \E fd \in Fds, what \in {"IN", "ERR"} : Arrive(fd, what)
     \/ \E fd \in MayClose : CloseFd(fd)

\* Every thread goes on with what it has begun, and the loop's thread enters
\* loop(); nobody has to call anything and nothing has to arrive.  A thread
\* that waits for m_mutex gets it if it is free again and again: the loop
\* takes it for an instant and then sleeps in epoll_wait.
Fairness ==
  /\ WF_vars(~Raced /\ LoopStep)
  /\ \A t \in Callers : /\ WF_vars(~Raced /\ CallerStep(t))
                       /\ SF_vars(~Raced /\ AddTaskLock(t))

Spec == Init /\ [][Next]_vars

FairSpec == Spec /\ Fairness

-----------------------------------------------------------------------------
(* Properties.                                                              *)

TypeOK ==
  /\ pc \in [Threads -> CallerPC \cup LoopPC]
  /\ pc[LoopThread] \in LoopPC
  /\ \A t \in Callers : pc[t] \in CallerPC
  /\ arg \in [Threads -> Task \cup {NoTask}]
  /\ m_mutex \in Threads \cup {NoThread}
  /\ m_pending_tasks \in Seq(Task)
  /\ tmp_tasks \in Seq(Task)
  /\ m_stop_flag \in BOOLEAN
  /\ m_is_looping \in BOOLEAN
  /\ m_listen_fds \in SUBSET AllFds
  /\ watched \in SUBSET AllFds
  /\ mask \in [AllFds -> SUBSET Events]
  /\ interest \in [AllFds -> SUBSET Events]
  /\ ready \in [AllFds -> SUBSET Events]
  /\ results \in [AllFds -> SUBSET Events]
  /\ current \in AllFds
  /\ calls \in Nat

\* The queue handed over by swap() under the mutex is one FIFO queue: no task
\* is lost, duplicated or overtaken between push and cb(), whichever threads
\* push while the loop swaps, runs handlers that change the loop, or waits.
Executor == INSTANCE FifoExecutor WITH queue <- tmp_tasks \o m_pending_tasks

ExecutorSpec == Executor!Spec

\* epoll never watches an fd that the loop does not list, so that the early
\* return of deleteEpollEvent never leaves a registration, with the pointer to
\* its FdEvent, behind.  (The converse fails: see CloseFd.)
WatchedIsListed == watched \subseteq m_listen_fds

\* A handler is never queued twice at the same time, although epoll is
\* level-triggered and reports an fd as long as its handler has not run:
\* the tasks of one epoll_wait run before the next one.
Waiting == tmp_tasks \o m_pending_tasks

Once(queue) ==
  \A i, j \in 1 .. Len(queue) :
    queue[i] = queue[j] /\ queue[i] \in Handler => i = j

HandlersQueuedOnce == Once(Waiting)

\* Why that is so: handlers enter m_pending_tasks only while events are
\* dispatched, each one for an event that is then no longer in the results,
\* and all of them have been swapped out and run when epoll_wait is next called.
EventOf(task) == IF task.op = "in" THEN "IN" ELSE "OUT"

Queued(task, queue) == \E i \in 1 .. Len(queue) : queue[i] = task

Dispatched == pc[LoopThread] \in {"dispatch", "addTask", "push", "return"}

HandlersHavePhases ==
  /\ pc[LoopThread] # "run" => tmp_tasks = <<>>
  /\ pc[LoopThread] \in {"run", "wait"} =>
       \A task \in Handler : ~Queued(task, m_pending_tasks)
  /\ Dispatched =>
       \A task \in Handler :
         Queued(task, m_pending_tasks) => EventOf(task) \notin results[task.fd]
  /\ pc[LoopThread] \in {"addTask", "push"} =>
       /\ arg[LoopThread] \in Handler
       /\ ~Queued(arg[LoopThread], m_pending_tasks)
       /\ EventOf(arg[LoopThread]) \notin results[arg[LoopThread].fd]
  /\ \A t \in Callers : pc[t] \in {"addTask", "push"} =>
       arg[t] \in Task \ Handler
  /\ Once(tmp_tasks)
  /\ Once(m_pending_tasks)

\* The loop is not asleep while a call of another thread, whose wakeup() is
\* behind it, waits to be executed.
NoLostWakeup ==
  /\ pc[LoopThread] = "wait"
  /\ m_pending_tasks # <<>>
  /\ \A t \in Callers : pc[t] # "wakeup"
  => "IN" \in ready[WakeFd]

\* stop() ends the loop, whoever calls it and whatever the loop is doing,
\* even when the wakeup is lost: epoll_wait has a time limit.
StopEndsLoop == m_stop_flag ~> (pc[LoopThread] = "done" \/ Raced)

\* The task of a call is executed before long, unless the loop ends.
CallsTakeEffect ==
  \A task \in [op : {"add", "del"}, fd : Fds] :
    (\E t \in Callers : arg[t] = task)
      ~> \/ Waiting = <<>> /\ \A t \in Callers : arg[t] # task
         \/ pc[LoopThread] = "done"
         \/ Raced

\* Input on an fd that epoll watches reaches its handler, unless the fd is
\* given up or the loop ends.
InputIsHandled ==
  \A fd \in Fds :
    (fd \in watched /\ "IN" \in mask[fd] \cap ready[fd])
      ~> \/ ~("IN" \in ready[fd] /\ fd \in watched)
         \/ pc[LoopThread] = "done"
         \/ Raced

=============================================================================
