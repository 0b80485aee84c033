-------------------------------- MODULE Timer --------------------------------
(***************************************************************************)
(* rocket::Timer (net/timer.cc): the alarms of a loop.  The timerfd is set *)
(* for the earliest event of m_pending_events; when it expires, the loop   *)
(* queues onTimer, which runs the callbacks of the events that are due.    *)
(*                                                                         *)
(* Time is relative: an event and the timerfd have so much left, and Tick  *)
(* takes one from each.  m_mutex is unlocked twice, as in EventLoop, and a *)
(* behaviour ends when two threads are inside (Raced).  In this repository *)
(* only the loop's own thread calls a Timer whose loop runs, and nobody    *)
(* calls deleteTimerEvent; the mutex is there for others, and `callers'    *)
(* says whether there are any.                                             *)
(***************************************************************************)
EXTENDS Integers, FiniteSets, SequencesExt

CONSTANTS
  Loop,        \* the thread of the loop
  Others,      \* threads that may call the timer of another's loop
  NoThread,    \* "m_mutex is free"
  Events,      \* TimerEvents
  NoEvent,
  Off,         \* an alarm that is not set
  Repeated,    \* the events that are made with is_repeated
  Intervals,   \* m_interval of an event, in units of time
  Retry,       \* BOUND: 100 ms, in units of time
  MaxCalls,    \* BOUND: how many calls there are
  MaxLate      \* BOUND: an event that is late by more counts as late by this

ASSUME TimerAssumption ==
  /\ Loop \notin Others /\ NoThread \notin Others \cup {Loop}
  /\ NoEvent \notin Events /\ IsFiniteSet(Events) /\ Repeated \subseteq Events
  /\ Intervals \subseteq Nat
  /\ Retry \in Nat \ {0} /\ MaxLate \in Nat \ {0} /\ MaxCalls \in Nat /\ Off \notin Int

Threads == Others \cup {Loop}

VARIABLES
  callers,           \* the threads that use this timer
  pc,                \* pc[t]: where thread t is
  arg,               \* arg[t]: the event of its call, or NoEvent
  back,              \* back[t]: where its call of addTimerEvent returns to
  first,             \* first[t]: the first event of resetArriveTime's copy
  event,             \* event[e]: a TimerEvent
  m_mutex,           \* the thread that locked it last, or NoThread
  m_pending_events,  \* in the order of their keys
  timerfd,           \* what is left of it, 0 when it is disarmed
  expired,           \* the timerfd is readable
  queued,            \* onTimer is a task of the loop
  due,               \* the events whose time had come when onTimer read `now'
  tmps,              \* the repeated events of tmps, still to be added again
  tasks,             \* the events whose callbacks onTimer has to run
  calls              \* how many calls there have been

callVars == <<arg, back, first>>
fdVars   == <<timerfd, expired, queued>>
ringVars == <<due, tmps, tasks>>
vars == <<callers, pc, callVars, event, m_mutex, m_pending_events, fdVars, ringVars, calls>>

Labels == {"idle", "add", "emplace", "reset", "copy", "settime", "resetEnd", "addEnd",
           "delete", "erase", "deleteEnd", "onTimer", "take", "readd", "tasks",
           "callback"}

Event == [left : Int, interval : Intervals, cancled : BOOLEAN]

\* No event has been made; what its interval is, and whether it is repeated, are
\* arguments of its constructor.
Init ==
  /\ callers \in {{Loop}, Threads}
  /\ pc = [t \in Threads |-> "idle"]
  /\ arg = [t \in Threads |-> NoEvent]
  /\ back = [t \in Threads |-> "idle"]
  /\ first = [t \in Threads |-> NoEvent]
  /\ event \in [Events -> [left : {0}, interval : Intervals, cancled : {TRUE}]]
  /\ m_mutex = NoThread
  /\ m_pending_events = <<>>
  /\ timerfd = 0 /\ expired = FALSE /\ queued = FALSE
  /\ due = {} /\ tmps = <<>> /\ tasks = <<>>
  /\ calls = 0

-----------------------------------------------------------------------------
\* Helpers.

Goto(t, label) == pc' = [pc EXCEPT ![t] = label]

\* ScopeMutex's constructor, and its unlock() or destructor.
Lock(t) == m_mutex = NoThread /\ m_mutex' = t
Unlock  == m_mutex' = NoThread

Left(e) == event[e].left

\* TimerEvent::resetArriveTime.
resetArriveTime(e) == [event EXCEPT ![e].left = event[e].interval]

\* m_pending_events.emplace: behind the events with the same key.
Emplace(e) ==
  LET earlier == {k \in DOMAIN m_pending_events : Left(m_pending_events[k]) <= Left(e)}
  IN  InsertAt(m_pending_events, Cardinality(earlier) + 1, e)

\* The key of an event is its arrive time: erase finds it, or there is none.
Erase(e) ==
  IF e \in Range(m_pending_events)
  THEN RemoveAt(m_pending_events,
                CHOOSE k \in DOMAIN m_pending_events : m_pending_events[k] = e)
  ELSE m_pending_events

\* Nobody holds the event's shared_ptr, apart from its maker.
Free(e) ==
  /\ e \notin Range(m_pending_events) \cup Range(tmps) \cup Range(tasks) \cup due
  /\ \A t \in Threads : arg[t] # e /\ first[t] # e

\* Two threads are at, or inside, an access to m_pending_events, or one reads
\* an arrive time that the loop is about to set.
InMap(t) == pc[t] \in {"emplace", "copy", "erase", "take"}

Raced ==
  \/ \E t, u \in Threads : t # u /\ InMap(t) /\ InMap(u)
  \/ /\ pc[Loop] = "readd" /\ tmps # <<>>
     /\ \E t \in Others : \/ pc[t] = "erase" /\ arg[t] = Head(tmps)
                          \/ pc[t] = "settime" /\ first[t] = Head(tmps)

-----------------------------------------------------------------------------
(* The calls.  The loop makes them in a task, or in the callback of an      *)
(* event.                                                                   *)

MayCall(t) ==
  /\ calls < MaxCalls /\ calls' = calls + 1
  /\ t \in callers /\ pc[t] \in {"idle", "callback"}

\* A new TimerEvent, and addTimerEvent of it.
CallAddTimerEvent(t, e) ==
  /\ MayCall(t) /\ Free(e)
  /\ event' = [resetArriveTime(e) EXCEPT ![e].cancled = FALSE]
  /\ arg' = [arg EXCEPT ![t] = e]
  /\ back' = [back EXCEPT ![t] = pc[t]]
  /\ Goto(t, "add")
  /\ UNCHANGED <<callers, first, m_mutex, m_pending_events, fdVars, ringVars>>

\* setCancled(true) alone, in the loop's thread: what an RPC does with its
\* timer.
CallSetCancled(e) ==
  /\ MayCall(Loop)
  /\ ~event[e].cancled
  /\ event' = [event EXCEPT ![e].cancled = TRUE]
  /\ UNCHANGED <<callers, pc, callVars, m_mutex, m_pending_events, fdVars, ringVars>>

\* deleteTimerEvent: setCancled(true) comes before the lock.
CallDeleteTimerEvent(t, e) ==
  /\ MayCall(t) /\ ~Free(e)
  /\ event' = [event EXCEPT ![e].cancled = TRUE]
  /\ arg' = [arg EXCEPT ![t] = e]
  /\ back' = [back EXCEPT ![t] = pc[t]]
  /\ Goto(t, "delete")
  /\ UNCHANGED <<callers, first, m_mutex, m_pending_events, fdVars, ringVars>>

Locking(t, from, to) ==
  /\ pc[t] = from
  /\ Lock(t)
  /\ Goto(t, to)
  /\ UNCHANGED <<callers, calls, callVars, event, m_pending_events, fdVars, ringVars>>

AddLock(t)    == Locking(t, "add", "emplace")
ResetLock(t)  == Locking(t, "reset", "copy")
DeleteLock(t) == Locking(t, "delete", "erase")

\* Mutant: the timerfd is set for the first event only.
EarliestWhenEmpty(e) == m_pending_events = <<>>

\* is_reset_timerfd.
Earliest(e) ==
  m_pending_events = <<>> \/ Left(Head(m_pending_events)) > Left(e)

\* addTimerEvent, up to lock.unlock().
AddEmplace(t) ==
  /\ pc[t] = "emplace"
  /\ m_pending_events' = Emplace(arg[t])
  /\ Unlock
  /\ Goto(t, IF Earliest(arg[t]) THEN "reset" ELSE "addEnd")
  /\ UNCHANGED <<callers, calls, callVars, event, fdVars, ringVars>>

\* The return of addTimerEvent and deleteTimerEvent: the destructor unlocks
\* once more.
Return(t) ==
  /\ pc[t] \in {"addEnd", "deleteEnd"}
  /\ Unlock
  /\ arg' = [arg EXCEPT ![t] = NoEvent]
  /\ Goto(t, back[t])
  /\ back' = [back EXCEPT ![t] = "idle"]
  /\ UNCHANGED <<callers, calls, first, event, m_pending_events, fdVars, ringVars>>

\* auto tmp = m_pending_events; lock.unlock();
ResetCopy(t) ==
  /\ pc[t] = "copy"
  /\ Unlock
  /\ IF m_pending_events = <<>>
     THEN Goto(t, "resetEnd") /\ UNCHANGED first
     ELSE /\ first' = [first EXCEPT ![t] = Head(m_pending_events)]
          /\ Goto(t, "settime")
  /\ UNCHANGED <<callers, calls, arg, back, event, m_pending_events, fdVars, ringVars>>

\* Mutant: the timerfd is set to zero for an event that is late.
IntervalOrZero(e) == Max({Left(e), 0})

\* Mutant: "getArriveTime() - now", late or not.
IntervalUnchecked(e) == Left(e)

Interval(e) == IF Left(e) > 0 THEN Left(e) ELSE Retry

\* timerfd_settime: what has not been read of the last expiration is gone.
ResetSettime(t) ==
  /\ pc[t] = "settime"
  /\ timerfd' = Interval(first[t])
  /\ expired' = FALSE
  /\ first' = [first EXCEPT ![t] = NoEvent]
  /\ Goto(t, "resetEnd")
  /\ UNCHANGED <<callers, calls, arg, back, event, m_mutex, m_pending_events, queued, ringVars>>

\* resetArriveTime is called by addTimerEvent or by onTimer.
ResetEnd(t) ==
  /\ pc[t] = "resetEnd"
  /\ Unlock
  /\ Goto(t, IF arg[t] # NoEvent THEN "addEnd" ELSE "tasks")
  /\ UNCHANGED <<callers, calls, callVars, event, m_pending_events, fdVars, ringVars>>

DeleteErase(t) ==
  /\ pc[t] = "erase"
  /\ m_pending_events' = Erase(arg[t])
  /\ Unlock
  /\ Goto(t, "deleteEnd")
  /\ UNCHANGED <<callers, calls, callVars, event, fdVars, ringVars>>

CallStep(t) ==
  \/ AddLock(t) \/ AddEmplace(t) \/ Return(t)
  \/ ResetLock(t) \/ ResetCopy(t) \/ ResetSettime(t) \/ ResetEnd(t)
  \/ DeleteLock(t) \/ DeleteErase(t)

-----------------------------------------------------------------------------
(* The loop: onTimer, and other tasks before it.                            *)

\* epoll_wait finds the timerfd readable.
Poll ==
  /\ pc[Loop] = "idle"
  /\ expired /\ ~queued
  /\ queued' = TRUE
  /\ UNCHANGED <<callers, calls, pc, callVars, event, m_mutex, m_pending_events, timerfd, expired,
                 ringVars>>

\* The timerfd is read, and the time.  (An event that is made later is due
\* later, even when it is within the same millisecond.)
OnTimer ==
  /\ pc[Loop] = "idle"
  /\ queued
  /\ queued' = FALSE /\ expired' = FALSE
  /\ due' = {e \in Events : ~Free(e) /\ Left(e) <= 0}
  /\ Goto(Loop, "onTimer")
  /\ UNCHANGED <<callers, calls, callVars, event, m_mutex, m_pending_events, timerfd, tmps, tasks>>

OnTimerLock == Locking(Loop, "onTimer", "take")

\* The loops of onTimer that copy some of the events, in their order.
Keep(events, chosen) ==
  LET kept[k \in 0 .. Len(events)] ==
        IF k = 0 THEN <<>>
        ELSE IF events[k] \in chosen THEN Append(kept[k - 1], events[k]) ELSE kept[k - 1]
  IN  kept[Len(events)]

\* Mutant: isCancled is not asked.
CancledToo(events) == events

\* The events that onTimer keeps of those that are due.
NotCancled(events) == Keep(events, {e \in Events : ~event[e].cancled})

\* The due events at the front leave m_pending_events; lock.unlock().
TakeDue ==
  /\ pc[Loop] = "take"
  /\ \E n \in 0 .. Len(m_pending_events) :
       /\ \A k \in 1 .. n : m_pending_events[k] \in due
       /\ n < Len(m_pending_events) => m_pending_events[n + 1] \notin due
       /\ m_pending_events' = SubSeq(m_pending_events, n + 1, Len(m_pending_events))
       /\ tasks' = NotCancled(SubSeq(m_pending_events, 1, n))
  /\ tmps' = Keep(tasks', Repeated)
  /\ due' = {}
  /\ Unlock
  /\ Goto(Loop, "readd")
  /\ UNCHANGED <<callers, calls, callVars, event, fdVars>>

\* A repeated event, cancelled or not by now, gets a new time and is added again.
Readd(e) ==
  /\ pc[Loop] = "readd" /\ tmps # <<>>
  /\ e = Head(tmps)
  /\ event' = resetArriveTime(e)
  /\ arg' = [arg EXCEPT ![Loop] = e]
  /\ back' = [back EXCEPT ![Loop] = "readd"]
  /\ tmps' = Tail(tmps)
  /\ Goto(Loop, "add")
  /\ UNCHANGED <<callers, calls, first, m_mutex, m_pending_events, fdVars, due, tasks>>

\* Mutant: onTimer does not set the timerfd again.
NoReset ==
  /\ pc[Loop] = "readd" /\ tmps = <<>>
  /\ Goto(Loop, "tasks")
  /\ UNCHANGED <<callers, calls, callVars, event, m_mutex, m_pending_events, fdVars, ringVars>>

Reset ==
  /\ pc[Loop] = "readd" /\ tmps = <<>>
  /\ Goto(Loop, "reset")
  /\ UNCHANGED <<callers, calls, callVars, event, m_mutex, m_pending_events, fdVars, ringVars>>

\* A callback, which may have been cancelled since.
Ring(e) ==
  /\ pc[Loop] = "tasks" /\ tasks # <<>>
  /\ e = Head(tasks)
  /\ tasks' = Tail(tasks)
  /\ Goto(Loop, "callback")
  /\ UNCHANGED <<callers, calls, callVars, event, m_mutex, m_pending_events, fdVars, due, tmps>>

CallbackEnds ==
  /\ pc[Loop] = "callback"
  /\ Goto(Loop, "tasks")
  /\ UNCHANGED <<callers, calls, callVars, event, m_mutex, m_pending_events, fdVars, ringVars>>

\* The end of onTimer: the destructor unlocks once more.
OnTimerEnds ==
  /\ pc[Loop] = "tasks" /\ tasks = <<>>
  /\ Unlock
  /\ Goto(Loop, "idle")
  /\ UNCHANGED <<callers, calls, callVars, event, m_pending_events, fdVars, ringVars>>

LoopStep ==
  \/ CallStep(Loop)
  \/ Poll \/ OnTimer \/ OnTimerLock \/ TakeDue \/ Reset
  \/ \E e \in Events : Readd(e) \/ Ring(e)
  \/ CallbackEnds \/ OnTimerEnds

-----------------------------------------------------------------------------

\* Time passes, for the events that there are.
Tick ==
  /\ event' = [e \in Events |->
                 IF Free(e) THEN event[e]
                            ELSE [event[e] EXCEPT !.left = Max({@ - 1, -MaxLate})]]
  /\ timerfd' = Max({timerfd - 1, 0})
  /\ expired' = (expired \/ timerfd = 1)
  /\ UNCHANGED <<callers, calls, pc, callVars, m_mutex, m_pending_events, queued, ringVars>>

Call(t) ==
  \/ \E e \in Events : CallAddTimerEvent(t, e) \/ CallDeleteTimerEvent(t, e)
  \/ t = Loop /\ \E e \in Events : CallSetCancled(e)

Next ==
  /\ ~Raced
  /\ \/ \E t \in Threads : Call(t)
     \/ \E t \in Others : CallStep(t)
     \/ LoopStep
     \/ Tick

Spec == Init /\ [][Next]_vars

\* Time passes, and every thread goes on with what it has begun.
Fairness ==
  /\ WF_vars(~Raced /\ Tick)
  /\ WF_vars(~Raced /\ LoopStep)
  /\ \A t \in Others : /\ WF_vars(~Raced /\ CallStep(t))
                      /\ SF_vars(~Raced /\ (AddLock(t) \/ ResetLock(t) \/ DeleteLock(t)))

FairSpec == Spec /\ Fairness

-----------------------------------------------------------------------------
(* Properties.                                                              *)

TypeOK ==
  /\ callers \in {{Loop}, Threads}
  /\ pc \in [Threads -> Labels]
  /\ arg \in [Threads -> Events \cup {NoEvent}]
  /\ back \in [Threads -> {"idle", "callback", "readd"}]
  /\ first \in [Threads -> Events \cup {NoEvent}]
  /\ event \in [Events -> Event]
  /\ m_mutex \in Threads \cup {NoThread}
  /\ m_pending_events \in Seq(Events)
  /\ timerfd \in Nat
  /\ expired \in BOOLEAN /\ queued \in BOOLEAN
  /\ due \subseteq Events
  /\ tmps \in Seq(Events) /\ tasks \in Seq(Events)
  /\ calls \in Nat

Quiet == \A t \in Threads : pc[t] = "idle"

Armed == expired \/ queued \/ timerfd > 0

\* Whoever sets the timerfd last, and from however old a copy: while events wait
\* it is never left disarmed.
NeverDisarmed == Quiet /\ m_pending_events # <<>> => Armed

\* With a single caller it goes off in time for the first event, or after Retry.
ArmedInTime ==
  (callers = {Loop} /\ Quiet /\ m_pending_events # <<>>)
  => \/ expired \/ queued
     \/ timerfd \in 1 .. Max({Left(Head(m_pending_events)), Retry})

\* The events that will ring: in the map, or on the way into it.
IsSet(e) ==
  /\ ~event[e].cancled
  /\ \/ e \in Range(m_pending_events)
     \/ \E t \in Threads : pc[t] \in {"add", "emplace"} /\ arg[t] = e

Alarms == INSTANCE AlarmClock WITH
  left <- [e \in Events |-> IF IsSet(e) THEN Left(e) ELSE Off],
  owed <- Range(tasks)

AlarmsSpec == Alarms!Spec

\* Every event that is set rings, unless it is taken back.
EventsFire ==
  \A e \in Events : IsSet(e) ~> e \in Range(tasks) \/ event[e].cancled \/ Raced

=============================================================================
