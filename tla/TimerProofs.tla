----------------------------- MODULE TimerProofs ----------------------------
(***************************************************************************)
(* What is proved of Timer, for any threads, events, intervals and bounds: *)
(* its types; that an alarm never waits for a timerfd that is disarmed;    *)
(* that the timer is an AlarmClock, so that every alarm rings once and not *)
(* too early; and, for a single caller, that the timerfd goes off in time. *)
(*                                                                         *)
(* The invariants are in four parts.  Inv has what the timerfd needs: a    *)
(* thread that is going to set it.  Once has where each event is, Held and *)
(* Times what onTimer holds; with them every step maps to AlarmClock.      *)
(* Sorted and Single have the order of the map and the single caller.      *)
(***************************************************************************)
EXTENDS Timer, SequenceLemmas, FiniteSetTheorems, TLAPS

USE DEF Threads

-----------------------------------------------------------------------------
(* The invariant.                                                           *)

ThreadsOK ==
  /\ pc \in [Threads -> Labels]
  /\ arg \in [Threads -> Events \cup {NoEvent}]
  /\ back \in [Threads -> {"idle", "callback", "readd"}]
  /\ first \in [Threads -> Events \cup {NoEvent}]

DataOK ==
  /\ event \in [Events -> Event]
  /\ m_pending_events \in Seq(Events)
  /\ timerfd \in Nat
  /\ expired \in BOOLEAN /\ queued \in BOOLEAN

Types == ThreadsOK /\ DataOK

AddLabels == {"add", "emplace", "reset", "copy", "settime", "resetEnd", "addEnd"}

\* A thread has the event that it works with; onTimer has one while it adds that
\* again.
CallOK(label, one, copied, return) ==
  /\ label \in {"add", "emplace"} => one \in Events
  /\ label = "settime" => copied \in Events
  /\ return = "readd" => one \in Events /\ label \in AddLabels

Called == \A t \in Threads : CallOK(pc[t], arg[t], first[t], back[t])

\* A thread that is going to set the timerfd: it is in resetArriveTime or before
\* it in onTimer.
WillSet(label, return) ==
  \/ label \in {"reset", "copy", "settime", "onTimer", "take", "readd"}
  \/ return = "readd"

Setting == \E t \in Threads : WillSet(pc[t], back[t])

Watched == m_pending_events # <<>> => Armed \/ Setting

Inv == Types /\ Called /\ Watched

\* Thread t goes on; and it sets the timerfd if it was to, or if the map needs it.
Goes(t, label, one, copied, return) ==
  /\ label \in Labels /\ one \in Events \cup {NoEvent} /\ copied \in Events \cup {NoEvent}
  /\ return \in {"idle", "callback", "readd"}
  /\ pc' = [pc EXCEPT ![t] = label] /\ arg' = [arg EXCEPT ![t] = one]
  /\ first' = [first EXCEPT ![t] = copied] /\ back' = [back EXCEPT ![t] = return]
  /\ CallOK(label, one, copied, return)

Sees(t, label, return) ==
  m_pending_events' # <<>> =>
    \/ Armed' \/ WillSet(label, return)
    \/ m_pending_events # <<>> /\ (Armed => Armed') /\ ~WillSet(pc[t], back[t])

-----------------------------------------------------------------------------
(* Numbers, sequences and records.                                          *)

\* The maximum of two numbers.
LEMMA MaxOfTwo ==
  ASSUME NEW a \in Int, NEW b \in Int
  PROVE  Max({a, b}) = IF a >= b THEN a ELSE b
<1> DEFINE m == IF a >= b THEN a ELSE b
<1>1. m \in {a, b} /\ \A y \in {a, b} : m >= y
  OBVIOUS
<1>2. \A x \in {a, b} : (\A y \in {a, b} : x >= y) => x = m
  OBVIOUS
<1> QED
  BY <1>1, <1>2 DEF Max

\* resetArriveTime gives an event another time, and a new one is not cancelled.
LEMMA EventType ==
  ASSUME Types, NEW e \in Events
  PROVE  /\ resetArriveTime(e) \in [Events -> Event]
         /\ [resetArriveTime(e) EXCEPT ![e].cancled = FALSE] \in [Events -> Event]
         /\ [event EXCEPT ![e].cancled = TRUE] \in [Events -> Event]
<1>1. event[e] \in Event /\ event[e].interval \in Int
  <2>1. event[e] \in Event
    BY DEF Types, DataOK
  <2>2. event[e].interval \in Intervals
    BY <2>1 DEF Event
  <2>3. Intervals \subseteq Nat
    BY TimerAssumption
  <2>4. event[e].interval \in Nat
    BY <2>2, <2>3
  <2> QED
    BY <2>1, <2>4
<1> QED
  BY <1>1 DEF Types, DataOK, Event, resetArriveTime

\* emplace puts an event behind those that are earlier, or as early.
LEMMA EmplacePlace ==
  ASSUME Types, NEW e \in Events
  PROVE  \E i \in 1 .. Len(m_pending_events) + 1 : Emplace(e) = InsertAt(m_pending_events, i, e)
<1> DEFINE earlier == {k \in DOMAIN m_pending_events : Left(m_pending_events[k]) <= Left(e)}
           n       == Len(m_pending_events)
<1>1. m_pending_events \in Seq(Events) /\ n \in Nat /\ DOMAIN m_pending_events = 1 .. n
  BY DEF Types, DataOK
<1>2. IsFiniteSet(1 .. n) /\ Cardinality(1 .. n) = n
  BY <1>1, FS_Interval
<1>3. IsFiniteSet(earlier) /\ Cardinality(earlier) <= n /\ Cardinality(earlier) \in Nat
  <2>1. earlier \subseteq 1 .. n
    BY <1>1
  <2> HIDE DEF earlier, n
  <2> QED
    BY <1>2, <2>1, FS_Subset, FS_CardinalityType
<1> HIDE DEF earlier
<1>4. Cardinality(earlier) + 1 \in 1 .. n + 1
  BY <1>1, <1>3
<1> QED
  BY <1>4 DEF Emplace, earlier

\* It adds that event, and no other.
LEMMA EmplaceType ==
  ASSUME Types, NEW e \in Events
  PROVE  /\ Emplace(e) \in Seq(Events)
         /\ Range(Emplace(e)) = Range(m_pending_events) \cup {e}
         /\ IsInjective(m_pending_events) /\ e \notin Range(m_pending_events)
            => IsInjective(Emplace(e))
<1>1. m_pending_events \in Seq(Events)
  BY DEF Types, DataOK
<1>2. PICK i \in 1 .. Len(m_pending_events) + 1 : Emplace(e) = InsertAt(m_pending_events, i, e)
  BY EmplacePlace
<1> QED
  BY <1>1, <1>2, InsertOnce

\* erase removes an event, if it is there.
LEMMA ErasePlace ==
  ASSUME Types, NEW e
  PROVE  \/ e \notin Range(m_pending_events) /\ Erase(e) = m_pending_events
         \/ \E i \in 1 .. Len(m_pending_events) :
              m_pending_events[i] = e /\ Erase(e) = RemoveAt(m_pending_events, i)
<1>1. m_pending_events \in Seq(Events) /\ DOMAIN m_pending_events = 1 .. Len(m_pending_events)
  BY DEF Types, DataOK
<1>2. CASE e \in Range(m_pending_events)
  <2>1. \E k \in DOMAIN m_pending_events : m_pending_events[k] = e
    BY <1>2 DEF Range
  <2> QED
    BY <1>1, <1>2, <2>1 DEF Erase
<1> QED
  BY <1>2 DEF Erase

\* It removes no other.
LEMMA EraseType ==
  ASSUME Types, NEW e
  PROVE  /\ Erase(e) \in Seq(Events)
         /\ Range(Erase(e)) \subseteq Range(m_pending_events)
         /\ \A d \in Range(m_pending_events) : d # e => d \in Range(Erase(e))
         /\ IsInjective(m_pending_events) => IsInjective(Erase(e))
         /\ m_pending_events = <<>> => Erase(e) = <<>>
<1>1. m_pending_events \in Seq(Events)
  BY DEF Types, DataOK
<1>2. CASE Erase(e) = m_pending_events
  BY <1>1, <1>2
<1>3. CASE Erase(e) # m_pending_events
  <2>1. PICK i \in 1 .. Len(m_pending_events) :
          m_pending_events[i] = e /\ Erase(e) = RemoveAt(m_pending_events, i)
    BY <1>3, ErasePlace
  <2>2. m_pending_events # <<>>
    BY <1>1
  <2> QED
    BY <1>1, <2>1, <2>2, RemoveOnce
<1> QED
  BY <1>2, <1>3

\* A step that leaves the map and the timerfd alone, and lets one thread go on, keeps
\* the invariant if that has its event, and still sets the timerfd if it was to.
LEMMA OneThread ==
  ASSUME Inv, NEW t \in Threads, NEW label, NEW one, NEW copied, NEW return,
         Goes(t, label, one, copied, return), Sees(t, label, return), DataOK'
  PROVE  Inv'
<1> USE DEF Goes
<1>1. Types'
  <2>1. ThreadsOK'
    BY DEF Inv, Types, ThreadsOK
  <2> QED
    BY <2>1 DEF Types
<1>2. Called'
  <2> SUFFICES ASSUME NEW u \in Threads
               PROVE  CallOK(pc'[u], arg'[u], first'[u], back'[u])
    BY DEF Called, CallOK
  <2>1. CASE u = t
    <3>1. pc'[u] = label /\ arg'[u] = one /\ first'[u] = copied /\ back'[u] = return
      BY <2>1 DEF Inv, Types, ThreadsOK
    <3> QED
      BY <3>1
  <2>2. CASE u # t
    <3>1. pc'[u] = pc[u] /\ arg'[u] = arg[u] /\ first'[u] = first[u] /\ back'[u] = back[u]
      BY <2>2 DEF Inv, Types, ThreadsOK
    <3> QED
      BY <3>1 DEF Inv, Called
  <2> QED
    BY <2>1, <2>2
<1>3. Watched'
  <2> SUFFICES ASSUME m_pending_events' # <<>>, ~Armed'
               PROVE  \E u \in Threads : WillSet(pc'[u], back'[u])
    BY DEF Watched, Setting, WillSet
  <2>1. CASE WillSet(label, return)
    <3>1. pc'[t] = label /\ back'[t] = return
      BY DEF Inv, Types, ThreadsOK
    <3> QED
      BY <2>1, <3>1
  <2>2. CASE ~WillSet(label, return)
    <3>1. m_pending_events # <<>> /\ ~Armed /\ ~WillSet(pc[t], back[t])
      BY <2>2 DEF Sees
    <3>2. PICK u \in Threads : WillSet(pc[u], back[u])
      BY <3>1 DEF Inv, Watched, Setting
    <3>3. pc'[u] = pc[u] /\ back'[u] = back[u]
      BY <3>1, <3>2 DEF Inv, Types, ThreadsOK
    <3> QED
      BY <3>2, <3>3
  <2> QED
    BY <2>1, <2>2
<1> QED
  BY <1>1, <1>2, <1>3 DEF Inv

\* What one thread has, for the lemma above.
LEMMA ThreadFacts ==
  ASSUME Inv, NEW t \in Threads
  PROVE  /\ pc[t] \in Labels /\ arg[t] \in Events \cup {NoEvent}
         /\ first[t] \in Events \cup {NoEvent} /\ back[t] \in {"idle", "callback", "readd"}
         /\ CallOK(pc[t], arg[t], first[t], back[t])
         /\ pc = [pc EXCEPT ![t] = pc[t]] /\ arg = [arg EXCEPT ![t] = arg[t]]
         /\ first = [first EXCEPT ![t] = first[t]] /\ back = [back EXCEPT ![t] = back[t]]
BY DEF Inv, Types, ThreadsOK, Called

-----------------------------------------------------------------------------
(* The steps.                                                               *)

\* A call begins: it is not one of onTimer's.
LEMMA CallInv ==
  ASSUME Inv, NEW t \in Threads, Call(t)
  PROVE  Inv'
<1>1. Types
  BY DEF Inv
<1>2. ASSUME NEW e \in Events, CallAddTimerEvent(t, e) \/ CallDeleteTimerEvent(t, e)
      PROVE  Inv'
  <2>1. PICK label \in {"add", "delete"} : pc' = [pc EXCEPT ![t] = label]
    BY <1>2 DEF CallAddTimerEvent, CallDeleteTimerEvent, Goto
  <2>2. /\ arg' = [arg EXCEPT ![t] = e] /\ back' = [back EXCEPT ![t] = pc[t]]
        /\ pc[t] \in {"idle", "callback"}
        /\ UNCHANGED <<first, m_pending_events, timerfd, expired, queued>>
    BY <1>2 DEF CallAddTimerEvent, CallDeleteTimerEvent, MayCall, fdVars
  <2>3. event' \in [Events -> Event]
    BY <1>1, <1>2, EventType, ZenonT(40) DEF CallAddTimerEvent, CallDeleteTimerEvent
  <2>4. back[t] # "readd"
    BY <2>2, ThreadFacts DEF CallOK, AddLabels
  <2>5. CallOK(label, e, first[t], pc[t])
    BY <2>1, <2>2 DEF CallOK
  <2>6. Armed' = Armed /\ ~WillSet(pc[t], back[t])
    BY <2>2, <2>4 DEF Armed, WillSet
  <2>7. /\ m_pending_events' \in Seq(Events) /\ timerfd' \in Nat
        /\ expired' \in BOOLEAN /\ queued' \in BOOLEAN
    BY <1>1, <2>2 DEF Types, DataOK
  <2>8. label \in Labels /\ first' = [first EXCEPT ![t] = first[t]]
    BY <2>1, <2>2, ThreadFacts DEF Labels
  <2>9. Goes(t, label, e, first[t], pc[t])
    BY <2>1, <2>2, <2>3, <2>5, <2>6, <2>7, <2>8, ThreadFacts DEF Goes
  <2>10. Sees(t, label, pc[t])
    BY <2>1, <2>2, <2>3, <2>5, <2>6, <2>7, <2>8 DEF Sees
  <2>11. DataOK'
    BY <2>1, <2>2, <2>3, <2>5, <2>6, <2>7, <2>8 DEF DataOK
  <2> QED
    BY <2>9, <2>10, <2>11, OneThread
<1>3. ASSUME NEW e \in Events, t = Loop, CallSetCancled(e)
      PROVE  Inv'
  <2>1. UNCHANGED <<pc, arg, back, first, m_pending_events, timerfd, expired, queued>>
    BY <1>3 DEF CallSetCancled, callVars, fdVars
  <2>2. event' \in [Events -> Event]
    BY <1>1, <1>3, EventType DEF CallSetCancled
  <2>3. Types'
    BY <1>1, <2>1, <2>2 DEF Types, ThreadsOK, DataOK
  <2>4. Called' /\ Watched'
    BY <2>1 DEF Inv, Called, CallOK, Watched, Setting, WillSet, Armed
  <2> QED
    BY <2>3, <2>4 DEF Inv
<1> QED
  BY <1>2, <1>3 DEF Call

\* A mutex is taken.
LEMMA LockInv ==
  ASSUME Inv, NEW t \in Threads,
         \/ AddLock(t) \/ ResetLock(t) \/ DeleteLock(t)
         \/ t = Loop /\ OnTimerLock
  PROVE  Inv'
<1>1. PICK from, to :
        /\ Locking(t, from, to)
        /\ <<from, to>> \in {<<"add", "emplace">>, <<"reset", "copy">>, <<"delete", "erase">>,
                            <<"onTimer", "take">>}
  BY DEF AddLock, ResetLock, DeleteLock, OnTimerLock
<1>2. /\ pc[t] = from /\ pc' = [pc EXCEPT ![t] = to]
      /\ UNCHANGED <<arg, back, first, event, m_pending_events, timerfd, expired, queued>>
  BY <1>1 DEF Locking, Goto, callVars, fdVars
<1>3. to \in Labels
  BY <1>1 DEF Labels
<1>4. CallOK(to, arg[t], first[t], back[t])
  BY <1>1, <1>2, ThreadFacts DEF CallOK, AddLabels
<1>5. WillSet(pc[t], back[t]) => WillSet(to, back[t])
  BY <1>1, <1>2 DEF WillSet
<1>6. Armed' = Armed
  BY <1>2 DEF Armed
<1>7. /\ arg' = [arg EXCEPT ![t] = arg[t]] /\ back' = [back EXCEPT ![t] = back[t]]
      /\ first' = [first EXCEPT ![t] = first[t]]
  BY <1>2, ThreadFacts
<1>8. DataOK'
  BY <1>2 DEF Inv, Types, DataOK
<1>9. Goes(t, to, arg[t], first[t], back[t])
  BY <1>2, <1>3, <1>4, <1>5, <1>6, <1>7, <1>8, ThreadFacts DEF Goes
<1>10. Sees(t, to, back[t])
  BY <1>2, <1>3, <1>4, <1>5, <1>6, <1>7, <1>8 DEF Sees
<1> QED
  BY <1>9, <1>10, <1>8, OneThread

\* An event enters the map: the first one makes the thread set the timerfd.
LEMMA AddEmplaceInv ==
  ASSUME Inv, NEW t \in Threads, AddEmplace(t)
  PROVE  Inv'
<1>1. /\ pc[t] = "emplace" /\ m_pending_events' = Emplace(arg[t])
      /\ UNCHANGED <<arg, back, first, event, timerfd, expired, queued>>
  BY DEF AddEmplace, callVars, fdVars
<1>2. PICK label \in {"reset", "addEnd"} : /\ pc' = [pc EXCEPT ![t] = label]
                                           /\ label = "addEnd" => m_pending_events # <<>>
  BY DEF AddEmplace, Goto, Earliest
<1>3. arg[t] \in Events
  BY <1>1, ThreadFacts DEF CallOK
<1>4. m_pending_events' \in Seq(Events)
  BY <1>1, <1>3, EmplaceType DEF Inv
<1>5. label \in Labels /\ CallOK(label, arg[t], first[t], back[t])
  BY <1>1, <1>2, <1>3, ThreadFacts DEF CallOK, AddLabels, Labels
<1>6. WillSet(label, back[t]) \/ (m_pending_events # <<>> /\ ~WillSet(pc[t], back[t]))
  BY <1>1, <1>2 DEF WillSet
<1>7. Armed' = Armed
  BY <1>1 DEF Armed
<1>8. /\ arg' = [arg EXCEPT ![t] = arg[t]] /\ back' = [back EXCEPT ![t] = back[t]]
      /\ first' = [first EXCEPT ![t] = first[t]]
  BY <1>1, ThreadFacts
<1>9. /\ event' \in [Events -> Event] /\ timerfd' \in Nat
      /\ expired' \in BOOLEAN /\ queued' \in BOOLEAN
  BY <1>1 DEF Inv, Types, DataOK
<1>10. Goes(t, label, arg[t], first[t], back[t])
  BY <1>2, <1>4, <1>5, <1>6, <1>7, <1>8, <1>9, ThreadFacts DEF Goes
<1>11. Sees(t, label, back[t])
  BY <1>2, <1>4, <1>5, <1>6, <1>7, <1>8, <1>9 DEF Sees
<1>12. DataOK'
  BY <1>2, <1>4, <1>5, <1>6, <1>7, <1>8, <1>9 DEF DataOK
<1> QED
  BY <1>10, <1>11, <1>12, OneThread

\* addTimerEvent and deleteTimerEvent return; onTimer's goes on in its loop.
LEMMA ReturnInv ==
  ASSUME Inv, NEW t \in Threads, Return(t)
  PROVE  Inv'
<1>1. /\ pc[t] \in {"addEnd", "deleteEnd"}
      /\ pc' = [pc EXCEPT ![t] = back[t]] /\ arg' = [arg EXCEPT ![t] = NoEvent]
      /\ back' = [back EXCEPT ![t] = "idle"]
      /\ UNCHANGED <<first, event, m_pending_events, timerfd, expired, queued>>
  BY DEF Return, Goto, fdVars
<1>2. back[t] \in Labels /\ CallOK(back[t], NoEvent, first[t], "idle")
  BY ThreadFacts DEF CallOK, Labels
<1>3. WillSet(pc[t], back[t]) => WillSet(back[t], "idle")
  BY <1>1 DEF WillSet
<1>4. Armed' = Armed
  BY <1>1 DEF Armed
<1>5. first' = [first EXCEPT ![t] = first[t]]
  BY <1>1, ThreadFacts
<1>6. DataOK'
  BY <1>1 DEF Inv, Types, DataOK
<1>7. Goes(t, back[t], NoEvent, first[t], "idle")
  BY <1>1, <1>2, <1>3, <1>4, <1>5, <1>6, ThreadFacts DEF Goes
<1>8. Sees(t, back[t], "idle")
  BY <1>1, <1>2, <1>3, <1>4, <1>5, <1>6 DEF Sees
<1> QED
  BY <1>7, <1>8, <1>6, OneThread

\* The copy that resetArriveTime looks at is empty only if the map is.
LEMMA ResetCopyInv ==
  ASSUME Inv, NEW t \in Threads, ResetCopy(t)
  PROVE  Inv'
<1>1. /\ pc[t] = "copy"
      /\ UNCHANGED <<arg, back, event, m_pending_events, timerfd, expired, queued>>
  BY DEF ResetCopy, fdVars
<1>2. m_pending_events \in Seq(Events)
  BY DEF Inv, Types, DataOK
<1>3. PICK label \in {"resetEnd", "settime"}, copied \in Events \cup {NoEvent} :
        /\ pc' = [pc EXCEPT ![t] = label] /\ first' = [first EXCEPT ![t] = copied]
        /\ label = "settime" => copied \in Events
        /\ label = "resetEnd" => m_pending_events = <<>>
  <2>1. CASE m_pending_events = <<>>
    <3>1. pc' = [pc EXCEPT ![t] = "resetEnd"] /\ first' = first
      BY <2>1 DEF ResetCopy, Goto
    <3>2. first' = [first EXCEPT ![t] = first[t]] /\ first[t] \in Events \cup {NoEvent}
      BY <3>1, ThreadFacts
    <3> QED
      BY <2>1, <3>1, <3>2
  <2>2. CASE m_pending_events # <<>>
    <3>1. Head(m_pending_events) \in Events
      BY <1>2, <2>2, HeadTailProperties
    <3>2. /\ pc' = [pc EXCEPT ![t] = "settime"]
          /\ first' = [first EXCEPT ![t] = Head(m_pending_events)]
      BY <2>2 DEF ResetCopy, Goto
    <3> QED
      BY <3>1, <3>2
  <2> QED
    BY <2>1, <2>2
<1>4. label \in Labels /\ CallOK(label, arg[t], copied, back[t])
  BY <1>1, <1>3, ThreadFacts DEF CallOK, AddLabels, Labels
<1>5. m_pending_events' # <<>> => WillSet(label, back[t])
  BY <1>1, <1>3 DEF WillSet
<1>6. arg' = [arg EXCEPT ![t] = arg[t]] /\ back' = [back EXCEPT ![t] = back[t]]
  BY <1>1, ThreadFacts
<1>7. DataOK'
  BY <1>1 DEF Inv, Types, DataOK
<1>8. Goes(t, label, arg[t], copied, back[t])
  BY <1>3, <1>4, <1>5, <1>6, <1>7, ThreadFacts DEF Goes
<1>9. Sees(t, label, back[t])
  BY <1>3, <1>4, <1>5, <1>6, <1>7 DEF Sees
<1> QED
  BY <1>8, <1>9, <1>7, OneThread

\* The timerfd is never set to zero: an event that is due counts for 100 ms.
LEMMA ResetSettimeInv ==
  ASSUME Inv, NEW t \in Threads, ResetSettime(t)
  PROVE  Inv'
<1>1. /\ pc[t] = "settime" /\ timerfd' = Interval(first[t]) /\ expired' = FALSE
      /\ pc' = [pc EXCEPT ![t] = "resetEnd"] /\ first' = [first EXCEPT ![t] = NoEvent]
      /\ UNCHANGED <<arg, back, event, m_pending_events, queued>>
  BY DEF ResetSettime, Goto
<1>2. first[t] \in Events
  BY <1>1, ThreadFacts DEF CallOK
<1>3. Left(first[t]) \in Int
  <2>1. event[first[t]] \in Event
    BY <1>2 DEF Inv, Types, DataOK
  <2> QED
    BY <2>1 DEF Left, Event
<1>4. timerfd' \in Nat /\ timerfd' > 0
  BY <1>1, <1>3, TimerAssumption DEF Interval
<1>5. Armed'
  BY <1>4 DEF Armed
<1>6. "resetEnd" \in Labels /\ CallOK("resetEnd", arg[t], NoEvent, back[t])
  BY <1>1, ThreadFacts DEF CallOK, AddLabels, Labels
<1>7. arg' = [arg EXCEPT ![t] = arg[t]] /\ back' = [back EXCEPT ![t] = back[t]]
  BY <1>1, ThreadFacts
<1>8. /\ event' \in [Events -> Event] /\ m_pending_events' \in Seq(Events)
      /\ expired' \in BOOLEAN /\ queued' \in BOOLEAN
  BY <1>1 DEF Inv, Types, DataOK
<1>9. Goes(t, "resetEnd", arg[t], NoEvent, back[t])
  BY <1>1, <1>4, <1>5, <1>6, <1>7, <1>8, ThreadFacts DEF Goes
<1>10. Sees(t, "resetEnd", back[t])
  BY <1>1, <1>4, <1>5, <1>6, <1>7, <1>8 DEF Sees
<1>11. DataOK'
  BY <1>1, <1>4, <1>5, <1>6, <1>7, <1>8 DEF DataOK
<1> QED
  BY <1>9, <1>10, <1>11, OneThread

\* The end of resetArriveTime, in addTimerEvent or in onTimer.
LEMMA ResetEndInv ==
  ASSUME Inv, NEW t \in Threads, ResetEnd(t)
  PROVE  Inv'
<1>1. /\ pc[t] = "resetEnd"
      /\ UNCHANGED <<arg, back, first, event, m_pending_events, timerfd, expired, queued>>
  BY DEF ResetEnd, callVars, fdVars
<1>2. PICK label \in {"addEnd", "tasks"} : /\ pc' = [pc EXCEPT ![t] = label]
                                           /\ label = "tasks" => arg[t] = NoEvent
  BY DEF ResetEnd, Goto
<1>3. label \in Labels /\ CallOK(label, arg[t], first[t], back[t])
  BY <1>1, <1>2, ThreadFacts, TimerAssumption DEF CallOK, AddLabels, Labels
<1>4. WillSet(pc[t], back[t]) => WillSet(label, back[t])
  BY <1>1 DEF WillSet
<1>5. Armed' = Armed
  BY <1>1 DEF Armed
<1>6. /\ arg' = [arg EXCEPT ![t] = arg[t]] /\ back' = [back EXCEPT ![t] = back[t]]
      /\ first' = [first EXCEPT ![t] = first[t]]
  BY <1>1, ThreadFacts
<1>7. DataOK'
  BY <1>1 DEF Inv, Types, DataOK
<1>8. Goes(t, label, arg[t], first[t], back[t])
  BY <1>1, <1>2, <1>3, <1>4, <1>5, <1>6, <1>7, ThreadFacts DEF Goes
<1>9. Sees(t, label, back[t])
  BY <1>1, <1>2, <1>3, <1>4, <1>5, <1>6, <1>7 DEF Sees
<1> QED
  BY <1>8, <1>9, <1>7, OneThread

\* An event leaves the map.
LEMMA DeleteEraseInv ==
  ASSUME Inv, NEW t \in Threads, DeleteErase(t)
  PROVE  Inv'
<1>1. /\ pc[t] = "erase" /\ pc' = [pc EXCEPT ![t] = "deleteEnd"]
      /\ m_pending_events' = Erase(arg[t])
      /\ UNCHANGED <<arg, back, first, event, timerfd, expired, queued>>
  BY DEF DeleteErase, Goto, callVars, fdVars
<1>2. m_pending_events' \in Seq(Events) /\ (m_pending_events' # <<>> => m_pending_events # <<>>)
  BY <1>1, EraseType DEF Inv
<1>3. "deleteEnd" \in Labels /\ CallOK("deleteEnd", arg[t], first[t], back[t])
  BY <1>1, ThreadFacts DEF CallOK, AddLabels, Labels
<1>4. ~WillSet(pc[t], back[t])
  BY <1>1, ThreadFacts DEF WillSet, CallOK, AddLabels
<1>5. Armed' = Armed
  BY <1>1 DEF Armed
<1>6. /\ arg' = [arg EXCEPT ![t] = arg[t]] /\ back' = [back EXCEPT ![t] = back[t]]
      /\ first' = [first EXCEPT ![t] = first[t]]
  BY <1>1, ThreadFacts
<1>7. /\ event' \in [Events -> Event] /\ timerfd' \in Nat
      /\ expired' \in BOOLEAN /\ queued' \in BOOLEAN
  BY <1>1 DEF Inv, Types, DataOK
<1>8. Goes(t, "deleteEnd", arg[t], first[t], back[t])
  BY <1>1, <1>2, <1>3, <1>4, <1>5, <1>6, <1>7, ThreadFacts DEF Goes
<1>9. Sees(t, "deleteEnd", back[t])
  BY <1>1, <1>2, <1>3, <1>4, <1>5, <1>6, <1>7 DEF Sees
<1>10. DataOK'
  BY <1>1, <1>2, <1>3, <1>4, <1>5, <1>6, <1>7 DEF DataOK
<1> QED
  BY <1>8, <1>9, <1>10, OneThread

\* The steps of the loop that move it from one label to another.  (OnTimer takes the
\* expiration off the timerfd, but then it will set it.)
LEMMA LoopInv ==
  ASSUME Inv, \/ OnTimer \/ TakeDue \/ Reset \/ CallbackEnds \/ OnTimerEnds
              \/ \E e \in Events : Ring(e)
  PROVE  Inv'
<1> USE DEF OnTimer, TakeDue, Reset, CallbackEnds, OnTimerEnds, Ring
<1>1. Loop \in Threads /\ UNCHANGED <<arg, back, first, event, timerfd>>
  BY DEF callVars, fdVars
<1>2. /\ expired' \in BOOLEAN /\ queued' \in BOOLEAN
      /\ Armed' = Armed \/ OnTimer
  <2>1. OnTimer \/ UNCHANGED <<expired, queued>>
    BY DEF fdVars
  <2> QED
    BY <1>1, <2>1 DEF Inv, Types, DataOK, Armed
<1>3. PICK label \in {"onTimer", "readd", "reset", "callback", "tasks", "idle"} :
        /\ pc' = [pc EXCEPT ![Loop] = label]
        /\ WillSet(pc[Loop], "idle") \/ OnTimer => WillSet(label, "idle")
  BY DEF Goto, WillSet
<1>4. pc[Loop] \in {"idle", "take", "readd", "tasks", "callback"}
  OBVIOUS
<1>5. back[Loop] # "readd"
  BY <1>1, <1>4, ThreadFacts DEF CallOK, AddLabels
<1>6. /\ m_pending_events' \in Seq(Events)
      /\ m_pending_events' # <<>> => m_pending_events # <<>> \/ TakeDue
  <2>1. CASE TakeDue
    <3>1. PICK n \in 0 .. Len(m_pending_events) :
            m_pending_events' = SubSeq(m_pending_events, n + 1, Len(m_pending_events))
      BY <2>1
    <3>2. m_pending_events \in Seq(Events)
      BY DEF Inv, Types, DataOK
    <3> QED
      BY <2>1, <3>1, <3>2
  <2>2. CASE ~TakeDue
    <3>1. m_pending_events' = m_pending_events
      BY <2>2
    <3> QED
      BY <3>1 DEF Inv, Types, DataOK
  <2> QED
    BY <2>1, <2>2
<1>7. label \in Labels /\ CallOK(label, arg[Loop], first[Loop], back[Loop])
  BY <1>3, <1>5 DEF CallOK, Labels
<1>8. WillSet(label, back[Loop]) \/ ~WillSet(pc[Loop], back[Loop])
  BY <1>3, <1>5 DEF WillSet
<1>9. OnTimer \/ TakeDue => WillSet(label, back[Loop])
  BY <1>3 DEF WillSet
<1>10. /\ arg' = [arg EXCEPT ![Loop] = arg[Loop]] /\ back' = [back EXCEPT ![Loop] = back[Loop]]
       /\ first' = [first EXCEPT ![Loop] = first[Loop]]
  BY <1>1, ThreadFacts
<1>11. event' \in [Events -> Event] /\ timerfd' \in Nat
  BY <1>1 DEF Inv, Types, DataOK
<1>12. Goes(Loop, label, arg[Loop], first[Loop], back[Loop])
  BY <1>1, <1>2, <1>3, <1>6, <1>7, <1>8, <1>9, <1>10, <1>11, ThreadFacts DEF Goes
<1>13. Sees(Loop, label, back[Loop])
  BY <1>1, <1>2, <1>3, <1>6, <1>7, <1>8, <1>9, <1>10, <1>11 DEF Sees
<1>14. DataOK'
  BY <1>1, <1>2, <1>3, <1>6, <1>7, <1>8, <1>9, <1>10, <1>11 DEF DataOK
<1> QED
  BY <1>1, <1>12, <1>13, <1>14, OneThread

\* onTimer adds a repeated event again, and will come back.
LEMMA ReaddInv ==
  ASSUME Inv, NEW e \in Events, Readd(e)
  PROVE  Inv'
<1>1. /\ Loop \in Threads /\ pc' = [pc EXCEPT ![Loop] = "add"]
      /\ arg' = [arg EXCEPT ![Loop] = e] /\ back' = [back EXCEPT ![Loop] = "readd"]
      /\ event' = resetArriveTime(e)
      /\ UNCHANGED <<first, m_pending_events, timerfd, expired, queued>>
  BY DEF Readd, Goto, fdVars
<1>2. event' \in [Events -> Event]
  BY <1>1, EventType DEF Inv
<1>3. "add" \in Labels /\ CallOK("add", e, first[Loop], "readd") /\ WillSet("add", "readd")
  BY DEF CallOK, AddLabels, Labels, WillSet
<1>4. first' = [first EXCEPT ![Loop] = first[Loop]]
  BY <1>1, ThreadFacts
<1>5. /\ m_pending_events' \in Seq(Events) /\ timerfd' \in Nat
      /\ expired' \in BOOLEAN /\ queued' \in BOOLEAN
  BY <1>1 DEF Inv, Types, DataOK
<1>6. Goes(Loop, "add", e, first[Loop], "readd")
  BY <1>1, <1>2, <1>3, <1>4, <1>5, ThreadFacts DEF Goes
<1>7. Sees(Loop, "add", "readd")
  BY <1>1, <1>2, <1>3, <1>4, <1>5 DEF Sees
<1>8. DataOK'
  BY <1>1, <1>2, <1>3, <1>4, <1>5 DEF DataOK
<1> QED
  BY <1>1, <1>6, <1>7, <1>8, OneThread

\* Time passes: a timerfd that stops has expired.  Or epoll reports it.
LEMMA TimeInv ==
  ASSUME Inv, Tick \/ Poll \/ UNCHANGED vars
  PROVE  Inv'
<1>1. UNCHANGED <<pc, arg, back, first, m_pending_events>>
  BY DEF Tick, Poll, vars, callVars
<1>2. event' \in [Events -> Event]
  <2>1. event \in [Events -> Event]
    BY DEF Inv, Types, DataOK
  <2>2. CASE Tick
    <3>1. ASSUME NEW e \in Events
          PROVE  [event[e] EXCEPT !.left = Max({@ - 1, -MaxLate})] \in Event
      <4>1. event[e] \in Event /\ event[e].left - 1 \in Int /\ -MaxLate \in Int
        BY <2>1, TimerAssumption DEF Event
      <4>2. Max({event[e].left - 1, -MaxLate}) \in Int
        BY <4>1, MaxOfTwo
      <4> QED
        BY <4>1, <4>2 DEF Event
    <3> QED
      BY <2>1, <2>2, <3>1 DEF Tick
  <2>3. CASE ~Tick
    BY <2>1, <2>3 DEF Poll, vars
  <2> QED
    BY <2>2, <2>3
<1>3. timerfd \in Nat /\ expired \in BOOLEAN /\ queued \in BOOLEAN
  BY DEF Inv, Types, DataOK
<1>4. /\ timerfd' \in Nat /\ expired' \in BOOLEAN /\ queued' \in BOOLEAN
      /\ Armed => Armed'
  <2>1. CASE Tick
    <3>1. timerfd' = Max({timerfd - 1, 0}) /\ expired' = (expired \/ timerfd = 1)
          /\ queued' = queued
      BY <2>1 DEF Tick
    <3>2. timerfd' = IF timerfd - 1 >= 0 THEN timerfd - 1 ELSE 0
      BY <1>3, <3>1, MaxOfTwo
    <3>3. timerfd' \in Nat /\ (timerfd > 0 => timerfd = 1 \/ timerfd' > 0)
      BY <1>3, <3>2
    <3>4. expired' \in BOOLEAN /\ queued' \in BOOLEAN
      BY <1>3, <3>1
    <3> QED
      BY <3>1, <3>3, <3>4 DEF Armed
  <2>2. CASE ~Tick
    <3>1. timerfd' = timerfd /\ expired' = expired /\ queued' \in {queued, TRUE}
      BY <2>2 DEF Poll, vars, fdVars
    <3> QED
      BY <1>3, <3>1 DEF Armed
  <2> QED
    BY <2>1, <2>2
<1>5. Types'
  BY <1>1, <1>2, <1>4 DEF Inv, Types, DataOK, ThreadsOK
<1>6. Called'
  BY <1>1 DEF Inv, Called, CallOK
<1>7. Setting' <=> Setting
  BY <1>1 DEF Setting, WillSet
<1> QED
  BY <1>1, <1>4, <1>5, <1>6, <1>7 DEF Inv, Watched

-----------------------------------------------------------------------------
(* The theorem.                                                             *)

\* The initial state has the invariant.
LEMMA InitInv == Init => Inv
<1> SUFFICES ASSUME Init PROVE Inv
  OBVIOUS
<1>1. event \in [Events -> Event]
  <2>1. [left : {0}, interval : Intervals, cancled : {TRUE}] \subseteq Event
    <3> SUFFICES ASSUME NEW x \in [left : {0}, interval : Intervals, cancled : {TRUE}]
                 PROVE  x \in Event
      OBVIOUS
    <3>1. PICK i \in Intervals : x = [left |-> 0, interval |-> i, cancled |-> TRUE]
      OBVIOUS
    <3> QED
      BY <3>1 DEF Event
  <2> QED
    BY <2>1 DEF Init
<1>2. ThreadsOK
  BY DEF Init, ThreadsOK, Labels
<1>3. DataOK
  <2>1. m_pending_events \in Seq(Events) /\ timerfd \in Nat
    BY DEF Init
  <2>2. expired \in BOOLEAN /\ queued \in BOOLEAN
    BY DEF Init
  <2> QED
    BY <1>1, <2>1, <2>2 DEF DataOK
<1> QED
  BY <1>2, <1>3 DEF Init, Inv, Types, Called, CallOK, Watched

\* Every step keeps it.
LEMMA NextInv == Inv /\ [Next]_vars => Inv'
<1> SUFFICES ASSUME Inv, [Next]_vars PROVE Inv'
  OBVIOUS
<1>1. ASSUME NEW t \in Threads, CallStep(t) PROVE Inv'
  BY <1>1, LockInv, AddEmplaceInv, ReturnInv, ResetCopyInv, ResetSettimeInv, ResetEndInv,
     DeleteEraseInv DEF CallStep
<1>2. ASSUME LoopStep PROVE Inv'
  BY <1>1, <1>2, LockInv, LoopInv, ReaddInv, TimeInv DEF LoopStep
<1> QED
  BY <1>1, <1>2, CallInv, TimeInv DEF Next

\* While events wait, the timerfd is armed, has expired, or a thread is on its way to
\* arm it: whoever sets it last, from however old a copy of the map.
THEOREM StaysArmed == Spec => []NeverDisarmed
<1>1. ASSUME Inv PROVE NeverDisarmed
  <2> SUFFICES ASSUME Quiet, m_pending_events # <<>> PROVE Armed
    BY DEF NeverDisarmed
  <2>1. ASSUME NEW t \in Threads PROVE ~WillSet(pc[t], back[t])
    <3>1. pc[t] = "idle"
      BY DEF Quiet
    <3> QED
      BY <1>1, <3>1, ThreadFacts DEF WillSet, CallOK, AddLabels
  <2> QED
    BY <1>1, <2>1 DEF Inv, Watched, Setting
<1> QED
  BY <1>1, InitInv, NextInv, PTL DEF Spec

-----------------------------------------------------------------------------
(* The loops of onTimer that copy some of the events.                       *)

\* The recursion by which Keep is defined: f[k] has those of the first k.
Keeps(f, s, chosen) ==
  f = [k \in 0 .. Len(s) |->
         IF k = 0 THEN <<>>
         ELSE IF s[k] \in chosen THEN Append(f[k - 1], s[k]) ELSE f[k - 1]]

\* There is such a function.
LEMMA KeepsExists ==
  ASSUME NEW S, NEW s \in Seq(S), NEW chosen
  PROVE  \E f : Keeps(f, s, chosen)
<1> DEFINE n == Len(s)
           Value(f, k) == IF k = 0 THEN <<>>
                          ELSE IF s[k] \in chosen THEN Append(f[k - 1], s[k]) ELSE f[k - 1]
           Ok(f, m) == DOMAIN f = 0 .. n /\ \A k \in 0 .. m : f[k] = Value(f, k)
           P == {m \in Nat : \E f : f = [k \in 0 .. n |-> f[k]] /\ Ok(f, m)}
<1>1. n \in Nat
  OBVIOUS
<1>2. 0 \in P
  <2> DEFINE f == [k \in 0 .. n |-> <<>>]
  <2>1. f = [k \in 0 .. n |-> f[k]] /\ Ok(f, 0)
    OBVIOUS
  <2> QED
    BY <2>1
<1>3. ASSUME NEW m \in 0 .. n - 1, m \in P PROVE m + 1 \in P
  <2>1. PICK f : f = [k \in 0 .. n |-> f[k]] /\ Ok(f, m)
    BY <1>3
  <2> DEFINE next == IF s[m + 1] \in chosen THEN Append(f[m], s[m + 1]) ELSE f[m]
             g == [f EXCEPT ![m + 1] = next]
  <2> HIDE DEF next
  <2>2. g = [k \in 0 .. n |-> g[k]] /\ DOMAIN g = 0 .. n
    BY <2>1
  <2>3. ASSUME NEW k \in 0 .. m + 1 PROVE g[k] = Value(g, k)
    <3>1. CASE k = m + 1
      <4>1. g[m + 1] = next /\ g[m] = f[m] /\ m + 1 # 0 /\ (m + 1) - 1 = m
        BY <1>1, <2>1
      <4> HIDE DEF g
      <4> QED
        BY <3>1, <4>1 DEF next
    <3>2. CASE k # m + 1
      <4>1. k \in 0 .. m /\ k \in 0 .. n
        BY <1>1, <3>2
      <4>2. g[k] = f[k] /\ f[k] = Value(f, k)
        BY <2>1, <3>2, <4>1
      <4>3. k # 0 => k - 1 \in 0 .. n /\ k - 1 # m + 1
        BY <4>1
      <4>4. k # 0 => g[k - 1] = f[k - 1]
        BY <2>1, <4>3
      <4> HIDE DEF g
      <4> QED
        BY <4>2, <4>4
    <3> QED
      BY <3>1, <3>2
  <2>4. m + 1 \in Nat
    BY <1>1
  <2>5. Ok(g, m + 1)
    <3> HIDE DEF g, Value
    <3> QED
      BY <2>2, <2>3
  <2> HIDE DEF g, Ok
  <2> QED
    BY <2>2, <2>4, <2>5
<1>4. n \in P
  <2>1. \A i \in 0 .. n - 1 : i \in P => i + 1 \in P
    BY <1>3
  <2> HIDE DEF P
  <2>2. \A i \in 0 .. n : i \in P
    BY <1>1, <1>2, <2>1, UpTo
  <2> QED
    BY <1>1, <2>2
<1>5. PICK f : f = [k \in 0 .. n |-> f[k]] /\ Ok(f, n)
  BY <1>4
<1>6. f = [k \in 0 .. n |-> Value(f, k)]
  <2> HIDE DEF Value
  <2> QED
    BY <1>5
<1> QED
  BY <1>6 DEF Keeps

\* Keep has the chosen elements, each as often as the sequence has it.
LEMMA KeepIs ==
  ASSUME NEW S, NEW s \in Seq(S), NEW chosen
  PROVE  /\ Keep(s, chosen) \in Seq(S)
         /\ Range(Keep(s, chosen)) = Range(s) \cap chosen
         /\ IsInjective(s) => IsInjective(Keep(s, chosen))
<1> DEFINE n == Len(s)
           g == CHOOSE f : Keeps(f, s, chosen)
<1>1. Keeps(g, s, chosen)
  BY KeepsExists
<1>2. Keep(s, chosen) = g[n]
  BY DEF Keep, Keeps
<1> HIDE DEF g
<1>3. n \in Nat /\ \A i \in 1 .. n : s[i] \in S
  BY ElementOfSeq
<1>4. \A k \in 0 .. n : g[k] = IF k = 0 THEN <<>>
                               ELSE IF s[k] \in chosen THEN Append(g[k - 1], s[k]) ELSE g[k - 1]
  BY <1>1 DEF Keeps
<1> DEFINE Has(k) == /\ g[k] \in Seq(S)
                     /\ \A y : y \in Range(g[k]) <=> y \in chosen /\ \E i \in 1 .. k : s[i] = y
                     /\ IsInjective(s) => IsInjective(g[k])
           P == {k \in 0 .. n : Has(k)}
<1>5. 0 \in P
  <2>1. g[0] = <<>>
    BY <1>3, <1>4
  <2> DEFINE e == <<>>
  <2>2. e \in Seq(S) /\ e = <<>> /\ Len(e) = 0
    OBVIOUS
  <2> HIDE DEF e
  <2>3. \A i \in 1 .. 0 : FALSE
    OBVIOUS
  <2>4. Range(e) = {}
    BY <2>2, RangeEmpty
  <2>5. IsInjective(e)
    <3>1. e \in Seq(S)
      BY <2>2
    <3>2. IsInjective(e) <=> \A i, j \in 1 .. Len(e) : e[i] = e[j] => i = j
      BY <3>1, RangeIs
    <3> QED
      BY <2>2, <2>3, <3>2
  <2>6. g[0] = e
    BY <2>1, <2>2
  <2>7. \A y : y \in Range(g[0]) <=> y \in chosen /\ \E i \in 1 .. 0 : s[i] = y
    BY <2>3, <2>4, <2>6
  <2>8. Has(0)
    BY <2>2, <2>5, <2>6, <2>7
  <2> HIDE DEF Has
  <2> QED
    BY <1>3, <2>8
<1>6. ASSUME NEW m \in 0 .. n - 1, m \in P PROVE m + 1 \in P
  <2>1. Has(m)
    BY <1>6
  <2>2. m + 1 \in 1 .. n /\ m + 1 \in 0 .. n /\ m + 1 # 0 /\ (m + 1) - 1 = m
    BY <1>3
  <2> DEFINE x == s[m + 1]
  <2>3. g[m + 1] = IF x \in chosen THEN Append(g[m], x) ELSE g[m]
    BY <1>4, <2>2
  <2>4. x \in S
    BY <1>3, <2>2
  <2>5. \A i \in 1 .. m + 1 : i = m + 1 \/ i \in 1 .. m
    BY <2>2
  <2>6. (m + 1 \in 1 .. m + 1) /\ \A i \in 1 .. m : i \in 1 .. m + 1 /\ i \in 1 .. n /\ i # m + 1
    BY <2>2
  <2>7. CASE x \in chosen
    <3>1. /\ g[m + 1] \in Seq(S) /\ Range(g[m + 1]) = Range(g[m]) \cup {x}
          /\ IsInjective(g[m]) /\ x \notin Range(g[m]) => IsInjective(g[m + 1])
      BY <2>1, <2>3, <2>4, <2>7, AppendOnce
    <3>2. \A y : y \in Range(g[m + 1]) <=> y \in chosen /\ \E i \in 1 .. m + 1 : s[i] = y
      BY <2>1, <2>5, <2>6, <2>7, <3>1
    <3>3. ASSUME IsInjective(s) PROVE x \notin Range(g[m])
      <4>1. \A i, j \in 1 .. n : s[i] = s[j] => i = j
        BY <3>3, RangeIs
      <4> QED
        BY <2>1, <2>2, <2>6, <4>1
    <3> QED
      BY <2>1, <2>2, <3>1, <3>2, <3>3
  <2>8. CASE x \notin chosen
    <3>1. g[m + 1] = g[m]
      BY <2>3, <2>8
    <3>2. \A y : y \in Range(g[m + 1]) <=> y \in chosen /\ \E i \in 1 .. m + 1 : s[i] = y
      BY <2>1, <2>5, <2>6, <2>8, <3>1
    <3> QED
      BY <2>1, <2>2, <3>1, <3>2
  <2> QED
    BY <2>7, <2>8
<1>7. Has(n)
  <2>1. \A i \in 0 .. n - 1 : i \in P => i + 1 \in P
    BY <1>6
  <2>2. P = {k \in 0 .. n : Has(k)}
    OBVIOUS
  <2> HIDE DEF P, Has
  <2>3. \A i \in 0 .. n : i \in P
    BY <1>3, <1>5, <2>1, UpTo
  <2> QED
    BY <1>3, <2>2, <2>3
<1>8. \A y : y \in Range(g[n]) <=> y \in chosen /\ y \in Range(s)
  BY <1>7, RangeIs
<1> HIDE DEF n
<1> QED
  BY <1>2, <1>7, <1>8

-----------------------------------------------------------------------------
(* Types.                                                                   *)

\* The variables that the invariant above does not need.
More ==
  /\ callers \in {{Loop}, Threads}
  /\ m_mutex \in Threads \cup {NoThread}
  /\ due \subseteq Events
  /\ tmps \in Seq(Events) /\ tasks \in Seq(Events)
  /\ calls \in Nat

\* onTimer takes events from the front of the map, all of them due.  Those that are not
\* cancelled are going to ring, and the repeated ones of these to be added again.
LEMMA TakeDueFacts ==
  ASSUME Inv, TakeDue
  PROVE  \E taken \in SUBSET Events :
           /\ m_pending_events' \in Seq(Events) /\ tasks' \in Seq(Events) /\ tmps' \in Seq(Events)
           /\ Range(m_pending_events) = taken \cup Range(m_pending_events')
           /\ taken \subseteq due
           /\ Range(tasks') = {e \in taken : ~event[e].cancled}
           /\ Range(tmps') \subseteq Range(tasks')
           /\ IsInjective(m_pending_events) =>
                /\ taken \cap Range(m_pending_events') = {}
                /\ IsInjective(m_pending_events') /\ IsInjective(tasks') /\ IsInjective(tmps')
<1>1. m_pending_events \in Seq(Events)
  BY DEF Inv, Types, DataOK
<1>2. PICK n \in 0 .. Len(m_pending_events) :
        /\ \A k \in 1 .. n : m_pending_events[k] \in due
        /\ m_pending_events' = SubSeq(m_pending_events, n + 1, Len(m_pending_events))
        /\ tasks' = NotCancled(SubSeq(m_pending_events, 1, n))
  BY DEF TakeDue
<1> DEFINE front == SubSeq(m_pending_events, 1, n)
           rest  == SubSeq(m_pending_events, n + 1, Len(m_pending_events))
           asked == {e \in Events : ~event[e].cancled}
<1>3. /\ front \in Seq(Events) /\ Len(front) = n /\ \A i \in 1 .. n : front[i] = m_pending_events[i]
      /\ rest \in Seq(Events)
      /\ Range(m_pending_events) = Range(front) \cup Range(rest)
      /\ IsInjective(m_pending_events) =>
           IsInjective(front) /\ IsInjective(rest) /\ Range(front) \cap Range(rest) = {}
  BY <1>1, CutOnce
<1>4. tasks' = Keep(front, asked) /\ tmps' = Keep(tasks', Repeated) /\ m_pending_events' = rest
  BY <1>2 DEF NotCancled, TakeDue
<1> HIDE DEF front, rest
<1>5. /\ Range(front) \subseteq Events
      /\ \A e \in Range(front) : e \in due
  <2>1. front \in Seq(Events)
    BY <1>3
  <2>2. ASSUME NEW e \in Range(front) PROVE e \in due
    <3>1. PICK i \in 1 .. Len(front) : front[i] = e
      BY <2>1, RangeIs
    <3> QED
      BY <1>2, <1>3, <3>1
  <2> QED
    BY <2>1, <2>2, RangeEmpty
<1>6. /\ tasks' \in Seq(Events) /\ Range(tasks') = Range(front) \cap asked
      /\ IsInjective(front) => IsInjective(tasks')
  <2>1. front \in Seq(Events)
    BY <1>3
  <2> HIDE DEF asked
  <2> QED
    BY <1>4, <2>1, KeepIs
<1>7. /\ tmps' \in Seq(Events) /\ Range(tmps') = Range(tasks') \cap Repeated
      /\ IsInjective(tasks') => IsInjective(tmps')
  <2>1. tasks' \in Seq(Events)
    BY <1>6
  <2> QED
    BY <1>4, <2>1, KeepIs
<1>8. Range(tasks') = {e \in Range(front) : ~event[e].cancled}
  BY <1>5, <1>6
<1> HIDE DEF asked
<1> DEFINE taken == Range(front)
<1>9. taken \in SUBSET Events /\ taken \subseteq due /\ Range(tasks') = {e \in taken : ~event[e].cancled}
  BY <1>5, <1>8
<1>10. /\ Range(m_pending_events) = taken \cup Range(m_pending_events')
       /\ IsInjective(m_pending_events) =>
            /\ taken \cap Range(m_pending_events') = {}
            /\ IsInjective(m_pending_events') /\ IsInjective(tasks') /\ IsInjective(tmps')
       /\ Range(tmps') \subseteq Range(tasks')
       /\ m_pending_events' \in Seq(Events)
  BY <1>3, <1>4, <1>6, <1>7
<1> HIDE DEF taken
<1> QED
  BY <1>6, <1>7, <1>9, <1>10

\* The initial state has the types.
LEMMA MoreInit == Init => More
BY DEF Init, More

\* Every step keeps them.
LEMMA MoreNext ==
  ASSUME Inv, More, [Next]_vars
  PROVE  More'
<1>1. ASSUME NEW t \in Threads, Call(t) PROVE More'
  <2>1. UNCHANGED <<callers, m_mutex, due, tmps, tasks>> /\ calls' = calls + 1
    BY <1>1 DEF Call, CallAddTimerEvent, CallDeleteTimerEvent, CallSetCancled, MayCall, ringVars
  <2> QED
    BY <2>1 DEF More
<1>2. ASSUME NEW t \in Threads, CallStep(t) PROVE More'
  <2>1. UNCHANGED <<callers, calls, due, tmps, tasks>> /\ m_mutex' \in {t, NoThread, m_mutex}
    BY <1>2 DEF CallStep, AddLock, ResetLock, DeleteLock, Locking, Lock, Unlock, AddEmplace, Return,
                ResetCopy, ResetSettime, ResetEnd, DeleteErase, ringVars
  <2> QED
    BY <2>1 DEF More
<1>3. ASSUME TakeDue PROVE More'
  <2>1. UNCHANGED <<callers, calls>> /\ m_mutex' = NoThread /\ due' = {}
    BY <1>3 DEF TakeDue, Unlock
  <2>2. tasks' \in Seq(Events) /\ tmps' \in Seq(Events)
    BY <1>3, TakeDueFacts
  <2> QED
    BY <2>1, <2>2 DEF More
<1>4. ASSUME NEW e \in Events, Readd(e) \/ Ring(e) PROVE More'
  <2>1. UNCHANGED <<callers, calls, m_mutex, due>>
    BY <1>4 DEF Readd, Ring
  <2>2. tasks' \in Seq(Events) /\ tmps' \in Seq(Events)
    <3>1. \A s \in Seq(Events) : s # <<>> => Tail(s) \in Seq(Events)
      BY HeadTailProperties
    <3>2. tasks \in Seq(Events) /\ tmps \in Seq(Events)
      BY DEF More
    <3>3. CASE Readd(e)
      BY <3>1, <3>2, <3>3 DEF Readd
    <3>4. CASE Ring(e)
      BY <3>1, <3>2, <3>4 DEF Ring
    <3> QED
      BY <1>4, <3>3, <3>4
  <2> QED
    BY <2>1, <2>2 DEF More
<1>5. ASSUME \/ Poll \/ OnTimer \/ OnTimerLock \/ Reset \/ CallbackEnds \/ OnTimerEnds
             \/ Tick \/ UNCHANGED vars
      PROVE  More'
  <2>1. /\ UNCHANGED <<callers, calls, tmps, tasks>> /\ due' \subseteq due \cup Events
        /\ m_mutex' \in {Loop, NoThread, m_mutex}
    BY <1>5 DEF Poll, OnTimer, OnTimerLock, Locking, Lock, Unlock, Reset, CallbackEnds, OnTimerEnds,
                Tick, vars, ringVars
  <2> QED
    BY <2>1 DEF More
<1> QED
  BY <1>1, <1>2, <1>3, <1>4, <1>5 DEF Next, LoopStep

\* Every variable has its type, in every step that any of the threads takes: the event of
\* a call is one while it is added, and what resetArriveTime sets the timerfd to is not
\* negative.
THEOREM TypeCorrect == Spec => []TypeOK
<1>1. Inv /\ More => TypeOK
  BY DEF Inv, Types, ThreadsOK, DataOK, More, TypeOK
<1> QED
  BY <1>1, InitInv, NextInv, MoreInit, MoreNext, PTL DEF Spec

-----------------------------------------------------------------------------
(* Where an event is: in the map, once, or on its way into it in one call,  *)
(* or in tmps, and never in two of these.                                   *)

AddingLabels == {"add", "emplace"}
DeleteLabels == {"delete", "erase", "deleteEnd"}

Adding(t)   == pc[t] \in AddingLabels
Deleting(t) == pc[t] \in DeleteLabels

MapOnce == IsInjective(m_pending_events)

AddOnce ==
  \A t \in Threads : Adding(t) =>
    /\ arg[t] \in Events
    /\ arg[t] \notin Range(m_pending_events) \cup Range(tmps)
    /\ \A u \in Threads : Adding(u) /\ arg[u] = arg[t] => u = t

TmpsOnce == IsInjective(tmps) /\ Range(tmps) \cap Range(m_pending_events) = {}

\* The flag of an event is not taken back while it is being deleted.
Deleted ==
  \A t \in Threads : Deleting(t) => arg[t] \in Events /\ event[arg[t]].cancled

Once == MapOnce /\ AddOnce /\ TmpsOnce /\ Deleted

\* The threads go on adding and deleting what they did, or have done with it.
Stays(t) ==
  /\ Adding(t)' <=> Adding(t)
  /\ Deleting(t)' => Deleting(t)
  /\ (Adding(t) \/ Deleting(t))' => arg'[t] = arg[t]

Moves ==
  /\ \A t \in Threads : Stays(t)
  /\ UNCHANGED <<event, m_pending_events, tmps>>

\* All threads but one do nothing.
LEMMA OthersStay ==
  ASSUME Inv, NEW t \in Threads, NEW label, pc' = [pc EXCEPT ![t] = label],
         arg' = arg \/ \E one : arg' = [arg EXCEPT ![t] = one]
  PROVE  /\ pc'[t] = label
         /\ \A u \in Threads \ {t} : pc'[u] = pc[u] /\ arg'[u] = arg[u]
         /\ \A u \in Threads \ {t} : Stays(u)
<1>1. pc'[t] = label
  BY DEF Inv, Types, ThreadsOK
<1>2. ASSUME NEW u \in Threads \ {t} PROVE pc'[u] = pc[u] /\ arg'[u] = arg[u]
  BY DEF Inv, Types, ThreadsOK
<1>3. ASSUME NEW u \in Threads \ {t} PROVE Stays(u)
  BY <1>2 DEF Stays, Adding, Deleting
<1> QED
  BY <1>1, <1>2, <1>3

\* A step of a call that is not at the map.
LEMMA CallStepMoves ==
  ASSUME Inv, NEW t \in Threads, CallStep(t)
  PROVE  AddEmplace(t) \/ DeleteErase(t) \/ Moves
<1> USE DEF AddingLabels, DeleteLabels
<1>1. ASSUME NEW label, pc' = [pc EXCEPT ![t] = label], UNCHANGED <<event, m_pending_events, tmps>>,
             label \in AddingLabels <=> pc[t] \in AddingLabels,
             label \in DeleteLabels => pc[t] \in DeleteLabels,
             arg' = arg \/ \E one : arg' = [arg EXCEPT ![t] = one],
             label \in AddingLabels \cup DeleteLabels => arg' = arg
      PROVE  Moves
  <2>1. pc'[t] = label /\ \A u \in Threads \ {t} : Stays(u)
    BY <1>1, OthersStay
  <2>2. Stays(t)
    BY <1>1, <2>1 DEF Stays, Adding, Deleting
  <2> QED
    BY <1>1, <2>1, <2>2 DEF Moves
<1>2. CASE AddLock(t)
  BY <1>1, <1>2 DEF AddLock, Locking, Goto, callVars, ringVars
<1>3. CASE ResetLock(t)
  BY <1>1, <1>3 DEF ResetLock, Locking, Goto, callVars, ringVars
<1>4. CASE DeleteLock(t)
  BY <1>1, <1>4 DEF DeleteLock, Locking, Goto, callVars, ringVars
<1>5. CASE Return(t)
  <2>1. back[t] \notin AddingLabels \cup DeleteLabels
    BY ThreadFacts
  <2>2. pc[t] \notin AddingLabels
    BY <1>5 DEF Return
  <2> QED
    BY <1>1, <1>5, <2>1, <2>2 DEF Return, Goto, callVars, ringVars
<1>6. CASE ResetCopy(t)
  <2>1. /\ pc[t] = "copy" /\ UNCHANGED <<arg, event, m_pending_events, tmps>>
        /\ pc' = [pc EXCEPT ![t] = "resetEnd"] \/ pc' = [pc EXCEPT ![t] = "settime"]
    BY <1>6 DEF ResetCopy, Goto, ringVars
  <2> QED
    BY <1>1, <2>1
<1>7. CASE ResetSettime(t)
  BY <1>1, <1>7 DEF ResetSettime, Goto, callVars, ringVars
<1>8. CASE ResetEnd(t)
  <2>1. /\ pc[t] = "resetEnd" /\ UNCHANGED <<arg, event, m_pending_events, tmps>>
        /\ pc' = [pc EXCEPT ![t] = "addEnd"] \/ pc' = [pc EXCEPT ![t] = "tasks"]
    BY <1>8 DEF ResetEnd, Goto, callVars, ringVars
  <2> QED
    BY <1>1, <2>1
<1> QED
  BY <1>2, <1>3, <1>4, <1>5, <1>6, <1>7, <1>8 DEF CallStep

\* What onTimer does, apart from the map and the events, and what the kernel does.
LEMMA LoopMoves ==
  ASSUME Inv, \/ Poll \/ OnTimer \/ OnTimerLock \/ Reset \/ CallbackEnds \/ OnTimerEnds
              \/ (\E e \in Events : Ring(e)) \/ UNCHANGED vars
  PROVE  Moves
<1> USE DEF AddingLabels, DeleteLabels
<1>1. CASE Poll \/ UNCHANGED vars
  <2>1. UNCHANGED <<pc, arg, event, m_pending_events, tmps>>
    BY <1>1 DEF Poll, vars, callVars, ringVars
  <2> QED
    BY <2>1 DEF Moves, Stays, Adding, Deleting
<1>2. CASE ~ (Poll \/ UNCHANGED vars)
  <2>1. PICK label \in {"onTimer", "take", "reset", "callback", "tasks", "idle"} :
          /\ pc' = [pc EXCEPT ![Loop] = label] /\ UNCHANGED <<arg, event, m_pending_events, tmps>>
    BY <1>2 DEF OnTimer, OnTimerLock, Locking, Reset, CallbackEnds, OnTimerEnds, Ring, Goto,
                callVars, ringVars
  <2>2. pc[Loop] \notin AddingLabels \cup DeleteLabels
    BY <1>2 DEF OnTimer, OnTimerLock, Locking, Reset, CallbackEnds, OnTimerEnds, Ring
  <2>3. Loop \in Threads
    OBVIOUS
  <2>4. pc'[Loop] = label /\ \A u \in Threads \ {Loop} : Stays(u)
    BY <2>1, <2>3, OthersStay
  <2>5. Stays(Loop)
    BY <2>1, <2>2, <2>4 DEF Stays, Adding, Deleting
  <2> QED
    BY <2>1, <2>4, <2>5 DEF Moves
<1> QED
  BY <1>1, <1>2

\* The kinds of steps.
LEMMA Kinds ==
  ASSUME Inv, [Next]_vars
  PROVE  \/ \E t \in Threads, e \in Events : CallAddTimerEvent(t, e) \/ CallDeleteTimerEvent(t, e)
         \/ \E e \in Events : CallSetCancled(e)
         \/ \E t \in Threads : AddEmplace(t) \/ DeleteErase(t)
         \/ TakeDue
         \/ \E e \in Events : Readd(e)
         \/ Tick
         \/ Moves
<1>1. ASSUME NEW t \in Threads, CallStep(t)
      PROVE  Moves \/ \E u \in Threads : AddEmplace(u) \/ DeleteErase(u)
  BY <1>1, CallStepMoves
<1>2. ASSUME LoopStep
      PROVE  \/ Moves \/ (\E u \in Threads : AddEmplace(u) \/ DeleteErase(u)) \/ TakeDue
             \/ \E e \in Events : Readd(e)
  BY <1>1, <1>2, LoopMoves DEF LoopStep
<1>3. UNCHANGED vars => Moves
  BY LoopMoves
<1>4. ASSUME NEW t \in Threads, Call(t)
      PROVE  \/ \E e \in Events : CallAddTimerEvent(t, e) \/ CallDeleteTimerEvent(t, e)
             \/ \E e \in Events : CallSetCancled(e)
  BY <1>4 DEF Call
<1> QED
  BY <1>1, <1>2, <1>3, <1>4 DEF Next

\* A new TimerEvent is in no place yet.
LEMMA CallAddOnce ==
  ASSUME Inv, Once, NEW t \in Threads, NEW e \in Events, CallAddTimerEvent(t, e)
  PROVE  Once'
<1> USE DEF AddingLabels, DeleteLabels
<1>1. /\ pc[t] \in {"idle", "callback"} /\ pc' = [pc EXCEPT ![t] = "add"]
      /\ arg' = [arg EXCEPT ![t] = e] /\ UNCHANGED <<m_pending_events, tmps>>
  BY DEF CallAddTimerEvent, MayCall, Goto, ringVars
<1>2. pc'[t] = "add" /\ \A u \in Threads \ {t} : pc'[u] = pc[u] /\ arg'[u] = arg[u]
  BY <1>1, OthersStay
<1>3. arg'[t] = e
  BY <1>1 DEF Inv, Types, ThreadsOK
<1>4. /\ e \notin Range(m_pending_events) \cup Range(tmps)
      /\ \A u \in Threads : arg[u] # e
  BY DEF CallAddTimerEvent, Free
<1>5. \A d \in Events \ {e} : event'[d] = event[d]
  BY DEF CallAddTimerEvent, resetArriveTime, Inv, Types, DataOK
<1>6. MapOnce' /\ TmpsOnce'
  BY <1>1 DEF Once, MapOnce, TmpsOnce
<1>7. AddOnce'
  BY <1>1, <1>2, <1>3, <1>4 DEF Once, AddOnce, Adding
<1>8. Deleted'
  <2> SUFFICES ASSUME NEW u \in Threads, Deleting(u)'
               PROVE  arg'[u] \in Events /\ event'[arg'[u]].cancled
    BY DEF Deleted
  <2>1. u # t
    BY <1>2 DEF Deleting
  <2>2. arg'[u] = arg[u] /\ Deleting(u)
    BY <1>2, <2>1 DEF Deleting
  <2> QED
    BY <1>4, <1>5, <2>2 DEF Once, Deleted
<1> QED
  BY <1>6, <1>7, <1>8 DEF Once

\* The flag is set, by a call of its own or by deleteTimerEvent.
LEMMA CallCancelOnce ==
  ASSUME Inv, Once, NEW e \in Events,
         CallSetCancled(e) \/ \E t \in Threads : CallDeleteTimerEvent(t, e)
  PROVE  Once'
<1> USE DEF AddingLabels, DeleteLabels
<1>1. UNCHANGED <<m_pending_events, tmps>> /\ event' = [event EXCEPT ![e].cancled = TRUE]
  BY DEF CallSetCancled, CallDeleteTimerEvent, ringVars
<1>2. event'[e].cancled /\ \A d \in Events : event[d].cancled => event'[d].cancled
  <2>1. event[e] \in Event
    BY DEF Inv, Types, DataOK
  <2>2. event'[e].cancled
    BY <1>1, <2>1 DEF Inv, Types, DataOK, Event
  <2>3. \A d \in Events \ {e} : event'[d] = event[d]
    BY <1>1 DEF Inv, Types, DataOK
  <2> QED
    BY <2>2, <2>3
<1>3. MapOnce' /\ TmpsOnce'
  BY <1>1 DEF Once, MapOnce, TmpsOnce
<1>4. CASE CallSetCancled(e)
  <2>1. UNCHANGED <<pc, arg>>
    BY <1>4 DEF CallSetCancled, callVars
  <2> QED
    BY <1>1, <1>2, <1>3, <2>1 DEF Once, AddOnce, Deleted, Adding, Deleting
<1>5. ASSUME NEW t \in Threads, CallDeleteTimerEvent(t, e) PROVE Once'
  <2>1. /\ pc[t] \in {"idle", "callback"} /\ pc' = [pc EXCEPT ![t] = "delete"]
        /\ arg' = [arg EXCEPT ![t] = e]
    BY <1>5 DEF CallDeleteTimerEvent, MayCall, Goto
  <2>2. pc'[t] = "delete" /\ \A u \in Threads \ {t} : pc'[u] = pc[u] /\ arg'[u] = arg[u]
    BY <2>1, OthersStay
  <2>3. arg'[t] = e
    BY <2>1 DEF Inv, Types, ThreadsOK
  <2>4. AddOnce'
    BY <1>1, <2>2 DEF Once, AddOnce, Adding
  <2>5. Deleted'
    BY <1>2, <2>2, <2>3 DEF Once, Deleted, Deleting
  <2> QED
    BY <1>3, <2>4, <2>5 DEF Once
<1> QED
  BY <1>4, <1>5

\* An event enters the map from the one call that adds it.
LEMMA AddEmplaceOnce ==
  ASSUME Inv, Once, NEW t \in Threads, AddEmplace(t)
  PROVE  Once'
<1> USE DEF AddingLabels, DeleteLabels
<1>1. /\ pc[t] = "emplace" /\ m_pending_events' = Emplace(arg[t])
      /\ UNCHANGED <<arg, event, tmps>>
      /\ pc' = [pc EXCEPT ![t] = "reset"] \/ pc' = [pc EXCEPT ![t] = "addEnd"]
  BY DEF AddEmplace, Goto, callVars, ringVars
<1>2. pc'[t] \in {"reset", "addEnd"} /\ \A u \in Threads \ {t} : pc'[u] = pc[u]
  BY <1>1 DEF Inv, Types, ThreadsOK
<1>3. /\ arg[t] \in Events /\ arg[t] \notin Range(m_pending_events) \cup Range(tmps)
      /\ \A u \in Threads : Adding(u) /\ arg[u] = arg[t] => u = t
  BY <1>1 DEF Once, AddOnce, Adding
<1>4. /\ Range(m_pending_events') = Range(m_pending_events) \cup {arg[t]}
      /\ IsInjective(m_pending_events')
  BY <1>1, <1>3, EmplaceType DEF Once, MapOnce, Inv
<1>5. MapOnce' /\ TmpsOnce'
  BY <1>1, <1>3, <1>4 DEF Once, MapOnce, TmpsOnce
<1>6. AddOnce'
  <2> SUFFICES ASSUME NEW u \in Threads, Adding(u)'
               PROVE  /\ arg[u] \in Events /\ arg[u] \notin Range(m_pending_events') \cup Range(tmps)
                      /\ \A v \in Threads : Adding(v)' /\ arg[v] = arg[u] => v = u
    BY <1>1 DEF AddOnce
  <2>1. u # t /\ Adding(u)
    BY <1>2 DEF Adding
  <2>2. \A v \in Threads : Adding(v)' => Adding(v)
    BY <1>2 DEF Adding
  <2> QED
    BY <1>3, <1>4, <2>1, <2>2 DEF Once, AddOnce
<1>7. Deleted'
  BY <1>1, <1>2 DEF Once, Deleted, Deleting
<1> QED
  BY <1>5, <1>6, <1>7 DEF Once

\* Events leave the map: the one that is deleted, or those that are due.
LEMMA MapShrinksOnce ==
  ASSUME Inv, Once, TakeDue \/ \E t \in Threads : DeleteErase(t)
  PROVE  Once'
<1> USE DEF AddingLabels, DeleteLabels
<1>1. event' = event /\ \A t \in Threads : Stays(t)
  <2>1. CASE TakeDue
    <3>1. pc[Loop] = "take" /\ pc' = [pc EXCEPT ![Loop] = "readd"] /\ arg' = arg /\ Loop \in Threads
      BY <2>1 DEF TakeDue, Goto, callVars
    <3>2. pc'[Loop] = "readd" /\ \A u \in Threads \ {Loop} : Stays(u)
      BY <3>1, OthersStay
    <3>3. Stays(Loop)
      BY <3>1, <3>2 DEF Stays, Adding, Deleting
    <3> QED
      BY <2>1, <3>2, <3>3 DEF TakeDue
  <2>2. ASSUME NEW t \in Threads, DeleteErase(t) PROVE event' = event /\ \A u \in Threads : Stays(u)
    <3>1. pc[t] = "erase" /\ pc' = [pc EXCEPT ![t] = "deleteEnd"] /\ UNCHANGED <<arg, event>>
      BY <2>2 DEF DeleteErase, Goto, callVars
    <3>2. pc'[t] = "deleteEnd" /\ \A u \in Threads \ {t} : Stays(u)
      BY <3>1, OthersStay
    <3>3. Stays(t)
      BY <3>1, <3>2 DEF Stays, Adding, Deleting
    <3> QED
      BY <3>1, <3>2, <3>3
  <2> QED
    BY <2>1, <2>2
<1>2. /\ Range(m_pending_events') \subseteq Range(m_pending_events) /\ IsInjective(m_pending_events')
      /\ IsInjective(tmps') /\ Range(tmps') \subseteq Range(tmps) \cup Range(m_pending_events)
      /\ Range(tmps') \cap Range(m_pending_events') = {}
  <2>1. CASE TakeDue
    BY <2>1, TakeDueFacts DEF Once, MapOnce
  <2>2. ASSUME NEW t \in Threads, DeleteErase(t)
        PROVE  /\ Range(m_pending_events') \subseteq Range(m_pending_events)
               /\ IsInjective(m_pending_events')
               /\ IsInjective(tmps') /\ Range(tmps') \subseteq Range(tmps) \cup Range(m_pending_events)
               /\ Range(tmps') \cap Range(m_pending_events') = {}
    <3>1. m_pending_events' = Erase(arg[t]) /\ tmps' = tmps
      BY <2>2 DEF DeleteErase, ringVars
    <3> QED
      BY <3>1, EraseType DEF Once, MapOnce, TmpsOnce, Inv
  <2> QED
    BY <2>1, <2>2
<1>3. AddOnce'
  <2> SUFFICES ASSUME NEW t \in Threads, Adding(t)'
               PROVE  /\ arg'[t] \in Events
                      /\ arg'[t] \notin Range(m_pending_events') \cup Range(tmps')
                      /\ \A u \in Threads : Adding(u)' /\ arg'[u] = arg'[t] => u = t
    BY DEF AddOnce
  <2>1. \A u \in Threads : Adding(u)' => Adding(u) /\ arg'[u] = arg[u]
    BY <1>1 DEF Stays
  <2> QED
    BY <1>2, <2>1 DEF Once, AddOnce
<1>4. Deleted'
  BY <1>1 DEF Once, Deleted, Stays
<1> QED
  BY <1>2, <1>3, <1>4 DEF Once, MapOnce, TmpsOnce

\* An event leaves tmps for the call that adds it again.
LEMMA ReaddOnce ==
  ASSUME Inv, More, Once, NEW e \in Events, Readd(e)
  PROVE  Once' /\ e \notin Range(m_pending_events) /\ \A t \in Threads : Adding(t) => arg[t] # e
<1> USE DEF AddingLabels, DeleteLabels
<1>1. /\ Loop \in Threads /\ pc[Loop] = "readd" /\ pc' = [pc EXCEPT ![Loop] = "add"]
      /\ arg' = [arg EXCEPT ![Loop] = e] /\ UNCHANGED m_pending_events
      /\ tmps # <<>> /\ e = Head(tmps) /\ tmps' = Tail(tmps) /\ event' = resetArriveTime(e)
  BY DEF Readd, Goto
<1>2. pc'[Loop] = "add" /\ \A u \in Threads \ {Loop} : pc'[u] = pc[u] /\ arg'[u] = arg[u]
  BY <1>1, OthersStay
<1>3. arg'[Loop] = e
  BY <1>1 DEF Inv, Types, ThreadsOK
<1>4. e \in Range(tmps) /\ Range(tmps') = Range(tmps) \ {e} /\ IsInjective(tmps')
  BY <1>1, TailOnce DEF More, Once, TmpsOnce
<1>5. e \notin Range(m_pending_events) /\ \A t \in Threads : Adding(t) => arg[t] # e
  BY <1>4 DEF Once, TmpsOnce, AddOnce
<1>6. MapOnce' /\ TmpsOnce'
  BY <1>1, <1>4 DEF Once, MapOnce, TmpsOnce
<1>7. AddOnce'
  BY <1>1, <1>2, <1>3, <1>4, <1>5 DEF Once, AddOnce, Adding
<1>8. \A d \in Events : event'[d].cancled = event[d].cancled
  <2>1. event[e] \in Event
    BY DEF Inv, Types, DataOK
  <2>2. event'[e].cancled = event[e].cancled
    BY <1>1, <2>1 DEF resetArriveTime, Inv, Types, DataOK, Event
  <2>3. \A d \in Events \ {e} : event'[d] = event[d]
    BY <1>1 DEF resetArriveTime, Inv, Types, DataOK
  <2> QED
    BY <2>2, <2>3
<1>9. Deleted'
  BY <1>2, <1>8 DEF Once, Deleted, Deleting
<1> QED
  BY <1>5, <1>6, <1>7, <1>9 DEF Once

\* Time passes, for each event.
LEMMA TickFacts ==
  ASSUME Inv, Tick
  PROVE  \A e \in Events :
           /\ event'[e].cancled = event[e].cancled
           /\ event'[e].left = IF Free(e) THEN Left(e)
                               ELSE IF Left(e) - 1 >= -MaxLate THEN Left(e) - 1 ELSE -MaxLate
           /\ Left(e) \in Int
<1> SUFFICES ASSUME NEW e \in Events
             PROVE  /\ event'[e].cancled = event[e].cancled
                    /\ event'[e].left = IF Free(e) THEN Left(e)
                                        ELSE IF Left(e) - 1 >= -MaxLate THEN Left(e) - 1 ELSE -MaxLate
                    /\ Left(e) \in Int
  OBVIOUS
<1>1. event[e] \in Event /\ event[e].left \in Int
  BY DEF Inv, Types, DataOK, Event
<1>2. event'[e] = IF Free(e) THEN event[e] ELSE [event[e] EXCEPT !.left = Max({@ - 1, -MaxLate})]
  BY DEF Tick
<1>3. Max({event[e].left - 1, -MaxLate})
        = IF event[e].left - 1 >= -MaxLate THEN event[e].left - 1 ELSE -MaxLate
  <2>1. event[e].left - 1 \in Int /\ -MaxLate \in Int
    BY <1>1, TimerAssumption
  <2> QED
    BY <2>1, MaxOfTwo
<1>4. CASE Free(e)
  BY <1>1, <1>2, <1>4 DEF Left
<1>5. CASE ~Free(e)
  <2>1. event'[e] = [event[e] EXCEPT !.left = Max({event[e].left - 1, -MaxLate})]
    BY <1>2, <1>5
  <2> DEFINE m == Max({event[e].left - 1, -MaxLate})
  <2>2. m = IF event[e].left - 1 >= -MaxLate THEN event[e].left - 1 ELSE -MaxLate
    BY <1>3
  <2>3. event'[e] = [event[e] EXCEPT !.left = m]
    BY <2>1
  <2> HIDE DEF m
  <2>4. event'[e].left = m /\ event'[e].cancled = event[e].cancled
    BY <1>1, <2>3 DEF Event
  <2> QED
    BY <1>1, <1>5, <2>2, <2>4 DEF Left
<1> QED
  BY <1>4, <1>5

LEMMA OnceInit == Init => Once
<1> SUFFICES ASSUME Init PROVE Once
  OBVIOUS
<1> USE DEF AddingLabels, DeleteLabels
<1>1. m_pending_events = <<>> /\ tmps = <<>> /\ \A t \in Threads : pc[t] = "idle"
  BY DEF Init
<1>2. \A s : s = <<>> => IsInjective(s) /\ Range(s) = {}
  <2> SUFFICES ASSUME NEW s, s = <<>> PROVE IsInjective(s) /\ Range(s) = {}
    OBVIOUS
  <2>1. s \in Seq(Events) /\ Len(s) = 0
    OBVIOUS
  <2>2. IsInjective(s) <=> \A i, j \in 1 .. Len(s) : s[i] = s[j] => i = j
    <3>1. s \in Seq(Events)
      BY <2>1
    <3> HIDE DEF Init
    <3> QED
      BY ONLY <3>1, RangeIs
  <2>3. \A i \in 1 .. 0 : FALSE
    OBVIOUS
  <2> QED
    BY <2>1, <2>2, <2>3, RangeEmpty
<1>3. MapOnce /\ TmpsOnce
  BY <1>1, <1>2 DEF MapOnce, TmpsOnce
<1>4. AddOnce /\ Deleted
  BY <1>1 DEF AddOnce, Deleted, Adding, Deleting
<1> QED
  BY <1>3, <1>4 DEF Once

\* Every step keeps every event in one place.
LEMMA OnceNext ==
  ASSUME Inv, More, Once, [Next]_vars
  PROVE  Once'
<1>1. CASE Moves
  <2>1. AddOnce'
    <3> SUFFICES ASSUME NEW t \in Threads, Adding(t)'
                 PROVE  /\ arg'[t] \in Events
                        /\ arg'[t] \notin Range(m_pending_events') \cup Range(tmps')
                        /\ \A u \in Threads : Adding(u)' /\ arg'[u] = arg'[t] => u = t
      BY DEF AddOnce
    <3>1. \A u \in Threads : Adding(u)' => Adding(u) /\ arg'[u] = arg[u]
      BY <1>1 DEF Moves, Stays
    <3> QED
      BY <1>1, <3>1 DEF Once, AddOnce, Moves
  <2>2. Deleted'
    BY <1>1 DEF Once, Deleted, Moves, Stays
  <2> QED
    BY <1>1, <2>1, <2>2 DEF Once, MapOnce, TmpsOnce, Moves
<1>2. CASE Tick
  <2>1. UNCHANGED <<pc, arg, m_pending_events, tmps>>
    BY <1>2 DEF Tick, callVars, ringVars
  <2>2. \A e \in Events : event'[e].cancled = event[e].cancled
    BY <1>2, TickFacts
  <2> QED
    BY <2>1, <2>2 DEF Once, MapOnce, AddOnce, TmpsOnce, Deleted, Adding, Deleting
<1> QED
  BY <1>1, <1>2, Kinds, CallAddOnce, CallCancelOnce, AddEmplaceOnce, MapShrinksOnce, ReaddOnce

-----------------------------------------------------------------------------
(* onTimer.  What it holds apart from the map: the callbacks that it has to *)
(* run, and the events that were due.                                       *)

InCall(label) == label \in AddLabels \cup DeleteLabels

\* onTimer has callbacks to run: it is in its loops, or in a call that one of them
\* makes, or in its resetArriveTime.
Ringing(label, one, return) ==
  \/ label \in {"readd", "tasks", "callback"}
  \/ InCall(label) /\ return \in {"readd", "callback"}
  \/ label \in {"reset", "copy", "settime", "resetEnd"} /\ one = NoEvent

Held ==
  /\ arg[Loop] # NoEvent => InCall(pc[Loop])
  /\ tasks # <<>> => Ringing(pc[Loop], arg[Loop], back[Loop])
  /\ due # {} => pc[Loop] \in {"onTimer", "take"}
  /\ IsInjective(tasks)

\* The events were due when onTimer asked, and no time is ever less than it is counted.
Times ==
  /\ \A e \in Events : Left(e) \in Int /\ Left(e) >= -MaxLate
  /\ \A e \in due : Left(e) <= 0

\* The other threads leave the loop alone.
LEMMA OtherThread ==
  ASSUME Inv, NEW t \in Threads, t # Loop, Call(t) \/ CallStep(t)
  PROVE  /\ pc'[Loop] = pc[Loop] /\ arg'[Loop] = arg[Loop] /\ back'[Loop] = back[Loop]
         /\ UNCHANGED <<tasks, tmps, due>>
<1>1. \E label : pc' = [pc EXCEPT ![t] = label]
  BY DEF Call, CallAddTimerEvent, CallDeleteTimerEvent, CallStep, AddLock, ResetLock, DeleteLock,
         Locking, Goto, AddEmplace, Return, ResetCopy, ResetSettime, ResetEnd, DeleteErase
<1>2. arg' = arg \/ \E one : arg' = [arg EXCEPT ![t] = one]
  BY DEF Call, CallAddTimerEvent, CallDeleteTimerEvent, CallStep, AddLock, ResetLock, DeleteLock,
         Locking, AddEmplace, Return, ResetCopy, ResetSettime, ResetEnd, DeleteErase, callVars
<1>3. back' = back \/ \E one : back' = [back EXCEPT ![t] = one]
  BY DEF Call, CallAddTimerEvent, CallDeleteTimerEvent, CallStep, AddLock, ResetLock, DeleteLock,
         Locking, AddEmplace, Return, ResetCopy, ResetSettime, ResetEnd, DeleteErase, callVars
<1>4. UNCHANGED <<tasks, tmps, due>>
  BY DEF Call, CallAddTimerEvent, CallDeleteTimerEvent, CallStep, AddLock, ResetLock, DeleteLock,
         Locking, AddEmplace, Return, ResetCopy, ResetSettime, ResetEnd, DeleteErase, ringVars
<1> QED
  BY <1>1, <1>2, <1>3, <1>4 DEF Inv, Types, ThreadsOK

\* A call in the loop begins in a task or in a callback, and returns to it.
LEMMA LoopCallHeld ==
  ASSUME Inv, Held, Call(Loop) \/ CallStep(Loop)
  PROVE  Held'
<1> USE DEF InCall, Ringing, AddLabels, DeleteLabels
<1>0. Loop \in Threads
  OBVIOUS
<1>1. UNCHANGED <<tasks, due>>
  BY DEF Call, CallAddTimerEvent, CallDeleteTimerEvent, CallSetCancled, CallStep, AddLock, ResetLock,
         DeleteLock, Locking, AddEmplace, Return, ResetCopy, ResetSettime, ResetEnd, DeleteErase,
         ringVars
<1>2. ASSUME NEW label, NEW one, NEW return,
             pc'[Loop] = label, arg'[Loop] = one, back'[Loop] = return,
             one # NoEvent => InCall(label),
             Ringing(pc[Loop], arg[Loop], back[Loop]) => Ringing(label, one, return),
             pc[Loop] \notin {"onTimer", "take"}
      PROVE  Held'
  BY <1>1, <1>2 DEF Held
<1>3. ASSUME NEW e \in Events, CallAddTimerEvent(Loop, e) \/ CallDeleteTimerEvent(Loop, e)
      PROVE  Held'
  <2>1. /\ pc'[Loop] \in {"add", "delete"} /\ arg'[Loop] = e /\ back'[Loop] = pc[Loop]
        /\ pc[Loop] \in {"idle", "callback"}
    BY <1>0, <1>3 DEF CallAddTimerEvent, CallDeleteTimerEvent, MayCall, Goto, Inv, Types, ThreadsOK
  <2>2. back[Loop] # "readd" /\ arg[Loop] = NoEvent
    BY <1>0, <2>1, ThreadFacts DEF CallOK, Held
  <2> QED
    BY <1>2, <2>1, <2>2
<1>4. ASSUME NEW e \in Events, CallSetCancled(e)
      PROVE  Held'
  BY <1>4 DEF CallSetCancled, callVars, ringVars, Held
<1>5. ASSUME NEW to, NEW from, Locking(Loop, from, to),
             <<from, to>> \in {<<"add", "emplace">>, <<"reset", "copy">>, <<"delete", "erase">>}
      PROVE  Held'
  <2>1. pc'[Loop] = to /\ pc[Loop] = from /\ UNCHANGED <<arg, back>>
    BY <1>0, <1>5 DEF Locking, Goto, callVars, Inv, Types, ThreadsOK
  <2> QED
    BY <1>2, <1>5, <2>1 DEF Held
<1>6. CASE AddLock(Loop) \/ ResetLock(Loop) \/ DeleteLock(Loop)
  BY <1>5, <1>6 DEF AddLock, ResetLock, DeleteLock
<1>7. CASE AddEmplace(Loop)
  <2>1. pc'[Loop] \in {"reset", "addEnd"} /\ pc[Loop] = "emplace" /\ UNCHANGED <<arg, back>>
    BY <1>0, <1>7 DEF AddEmplace, Goto, callVars, Inv, Types, ThreadsOK
  <2> QED
    BY <1>2, <2>1 DEF Held
<1>8. CASE Return(Loop)
  <2>1. /\ pc'[Loop] = back[Loop] /\ pc[Loop] \in {"addEnd", "deleteEnd"}
        /\ arg'[Loop] = NoEvent /\ back'[Loop] = "idle"
    BY <1>0, <1>8 DEF Return, Goto, Inv, Types, ThreadsOK
  <2> QED
    BY <1>2, <2>1
<1>9. CASE ResetCopy(Loop)
  <2>1. pc'[Loop] \in {"resetEnd", "settime"} /\ pc[Loop] = "copy" /\ UNCHANGED <<arg, back>>
    BY <1>0, <1>9 DEF ResetCopy, Goto, Inv, Types, ThreadsOK
  <2> QED
    BY <1>2, <2>1 DEF Held
<1>10. CASE ResetSettime(Loop)
  <2>1. pc'[Loop] = "resetEnd" /\ pc[Loop] = "settime" /\ UNCHANGED <<arg, back>>
    BY <1>0, <1>10 DEF ResetSettime, Goto, Inv, Types, ThreadsOK
  <2> QED
    BY <1>2, <2>1 DEF Held
<1>11. CASE ResetEnd(Loop)
  <2>1. /\ pc'[Loop] = IF arg[Loop] # NoEvent THEN "addEnd" ELSE "tasks"
        /\ pc[Loop] = "resetEnd" /\ UNCHANGED <<arg, back>>
    BY <1>0, <1>11 DEF ResetEnd, Goto, callVars, Inv, Types, ThreadsOK
  <2> QED
    BY <1>2, <2>1 DEF Held
<1>12. CASE DeleteErase(Loop)
  <2>1. pc'[Loop] = "deleteEnd" /\ pc[Loop] = "erase" /\ UNCHANGED <<arg, back>>
    BY <1>0, <1>12 DEF DeleteErase, Goto, callVars, Inv, Types, ThreadsOK
  <2> QED
    BY <1>2, <2>1 DEF Held
<1> QED
  BY <1>3, <1>4, <1>6, <1>7, <1>8, <1>9, <1>10, <1>11, <1>12 DEF Call, CallStep

\* onTimer itself.
LEMMA OnTimerHeld ==
  ASSUME Inv, More, Once, Held,
         \/ Poll \/ OnTimer \/ OnTimerLock \/ TakeDue \/ Reset \/ CallbackEnds \/ OnTimerEnds
         \/ \E e \in Events : Readd(e) \/ Ring(e)
  PROVE  Held'
<1> USE DEF InCall, Ringing, AddLabels, DeleteLabels
<1>0. Loop \in Threads
  OBVIOUS
<1>1. CASE Poll
  BY <1>1 DEF Poll, callVars, ringVars, Held
<1>2. CASE OnTimer
  <2>1. pc'[Loop] = "onTimer" /\ pc[Loop] = "idle" /\ UNCHANGED <<arg, back, tasks>>
    BY <1>0, <1>2 DEF OnTimer, Goto, callVars, Inv, Types, ThreadsOK
  <2>2. back[Loop] # "readd"
    BY <1>0, <2>1, ThreadFacts DEF CallOK
  <2> QED
    BY <2>1, <2>2 DEF Held
<1>3. CASE OnTimerLock
  <2>1. pc'[Loop] = "take" /\ pc[Loop] = "onTimer" /\ UNCHANGED <<arg, back, tasks, due>>
    BY <1>0, <1>3 DEF OnTimerLock, Locking, Goto, callVars, ringVars, Inv, Types, ThreadsOK
  <2> QED
    BY <2>1 DEF Held
<1>4. CASE TakeDue
  <2>1. pc'[Loop] = "readd" /\ pc[Loop] = "take" /\ UNCHANGED <<arg, back>> /\ due' = {}
    BY <1>0, <1>4 DEF TakeDue, Goto, callVars, Inv, Types, ThreadsOK
  <2>2. IsInjective(tasks')
    BY <1>4, TakeDueFacts DEF Once, MapOnce
  <2> QED
    BY <2>1, <2>2 DEF Held
<1>5. CASE Reset
  <2>1. pc'[Loop] = "reset" /\ pc[Loop] = "readd" /\ UNCHANGED <<arg, back, tasks, due>>
    BY <1>0, <1>5 DEF Reset, Goto, callVars, ringVars, Inv, Types, ThreadsOK
  <2> QED
    BY <2>1 DEF Held
<1>6. CASE CallbackEnds
  <2>1. pc'[Loop] = "tasks" /\ pc[Loop] = "callback" /\ UNCHANGED <<arg, back, tasks, due>>
    BY <1>0, <1>6 DEF CallbackEnds, Goto, callVars, ringVars, Inv, Types, ThreadsOK
  <2> QED
    BY <2>1 DEF Held
<1>7. CASE OnTimerEnds
  <2>1. /\ pc'[Loop] = "idle" /\ pc[Loop] = "tasks" /\ tasks = <<>>
        /\ UNCHANGED <<arg, back, tasks, due>>
    BY <1>0, <1>7 DEF OnTimerEnds, Goto, callVars, ringVars, Inv, Types, ThreadsOK
  <2> QED
    BY <2>1 DEF Held
<1>8. ASSUME NEW e \in Events, Readd(e) PROVE Held'
  <2>1. /\ pc'[Loop] = "add" /\ pc[Loop] = "readd" /\ back'[Loop] = "readd"
        /\ UNCHANGED <<tasks, due>>
    BY <1>0, <1>8 DEF Readd, Goto, Inv, Types, ThreadsOK
  <2> QED
    BY <2>1 DEF Held
<1>9. ASSUME NEW e \in Events, Ring(e) PROVE Held'
  <2>1. /\ pc'[Loop] = "callback" /\ pc[Loop] = "tasks" /\ UNCHANGED <<arg, back, due>>
        /\ tasks # <<>> /\ tasks' = Tail(tasks)
    BY <1>0, <1>9 DEF Ring, Goto, callVars, Inv, Types, ThreadsOK
  <2>2. IsInjective(tasks')
    BY <2>1, TailOnce DEF More, Held
  <2> QED
    BY <2>1, <2>2 DEF Held
<1> QED
  BY <1>1, <1>2, <1>3, <1>4, <1>5, <1>6, <1>7, <1>8, <1>9

LEMMA HeldInit == Init => Held /\ Times
<1> SUFFICES ASSUME Init PROVE Held /\ Times
  OBVIOUS
<1>1. \A e \in Events : event[e].left = 0
  <2> SUFFICES ASSUME NEW e \in Events PROVE event[e].left = 0
    OBVIOUS
  <2>1. event[e] \in [left : {0}, interval : Intervals, cancled : {TRUE}]
    BY DEF Init
  <2> QED
    BY <2>1
<1>2. Times
  <2>1. MaxLate \in Nat \ {0}
    BY TimerAssumption
  <2>2. due = {}
    BY DEF Init
  <2> QED
    BY <1>1, <2>1, <2>2 DEF Times, Left
<1>3. IsInjective(tasks)
  <2>1. tasks = tmps
    BY DEF Init
  <2> QED
    BY <2>1, OnceInit DEF Once, TmpsOnce
<1>4. arg[Loop] = NoEvent /\ tasks = <<>> /\ due = {}
  BY DEF Init
<1> QED
  BY <1>2, <1>3, <1>4 DEF Held

LEMMA HeldNext ==
  ASSUME Inv, More, Once, Held, [Next]_vars
  PROVE  Held'
<1>1. ASSUME NEW t \in Threads, Call(t) \/ CallStep(t) PROVE Held'
  <2>1. CASE t = Loop
    BY <1>1, <2>1, LoopCallHeld
  <2>2. CASE t # Loop
    BY <1>1, <2>2, OtherThread DEF Held
  <2> QED
    BY <2>1, <2>2
<1>2. ASSUME LoopStep PROVE Held'
  BY <1>1, <1>2, OnTimerHeld DEF LoopStep
<1>3. ASSUME Tick \/ UNCHANGED vars PROVE Held'
  BY <1>3 DEF Tick, vars, callVars, ringVars, Held
<1> QED
  BY <1>1, <1>2, <1>3 DEF Next

LEMMA TimesNext ==
  ASSUME Inv, More, Once, Held, Times, [Next]_vars
  PROVE  Times'
<1>0. \A e \in Events : event[e] \in Event /\ event[e].interval \in Nat /\ event[e].left \in Int
  BY TimerAssumption DEF Inv, Types, DataOK, Event
<1>1. MaxLate \in Nat \ {0}
  BY TimerAssumption
<1>2. ASSUME NEW e \in Events, e \notin due, due' = due,
             event'[e].left = event[e].interval,
             \A d \in Events \ {e} : event'[d] = event[d]
      PROVE  Times'
  <2>1. ASSUME NEW d \in Events
        PROVE  /\ event'[d].left \in Int /\ event'[d].left >= -MaxLate
               /\ d \in due => event'[d].left <= 0
    <3>1. CASE d = e
      <4>1. event[e].interval >= -MaxLate
        BY <1>0, <1>1
      <4> QED
        BY <1>0, <1>2, <3>1, <4>1
    <3>2. CASE d # e
      <4>1. event'[d] = event[d]
        BY <1>2, <3>2
      <4> QED
        BY <1>0, <4>1 DEF Times, Left
    <3> QED
      BY <3>1, <3>2
  <2> QED
    BY <1>2, <2>1 DEF Times, Left, More
<1>3. ASSUME NEW t \in Threads, NEW e \in Events, CallAddTimerEvent(t, e) PROVE Times'
  <2>1. e \notin due /\ due' = due
    BY <1>3 DEF CallAddTimerEvent, Free, ringVars
  <2>2. event'[e].left = event[e].interval /\ \A d \in Events \ {e} : event'[d] = event[d]
    BY <1>0, <1>3 DEF CallAddTimerEvent, resetArriveTime, Inv, Types, DataOK, Event
  <2> QED
    BY <1>2, <2>1, <2>2
<1>4. ASSUME NEW e \in Events, Readd(e) PROVE Times'
  <2>1. e \notin due /\ due' = due
    BY <1>4 DEF Readd, Held
  <2>2. event'[e].left = event[e].interval /\ \A d \in Events \ {e} : event'[d] = event[d]
    BY <1>0, <1>4 DEF Readd, resetArriveTime, Inv, Types, DataOK, Event
  <2> QED
    BY <1>2, <2>1, <2>2
<1>5. ASSUME NEW e \in Events, CallSetCancled(e) \/ \E t \in Threads : CallDeleteTimerEvent(t, e)
      PROVE  Times'
  <2>1. event' = [event EXCEPT ![e].cancled = TRUE] /\ due' = due
    BY <1>5 DEF CallSetCancled, CallDeleteTimerEvent, ringVars
  <2>2. event'[e].left = event[e].left /\ \A d \in Events \ {e} : event'[d] = event[d]
    BY <1>0, <2>1 DEF Inv, Types, DataOK, Event
  <2> QED
    BY <2>1, <2>2 DEF Times, Left, More
<1>6. CASE Tick
  <2>1. due' = due
    BY <1>6 DEF Tick, ringVars
  <2>2. ASSUME NEW e \in Events
        PROVE  /\ event'[e].left \in Int /\ event'[e].left >= -MaxLate
               /\ event[e].left <= 0 => event'[e].left <= 0
    <3>1. event'[e].left = IF Free(e) THEN event[e].left
                           ELSE IF event[e].left - 1 >= -MaxLate THEN event[e].left - 1 ELSE -MaxLate
      BY <1>6, TickFacts DEF Left
    <3>2. event[e].left >= -MaxLate
      BY DEF Times, Left
    <3>3. CASE Free(e)
      BY <1>0, <3>1, <3>2, <3>3
    <3>4. CASE ~Free(e)
      <4>1. event'[e].left = IF event[e].left - 1 >= -MaxLate THEN event[e].left - 1 ELSE -MaxLate
        BY <3>1, <3>4
      <4> QED
        BY <1>0, <1>1, <4>1
    <3> QED
      BY <3>3, <3>4
  <2> QED
    BY <2>1, <2>2 DEF Times, Left, More
<1>7. ASSUME event' = event, due' \subseteq due PROVE Times'
  BY <1>7 DEF Times, Left
<1>8. ASSUME NEW t \in Threads, AddEmplace(t) \/ DeleteErase(t) PROVE Times'
  BY <1>7, <1>8 DEF AddEmplace, DeleteErase, ringVars
<1>9. CASE TakeDue
  BY <1>7, <1>9 DEF TakeDue
<1>10. CASE Moves
  <2>1. event' = event
    BY <1>10 DEF Moves
  <2>2. due' = due \/ OnTimer \/ ~Moves \/ TakeDue
    BY DEF Next, Call, CallAddTimerEvent, CallDeleteTimerEvent, CallSetCancled, CallStep, AddLock,
           ResetLock, DeleteLock, Locking, AddEmplace, Return, ResetCopy, ResetSettime, ResetEnd,
           DeleteErase, LoopStep, Poll, OnTimerLock, Reset, Readd, Ring, CallbackEnds, OnTimerEnds,
           Tick, vars, ringVars
  <2>3. CASE OnTimer
    <3>1. due' = {e \in Events : ~Free(e) /\ Left(e) <= 0}
      BY <2>3 DEF OnTimer
    <3> QED
      BY <2>1, <3>1 DEF Times, Left
  <2> QED
    BY <1>7, <1>9, <1>10, <2>1, <2>2, <2>3
<1> QED
  BY <1>3, <1>4, <1>5, <1>6, <1>8, <1>9, <1>10, Kinds

-----------------------------------------------------------------------------
(* The alarms.  An event waits while it is in the map or on its way into    *)
(* it; a step of the timer is one of AlarmClock, or changes none of its     *)
(* variables.                                                               *)

Waits(e) ==
  \/ e \in Range(m_pending_events)
  \/ \E t \in Threads : Adding(t) /\ arg[t] = e

AlarmLeft == [e \in Events |-> IF IsSet(e) THEN Left(e) ELSE Off]
Owed      == Range(tasks)

AlarmInv == Inv /\ More /\ Once /\ Held /\ Times

LEMMA IsSetIs == \A e : IsSet(e) <=> ~event[e].cancled /\ Waits(e)
BY DEF IsSet, Waits, Adding, AddingLabels

LEMMA IsSetNext == \A e : IsSet(e)' <=> ~event'[e].cancled /\ Waits(e)'
BY DEF IsSet, Waits, Adding, AddingLabels

\* A new event, or a repeated one, waits from now on.
LEMMA StartWaits ==
  ASSUME AlarmInv, NEW e \in Events, NEW t \in Threads,
         CallAddTimerEvent(t, e) \/ (t = Loop /\ Readd(e))
  PROVE  /\ ~Waits(e) /\ \A d \in Events : Waits(d)' <=> (Waits(d) \/ d = e)
         /\ event'[e].left \in Nat /\ \A d \in Events \ {e} : event'[d] = event[d]
         /\ tasks' = tasks
<1> USE DEF AddingLabels
<1>1. /\ pc[t] \notin AddingLabels /\ pc' = [pc EXCEPT ![t] = "add"]
      /\ arg' = [arg EXCEPT ![t] = e] /\ UNCHANGED <<m_pending_events, tasks>>
  BY DEF CallAddTimerEvent, MayCall, Readd, Goto, ringVars
<1>2. pc'[t] = "add" /\ arg'[t] = e
      /\ \A u \in Threads \ {t} : pc'[u] = pc[u] /\ arg'[u] = arg[u]
  BY <1>1, OthersStay DEF AlarmInv, Inv, Types, ThreadsOK
<1>3. ~Waits(e)
  <2>1. CASE CallAddTimerEvent(t, e)
    BY <2>1 DEF CallAddTimerEvent, Free, Waits
  <2>2. CASE Readd(e)
    BY <2>2, ReaddOnce DEF AlarmInv, Waits
  <2> QED
    BY <2>1, <2>2
<1>4. ASSUME NEW d \in Events PROVE Waits(d)' <=> (Waits(d) \/ d = e)
  BY <1>1, <1>2 DEF Waits, Adding
<1>5. event[e] \in Event /\ event[e].interval \in Nat
  BY TimerAssumption DEF AlarmInv, Inv, Types, DataOK, Event
<1>6. event'[e].left = event[e].interval /\ \A d \in Events \ {e} : event'[d] = event[d]
  <2>1. CASE CallAddTimerEvent(t, e)
    BY <1>5, <2>1 DEF CallAddTimerEvent, resetArriveTime, AlarmInv, Inv, Types, DataOK, Event
  <2>2. CASE Readd(e)
    BY <1>5, <2>2 DEF Readd, resetArriveTime, AlarmInv, Inv, Types, DataOK, Event
  <2> QED
    BY <2>1, <2>2
<1> QED
  BY <1>1, <1>3, <1>4, <1>5, <1>6

\* An event that starts to wait is a new alarm, unless it has been cancelled already:
\* then it enters the map and will not ring.
LEMMA StartAlarm ==
  ASSUME AlarmInv, NEW e \in Events, NEW t \in Threads,
         CallAddTimerEvent(t, e) \/ (t = Loop /\ Readd(e))
  PROVE  Alarms!Set(e) \/ UNCHANGED <<AlarmLeft, Owed>>
<1>1. /\ ~Waits(e) /\ \A d \in Events : Waits(d)' <=> (Waits(d) \/ d = e)
      /\ event'[e].left \in Nat /\ \A d \in Events \ {e} : event'[d] = event[d]
      /\ tasks' = tasks
  BY StartWaits
<1>2. ~IsSet(e) /\ (IsSet(e)' <=> ~event'[e].cancled)
  BY <1>1, IsSetIs, IsSetNext
<1>3. ASSUME NEW d \in Events \ {e} PROVE (IsSet(d)' <=> IsSet(d)) /\ Left(d)' = Left(d)
  BY <1>1, IsSetIs, IsSetNext DEF Left
<1>4. \A d \in Events \ {e} : AlarmLeft'[d] = AlarmLeft[d]
  BY <1>3 DEF AlarmLeft
<1>5. /\ AlarmLeft[e] = Off
      /\ AlarmLeft'[e] = IF event'[e].cancled THEN Off ELSE event'[e].left
  BY <1>2 DEF AlarmLeft, Left
<1>6. /\ AlarmLeft = [d \in Events |-> AlarmLeft[d]]
      /\ AlarmLeft' = [d \in Events |-> AlarmLeft'[d]]
  BY DEF AlarmLeft
<1>7. Owed' = Owed
  BY <1>1 DEF Owed
<1>8. CASE event'[e].cancled
  <2> HIDE DEF AlarmLeft
  <2> QED
    BY <1>4, <1>5, <1>6, <1>7, <1>8
<1>9. CASE ~event'[e].cancled
  <2>1. AlarmLeft'[e] \in Nat
    BY <1>1, <1>5, <1>9
  <2>2. AlarmLeft' = [AlarmLeft EXCEPT ![e] = AlarmLeft'[e]]
    BY <1>4, <1>6
  <2> QED
    BY <1>5, <1>7, <2>1, <2>2 DEF Alarms!Set, AlarmLeft, Owed
<1> QED
  BY <1>8, <1>9

\* setCancled, alone or at the start of deleteTimerEvent, takes the alarm back.
LEMMA CancelAlarm ==
  ASSUME AlarmInv, NEW e \in Events,
         CallSetCancled(e) \/ \E t \in Threads : CallDeleteTimerEvent(t, e)
  PROVE  Alarms!Cancel(e)
<1> USE DEF AddingLabels
<1>1. event' = [event EXCEPT ![e].cancled = TRUE] /\ UNCHANGED <<m_pending_events, tasks>>
  BY DEF CallSetCancled, CallDeleteTimerEvent, ringVars
<1>2. event'[e].cancled /\ \A d \in Events \ {e} : event'[d] = event[d]
  BY <1>1 DEF AlarmInv, Inv, Types, DataOK, Event
<1>3. \A d \in Events : Waits(d)' <=> Waits(d)
  <2>1. CASE CallSetCancled(e)
    BY <1>1, <2>1 DEF CallSetCancled, callVars, Waits, Adding
  <2>2. ASSUME NEW t \in Threads, CallDeleteTimerEvent(t, e)
        PROVE  \A d \in Events : Waits(d)' <=> Waits(d)
    <3>1. /\ pc[t] \notin AddingLabels /\ pc' = [pc EXCEPT ![t] = "delete"]
          /\ arg' = [arg EXCEPT ![t] = e]
      BY <2>2 DEF CallDeleteTimerEvent, MayCall, Goto
    <3>2. /\ pc'[t] = "delete"
          /\ \A u \in Threads \ {t} : pc'[u] = pc[u] /\ arg'[u] = arg[u]
      BY <3>1, OthersStay DEF AlarmInv
    <3> QED
      BY <1>1, <3>1, <3>2 DEF Waits, Adding
  <2> QED
    BY <2>1, <2>2
<1>4. ASSUME NEW d \in Events \ {e} PROVE AlarmLeft'[d] = AlarmLeft[d]
  BY <1>2, <1>3, IsSetIs, IsSetNext DEF AlarmLeft, Left
<1>5. AlarmLeft'[e] = Off
  BY <1>2, IsSetNext DEF AlarmLeft
<1>6. /\ AlarmLeft = [d \in Events |-> AlarmLeft[d]]
      /\ AlarmLeft' = [d \in Events |-> AlarmLeft'[d]]
  BY DEF AlarmLeft
<1>7. AlarmLeft' = [AlarmLeft EXCEPT ![e] = Off]
  <2> HIDE DEF AlarmLeft
  <2> QED
    BY <1>4, <1>5, <1>6
<1>8. Owed' = Owed
  BY <1>1 DEF Owed
<1> QED
  BY <1>7, <1>8 DEF Alarms!Cancel, AlarmLeft, Owed

\* A step after which every event that is not cancelled waits as it did.
LEMMA SameAlarms ==
  ASSUME event' = event,
         \A d \in Events : ~event[d].cancled => (Waits(d)' <=> Waits(d))
  PROVE  AlarmLeft' = AlarmLeft
<1>1. ASSUME NEW d \in Events PROVE (IsSet(d)' <=> IsSet(d)) /\ Left(d)' = Left(d)
  BY IsSetIs, IsSetNext DEF Left
<1> QED
  BY <1>1 DEF AlarmLeft

\* From the call into the map; out of the map, but cancelled.
LEMMA MapAlarms ==
  ASSUME AlarmInv, NEW t \in Threads, AddEmplace(t) \/ DeleteErase(t)
  PROVE  UNCHANGED <<AlarmLeft, Owed>>
<1> USE DEF AddingLabels, DeleteLabels
<1>1. UNCHANGED <<arg, event, tasks>>
  BY DEF AddEmplace, DeleteErase, callVars, ringVars
<1>2. CASE AddEmplace(t)
  <2>1. /\ pc[t] = "emplace" /\ m_pending_events' = Emplace(arg[t])
        /\ pc' = [pc EXCEPT ![t] = "reset"] \/ pc' = [pc EXCEPT ![t] = "addEnd"]
    BY <1>2 DEF AddEmplace, Goto
  <2>2. pc'[t] \in {"reset", "addEnd"} /\ \A u \in Threads \ {t} : pc'[u] = pc[u]
    BY <2>1 DEF AlarmInv, Inv, Types, ThreadsOK
  <2>3. arg[t] \in Events
    BY <2>1 DEF AlarmInv, Once, AddOnce, Adding
  <2>4. Range(m_pending_events') = Range(m_pending_events) \cup {arg[t]}
    BY <2>1, <2>3, EmplaceType DEF AlarmInv, Inv
  <2>5. ASSUME NEW d \in Events PROVE Waits(d)' <=> Waits(d)
    BY <1>1, <2>1, <2>2, <2>4 DEF Waits, Adding
  <2> QED
    BY <1>1, <2>5, SameAlarms DEF Owed
<1>3. CASE DeleteErase(t)
  <2>1. /\ pc[t] = "erase" /\ m_pending_events' = Erase(arg[t])
        /\ pc' = [pc EXCEPT ![t] = "deleteEnd"]
    BY <1>3 DEF DeleteErase, Goto
  <2>2. pc'[t] = "deleteEnd" /\ \A u \in Threads \ {t} : pc'[u] = pc[u]
    BY <2>1 DEF AlarmInv, Inv, Types, ThreadsOK
  <2>3. event[arg[t]].cancled
    BY <2>1 DEF AlarmInv, Once, Deleted, Deleting
  <2>4. ASSUME NEW d \in Events, d # arg[t]
        PROVE  d \in Range(m_pending_events') <=> d \in Range(m_pending_events)
    BY <2>1, <2>4, EraseType DEF AlarmInv, Inv
  <2>5. ASSUME NEW d \in Events, ~event[d].cancled PROVE Waits(d)' <=> Waits(d)
    BY <1>1, <2>1, <2>2, <2>3, <2>4, <2>5 DEF Waits, Adding
  <2> QED
    BY <1>1, <2>5, SameAlarms DEF Owed
<1> QED
  BY <1>2, <1>3

\* onTimer takes the alarms whose time has come, and nothing of an earlier onTimer is left
\* to ring.
LEMMA TakeAlarms ==
  ASSUME AlarmInv, TakeDue
  PROVE  Alarms!Take(Range(tasks')) /\ Range(tasks') \in SUBSET Events
<1> USE DEF AddingLabels, DeleteLabels
<1>1. PICK taken \in SUBSET Events :
        /\ Range(m_pending_events) = taken \cup Range(m_pending_events')
        /\ taken \subseteq due
        /\ Range(tasks') = {e \in taken : ~event[e].cancled}
        /\ taken \cap Range(m_pending_events') = {}
  BY TakeDueFacts DEF AlarmInv, Once, MapOnce
<1>2. /\ Loop \in Threads /\ event' = event /\ arg' = arg /\ pc[Loop] = "take"
      /\ pc' = [pc EXCEPT ![Loop] = "readd"]
  BY DEF TakeDue, Goto, callVars
<1>3. pc'[Loop] = "readd" /\ \A u \in Threads \ {Loop} : pc'[u] = pc[u]
  BY <1>2 DEF AlarmInv, Inv, Types, ThreadsOK
<1>4. \A t \in Threads : Adding(t)' <=> Adding(t)
  BY <1>2, <1>3 DEF Adding
<1>5. Owed = {}
  <2>1. tasks = <<>>
    BY <1>2 DEF AlarmInv, Held, Ringing, InCall, AddLabels
  <2>2. tasks \in Seq(Events)
    BY DEF AlarmInv, More
  <2> QED
    BY <2>1, <2>2, RangeEmpty DEF Owed
<1>6. ASSUME NEW e \in Range(tasks')
      PROVE  e \in Events /\ IsSet(e) /\ Left(e) \in Int /\ Left(e) <= 0 /\ ~IsSet(e)'
  <2>1. e \in Events /\ e \in due /\ ~event[e].cancled /\ e \in Range(m_pending_events)
    BY <1>1
  <2>2. IsSet(e) /\ Left(e) \in Int /\ Left(e) <= 0
    BY <2>1 DEF IsSet, AlarmInv, Times
  <2>3. \A t \in Threads : Adding(t) => arg[t] # e
    BY <2>1 DEF AlarmInv, Once, AddOnce
  <2>4. ~Waits(e)'
    BY <1>1, <1>2, <1>4, <2>3 DEF Waits
  <2> QED
    BY <2>1, <2>2, <2>4, IsSetNext
<1>7. ASSUME NEW e \in Events, e \notin Range(tasks')
      PROVE  (IsSet(e)' <=> IsSet(e)) /\ Left(e)' = Left(e)
  <2>1. Left(e)' = Left(e) /\ event'[e] = event[e]
    BY <1>2 DEF Left
  <2>2. CASE event[e].cancled
    BY <2>1, <2>2, IsSetIs, IsSetNext
  <2>3. CASE ~event[e].cancled
    <3>1. e \in Range(m_pending_events') <=> e \in Range(m_pending_events)
      BY <1>1, <1>7, <2>3
    <3>2. Waits(e)' <=> Waits(e)
      BY <1>2, <1>4, <3>1 DEF Waits
    <3> QED
      BY <2>1, <3>2, IsSetIs, IsSetNext
  <2> QED
    BY <2>2, <2>3
<1> DEFINE rings == Range(tasks')
<1>8. rings \in SUBSET Events
  BY <1>6
<1>9. \A e \in rings : AlarmLeft[e] # Off /\ AlarmLeft[e] <= 0
  BY <1>6, TimerAssumption DEF AlarmLeft
<1>10. AlarmLeft' = [e \in Events |-> IF e \in rings THEN Off ELSE AlarmLeft[e]]
  BY <1>6, <1>7 DEF AlarmLeft
<1>11. Owed' = Owed \cup rings /\ rings \cap Owed = {}
  BY <1>5 DEF Owed
<1> QED
  BY <1>8, <1>9, <1>10, <1>11 DEF Alarms!Take, AlarmLeft, Owed

\* Time passes for the alarms, too.
LEMMA PassAlarms ==
  ASSUME AlarmInv, Tick
  PROVE  Alarms!Pass
<1>1. UNCHANGED <<pc, arg, m_pending_events, tasks>>
  BY DEF Tick, callVars, ringVars
<1>2. \A e \in Events : Waits(e)' <=> Waits(e)
  BY <1>1 DEF Waits, Adding
<1>3. ASSUME NEW e \in Events
      PROVE  /\ IsSet(e)' <=> IsSet(e)
             /\ Left(e) \in Int /\ Left(e)' \in Int /\ Left(e)' <= Left(e)
  <2>1. /\ event'[e].cancled = event[e].cancled
        /\ event'[e].left = IF Free(e) THEN Left(e)
                            ELSE IF Left(e) - 1 >= -MaxLate THEN Left(e) - 1 ELSE -MaxLate
    BY TickFacts DEF AlarmInv
  <2>2. Left(e) \in Int /\ Left(e) >= -MaxLate /\ MaxLate \in Nat
    BY TimerAssumption DEF AlarmInv, Times
  <2>3. Left(e)' = event'[e].left
    BY DEF Left
  <2>4. Left(e)' \in Int /\ Left(e)' <= Left(e)
    <3>1. CASE Free(e)
      BY <2>1, <2>2, <2>3, <3>1
    <3>2. CASE ~Free(e)
      <4>1. event'[e].left = IF Left(e) - 1 >= -MaxLate THEN Left(e) - 1 ELSE -MaxLate
        BY <2>1, <3>2
      <4> QED
        BY <2>2, <2>3, <4>1
    <3> QED
      BY <3>1, <3>2
  <2>5. IsSet(e)' <=> IsSet(e)
    BY <1>2, <2>1, IsSetIs, IsSetNext
  <2> QED
    BY <2>2, <2>4, <2>5
<1>4. ASSUME NEW e \in Events
      PROVE  IF AlarmLeft[e] = Off THEN AlarmLeft'[e] = Off
             ELSE AlarmLeft'[e] # Off /\ AlarmLeft'[e] <= AlarmLeft[e]
  <2>1. CASE IsSet(e)
    <3>1. AlarmLeft[e] = Left(e) /\ AlarmLeft'[e] = Left(e)'
      BY <1>3, <2>1 DEF AlarmLeft
    <3> QED
      BY <1>3, <3>1, TimerAssumption
  <2>2. CASE ~IsSet(e)
    BY <1>3, <2>2 DEF AlarmLeft
  <2> QED
    BY <2>1, <2>2
<1>5. DOMAIN AlarmLeft' = Events /\ Owed' = Owed
  BY <1>1 DEF AlarmLeft, Owed
<1> QED
  BY <1>4, <1>5 DEF Alarms!Pass, AlarmLeft, Owed

\* A callback runs, or nothing happens to the alarms.
LEMMA MoveAlarms ==
  ASSUME AlarmInv, [Next]_vars, Moves, ~TakeDue
  PROVE  UNCHANGED <<AlarmLeft, Owed>> \/ \E e \in Events : Alarms!Ring(e)
<1>1. \A e \in Events : Waits(e)' <=> Waits(e)
  BY DEF Moves, Stays, Waits
<1>2. AlarmLeft' = AlarmLeft
  BY <1>1, SameAlarms DEF Moves
<1>3. tasks' = tasks \/ \E e \in Events : Ring(e)
  BY DEF Next, Call, CallAddTimerEvent, CallDeleteTimerEvent, CallSetCancled, CallStep, AddLock,
         ResetLock, DeleteLock, Locking, AddEmplace, Return, ResetCopy, ResetSettime, ResetEnd,
         DeleteErase, LoopStep, Poll, OnTimer, OnTimerLock, Reset, Readd, CallbackEnds, OnTimerEnds,
         Tick, vars, ringVars
<1>4. ASSUME NEW e \in Events, Ring(e) PROVE Alarms!Ring(e)
  <2>1. tasks # <<>> /\ e = Head(tasks) /\ tasks' = Tail(tasks) /\ tasks \in Seq(Events)
    BY <1>4 DEF Ring, AlarmInv, More
  <2>2. e \in Owed /\ Owed' = Owed \ {e}
    BY <2>1, TailOnce DEF AlarmInv, Held, Owed
  <2> QED
    BY <1>2, <2>2 DEF Alarms!Ring, AlarmLeft, Owed
<1> QED
  BY <1>2, <1>3, <1>4 DEF Owed

\* Every alarm rings once, and not before its time has come; and none rings that was taken
\* back while it was set, by setCancled or deleteTimerEvent, in whatever order the threads
\* lock the mutex and onTimer unlocks it.
THEOREM RingsAlarms == Spec => AlarmsSpec
<1>1. Init => Alarms!Init
  <2> SUFFICES ASSUME Init PROVE Alarms!Init
    OBVIOUS
  <2>1. \A e \in Events : event[e].cancled
    <3> SUFFICES ASSUME NEW e \in Events PROVE event[e].cancled
      OBVIOUS
    <3>1. event[e] \in [left : {0}, interval : Intervals, cancled : {TRUE}]
      BY DEF Init
    <3> QED
      BY <3>1
  <2>2. AlarmLeft = [e \in Events |-> Off]
    BY <2>1 DEF AlarmLeft, IsSet
  <2>3. tasks \in Seq(Events) /\ tasks = <<>>
    BY DEF Init
  <2>4. Owed = {}
    BY <2>3, RangeEmpty DEF Owed
  <2> QED
    BY <2>2, <2>4 DEF Alarms!Init, AlarmLeft, Owed
<1>2. AlarmInv /\ [Next]_vars => [Alarms!Next]_(Alarms!vars)
  <2> SUFFICES ASSUME AlarmInv, [Next]_vars
               PROVE  Alarms!Next \/ UNCHANGED <<AlarmLeft, Owed>>
    BY DEF Alarms!vars, AlarmLeft, Owed
  <2>1. CASE TakeDue
    BY <2>1, TakeAlarms DEF Alarms!Next
  <2>2. CASE Moves /\ ~TakeDue
    BY <2>2, MoveAlarms DEF Alarms!Next
  <2>3. CASE Tick
    BY <2>3, PassAlarms DEF Alarms!Next
  <2>4. ASSUME NEW e \in Events, NEW t \in Threads,
               CallAddTimerEvent(t, e) \/ (t = Loop /\ Readd(e))
        PROVE  Alarms!Next \/ UNCHANGED <<AlarmLeft, Owed>>
    BY <2>4, StartAlarm DEF Alarms!Next
  <2>5. ASSUME NEW e \in Events, CallSetCancled(e) \/ \E t \in Threads : CallDeleteTimerEvent(t, e)
        PROVE  Alarms!Next
    BY <2>5, CancelAlarm DEF Alarms!Next
  <2>6. ASSUME NEW t \in Threads, AddEmplace(t) \/ DeleteErase(t)
        PROVE  UNCHANGED <<AlarmLeft, Owed>>
    BY <2>6, MapAlarms
  <2>7. Inv /\ Loop \in Threads
    BY DEF AlarmInv
  <2> QED
    BY <2>1, <2>2, <2>3, <2>4, <2>5, <2>6, <2>7, Kinds
<1>3. Init => AlarmInv
  BY InitInv, MoreInit, OnceInit, HeldInit DEF AlarmInv
<1>4. AlarmInv /\ [Next]_vars => AlarmInv'
  BY NextInv, MoreNext, OnceNext, HeldNext, TimesNext DEF AlarmInv
<1> QED
  BY <1>1, <1>2, <1>3, <1>4, PTL DEF Spec, AlarmsSpec, Alarms!Spec

-----------------------------------------------------------------------------
(* The order of the map, and when the timerfd goes off for a single caller. *)

Sorted ==
  \A i, j \in 1 .. Len(m_pending_events) :
    i < j => Left(m_pending_events[i]) <= Left(m_pending_events[j])

\* The timerfd goes off before the first event is due, or after Retry.
InTime ==
  m_pending_events # <<>> =>
    \/ expired \/ queued \/ WillSet(pc[Loop], back[Loop])
    \/ timerfd > 0 /\ (timerfd <= Left(Head(m_pending_events)) \/ timerfd <= Retry)

Single ==
  callers = {Loop} =>
    /\ \A t \in Others : pc[t] = "idle"
    /\ pc[Loop] = "settime" =>
         m_pending_events # <<>> /\ first[Loop] = Head(m_pending_events)
    /\ InTime

TimedInv == AlarmInv /\ Sorted /\ Single

\* In a sorted map an event goes behind those that are earlier or as early, and no other.
LEMMA EmplaceSorted ==
  ASSUME AlarmInv, Sorted, NEW e \in Events
  PROVE  \E c \in 0 .. Len(m_pending_events) :
           /\ Emplace(e) = InsertAt(m_pending_events, c + 1, e)
           /\ \A k \in 1 .. Len(m_pending_events) : k <= c <=> Left(m_pending_events[k]) <= Left(e)
<1> DEFINE n       == Len(m_pending_events)
           earlier == {k \in DOMAIN m_pending_events : Left(m_pending_events[k]) <= Left(e)}
           c       == Cardinality(earlier)
<1>1. n \in Nat /\ DOMAIN m_pending_events = 1 .. n
      /\ \A k \in 1 .. n : m_pending_events[k] \in Events
  BY DEF AlarmInv, Inv, Types, DataOK
<1>2. \A k \in 1 .. n : Left(m_pending_events[k]) \in Int
  BY <1>1 DEF AlarmInv, Times
<1>3. Left(e) \in Int
  BY DEF AlarmInv, Times
<1>4. earlier \in SUBSET (1 .. n)
  BY <1>1
<1>5. ASSUME NEW k \in earlier, NEW l \in 1 .. k PROVE l \in earlier
  <2>1. k \in 1 .. n /\ l \in 1 .. n /\ (l = k \/ l < k)
    BY <1>1, <1>4
  <2>2. Left(m_pending_events[k]) <= Left(e)
    OBVIOUS
  <2>3. CASE l = k
    BY <2>3
  <2>4. CASE l < k
    <3>1. Left(m_pending_events[l]) <= Left(m_pending_events[k])
      BY <2>1, <2>4 DEF Sorted
    <3>2. Left(m_pending_events[l]) <= Left(e)
      BY <1>2, <1>3, <2>1, <2>2, <3>1
    <3> QED
      BY <1>1, <2>1, <3>2
  <2> QED
    BY <2>1, <2>3, <2>4
<1>6. c \in 0 .. n /\ earlier = 1 .. c
  <2> HIDE DEF earlier, n
  <2> QED
    BY <1>1, <1>4, <1>5, FirstPlaces
<1>7. Emplace(e) = InsertAt(m_pending_events, c + 1, e)
  BY DEF Emplace
<1>8. ASSUME NEW k \in 1 .. n PROVE k <= c <=> Left(m_pending_events[k]) <= Left(e)
  <2>1. k \in earlier <=> Left(m_pending_events[k]) <= Left(e)
    BY <1>1
  <2> HIDE DEF earlier, c
  <2>2. k \in earlier <=> k <= c
    BY <1>1, <1>6
  <2> QED
    BY <2>1, <2>2
<1> HIDE DEF c
<1> QED
  BY <1>6, <1>7, <1>8

\* The map stays sorted.
LEMMA SortedNext ==
  ASSUME AlarmInv, Sorted, [Next]_vars
  PROVE  Sorted'
<1> DEFINE n == Len(m_pending_events)
<1>1. /\ m_pending_events \in Seq(Events) /\ n \in Nat
      /\ \A k \in 1 .. n : m_pending_events[k] \in Events /\ m_pending_events[k] \in Range(m_pending_events)
  BY RangeIs DEF AlarmInv, Inv, Types, DataOK
<1>2. \A e \in Events : Left(e) \in Int
  BY DEF AlarmInv, Times
<1>3. ASSUME m_pending_events' = m_pending_events,
             \A e \in Range(m_pending_events) : event'[e].left = event[e].left
      PROVE  Sorted'
  BY <1>1, <1>3 DEF Sorted, Left
<1>4. ASSUME NEW t \in Threads, NEW e \in Events,
             CallAddTimerEvent(t, e) \/ (t = Loop /\ Readd(e))
      PROVE  Sorted'
  <2>1. e \notin Range(m_pending_events) /\ \A d \in Events \ {e} : event'[d] = event[d]
    BY <1>4, StartWaits DEF Waits
  <2>2. m_pending_events' = m_pending_events
    BY <1>4 DEF CallAddTimerEvent, Readd
  <2>3. Range(m_pending_events) \subseteq Events
    BY <1>1, RangeEmpty
  <2> QED
    BY <1>3, <2>1, <2>2, <2>3
<1>5. ASSUME NEW e \in Events, CallSetCancled(e) \/ \E t \in Threads : CallDeleteTimerEvent(t, e)
      PROVE  Sorted'
  <2>1. event' = [event EXCEPT ![e].cancled = TRUE] /\ m_pending_events' = m_pending_events
    BY <1>5 DEF CallSetCancled, CallDeleteTimerEvent
  <2>2. \A d \in Events : event'[d].left = event[d].left
    BY <2>1 DEF AlarmInv, Inv, Types, DataOK, Event
  <2>3. Range(m_pending_events) \subseteq Events
    BY <1>1, RangeEmpty
  <2> QED
    BY <1>3, <2>1, <2>2, <2>3
<1>6. CASE Moves
  BY <1>3, <1>6 DEF Moves
<1>7. CASE Tick
  <2>1. m_pending_events' = m_pending_events
    BY <1>7 DEF Tick
  <2>2. ASSUME NEW k \in 1 .. n
        PROVE  event'[m_pending_events[k]].left
                 = IF Left(m_pending_events[k]) - 1 >= -MaxLate
                   THEN Left(m_pending_events[k]) - 1 ELSE -MaxLate
    <3>1. ~Free(m_pending_events[k])
      BY <1>1 DEF Free
    <3> QED
      BY <1>1, <1>7, <3>1, TickFacts DEF AlarmInv
  <2> SUFFICES ASSUME NEW i \in 1 .. n, NEW j \in 1 .. n, i < j
               PROVE  event'[m_pending_events[i]].left <= event'[m_pending_events[j]].left
    BY <2>1 DEF Sorted, Left
  <2> DEFINE a == Left(m_pending_events[i])
             b == Left(m_pending_events[j])
  <2>3. a \in Int /\ b \in Int /\ MaxLate \in Int
    BY <1>1, <1>2, TimerAssumption
  <2>4. a <= b
    BY DEF Sorted
  <2>5. /\ event'[m_pending_events[i]].left = IF a - 1 >= -MaxLate THEN a - 1 ELSE -MaxLate
        /\ event'[m_pending_events[j]].left = IF b - 1 >= -MaxLate THEN b - 1 ELSE -MaxLate
    BY <2>2
  <2> HIDE DEF a, b
  <2> QED
    BY <2>3, <2>4, <2>5
<1>8. ASSUME NEW t \in Threads, AddEmplace(t) PROVE Sorted'
  <2>1. m_pending_events' = Emplace(arg[t]) /\ event' = event /\ arg[t] \in Events
    BY <1>8 DEF AddEmplace, AlarmInv, Once, AddOnce, Adding, AddingLabels
  <2> DEFINE e == arg[t]
  <2>2. PICK c \in 0 .. n :
          /\ Emplace(e) = InsertAt(m_pending_events, c + 1, e)
          /\ \A k \in 1 .. n : k <= c <=> Left(m_pending_events[k]) <= Left(e)
    BY <2>1, EmplaceSorted
  <2> DEFINE r == m_pending_events'
  <2>3. c + 1 \in 1 .. n + 1
    BY <1>1
  <2>4. /\ Len(r) = n + 1 /\ r[c + 1] = e
        /\ \A k \in 1 .. (c + 1) - 1 : r[k] = m_pending_events[k]
        /\ \A k \in c + 1 .. n : r[k + 1] = m_pending_events[k]
    <3>1. r = InsertAt(m_pending_events, c + 1, e)
      BY <2>1, <2>2
    <3> HIDE DEF r
    <3> DEFINE i == c + 1
    <3>2. /\ i \in 1 .. Len(m_pending_events) + 1 /\ m_pending_events \in Seq(Events)
          /\ e \in Events
      BY <1>1, <2>1, <2>3
    <3> DEFINE q == InsertAt(m_pending_events, i, e)
    <3>4. r = q
      BY <3>1
    <3> HIDE DEF i, e, n
    <3>3. /\ q \in Seq(Events) /\ Len(q) = Len(m_pending_events) + 1 /\ q[i] = e
          /\ \A k \in 1 .. i - 1 : q[k] = m_pending_events[k]
          /\ \A k \in i .. Len(m_pending_events) : q[k + 1] = m_pending_events[k]
      BY <3>2, InsertPlaces, SMTT(40)
    <3> HIDE DEF q
    <3> QED
      BY <3>3, <3>4 DEF i, n
  <2> SUFFICES ASSUME NEW i \in 1 .. n + 1, NEW j \in 1 .. n + 1, i < j
               PROVE  Left(r[i]) <= Left(r[j])
    BY <2>1, <2>4 DEF Sorted, Left
  <2> HIDE DEF e, r
  <2>5. ASSUME NEW k \in 1 .. n + 1, k < c + 1
        PROVE  k \in 1 .. n /\ r[k] = m_pending_events[k] /\ Left(m_pending_events[k]) <= Left(e)
    <3>1. k \in 1 .. n /\ k \in 1 .. (c + 1) - 1 /\ k <= c
      BY <1>1, <2>5
    <3> QED
      BY <2>2, <2>4, <3>1
  <2>6. ASSUME NEW k \in 1 .. n + 1, k > c + 1
        PROVE  /\ k - 1 \in 1 .. n /\ r[k] = m_pending_events[k - 1]
               /\ Left(e) <= Left(m_pending_events[k - 1])
    <3>1. k - 1 \in 1 .. n /\ k - 1 \in c + 1 .. n /\ ~ (k - 1 <= c) /\ (k - 1) + 1 = k
      BY <1>1, <2>6
    <3>2. r[(k - 1) + 1] = m_pending_events[k - 1]
      BY <2>4, <3>1
    <3>3. ~ (Left(m_pending_events[k - 1]) <= Left(e))
      BY <2>2, <3>1
    <3>4. Left(m_pending_events[k - 1]) \in Int /\ Left(e) \in Int
      BY <1>1, <1>2, <2>1, <3>1 DEF e
    <3> QED
      BY <3>1, <3>2, <3>3, <3>4
  <2>7. CASE i = c + 1
    BY <2>4, <2>6, <2>7
  <2>8. CASE j = c + 1
    BY <2>4, <2>5, <2>8
  <2>9. CASE i < c + 1 /\ j < c + 1
    BY <2>5, <2>9 DEF Sorted
  <2>10. CASE i > c + 1 /\ j > c + 1
    <3>1. i - 1 \in 1 .. n /\ j - 1 \in 1 .. n /\ i - 1 < j - 1
      BY <1>1, <2>10
    <3>2. Left(m_pending_events[i - 1]) <= Left(m_pending_events[j - 1])
      BY <3>1 DEF Sorted
    <3> QED
      BY <2>6, <2>10, <3>2
  <2>11. CASE i < c + 1 /\ j > c + 1
    <3>1. /\ Left(r[i]) <= Left(e) /\ Left(e) <= Left(r[j])
          /\ Left(r[i]) \in Int /\ Left(e) \in Int /\ Left(r[j]) \in Int
      BY <1>1, <1>2, <2>1, <2>5, <2>6, <2>11 DEF e
    <3> QED
      BY <3>1
  <2> QED
    BY <2>7, <2>8, <2>9, <2>10, <2>11
<1>9. ASSUME NEW t \in Threads, DeleteErase(t) PROVE Sorted'
  <2>1. m_pending_events' = Erase(arg[t]) /\ event' = event
    BY <1>9 DEF DeleteErase
  <2>2. CASE m_pending_events' = m_pending_events
    BY <1>3, <2>1, <2>2
  <2>3. CASE m_pending_events' # m_pending_events
    <3>1. PICK x \in 1 .. n : m_pending_events' = RemoveAt(m_pending_events, x)
      BY <2>1, <2>3, ErasePlace DEF AlarmInv, Inv
    <3> DEFINE r == m_pending_events'
               To(k) == IF k < x THEN k ELSE k + 1
    <3>2. /\ Len(r) = n - 1
          /\ \A k \in 1 .. x - 1 : r[k] = m_pending_events[k]
          /\ \A k \in x .. n - 1 : r[k] = m_pending_events[k + 1]
      BY <1>1, <3>1, RemovePlaces
    <3> SUFFICES ASSUME NEW i \in 1 .. n - 1, NEW j \in 1 .. n - 1, i < j
                 PROVE  Left(r[i]) <= Left(r[j])
      BY <2>1, <3>2 DEF Sorted, Left
    <3> HIDE DEF r
    <3>3. ASSUME NEW k \in 1 .. n - 1 PROVE To(k) \in 1 .. n /\ r[k] = m_pending_events[To(k)]
      <4>1. CASE k < x
        <5>1. k \in 1 .. x - 1 /\ k \in 1 .. n
          BY <1>1, <4>1
        <5> QED
          BY <3>2, <4>1, <5>1
      <4>2. CASE ~ (k < x)
        <5>1. k \in x .. n - 1 /\ k + 1 \in 1 .. n
          BY <1>1, <4>2
        <5> QED
          BY <3>2, <4>2, <5>1
      <4> QED
        BY <4>1, <4>2
    <3>4. To(i) < To(j)
      BY <1>1
    <3> HIDE DEF To
    <3> QED
      BY <3>3, <3>4 DEF Sorted
  <2> QED
    BY <2>2, <2>3
<1>10. CASE TakeDue
  <2>1. PICK x \in 0 .. n : m_pending_events' = SubSeq(m_pending_events, x + 1, n)
    BY <1>10 DEF TakeDue
  <2>2. event' = event
    BY <1>10 DEF TakeDue
  <2> DEFINE r == m_pending_events'
  <2>3. Len(r) = n - x /\ \A k \in 1 .. n - x : r[k] = m_pending_events[x + k]
    BY <1>1, <2>1, CutOnce
  <2> SUFFICES ASSUME NEW i \in 1 .. n - x, NEW j \in 1 .. n - x, i < j
               PROVE  Left(r[i]) <= Left(r[j])
    BY <2>2, <2>3 DEF Sorted, Left
  <2> HIDE DEF r
  <2>4. x + i \in 1 .. n /\ x + j \in 1 .. n /\ x + i < x + j
    BY <1>1
  <2> QED
    BY <2>3, <2>4 DEF Sorted
<1>11. Inv /\ Loop \in Threads
  BY DEF AlarmInv
<1> QED
  BY <1>4, <1>5, <1>6, <1>7, <1>8, <1>9, <1>10, <1>11, Kinds

\* The first event of the map is one of the earliest.
LEMMA HeadEarliest ==
  ASSUME AlarmInv, Sorted, m_pending_events # <<>>
  PROVE  /\ Head(m_pending_events) \in Range(m_pending_events)
         /\ Range(m_pending_events) \subseteq Events
         /\ Head(m_pending_events) = m_pending_events[1]
         /\ Len(m_pending_events) \in Nat \ {0}
         /\ \A e \in Range(m_pending_events) : Left(Head(m_pending_events)) <= Left(e)
<1>1. m_pending_events \in Seq(Events)
  BY DEF AlarmInv, Inv, Types, DataOK
<1>2. /\ Len(m_pending_events) \in Nat \ {0} /\ Head(m_pending_events) = m_pending_events[1]
      /\ 1 \in 1 .. Len(m_pending_events)
  BY <1>1, EmptySeq
<1>3. Head(m_pending_events) \in Range(m_pending_events) /\ Range(m_pending_events) \subseteq Events
  BY <1>1, <1>2, RangeIs, RangeEmpty
<1>4. ASSUME NEW e \in Range(m_pending_events) PROVE Left(Head(m_pending_events)) <= Left(e)
  <2>1. PICK k \in 1 .. Len(m_pending_events) : m_pending_events[k] = e
    BY <1>1, RangeIs
  <2>2. CASE k = 1
    <3>1. Left(Head(m_pending_events)) \in Int
      BY <1>3 DEF AlarmInv, Times
    <3> QED
      BY <1>2, <2>1, <2>2, <3>1
  <2>3. CASE 1 < k
    BY <1>2, <2>1, <2>3 DEF Sorted
  <2> QED
    BY <1>2, <2>1, <2>2, <2>3
<1> QED
  BY <1>2, <1>3, <1>4

\* The loop goes on, in a step that leaves the timerfd alone and gives the map no earlier
\* first event; or it will set the timerfd.
LEMMA LoopGoes ==
  ASSUME TimedInv, callers = {Loop}, NEW label,
         pc' = [pc EXCEPT ![Loop] = label],
         label # "settime",
         \/ WillSet(label, back'[Loop])
         \/ m_pending_events' = <<>>
         \/ /\ UNCHANGED fdVars
            /\ WillSet(pc[Loop], back[Loop]) => WillSet(label, back'[Loop])
            /\ m_pending_events' # <<>> =>
                 /\ m_pending_events # <<>>
                 /\ Left(Head(m_pending_events)) \in Int
                 /\ Left(Head(m_pending_events))' \in Int
                 /\ Left(Head(m_pending_events)) <= Left(Head(m_pending_events))'
  PROVE  Single'
<1>1. Loop \in Threads /\ Loop \notin Others
  BY TimerAssumption
<1>2. pc'[Loop] = label /\ \A t \in Others : pc'[t] = pc[t]
  BY <1>1 DEF TimedInv, AlarmInv, Inv, Types, ThreadsOK
<1>3. InTime'
  <2> SUFFICES ASSUME m_pending_events' # <<>>, ~WillSet(label, back'[Loop])
               PROVE  \/ expired' \/ queued'
                      \/ timerfd' > 0 /\ (timerfd' <= Left(Head(m_pending_events))' \/ timerfd' <= Retry)
    BY <1>2 DEF InTime
  <2>1. /\ UNCHANGED <<timerfd, expired, queued>>
        /\ ~WillSet(pc[Loop], back[Loop]) /\ m_pending_events # <<>>
        /\ Left(Head(m_pending_events)) \in Int /\ Left(Head(m_pending_events))' \in Int
        /\ Left(Head(m_pending_events)) <= Left(Head(m_pending_events))'
    BY DEF fdVars
  <2>2. \/ expired \/ queued
        \/ timerfd > 0 /\ (timerfd <= Left(Head(m_pending_events)) \/ timerfd <= Retry)
    BY <2>1 DEF TimedInv, Single, InTime
  <2>3. timerfd \in Nat
    BY DEF TimedInv, AlarmInv, Inv, Types, DataOK
  <2> DEFINE a == Left(Head(m_pending_events))
             b == Left(Head(m_pending_events))'
  <2>4. a \in Int /\ b \in Int /\ a <= b
    BY <2>1
  <2> HIDE DEF a, b
  <2>5. timerfd <= a => timerfd <= b
    BY <2>3, <2>4
  <2> QED
    BY <2>1, <2>2, <2>5 DEF a, b
<1> QED
  BY <1>2, <1>3 DEF TimedInv, Single

\* The calls of the loop.
LEMMA SingleCall ==
  ASSUME TimedInv, callers = {Loop}, Call(Loop)
  PROVE  Single'
<1>0. Loop \in Threads /\ AlarmInv /\ Sorted /\ Inv
  BY DEF TimedInv, AlarmInv
<1>1. pc[Loop] \in {"idle", "callback"} /\ UNCHANGED <<fdVars, m_pending_events>>
  BY DEF Call, CallAddTimerEvent, CallDeleteTimerEvent, CallSetCancled, MayCall
<1>2. ~WillSet(pc[Loop], back[Loop])
  BY <1>0, <1>1, ThreadFacts DEF WillSet, CallOK, AddLabels
<1>3. \E label : label # "settime" /\ pc' = [pc EXCEPT ![Loop] = label]
  <2>1. CASE UNCHANGED pc
    BY <1>0, <1>1, <2>1, ThreadFacts
  <2>2. CASE ~UNCHANGED pc
    BY <2>2 DEF Call, CallAddTimerEvent, CallDeleteTimerEvent, CallSetCancled, Goto
  <2> QED
    BY <2>1, <2>2
<1>4. ASSUME m_pending_events # <<>>
      PROVE  /\ Left(Head(m_pending_events)) \in Int
             /\ Left(Head(m_pending_events))' = Left(Head(m_pending_events))
  <2> DEFINE h == Head(m_pending_events)
  <2>1. h \in Range(m_pending_events) /\ h \in Events
    BY <1>0, <1>4, HeadEarliest
  <2>2. event'[h].left = event[h].left
    <3>1. ASSUME NEW e \in Events, CallAddTimerEvent(Loop, e) PROVE event'[h].left = event[h].left
      <4>1. e # h
        BY <2>1, <3>1 DEF CallAddTimerEvent, Free
      <4>2. event'[h] = event[h]
        BY <1>0, <2>1, <3>1, <4>1, StartWaits
      <4> QED
        BY <4>2
    <3>2. ASSUME NEW e \in Events, CallSetCancled(e) \/ CallDeleteTimerEvent(Loop, e)
          PROVE  event'[h].left = event[h].left
      <4>1. event' = [event EXCEPT ![e].cancled = TRUE]
        BY <3>2 DEF CallSetCancled, CallDeleteTimerEvent
      <4> HIDE DEF h
      <4> QED
        BY <1>0, <2>1, <4>1 DEF Inv, Types, DataOK, Event
    <3> QED
      BY <3>1, <3>2 DEF Call
  <2>3. Left(h)' = event'[h].left /\ Left(h) \in Int
    BY <1>0, <1>1, <2>1 DEF AlarmInv, Times, Left
  <2> QED
    BY <2>2, <2>3 DEF Left
<1>5. m_pending_events' # <<>> =>
        /\ m_pending_events # <<>>
        /\ Left(Head(m_pending_events)) \in Int
        /\ Left(Head(m_pending_events))' \in Int
        /\ Left(Head(m_pending_events)) <= Left(Head(m_pending_events))'
  BY <1>1, <1>4
<1>6. UNCHANGED fdVars
  BY <1>1
<1>7. PICK label : label # "settime" /\ pc' = [pc EXCEPT ![Loop] = label]
  BY <1>3
<1> QED
  BY <1>2, <1>5, <1>6, <1>7, LoopGoes

\* What they do.
LEMMA SingleCallStep ==
  ASSUME TimedInv, callers = {Loop}, CallStep(Loop)
  PROVE  Single'
<1>0. Loop \in Threads /\ AlarmInv /\ Sorted /\ Inv /\ Types
  BY DEF TimedInv, AlarmInv, Inv
<1>1. event' = event
  BY DEF CallStep, AddLock, ResetLock, DeleteLock, Locking, AddEmplace, Return, ResetCopy,
         ResetSettime, ResetEnd, DeleteErase
<1>2. ASSUME m_pending_events # <<>>
      PROVE  Left(Head(m_pending_events)) \in Int
  BY <1>0, <1>2, HeadEarliest DEF AlarmInv, Times
<1>3. ASSUME NEW label, pc' = [pc EXCEPT ![Loop] = label], label # "settime",
             UNCHANGED <<fdVars, m_pending_events>>,
             WillSet(pc[Loop], back[Loop]) => WillSet(label, back'[Loop])
      PROVE  Single'
  <2>1. m_pending_events' # <<>> =>
          /\ m_pending_events # <<>>
          /\ Left(Head(m_pending_events)) \in Int
          /\ Left(Head(m_pending_events))' = Left(Head(m_pending_events))
    BY <1>1, <1>2, <1>3 DEF Left
  <2>2. m_pending_events' # <<>> =>
          /\ m_pending_events # <<>>
          /\ Left(Head(m_pending_events)) \in Int
          /\ Left(Head(m_pending_events))' \in Int
          /\ Left(Head(m_pending_events)) <= Left(Head(m_pending_events))'
    BY <2>1
  <2> QED
    BY <1>3, <2>2, LoopGoes
<1>4. CASE AddLock(Loop) \/ ResetLock(Loop) \/ DeleteLock(Loop)
  <2>1. PICK from, to :
          /\ Locking(Loop, from, to)
          /\ <<from, to>> \in {<<"add", "emplace">>, <<"reset", "copy">>, <<"delete", "erase">>}
    BY <1>4 DEF AddLock, ResetLock, DeleteLock
  <2>2. /\ pc[Loop] = from /\ pc' = [pc EXCEPT ![Loop] = to]
        /\ UNCHANGED <<back, fdVars, m_pending_events>>
    BY <2>1 DEF Locking, Goto, callVars
  <2> QED
    BY <1>3, <2>1, <2>2 DEF WillSet
<1>5. CASE AddEmplace(Loop)
  <2>1. /\ pc[Loop] = "emplace" /\ m_pending_events' = Emplace(arg[Loop]) /\ UNCHANGED <<back, fdVars>>
        /\ arg[Loop] \in Events
    BY <1>0, <1>5 DEF AddEmplace, callVars, AlarmInv, Once, AddOnce, Adding, AddingLabels
  <2>2. CASE Earliest(arg[Loop])
    <3>1. pc' = [pc EXCEPT ![Loop] = "reset"]
      BY <1>5, <2>2 DEF AddEmplace, Goto
    <3> QED
      BY <3>1, LoopGoes DEF WillSet
  <2>3. CASE ~Earliest(arg[Loop])
    <3>1. pc' = [pc EXCEPT ![Loop] = "addEnd"]
      BY <1>5, <2>3 DEF AddEmplace, Goto
    <3>2. m_pending_events # <<>> /\ ~ (Left(Head(m_pending_events)) > Left(arg[Loop]))
      BY <2>3 DEF Earliest
    <3>3. Left(Head(m_pending_events)) <= Left(arg[Loop])
      BY <1>0, <1>2, <2>1, <3>2 DEF AlarmInv, Times
    <3>4. PICK c \in 0 .. Len(m_pending_events) :
            /\ Emplace(arg[Loop]) = InsertAt(m_pending_events, c + 1, arg[Loop])
            /\ \A k \in 1 .. Len(m_pending_events) :
                 k <= c <=> Left(m_pending_events[k]) <= Left(arg[Loop])
      BY <1>0, <2>1, EmplaceSorted
    <3>5. /\ Len(m_pending_events) \in Nat \ {0} /\ Head(m_pending_events) = m_pending_events[1]
          /\ m_pending_events \in Seq(Events)
      BY <1>0, <3>2, HeadEarliest DEF Types, DataOK
    <3>6. 1 \in 1 .. Len(m_pending_events) /\ 1 <= c
      BY <3>3, <3>4, <3>5
    <3> DEFINE i == c + 1
               e == arg[Loop]
               q == InsertAt(m_pending_events, i, e)
    <3>7. i \in 1 .. Len(m_pending_events) + 1 /\ 1 \in 1 .. i - 1 /\ e \in Events
      BY <2>1, <3>5, <3>6
    <3>8. q = m_pending_events'
      BY <2>1, <3>4
    <3> HIDE DEF i, e
    <3>9. q \in Seq(Events) /\ Len(q) = Len(m_pending_events) + 1 /\ q[1] = m_pending_events[1]
      BY <3>5, <3>7, InsertPlaces
    <3> HIDE DEF q
    <3>10. Head(q) = Head(m_pending_events)
      BY <3>5, <3>9
    <3>11. Head(m_pending_events') = Head(m_pending_events)
      BY <3>8, <3>10
    <3>12. /\ Left(Head(m_pending_events))' = Left(Head(m_pending_events))
           /\ Left(Head(m_pending_events)) \in Int
      BY <1>1, <1>2, <3>2, <3>11 DEF Left
    <3>13. /\ m_pending_events # <<>>
           /\ Left(Head(m_pending_events)) \in Int
           /\ Left(Head(m_pending_events))' \in Int
           /\ Left(Head(m_pending_events)) <= Left(Head(m_pending_events))'
      BY <3>2, <3>12
    <3>14. WillSet(pc[Loop], back[Loop]) => WillSet("addEnd", back'[Loop])
      BY <2>1 DEF WillSet
    <3> QED
      BY <2>1, <3>1, <3>13, <3>14, LoopGoes
  <2> QED
    BY <2>2, <2>3
<1>6. CASE Return(Loop)
  <2>1. /\ pc[Loop] \in {"addEnd", "deleteEnd"} /\ pc' = [pc EXCEPT ![Loop] = back[Loop]]
        /\ back'[Loop] = "idle" /\ UNCHANGED <<fdVars, m_pending_events>>
    BY <1>0, <1>6 DEF Return, Goto, Inv, Types, ThreadsOK
  <2>2. back[Loop] # "settime"
    BY <1>0, ThreadFacts
  <2>3. WillSet(pc[Loop], back[Loop]) => WillSet(back[Loop], "idle")
    BY <2>1 DEF WillSet
  <2> QED
    BY <1>3, <2>1, <2>2, <2>3
<1>7. CASE ResetCopy(Loop)
  <2>1. pc[Loop] = "copy" /\ UNCHANGED <<back, m_pending_events>>
    BY <1>7 DEF ResetCopy
  <2>2. CASE m_pending_events = <<>>
    <3>1. pc' = [pc EXCEPT ![Loop] = "resetEnd"]
      BY <1>7, <2>2 DEF ResetCopy, Goto
    <3> QED
      BY <2>1, <2>2, <3>1, LoopGoes
  <2>3. CASE m_pending_events # <<>>
    <3>1. /\ pc' = [pc EXCEPT ![Loop] = "settime"]
          /\ first' = [first EXCEPT ![Loop] = Head(m_pending_events)]
      BY <1>7, <2>3 DEF ResetCopy, Goto
    <3>2. pc'[Loop] = "settime" /\ \A t \in Others : pc'[t] = pc[t]
      BY <1>0, <3>1, TimerAssumption DEF Inv, Types, ThreadsOK
    <3>3. first'[Loop] = Head(m_pending_events)
      BY <1>0, <3>1 DEF Inv, Types, ThreadsOK
    <3>4. InTime'
      BY <3>2 DEF InTime, WillSet
    <3> QED
      BY <2>1, <2>3, <3>2, <3>3, <3>4 DEF TimedInv, Single
  <2> QED
    BY <2>2, <2>3
<1>8. CASE ResetSettime(Loop)
  <2>1. /\ pc[Loop] = "settime" /\ pc' = [pc EXCEPT ![Loop] = "resetEnd"]
        /\ timerfd' = Interval(first[Loop]) /\ UNCHANGED <<m_pending_events, queued>>
    BY <1>8 DEF ResetSettime, Goto
  <2>2. m_pending_events # <<>> /\ first[Loop] = Head(m_pending_events)
    BY <2>1 DEF TimedInv, Single
  <2>3. pc'[Loop] = "resetEnd" /\ \A t \in Others : pc'[t] = pc[t]
    BY <1>0, <2>1, TimerAssumption DEF Inv, Types, ThreadsOK
  <2> DEFINE l == Left(Head(m_pending_events))
  <2>4. l \in Int /\ Left(Head(m_pending_events))' = l
    BY <1>1, <1>2, <2>1, <2>2 DEF Left
  <2>5. timerfd' = IF l > 0 THEN l ELSE Retry
    BY <2>1, <2>2 DEF Interval
  <2>6. Retry \in Nat \ {0}
    BY TimerAssumption
  <2> HIDE DEF l
  <2>7. timerfd' > 0 /\ (timerfd' <= l \/ timerfd' <= Retry)
    BY <2>4, <2>5, <2>6
  <2>8. InTime'
    BY <2>4, <2>7 DEF InTime
  <2> QED
    BY <2>3, <2>8 DEF TimedInv, Single
<1>9. CASE ResetEnd(Loop)
  <2>1. /\ pc[Loop] = "resetEnd" /\ UNCHANGED <<back, fdVars, m_pending_events>>
        /\ pc' = [pc EXCEPT ![Loop] = "addEnd"] \/ pc' = [pc EXCEPT ![Loop] = "tasks"]
    BY <1>9 DEF ResetEnd, Goto, callVars
  <2> QED
    BY <1>3, <2>1 DEF WillSet
<1>10. CASE DeleteErase(Loop)
  <2>1. /\ pc[Loop] = "erase" /\ pc' = [pc EXCEPT ![Loop] = "deleteEnd"]
        /\ UNCHANGED <<back, fdVars>> /\ m_pending_events' = Erase(arg[Loop])
    BY <1>10 DEF DeleteErase, Goto, callVars
  <2>2. /\ m_pending_events' \in Seq(Events)
        /\ Range(m_pending_events') \subseteq Range(m_pending_events)
        /\ m_pending_events = <<>> => m_pending_events' = <<>>
    BY <1>0, <2>1, EraseType
  <2>3. ASSUME m_pending_events' # <<>>
        PROVE  /\ m_pending_events # <<>>
               /\ Left(Head(m_pending_events)) \in Int
               /\ Left(Head(m_pending_events))' \in Int
               /\ Left(Head(m_pending_events)) <= Left(Head(m_pending_events))'
    <3> DEFINE h == Head(m_pending_events')
    <3>1. h \in Range(m_pending_events')
      <4> DEFINE q == m_pending_events'
      <4>1. q \in Seq(Events) /\ q # <<>>
        BY <2>2, <2>3
      <4> HIDE DEF q
      <4>2. Len(q) \in Nat \ {0} /\ Head(q) = q[1] /\ 1 \in 1 .. Len(q)
        BY <4>1, EmptySeq
      <4>3. Head(q) \in Range(q)
        BY <4>1, <4>2, RangeIs
      <4> QED
        BY <4>3 DEF q
    <3>2. m_pending_events # <<>>
      BY <2>2, <2>3
    <3>3. h \in Events /\ Left(Head(m_pending_events)) <= Left(h)
      BY <1>0, <2>2, <3>1, <3>2, HeadEarliest
    <3>4. Left(Head(m_pending_events))' = Left(h)
      BY <1>1 DEF Left
    <3>5. Left(h) \in Int
      BY <1>0, <3>3 DEF AlarmInv, Times
    <3> QED
      BY <1>2, <3>2, <3>3, <3>4, <3>5
  <2>4. WillSet(pc[Loop], back[Loop]) => WillSet("deleteEnd", back'[Loop])
    BY <2>1 DEF WillSet
  <2> QED
    BY <2>1, <2>3, <2>4, LoopGoes
<1> QED
  BY <1>4, <1>5, <1>6, <1>7, <1>8, <1>9, <1>10 DEF CallStep

\* onTimer.
LEMMA SingleOnTimer ==
  ASSUME TimedInv, callers = {Loop},
         \/ OnTimer \/ OnTimerLock \/ TakeDue \/ Reset \/ CallbackEnds \/ OnTimerEnds
         \/ \E e \in Events : Readd(e) \/ Ring(e)
  PROVE  Single'
<1>0. Loop \in Threads /\ AlarmInv /\ Sorted /\ Inv
  BY DEF TimedInv, AlarmInv
<1>1. CASE OnTimer \/ OnTimerLock \/ TakeDue \/ Reset
  <2>1. PICK label \in {"onTimer", "take", "readd", "reset"} : pc' = [pc EXCEPT ![Loop] = label]
    BY <1>1 DEF OnTimer, OnTimerLock, Locking, TakeDue, Reset, Goto
  <2> QED
    BY <2>1, LoopGoes DEF WillSet
<1>2. ASSUME NEW e \in Events, Readd(e) PROVE Single'
  <2>1. pc' = [pc EXCEPT ![Loop] = "add"] /\ back'[Loop] = "readd"
    BY <1>0, <1>2 DEF Readd, Goto, Inv, Types, ThreadsOK
  <2> QED
    BY <2>1, LoopGoes DEF WillSet
<1>3. CASE CallbackEnds \/ OnTimerEnds \/ \E e \in Events : Ring(e)
  <2>1. PICK label \in {"tasks", "idle", "callback"} : pc' = [pc EXCEPT ![Loop] = label]
    BY <1>3 DEF CallbackEnds, OnTimerEnds, Ring, Goto
  <2>2. /\ pc[Loop] \in {"callback", "tasks"}
        /\ UNCHANGED <<back, event, fdVars, m_pending_events>>
    BY <1>3 DEF CallbackEnds, OnTimerEnds, Ring, callVars
  <2>3. WillSet(pc[Loop], back[Loop]) => WillSet(label, back'[Loop])
    BY <2>1, <2>2 DEF WillSet
  <2>4. ASSUME m_pending_events # <<>>
        PROVE  /\ Left(Head(m_pending_events)) \in Int
               /\ Left(Head(m_pending_events))' = Left(Head(m_pending_events))
    BY <1>0, <2>2, <2>4, HeadEarliest DEF AlarmInv, Times, Left
  <2>5. m_pending_events' # <<>> =>
          /\ m_pending_events # <<>>
          /\ Left(Head(m_pending_events)) \in Int
          /\ Left(Head(m_pending_events))' \in Int
          /\ Left(Head(m_pending_events)) <= Left(Head(m_pending_events))'
    BY <2>2, <2>4
  <2> QED
    BY <2>1, <2>2, <2>3, <2>5, LoopGoes
<1> QED
  BY <1>1, <1>2, <1>3

\* The kernel: the timerfd runs down as the events do.
LEMMA SingleTime ==
  ASSUME TimedInv, callers = {Loop}, Tick \/ Poll \/ UNCHANGED vars
  PROVE  Single'
<1>0. AlarmInv /\ Sorted /\ Inv
  BY DEF TimedInv, AlarmInv
<1>1. UNCHANGED <<pc, back, first, m_pending_events>>
  BY DEF Tick, Poll, vars, callVars
<1>2. CASE ~Tick
  <2>1. UNCHANGED <<event, timerfd, expired>> /\ queued' \in {queued, TRUE}
    BY <1>2 DEF Poll, vars, fdVars
  <2> QED
    BY <1>1, <2>1 DEF TimedInv, Single, InTime, WillSet, Left
<1>3. CASE Tick
  <2> SUFFICES ASSUME m_pending_events # <<>>, ~queued, ~expired', ~WillSet(pc[Loop], back[Loop])
               PROVE  timerfd' > 0 /\ (timerfd' <= Left(Head(m_pending_events))' \/ timerfd' <= Retry)
    BY <1>1, <1>3 DEF TimedInv, Single, InTime, WillSet, Tick
  <2> DEFINE h == Head(m_pending_events)
             a == Left(h)
             b == event'[h].left
  <2>1. ~expired /\ timerfd # 1 /\ timerfd' = Max({timerfd - 1, 0})
    BY <1>3 DEF Tick
  <2>2. timerfd > 0 /\ (timerfd <= a \/ timerfd <= Retry)
    BY <2>1 DEF TimedInv, Single, InTime
  <2>3. timerfd \in Nat
    BY <1>0 DEF Inv, Types, DataOK
  <2>4. timerfd' = timerfd - 1 /\ timerfd' > 0
    BY <2>1, <2>2, <2>3, MaxOfTwo
  <2>5. h \in Range(m_pending_events) /\ h \in Events
    BY <1>0, HeadEarliest
  <2>6. ~Free(h)
    BY <2>5 DEF Free
  <2>7. a \in Int /\ b = IF a - 1 >= -MaxLate THEN a - 1 ELSE -MaxLate
    BY <1>0, <1>3, <2>5, <2>6, TickFacts
  <2>8. Left(Head(m_pending_events))' = b
    BY <1>1 DEF Left
  <2>9. MaxLate \in Nat /\ Retry \in Nat
    BY TimerAssumption
  <2> HIDE DEF a, b
  <2>10. b \in Int /\ b >= a - 1
    BY <2>7, <2>9
  <2>11. timerfd' <= b \/ timerfd' <= Retry
    BY <2>2, <2>3, <2>4, <2>7, <2>9, <2>10
  <2> QED
    BY <2>4, <2>8, <2>11
<1> QED
  BY <1>2, <1>3

\* Nobody else comes in.
LEMMA SingleNext ==
  ASSUME TimedInv, [Next]_vars
  PROVE  Single'
<1> SUFFICES ASSUME callers' = {Loop} PROVE Single'
  BY DEF Single
<1>1. callers' = callers
  BY DEF Next, Call, CallAddTimerEvent, CallDeleteTimerEvent, CallSetCancled, CallStep, AddLock,
         ResetLock, DeleteLock, Locking, AddEmplace, Return, ResetCopy, ResetSettime, ResetEnd,
         DeleteErase, LoopStep, Poll, OnTimer, OnTimerLock, TakeDue, Reset, Readd, Ring,
         CallbackEnds, OnTimerEnds, Tick, vars
<1>2. callers = {Loop}
  BY <1>1
<1>3. ASSUME NEW t \in Others, Call(t) \/ CallStep(t) PROVE FALSE
  <2>1. t # Loop /\ pc[t] = "idle" /\ t \notin callers
    BY <1>2, TimerAssumption DEF TimedInv, Single
  <2> QED
    BY <1>3, <2>1 DEF Call, CallAddTimerEvent, CallDeleteTimerEvent, MayCall, CallStep, AddLock,
         ResetLock, DeleteLock, Locking, AddEmplace, Return, ResetCopy, ResetSettime, ResetEnd,
         DeleteErase
<1>4. CASE Call(Loop)
  BY <1>2, <1>4, SingleCall
<1>5. CASE LoopStep
  BY <1>2, <1>5, SingleCallStep, SingleOnTimer, SingleTime DEF LoopStep
<1>6. CASE Tick \/ UNCHANGED vars
  BY <1>2, <1>6, SingleTime
<1> QED
  BY <1>3, <1>4, <1>5, <1>6 DEF Next

\* When only the loop's own thread uses its timer, as it is in this repository, the timerfd
\* goes off in time for the first event of the map, or after Retry for one that is late.
THEOREM ArmsInTime == Spec => []ArmedInTime
<1>1. Init => TimedInv
  <2> SUFFICES ASSUME Init PROVE TimedInv
    OBVIOUS
  <2>1. AlarmInv
    BY InitInv, MoreInit, OnceInit, HeldInit DEF AlarmInv
  <2>2. m_pending_events = <<>> /\ \A t \in Threads : pc[t] = "idle"
    BY DEF Init
  <2>3. Sorted
    <3>1. Len(m_pending_events) = 0 /\ \A i \in 1 .. 0 : FALSE
      BY <2>2
    <3> QED
      BY <3>1 DEF Sorted
  <2> QED
    BY <2>1, <2>2, <2>3 DEF TimedInv, Single, InTime
<1>2. TimedInv /\ [Next]_vars => TimedInv'
  <2> SUFFICES ASSUME TimedInv, [Next]_vars PROVE TimedInv'
    OBVIOUS
  <2>1. AlarmInv /\ Sorted
    BY DEF TimedInv
  <2>2. AlarmInv'
    BY <2>1, NextInv, MoreNext, OnceNext, HeldNext, TimesNext DEF AlarmInv
  <2> QED
    BY <2>1, <2>2, SortedNext, SingleNext DEF TimedInv
<1>3. TimedInv => ArmedInTime
  <2> SUFFICES ASSUME TimedInv, callers = {Loop}, Quiet, m_pending_events # <<>>, ~expired, ~queued
               PROVE  timerfd \in 1 .. Max({Left(Head(m_pending_events)), Retry})
    BY DEF ArmedInTime
  <2>1. AlarmInv /\ Sorted /\ Inv /\ Loop \in Threads
    BY DEF TimedInv, AlarmInv
  <2>2. ~WillSet(pc[Loop], back[Loop])
    <3>1. pc[Loop] = "idle"
      BY <2>1 DEF Quiet
    <3> QED
      BY <2>1, <3>1, ThreadFacts DEF WillSet, CallOK, AddLabels
  <2> DEFINE a == Left(Head(m_pending_events))
  <2>3. timerfd > 0 /\ (timerfd <= a \/ timerfd <= Retry)
    BY <2>2 DEF TimedInv, Single, InTime
  <2>4. a \in Int /\ Retry \in Int /\ timerfd \in Nat
    BY <2>1, HeadEarliest, TimerAssumption DEF AlarmInv, Times, Inv, Types, DataOK
  <2> HIDE DEF a
  <2>5. Max({a, Retry}) = IF a >= Retry THEN a ELSE Retry
    BY <2>4, MaxOfTwo
  <2>6. timerfd \in 1 .. Max({a, Retry})
    BY <2>3, <2>4, <2>5
  <2> QED
    BY <2>6 DEF a
<1> QED
  BY <1>1, <1>2, <1>3, PTL DEF Spec

=============================================================================
