--------------------------- MODULE RpcServerProofs ---------------------------
(***************************************************************************)
(* What is proved of RpcServer, for any number of connections and of IO    *)
(* threads.                                                                *)
(***************************************************************************)
EXTENDS RpcServer, SequenceTheorems, FiniteSetTheorems, TLAPS

-----------------------------------------------------------------------------
(* The invariant.                                                           *)

Accepted(c) == peer[c].stage = "accepted"

Accepting(c) == accepting \in {At("setState", c), At("insert", c)}

\* No IO thread is started before each has its EventLoop, and none is given a
\* connection before all are started.
BootInv ==
  /\ \A t \in Threads : io[t] # "none" => t < m_size
  /\ started > 0 => \A t \in 0 .. m_size - 1 : io[t] \in {"ready", "looping"}
  /\ started < m_size => \A c \in Conns : ~Accepted(c)

\* onAccept sets the state of a connection while nothing else can, for the handlers
\* return at once; and only closed ones have left m_client.
PlacedInv ==
  /\ \A c \in Conns : Accepted(c) => conn[c].thread < m_size
  /\ \A c \in Conns : c \in m_client \/ Accepting(c) => Accepted(c)
  /\ \A c \in Conns : accepting = At("setState", c) => conn[c].m_state = "NotConnected"
  /\ \A c \in Conns : conn[c].m_state # "NotConnected" => Accepted(c)
  /\ \A c \in Conns : Accepted(c) /\ conn[c].m_state = "NotConnected"
                      => accepting = At("setState", c)
  /\ \A c \in Conns : Accepted(c) /\ c \notin m_client /\ ~Accepting(c)
                      => conn[c].m_state = "Closed"

\* The threads up to m_index have one connection more than the others.
DealtInv ==
  /\ m_index = -1 => \A c \in Conns : ~Accepted(c)
  /\ \E q \in Nat : \A t \in 0 .. m_size - 1 :
       Cardinality(Given(t)) = IF t < m_index THEN q + 1 ELSE q

\* Nothing watches a connection that is closed, or not accepted.
MaskInv ==
  \A c \in Conns : /\ conn[c].m_state = "Closed" => conn[c].interest = {}
                   /\ conn[c].m_state = "Closed" \/ ~Accepted(c) => conn[c].mask = {}

\* Of the handlers of one connection, onRead comes before onWrite, and between them
\* there is nothing but what other threads have added.
PairOK(q, j, k) ==
  j < k /\ q[j].conn = q[k].conn /\ q[j].do # "add" /\ q[k].do # "add"
  => /\ q[j].do = "read" /\ q[k].do = "write"
     /\ \A i \in j + 1 .. k - 1 : q[i].do = "add"

Orderly(q) ==
  /\ \A k \in DOMAIN q : q[k].do = "wrote" => k = 1
  /\ \A j, k \in DOMAIN q : PairOK(q, j, k)

\* epoll reports a descriptor once.  If a handler of it is in the queue already, it
\* is the onRead of this report, which the loop has come to, and onWrite may follow.
Apart(q, r) ==
  /\ \A j, k \in DOMAIN r : r[j].conn = r[k].conn => j = k
  /\ \A j \in DOMAIN q, k \in DOMAIN r :
       q[j].do # "add" /\ q[j].conn = r[k].conn
       => /\ k = 1 /\ "IN" \notin r[k].events
          /\ "OUT" \in r[k].events
             => q[j].do = "read" /\ \A i \in j + 1 .. Len(q) : q[i].do = "add"

\* Tasks and events are of the thread's own connections.  Of one that is closed there
\* may be the onWrite, and no other handler before it.
TaskOK(q, t, k) ==
  /\ Accepted(q[k].conn) /\ conn[q[k].conn].thread = t
  /\ conn[q[k].conn].m_state = "Closed" /\ q[k].do # "add"
     => q[k].do = "write" /\ \A j \in 1 .. k - 1 : q[j].do = "add"

EventOK(e, t) ==
  Accepted(e.conn) /\ conn[e.conn].thread = t /\ conn[e.conn].m_state # "Closed"

ThreadInv(t) ==
  /\ Orderly(queue[t]) /\ Apart(queue[t], reported[t])
  /\ \A k \in DOMAIN queue[t] : TaskOK(queue[t], t, k)
  /\ \A k \in DOMAIN reported[t] : EventOK(reported[t][k], t)

QueueInv == \A t \in Threads : ThreadInv(t)

Inv == TypeOK /\ BootInv /\ PlacedInv /\ DealtInv /\ MaskInv /\ QueueInv

\* The threads, as numbers.
LEMMA ThreadNumbers ==
  /\ MaxThreads \in Nat /\ MaxThreads >= 1
  /\ Threads = {t \in Int : 0 <= t /\ t < MaxThreads}
BY ServerAssumption DEF Threads

\* A task by its fields.
LEMMA TaskFields ==
  \A do \in {"add", "read", "write", "wrote"}, c \in Conns :
    Task(do, c) \in Tasks /\ Task(do, c).do = do /\ Task(do, c).conn = c
BY DEF Task, Tasks

\* Where onAccept is, by its fields.
LEMMA AtFields ==
  /\ \A l \in {"setState", "insert"} : \A c \in Conns :
       /\ At(l, c) # Nowhere /\ At(l, c).at = l /\ At(l, c).conn = c
       /\ At(l, c) \in [at : {"setState", "insert"}, conn : Conns]
  /\ \A a \in [at : {"setState", "insert"}, conn : Conns] : a = At(a.at, a.conn)
  /\ Nowhere.at = "nowhere"
BY DEF At, Nowhere

\* Nobody has come.
LEMMA InitInv == Init => Inv
<1> SUFFICES ASSUME Init PROVE Inv
  OBVIOUS
<1>1. /\ m_size \in 1 .. MaxThreads /\ m_index = -1 /\ started = 0
      /\ \A c \in Conns : ~Accepted(c) /\ conn[c].m_state = "NotConnected" /\ conn[c].mask = {}
      /\ \A t \in Threads : io[t] = "none" /\ queue[t] = <<>> /\ reported[t] = <<>>
      /\ m_client = {} /\ accepting = Nowhere
  BY DEF Init, Accepted
<1>2. TypeOK
  <2>1. conn \in [Conns -> Conn]
    BY ThreadNumbers DEF Init, Conn
  <2>2. peer \in [Conns -> Peer]
    BY DEF Init, Peer
  <2>3. /\ queue \in [Threads -> Seq(Tasks)] /\ io \in [Threads -> IoStages]
        /\ reported \in [Threads -> Seq(Events)]
    BY DEF Init, IoStages
  <2>4. m_index \in -1 .. m_size /\ started \in 0 .. m_size
    BY <1>1, ThreadNumbers
  <2>5. m_client \subseteq Conns /\ accepting = Nowhere /\ crashed \in BOOLEAN
    BY DEF Init
  <2>6. kept \in 0 .. MaxKept /\ elsewhere \in [Conns -> Elsewhere]
    BY ServerAssumption DEF Init, Elsewhere
  <2> QED
    BY <1>1, <2>1, <2>2, <2>3, <2>4, <2>5, <2>6 DEF TypeOK
<1>3. BootInv
  BY <1>1 DEF BootInv
<1>4. \A c \in Conns : ~Accepting(c)
  BY <1>1, AtFields DEF Accepting
<1>5. PlacedInv
  BY <1>1, <1>4 DEF PlacedInv
<1>6. DealtInv
  <2>1. \A t \in 0 .. m_size - 1 : Given(t) = {}
    BY <1>1 DEF Given, Accepted
  <2>2. \A t \in 0 .. m_size - 1 : Cardinality(Given(t)) = IF t < m_index THEN 0 + 1 ELSE 0
    BY <1>1, <2>1, FS_EmptySet
  <2> QED
    BY <1>1, <2>2 DEF DealtInv
<1>7. MaskInv
  BY <1>1 DEF MaskInv
<1>8. QueueInv
  <2>1. Orderly(<<>>) /\ Apart(<<>>, <<>>)
    BY DEF Orderly, Apart
  <2> QED
    BY <1>1, <2>1 DEF QueueInv, ThreadInv
<1> QED
  BY <1>2, <1>3, <1>5, <1>6, <1>7, <1>8 DEF Inv

-----------------------------------------------------------------------------
(* Queues and reports, as sequences.                                        *)

\* The first task is done.
LEMMA OrderlyTail ==
  ASSUME NEW q \in Seq(Tasks), q # <<>>, Orderly(q)
  PROVE  /\ Tail(q) \in Seq(Tasks)
         /\ \A k \in DOMAIN Tail(q) : /\ k \in Nat /\ k >= 1 /\ k + 1 \in DOMAIN q
                                      /\ Tail(q)[k] = q[k + 1]
         /\ Orderly(Tail(q)) /\ Apart(Tail(q), <<>>)
<1> DEFINE s == Tail(q)
<1>1. /\ s \in Seq(Tasks) /\ DOMAIN q = 1 .. Len(q) /\ Len(q) \in Nat
      /\ \A k \in DOMAIN s : k \in Nat /\ k >= 1 /\ k + 1 \in DOMAIN q /\ s[k] = q[k + 1]
      /\ DOMAIN s = 1 .. Len(q) - 1
  OBVIOUS
<1> HIDE DEF s
<1>2. \A k \in DOMAIN s : s[k].do # "wrote"
  <2> TAKE k \in DOMAIN s
  <2>1. k + 1 \in DOMAIN q /\ k + 1 # 1 /\ s[k] = q[k + 1]
    BY <1>1
  <2> QED
    BY <2>1 DEF Orderly
<1>3. ASSUME NEW j \in DOMAIN s, NEW k \in DOMAIN s PROVE PairOK(s, j, k)
  <2> SUFFICES ASSUME j < k, s[j].conn = s[k].conn, s[j].do # "add", s[k].do # "add"
               PROVE  /\ s[j].do = "read" /\ s[k].do = "write"
                      /\ \A i \in j + 1 .. k - 1 : s[i].do = "add"
    BY DEF PairOK
  <2>1. /\ j + 1 \in DOMAIN q /\ k + 1 \in DOMAIN q /\ j + 1 < k + 1
        /\ s[j] = q[j + 1] /\ s[k] = q[k + 1]
    BY <1>1
  <2>2. PairOK(q, j + 1, k + 1)
    BY <2>1 DEF Orderly
  <2>5. q[j + 1].conn = q[k + 1].conn /\ q[j + 1].do # "add" /\ q[k + 1].do # "add"
    BY <2>1
  <2>3. /\ q[j + 1].do = "read" /\ q[k + 1].do = "write"
        /\ \A i \in (j + 1) + 1 .. (k + 1) - 1 : q[i].do = "add"
    BY <2>1, <2>2, <2>5 DEF PairOK
  <2>4. ASSUME NEW i \in j + 1 .. k - 1 PROVE s[i].do = "add"
    <3>1. i \in DOMAIN s /\ i + 1 \in (j + 1) + 1 .. (k + 1) - 1
      BY <1>1
    <3> QED
      BY <1>1, <2>3, <3>1
  <2> QED
    BY <2>1, <2>3, <2>4
<1>4. Orderly(s)
  BY <1>2, <1>3 DEF Orderly
<1>5. Apart(s, <<>>)
  BY DEF Apart
<1> QED
  BY <1>1, <1>4, <1>5 DEF s

\* A task is put at the end.
LEMMA AppendFields ==
  ASSUME NEW q \in Seq(Tasks), NEW task \in Tasks
  PROVE  LET s == Append(q, task)
         IN  /\ s \in Seq(Tasks) /\ Len(q) \in Nat /\ Len(s) = Len(q) + 1
             /\ DOMAIN q = 1 .. Len(q) /\ DOMAIN s = 1 .. Len(q) + 1
             /\ \A k \in DOMAIN q : s[k] = q[k]
             /\ s[Len(q) + 1] = task
OBVIOUS

\* Another thread's task does not disturb the order.
LEMMA OrderlyAdd ==
  ASSUME NEW q \in Seq(Tasks), NEW c \in Conns, NEW r, Orderly(q), Apart(q, r)
  PROVE  Orderly(Append(q, Task("add", c))) /\ Apart(Append(q, Task("add", c)), r)
<1> DEFINE s == Append(q, Task("add", c))
           n == Len(q) + 1
<1>1. /\ Len(q) \in Nat /\ Len(s) = n /\ DOMAIN q = 1 .. Len(q) /\ DOMAIN s = 1 .. n
      /\ \A k \in DOMAIN q : s[k] = q[k]
      /\ s[n].do = "add"
  BY AppendFields, TaskFields
<1> HIDE DEF s
<1>2. \A k \in DOMAIN s : s[k].do # "add" => k \in DOMAIN q /\ s[k] = q[k]
  <2>1. \A k \in DOMAIN s : k \in DOMAIN q \/ k = n
    BY <1>1
  <2> QED
    BY <1>1, <2>1
<1>3. \A i \in 1 .. n : (i \in DOMAIN q => q[i].do = "add") => s[i].do = "add"
  <2>1. \A i \in 1 .. n : i \in DOMAIN q \/ i = n
    BY <1>1
  <2> QED
    BY <1>1, <2>1
<1>4. ASSUME NEW j \in DOMAIN s, NEW k \in DOMAIN s PROVE PairOK(s, j, k)
  <2> SUFFICES ASSUME j < k, s[j].conn = s[k].conn, s[j].do # "add", s[k].do # "add"
               PROVE  /\ s[j].do = "read" /\ s[k].do = "write"
                      /\ \A i \in j + 1 .. k - 1 : s[i].do = "add"
    BY DEF PairOK
  <2>1. j \in DOMAIN q /\ k \in DOMAIN q /\ s[j] = q[j] /\ s[k] = q[k]
    BY <1>2
  <2>2. PairOK(q, j, k)
    BY <2>1 DEF Orderly
  <2>3. /\ q[j].do = "read" /\ q[k].do = "write" /\ \A i \in j + 1 .. k - 1 : q[i].do = "add"
    BY <2>1, <2>2 DEF PairOK
  <2>4. \A i \in j + 1 .. k - 1 : i \in DOMAIN q
    BY <1>1, <2>1
  <2> QED
    BY <1>1, <2>1, <2>3, <2>4
<1>5. Orderly(s)
  BY <1>2, <1>4 DEF Orderly
<1>6. ASSUME NEW j \in DOMAIN s, NEW k \in DOMAIN r, s[j].do # "add", s[j].conn = r[k].conn
      PROVE  /\ k = 1 /\ "IN" \notin r[k].events
             /\ "OUT" \in r[k].events
                => s[j].do = "read" /\ \A i \in j + 1 .. Len(s) : s[i].do = "add"
  <2>1. j \in DOMAIN q /\ s[j] = q[j]
    BY <1>2, <1>6
  <2>2. /\ k = 1 /\ "IN" \notin r[k].events
        /\ "OUT" \in r[k].events
           => q[j].do = "read" /\ \A i \in j + 1 .. Len(q) : q[i].do = "add"
    BY <1>6, <2>1 DEF Apart
  <2>3. \A i \in j + 1 .. Len(s) : i \in 1 .. n /\ (i \in DOMAIN q => i \in j + 1 .. Len(q))
    BY <1>1, <2>1
  <2> QED
    BY <1>3, <2>1, <2>2, <2>3
<1>7. Apart(s, r)
  BY <1>6 DEF Apart
<1> QED
  BY <1>5, <1>7 DEF s

\* What is left is of the same descriptors.
LEMMA AfterFields ==
  ASSUME NEW r \in Seq(Events), r # <<>>, NEW e
  PROVE  LET s == After(r, e)
         IN  /\ s \in Seq(Events) /\ 1 \in DOMAIN r
             /\ \/ \A k \in DOMAIN s : k + 1 \in DOMAIN r /\ k + 1 # 1 /\ s[k] = r[k + 1]
                                        /\ k \in Nat
                \/ /\ DOMAIN s = DOMAIN r /\ DOMAIN r \subseteq Nat
                   /\ s[1].conn = r[1].conn /\ s[1].events = r[1].events \ {e}
                   /\ \A k \in DOMAIN r \ {1} : s[k] = r[k]
<1>1. r[1] \in Events /\ Head(r) = r[1] /\ 1 \in DOMAIN r
  OBVIOUS
<1>2. CASE Head(r).events = {e}
  <2>1. After(r, e) = Tail(r)
    BY <1>2 DEF After
  <2>2. \A k \in DOMAIN Tail(r) : k + 1 \in DOMAIN r /\ k + 1 # 1 /\ Tail(r)[k] = r[k + 1]
                                /\ k \in Nat
    OBVIOUS
  <2>3. Tail(r) \in Seq(Events)
    OBVIOUS
  <2> QED
    BY <1>1, <2>1, <2>2, <2>3
<1>3. CASE Head(r).events # {e}
  <2> DEFINE left == [r[1] EXCEPT !.events = @ \ {e}]
  <2>1. left \in Events /\ left.conn = r[1].conn /\ left.events = r[1].events \ {e}
    BY <1>1 DEF Events
  <2>2. After(r, e) = [r EXCEPT ![1] = left]
    BY <1>3 DEF After
  <2> HIDE DEF left
  <2>3. [r EXCEPT ![1] = left] \in Seq(Events)
    BY <1>1, <2>1
  <2>4. DOMAIN [r EXCEPT ![1] = left] = DOMAIN r /\ DOMAIN r \subseteq Nat
    OBVIOUS
  <2> QED
    BY <1>1, <2>1, <2>2, <2>3, <2>4
<1> QED
  BY <1>2, <1>3

\* The loop adds the handler of the event: the reading one when the queue has none of
\* the connection, the writing one behind it.
LEMMA OrderlyHandler ==
  ASSUME NEW q \in Seq(Tasks), NEW r \in Seq(Events), r # <<>>,
         Orderly(q), Apart(q, r),
         NEW e \in Head(r).events, NEW do,
         \/ e = "IN" /\ do = "read"
         \/ e = "OUT" /\ do = "write" /\ "IN" \notin Head(r).events
  PROVE  LET s == Append(q, Task(do, Head(r).conn))
         IN  Orderly(s) /\ Apart(s, After(r, e))
<1> DEFINE c == Head(r).conn
           s == Append(q, Task(do, c))
           a == After(r, e)
           n == Len(q) + 1
<1>1. r[1] \in Events /\ Head(r) = r[1] /\ 1 \in DOMAIN r
  OBVIOUS
<1>2. c \in Conns /\ c = r[1].conn
  BY <1>1 DEF Events
<1>3. Task(do, c) \in Tasks /\ Task(do, c).do = do /\ Task(do, c).conn = c
  BY <1>2, TaskFields
<1>4. /\ Len(q) \in Nat /\ Len(s) = n /\ DOMAIN q = 1 .. Len(q) /\ DOMAIN s = 1 .. n
      /\ \A k \in DOMAIN q : s[k] = q[k]
      /\ s[n].do = do /\ s[n].conn = c
  BY <1>3, AppendFields
<1>5. /\ a \in Seq(Events)
      /\ \/ \A k \in DOMAIN a : k + 1 \in DOMAIN r /\ k + 1 # 1 /\ a[k] = r[k + 1] /\ k \in Nat
         \/ /\ DOMAIN a = DOMAIN r /\ DOMAIN r \subseteq Nat
            /\ a[1].conn = r[1].conn /\ a[1].events = r[1].events \ {e}
            /\ \A k \in DOMAIN r \ {1} : a[k] = r[k]
  BY AfterFields
<1> HIDE DEF c, s, a
<1>6. \A k \in DOMAIN s :
        \/ k \in DOMAIN q /\ s[k] = q[k] /\ k < n
        \/ k = n /\ s[k].do = do /\ s[k].conn = c
  <2>1. \A k \in DOMAIN s : (k \in DOMAIN q /\ k < n) \/ k = n
    BY <1>4
  <2> QED
    BY <1>4, <2>1
\* A handler of the same connection that is there already.
<1>7. ASSUME NEW j \in DOMAIN q, q[j].do # "add", q[j].conn = c
      PROVE  e = "OUT" /\ q[j].do = "read" /\ \A i \in j + 1 .. Len(q) : q[i].do = "add"
  <2>1. /\ "IN" \notin r[1].events
        /\ "OUT" \in r[1].events
           => q[j].do = "read" /\ \A i \in j + 1 .. Len(q) : q[i].do = "add"
    BY <1>1, <1>2, <1>7 DEF Apart
  <2> QED
    BY <1>1, <2>1
<1>8. \A k \in DOMAIN r : r[k].conn = c => k = 1
  BY <1>1, <1>2 DEF Apart
<1>9. ASSUME NEW j \in DOMAIN s, NEW k \in DOMAIN s PROVE PairOK(s, j, k)
  <2> SUFFICES ASSUME j < k, s[j].conn = s[k].conn, s[j].do # "add", s[k].do # "add"
               PROVE  /\ s[j].do = "read" /\ s[k].do = "write"
                      /\ \A i \in j + 1 .. k - 1 : s[i].do = "add"
    BY DEF PairOK
  <2>1. j \in DOMAIN q /\ s[j] = q[j] /\ j \in Nat
    BY <1>4, <1>6
  <2>2. CASE k \in DOMAIN q /\ s[k] = q[k]
    <3>1. PairOK(q, j, k)
      BY <2>1, <2>2 DEF Orderly
    <3>2. /\ q[j].do = "read" /\ q[k].do = "write" /\ \A i \in j + 1 .. k - 1 : q[i].do = "add"
      BY <2>1, <2>2, <3>1 DEF PairOK
    <3>3. \A i \in j + 1 .. k - 1 : i \in DOMAIN q
      BY <1>4, <2>1, <2>2
    <3> QED
      BY <1>4, <2>1, <2>2, <3>2, <3>3
  <2>3. CASE k = n /\ s[k].do = do /\ s[k].conn = c
    <3>1. e = "OUT" /\ q[j].do = "read" /\ \A i \in j + 1 .. Len(q) : q[i].do = "add"
      BY <1>7, <2>1, <2>3
    <3>2. \A i \in j + 1 .. k - 1 : i \in DOMAIN q /\ i \in j + 1 .. Len(q)
      BY <1>4, <2>1, <2>3
    <3> QED
      BY <1>4, <2>1, <2>3, <3>1, <3>2
  <2> QED
    BY <1>6, <2>2, <2>3
<1>10. Orderly(s)
  <2>1. \A k \in DOMAIN s : s[k].do = "wrote" => k = 1
    BY <1>6 DEF Orderly
  <2> QED
    BY <1>9, <2>1 DEF Orderly
<1>11. ASSUME NEW j \in DOMAIN s, NEW k \in DOMAIN a, s[j].do # "add", s[j].conn = a[k].conn
       PROVE  /\ k = 1 /\ "IN" \notin a[k].events
              /\ "OUT" \in a[k].events
                 => s[j].do = "read" /\ \A i \in j + 1 .. Len(s) : s[i].do = "add"
  <2>1. \A l \in DOMAIN r : s[j].conn = r[l].conn => l = 1
    <3> SUFFICES ASSUME NEW l \in DOMAIN r, s[j].conn = r[l].conn PROVE l = 1
      OBVIOUS
    <3>1. CASE j \in DOMAIN q /\ s[j] = q[j]
      BY <1>11, <3>1, ZenonT(40) DEF Apart
    <3>2. CASE s[j].conn = c
      BY <1>8, <3>2
    <3> QED
      BY <1>6, <3>1, <3>2
  <2>2. /\ DOMAIN a = DOMAIN r
        /\ a[1].conn = r[1].conn /\ a[1].events = r[1].events \ {e}
        /\ \A l \in DOMAIN r \ {1} : a[l] = r[l]
    BY <1>5, <1>11, <2>1
  <2>3. k = 1
    BY <1>11, <2>1, <2>2
  <2>4. "IN" \notin a[k].events
    BY <1>1, <2>2, <2>3
  <2>5. ASSUME "OUT" \in a[k].events
        PROVE  s[j].do = "read" /\ \A i \in j + 1 .. Len(s) : s[i].do = "add"
    <3>1. e = "IN" /\ do = "read"
      BY <1>1, <2>2, <2>3, <2>5
    <3>2. s[j].conn = c
      BY <1>2, <1>11, <2>2, <2>3
    <3>3. j = n /\ s[j].do = do
      BY <1>6, <1>7, <1>11, <3>1, <3>2
    <3>4. \A i \in j + 1 .. Len(s) : FALSE
      BY <1>4, <3>3
    <3> QED
      BY <3>1, <3>3, <3>4
  <2> QED
    BY <2>3, <2>4, <2>5
<1>12. ASSUME NEW j \in DOMAIN a, NEW k \in DOMAIN a, a[j].conn = a[k].conn PROVE j = k
  <2>1. CASE \A l \in DOMAIN a : l + 1 \in DOMAIN r /\ a[l] = r[l + 1] /\ l \in Nat
    <3>1. j + 1 = k + 1
      BY <1>12, <2>1 DEF Apart
    <3> QED
      BY <2>1, <3>1
  <2>2. CASE /\ DOMAIN a = DOMAIN r /\ a[1].conn = r[1].conn
             /\ \A l \in DOMAIN r \ {1} : a[l] = r[l]
    <3>1. a[j].conn = r[j].conn /\ a[k].conn = r[k].conn
      BY <2>2
    <3> QED
      BY <1>12, <2>2, <3>1 DEF Apart
  <2> QED
    BY <1>5, <2>1, <2>2
<1>13. Apart(s, a)
  BY <1>11, <1>12 DEF Apart
<1> QED
  BY <1>10, <1>13 DEF s, a, c

\* The loop drops the descriptor, and goes on with the next.
LEMMA ApartAfter ==
  ASSUME NEW q \in Seq(Tasks), NEW r \in Seq(Events), r # <<>>, Apart(q, r), NEW e
  PROVE  Apart(q, After(r, e))
<1> DEFINE a == After(r, e)
<1>1. \/ \A k \in DOMAIN a : k + 1 \in DOMAIN r /\ k + 1 # 1 /\ a[k] = r[k + 1] /\ k \in Nat
      \/ /\ DOMAIN a = DOMAIN r
         /\ a[1].conn = r[1].conn /\ a[1].events = r[1].events \ {e}
         /\ \A k \in DOMAIN r \ {1} : a[k] = r[k]
  BY AfterFields
<1> HIDE DEF a
<1>2. CASE \A k \in DOMAIN a : k + 1 \in DOMAIN r /\ k + 1 # 1 /\ a[k] = r[k + 1] /\ k \in Nat
  <2>1. ASSUME NEW j \in DOMAIN a, NEW k \in DOMAIN a, a[j].conn = a[k].conn PROVE j = k
    <3>1. j + 1 = k + 1
      BY <1>2, <2>1 DEF Apart
    <3> QED
      BY <1>2, <3>1
  <2>2. \A j \in DOMAIN q, k \in DOMAIN a : ~(q[j].do # "add" /\ q[j].conn = a[k].conn)
    BY <1>2 DEF Apart
  <2> QED
    BY <2>1, <2>2 DEF Apart, a
<1>3. CASE /\ DOMAIN a = DOMAIN r
           /\ a[1].conn = r[1].conn /\ a[1].events = r[1].events \ {e}
           /\ \A k \in DOMAIN r \ {1} : a[k] = r[k]
  <2>1. \A k \in DOMAIN a : a[k].conn = r[k].conn /\ a[k].events \subseteq r[k].events
    BY <1>3
  <2> QED
    BY <1>3, <2>1 DEF Apart, a
<1> QED
  BY <1>1, <1>2, <1>3

\* onWrite, which is the first task, has written.
LEMMA OrderlyWrote ==
  ASSUME NEW q \in Seq(Tasks), q # <<>>, NEW c \in Conns,
         Head(q) = Task("write", c), Orderly(q)
  PROVE  LET s == [q EXCEPT ![1] = Task("wrote", c)]
         IN  /\ s \in Seq(Tasks) /\ DOMAIN s = DOMAIN q /\ 1 \in DOMAIN q
             /\ s[1].conn = q[1].conn /\ s[1].do = "wrote" /\ q[1].do = "write"
             /\ \A k \in DOMAIN q \ {1} : s[k] = q[k]
             /\ Orderly(s) /\ Apart(s, <<>>)
<1> DEFINE w == Task("wrote", c)
           s == [q EXCEPT ![1] = w]
<1>1. /\ q[1].conn = c /\ q[1].do = "write" /\ 1 \in DOMAIN q /\ DOMAIN q \subseteq Nat
      /\ \A k \in DOMAIN q : k >= 1
  <2>1. q[1] = Head(q) /\ 1 \in DOMAIN q /\ DOMAIN q \subseteq Nat /\ \A k \in DOMAIN q : k >= 1
    OBVIOUS
  <2> QED
    BY <2>1, TaskFields
<1>2. w \in Tasks /\ w.do = "wrote" /\ w.conn = c
  BY TaskFields
<1> HIDE DEF w
<1>3. s \in Seq(Tasks) /\ DOMAIN s = DOMAIN q
  BY <1>1, <1>2
<1>4. s[1] = w /\ \A k \in DOMAIN q \ {1} : s[k] = q[k]
  BY <1>1
<1> HIDE DEF s
<1>5. \A k \in DOMAIN q \ {1} : q[k].do # "add" => q[k].conn # c
  <2> SUFFICES ASSUME NEW k \in DOMAIN q \ {1}, q[k].do # "add", q[k].conn = c PROVE FALSE
    OBVIOUS
  <2>1. PairOK(q, 1, k) /\ 1 < k
    BY <1>1 DEF Orderly
  <2> QED
    BY <1>1, <2>1 DEF PairOK
<1>6. ASSUME NEW j \in DOMAIN s, NEW k \in DOMAIN s PROVE PairOK(s, j, k)
  <2> SUFFICES ASSUME j < k, s[j].conn = s[k].conn, s[j].do # "add", s[k].do # "add"
               PROVE  /\ s[j].do = "read" /\ s[k].do = "write"
                      /\ \A i \in j + 1 .. k - 1 : s[i].do = "add"
    BY DEF PairOK
  <2>1. k # 1 /\ s[k] = q[k] /\ k \in DOMAIN q
    BY <1>1, <1>3, <1>4
  <2>2. j # 1 /\ s[j] = q[j] /\ j \in DOMAIN q
    BY <1>2, <1>3, <1>4, <1>5, <2>1
  <2>3. PairOK(q, j, k)
    BY <2>1, <2>2 DEF Orderly
  <2>4. /\ q[j].do = "read" /\ q[k].do = "write" /\ \A i \in j + 1 .. k - 1 : q[i].do = "add"
    BY <2>1, <2>2, <2>3 DEF PairOK
  <2>5. \A i \in j + 1 .. k - 1 : i \in DOMAIN q \ {1}
    <3>1. DOMAIN q = 1 .. Len(q) /\ Len(q) \in Nat
      OBVIOUS
    <3>2. j \in Nat /\ k \in Nat /\ j >= 1 /\ k <= Len(q)
      BY <2>1, <2>2, <3>1
    <3>3. \A i \in j + 1 .. k - 1 : i \in 1 .. Len(q) /\ i # 1
      BY <3>1, <3>2
    <3> QED
      BY <3>1, <3>3
  <2> QED
    BY <1>4, <2>1, <2>2, <2>4, <2>5
<1>7. Orderly(s)
  BY <1>3, <1>4, <1>6 DEF Orderly
<1>8. Apart(s, <<>>)
  BY DEF Apart
<1> QED
  BY <1>1, <1>2, <1>3, <1>4, <1>7, <1>8 DEF s, w

-----------------------------------------------------------------------------
(* Steps and the parts of the invariant.                                    *)

\* Which connections have been given to a thread depends on little.
LEMMA GivenSame ==
  ASSUME \A c \in Conns : peer'[c].stage = peer[c].stage,
         \A c \in Conns : conn'[c].thread = conn[c].thread
  PROVE  /\ \A c \in Conns : Accepted(c)' <=> Accepted(c)
         /\ \A t : Given(t)' = Given(t)
BY DEF Accepted, Given

\* A step that neither starts, accepts nor sweeps, and opens no connection.
LEMMA PlaceSame ==
  ASSUME Inv, UNCHANGED main,
         \A c \in Conns : peer'[c].stage = peer[c].stage,
         \A c \in Conns :
           /\ conn'[c].thread = conn[c].thread
           /\ conn'[c].m_state = "NotConnected" <=> conn[c].m_state = "NotConnected"
           /\ conn[c].m_state = "Closed" => conn'[c].m_state = "Closed"
  PROVE  /\ BootInv' /\ PlacedInv' /\ DealtInv'
         /\ \A c \in Conns : Accepted(c)' <=> Accepted(c)
<1>1. /\ m_client' = m_client /\ m_size' = m_size /\ io' = io /\ started' = started
      /\ m_index' = m_index /\ accepting' = accepting
  BY DEF main, boot
<1>2. /\ \A c \in Conns : Accepted(c)' <=> Accepted(c)
      /\ \A t : Given(t)' = Given(t)
  BY GivenSame
<1>3. \A c \in Conns : Accepting(c)' <=> Accepting(c)
  BY <1>1 DEF Accepting
<1>4. BootInv' /\ DealtInv'
  BY <1>1, <1>2 DEF Inv, BootInv, DealtInv
<1>5. PlacedInv'
  BY <1>1, <1>2, <1>3 DEF Inv, PlacedInv
<1> QED
  BY <1>2, <1>4, <1>5

\* What the invariant says of the tasks of a queue and of a report.
LEMMA QueueFacts ==
  ASSUME Inv, NEW t \in Threads
  PROVE  /\ queue[t] \in Seq(Tasks) /\ reported[t] \in Seq(Events)
         /\ Orderly(queue[t]) /\ Apart(queue[t], reported[t])
         /\ \A k \in DOMAIN queue[t] : /\ queue[t][k] \in Tasks /\ queue[t][k].conn \in Conns
                                       /\ TaskOK(queue[t], t, k)
         /\ \A k \in DOMAIN reported[t] :
              /\ reported[t][k] \in Events /\ reported[t][k].conn \in Conns
              /\ EventOK(reported[t][k], t)
<1>1. queue[t] \in Seq(Tasks) /\ reported[t] \in Seq(Events)
  BY DEF Inv, TypeOK
<1>2. \A k \in DOMAIN queue[t] : queue[t][k] \in Tasks /\ queue[t][k].conn \in Conns
  <2>1. \A task \in Tasks : task.conn \in Conns
    BY DEF Tasks
  <2> QED
    BY <1>1, <2>1
<1>3. \A k \in DOMAIN reported[t] : reported[t][k] \in Events /\ reported[t][k].conn \in Conns
  <2>1. \A e \in Events : e.conn \in Conns
    BY DEF Events
  <2> QED
    BY <1>1, <2>1
<1> QED
  BY <1>1, <1>2, <1>3 DEF Inv, QueueInv, ThreadInv

\* What makes up a thread's part of the invariant, after a step.
LEMMA ThreadNext ==
  ASSUME NEW t \in Threads, NEW q, NEW r, queue'[t] = q, reported'[t] = r,
         Orderly(q), Apart(q, r),
         \A k \in DOMAIN q :
           /\ Accepted(q[k].conn)' /\ conn'[q[k].conn].thread = t
           /\ conn'[q[k].conn].m_state = "Closed" /\ q[k].do # "add"
              => q[k].do = "write" /\ \A j \in 1 .. k - 1 : q[j].do = "add",
         \A k \in DOMAIN r :
           /\ Accepted(r[k].conn)' /\ conn'[r[k].conn].thread = t
           /\ conn'[r[k].conn].m_state # "Closed"
  PROVE  ThreadInv(t)'
<1>1. Orderly(queue[t])'
  BY DEF Orderly, PairOK
<1>2. Apart(queue[t], reported[t])'
  BY DEF Apart
<1>3. ASSUME NEW k \in DOMAIN queue'[t] PROVE TaskOK(queue[t], t, k)'
  BY <1>3 DEF TaskOK, Accepted
<1>4. ASSUME NEW k \in DOMAIN reported'[t] PROVE EventOK(reported[t][k], t)'
  BY <1>4 DEF EventOK, Accepted
<1> QED
  BY <1>1, <1>2, <1>3, <1>4 DEF ThreadInv

\* A step that does nothing to a thread, nor closes its connections.
LEMMA ThreadSame ==
  ASSUME Inv, NEW t \in Threads, queue'[t] = queue[t], reported'[t] = reported[t],
         \A d \in Conns : Accepted(d) /\ conn[d].thread = t =>
           /\ Accepted(d)' /\ conn'[d].thread = t
           /\ conn'[d].m_state = "Closed" <=> conn[d].m_state = "Closed"
  PROVE  ThreadInv(t)'
<1>0. PICK q, r : q = queue[t] /\ r = reported[t]
  OBVIOUS
<1>1. /\ Orderly(q) /\ Apart(q, r)
      /\ \A k \in DOMAIN q : q[k].conn \in Conns /\ TaskOK(q, t, k)
      /\ \A k \in DOMAIN r : r[k].conn \in Conns /\ EventOK(r[k], t)
  BY <1>0, QueueFacts
<1>2. \A k \in DOMAIN q :
        /\ Accepted(q[k].conn)' /\ conn'[q[k].conn].thread = t
        /\ conn'[q[k].conn].m_state = "Closed" /\ q[k].do # "add"
           => q[k].do = "write" /\ \A j \in 1 .. k - 1 : q[j].do = "add"
  BY <1>1 DEF TaskOK
<1>3. \A k \in DOMAIN r : /\ Accepted(r[k].conn)' /\ conn'[r[k].conn].thread = t
                          /\ conn'[r[k].conn].m_state # "Closed"
  BY <1>1 DEF EventOK
<1>4. queue'[t] = q /\ reported'[t] = r
  BY <1>0
<1> QED
  BY <1>1, <1>2, <1>3, <1>4, ThreadNext

\* A step that leaves the queues, the reports, and what they depend on.
LEMMA QueueSame ==
  ASSUME Inv, queue' = queue, reported' = reported,
         \A d \in Conns : Accepted(d) => /\ Accepted(d)' /\ conn'[d].thread = conn[d].thread
                                         /\ conn'[d].m_state = "Closed" <=> conn[d].m_state = "Closed"
  PROVE  QueueInv'
<1>1. ASSUME NEW t \in Threads PROVE ThreadInv(t)'
  BY ThreadSame
<1> QED
  BY <1>1 DEF QueueInv

\* A thread other than t puts an add into its queue.
LEMMA QueueAdd ==
  ASSUME Inv, NEW t \in Threads, NEW c \in Conns,
         queue' = [queue EXCEPT ![t] = Append(@, Task("add", c))], reported' = reported,
         \A d \in Conns : Accepted(d) =>
           /\ Accepted(d)' /\ conn'[d].thread = conn[d].thread
           /\ conn'[d].m_state = "Closed" <=> conn[d].m_state = "Closed",
         Accepted(c)', conn'[c].thread = t
  PROVE  QueueInv'
<1>0. PICK q, r : q = queue[t] /\ r = reported[t]
  OBVIOUS
<1> DEFINE s == Append(q, Task("add", c))
<1>1. /\ q \in Seq(Tasks) /\ Orderly(q) /\ Apart(q, r)
      /\ \A k \in DOMAIN q : q[k].conn \in Conns /\ TaskOK(q, t, k)
      /\ \A k \in DOMAIN r : r[k].conn \in Conns /\ EventOK(r[k], t)
  BY <1>0, QueueFacts
<1>2. queue'[t] = s /\ reported'[t] = r /\ \A u \in Threads \ {t} : queue'[u] = queue[u]
  BY <1>0 DEF Inv, TypeOK
<1>3. Orderly(s) /\ Apart(s, r)
  BY <1>1, OrderlyAdd
<1>4. /\ Len(q) \in Nat /\ DOMAIN q = 1 .. Len(q) /\ DOMAIN s = 1 .. Len(q) + 1
      /\ \A k \in DOMAIN q : s[k] = q[k]
      /\ s[Len(q) + 1].do = "add" /\ s[Len(q) + 1].conn = c
  BY <1>1, AppendFields, TaskFields
<1> HIDE DEF s
<1>5. ASSUME NEW k \in DOMAIN s
      PROVE  /\ Accepted(s[k].conn)' /\ conn'[s[k].conn].thread = t
             /\ conn'[s[k].conn].m_state = "Closed" /\ s[k].do # "add"
                => s[k].do = "write" /\ \A j \in 1 .. k - 1 : s[j].do = "add"
  <2>1. CASE k \in DOMAIN q
    <3>1. s[k] = q[k] /\ q[k].conn \in Conns /\ TaskOK(q, t, k)
      BY <1>1, <1>4, <2>1
    <3>2. \A j \in 1 .. k - 1 : s[j] = q[j]
      BY <1>4, <2>1
    <3> QED
      BY <3>1, <3>2 DEF TaskOK
  <2>2. CASE k = Len(q) + 1
    BY <1>4, <2>2
  <2> QED
    BY <1>4, <2>1, <2>2
<1>6. \A k \in DOMAIN r : /\ Accepted(r[k].conn)' /\ conn'[r[k].conn].thread = t
                          /\ conn'[r[k].conn].m_state # "Closed"
  BY <1>1 DEF EventOK
<1>7. ThreadInv(t)'
  BY <1>2, <1>3, <1>5, <1>6, ThreadNext
<1>8. ASSUME NEW u \in Threads \ {t} PROVE ThreadInv(u)'
  BY <1>2, ThreadSame
<1> QED
  BY <1>7, <1>8 DEF QueueInv

\* The order of starting up is kept.
LEMMA StartUpInv ==
  ASSUME Inv, NEW t \in Threads,
         CreateThread(t) \/ MakeLoop(t) \/ StartThread(t) \/ EnterLoop(t)
  PROVE  Inv'
<1>1. /\ m_client' = m_client /\ m_index' = m_index /\ accepting' = accepting
      /\ conn' = conn /\ peer' = peer /\ queue' = queue /\ crashed' = crashed
      /\ reported' = reported /\ kept' = kept /\ elsewhere' = elsewhere
      /\ m_size' = m_size
  BY DEF CreateThread, MakeLoop, StartThread, EnterLoop, work, closures
<1>2. m_size \in Nat /\ started \in 0 .. m_size /\ io \in [Threads -> IoStages]
  BY ThreadNumbers DEF Inv, TypeOK
<1>3. CreateThread(t) \/ MakeLoop(t) \/ StartThread(t) \/ EnterLoop(t)
  OBVIOUS
<1>4. t \in Nat
  BY ThreadNumbers
<1>5. io' \in [Threads -> IoStages] /\ started' \in 0 .. m_size
  BY <1>2, <1>3, <1>4 DEF CreateThread, MakeLoop, StartThread, EnterLoop, IoStages
<1>6. \A u \in Threads : io'[u] # "none" => u < m_size
  BY <1>2, <1>3 DEF CreateThread, MakeLoop, StartThread, EnterLoop, Inv, BootInv
<1>7. ASSUME started' > 0, NEW u \in 0 .. m_size - 1
      PROVE  io'[u] \in {"ready", "looping"}
  <2>1. u \in Threads
    BY <1>2, ThreadNumbers DEF Inv, TypeOK
  <2>2. CASE StartThread(t)
    BY <1>7, <2>2 DEF StartThread, Waited
  <2>3. CASE ~StartThread(t)
    <3>1. started > 0
      BY <1>3, <1>7, <2>3 DEF CreateThread, MakeLoop, EnterLoop
    <3>2. io[u] \in {"ready", "looping"}
      BY <1>7, <3>1 DEF Inv, BootInv
    <3> QED
      BY <1>2, <1>3, <2>1, <2>3, <3>2 DEF CreateThread, MakeLoop, EnterLoop
  <2> QED
    BY <2>2, <2>3
<1>8. started' < m_size => started < m_size
  BY <1>2, <1>3, <1>4 DEF CreateThread, MakeLoop, StartThread, EnterLoop
<1>9. BootInv'
  <2>1. \A c \in Conns : Accepted(c)' <=> Accepted(c)
    BY <1>1 DEF Accepted
  <2> QED
    BY <1>1, <1>6, <1>7, <1>8, <2>1 DEF Inv, BootInv
<1>10. TypeOK'
  BY <1>1, <1>5 DEF Inv, TypeOK
<1>11. \A c \in Conns : (Accepted(c)' <=> Accepted(c)) /\ (Accepting(c)' <=> Accepting(c))
  BY <1>1 DEF Accepted, Accepting
<1>12. PlacedInv' /\ MaskInv'
  BY <1>1, <1>11 DEF Inv, PlacedInv, MaskInv
<1>13. \A u : Given(u)' = Given(u)
  BY <1>1 DEF Given
<1>14. DealtInv'
  BY <1>1, <1>11, <1>13 DEF Inv, DealtInv
<1>15. QueueInv'
  BY <1>1, <1>11, QueueSame
<1> QED
  BY <1>9, <1>10, <1>12, <1>14, <1>15 DEF Inv

-----------------------------------------------------------------------------
(* Tasks.                                                                   *)

\* The task that a thread has come to is its first, and nothing is reported.
LEMMA FrontFacts ==
  ASSUME Inv, NEW c \in Conns, NEW do \in {"add", "read", "write", "wrote"}, InFront(do, c)
  PROVE  LET t == conn[c].thread
         IN  /\ t \in Threads /\ Accepted(c) /\ reported[t] = <<>>
             /\ queue[t] \in Seq(Tasks) /\ queue[t] # <<>>
             /\ Head(queue[t]) = Task(do, c)
             /\ 1 \in DOMAIN queue[t] /\ queue[t][1].conn = c /\ queue[t][1].do = do
<1> DEFINE t == conn[c].thread
<1>1. t \in Threads
  BY DEF Inv, TypeOK, Conn
<1>2. queue[t] \in Seq(Tasks) /\ queue[t] # <<>> /\ Head(queue[t]) = Task(do, c)
      /\ reported[t] = <<>>
  BY <1>1, QueueFacts DEF InFront
<1>3. 1 \in DOMAIN queue[t] /\ queue[t][1] = Task(do, c)
  BY <1>2
<1>4. queue[t][1].conn = c /\ queue[t][1].do = do
  BY <1>3, TaskFields
<1>5. Accepted(c)
  BY <1>1, <1>3, <1>4, QueueFacts DEF TaskOK
<1> QED
  BY <1>1, <1>2, <1>3, <1>4, <1>5

\* The step of a handler, or of an add: it changes its own connection, of which it
\* leaves the thread alone, and which only onRead closes.
TaskStep(c, do, cn) ==
  /\ Running(do, c)
  /\ conn' = [conn EXCEPT ![c] = cn]
  /\ UNCHANGED main
  /\ peer' \in [Conns -> Peer] /\ \A d \in Conns : peer'[d].stage = peer[d].stage
  /\ kept' \in 0 .. MaxKept /\ elsewhere' \in [Conns -> Elsewhere]
  /\ crashed' \in BOOLEAN

LEMMA TaskInv ==
  ASSUME Inv, NEW c \in Conns, NEW do \in {"add", "read", "write", "wrote"},
         NEW cn \in Conn, TaskStep(c, do, cn),
         cn.thread = conn[c].thread,
         cn.m_state = "Closed" => cn.interest = {} /\ cn.mask = {},
         \/ cn.m_state = conn[c].m_state
         \/ do = "read" /\ conn[c].m_state = "Connected" /\ cn.m_state = "Closed"
  PROVE  Inv'
<1>0. PICK t, q : t = conn[c].thread /\ q = queue[t]
  OBVIOUS
<1>1. /\ t \in Threads /\ Accepted(c) /\ reported[t] = <<>>
      /\ q \in Seq(Tasks) /\ q # <<>> /\ 1 \in DOMAIN q /\ q[1].conn = c /\ q[1].do = do
  BY <1>0, FrontFacts DEF TaskStep, Running
<1>2. /\ queue' = [queue EXCEPT ![t] = Tail(q)] /\ reported' = reported
      /\ queue'[t] = Tail(q) /\ reported'[t] = <<>>
      /\ \A u \in Threads \ {t} : queue'[u] = queue[u]
  BY <1>0, <1>1 DEF TaskStep, Running, Inv, TypeOK
<1>3. /\ conn' \in [Conns -> Conn]
      /\ \A d \in Conns : conn'[d] = IF d = c THEN cn ELSE conn[d]
  BY DEF TaskStep, Inv, TypeOK
<1>4. /\ \A d \in Conns : /\ conn'[d].thread = conn[d].thread
                          /\ conn'[d].m_state = "NotConnected" <=> conn[d].m_state = "NotConnected"
                          /\ conn[d].m_state = "Closed" => conn'[d].m_state = "Closed"
  BY <1>3
<1>5. /\ BootInv' /\ PlacedInv' /\ DealtInv'
      /\ \A d \in Conns : Accepted(d)' <=> Accepted(d)
  BY <1>4, PlaceSame DEF TaskStep
<1>6. Orderly(q) /\ \A k \in DOMAIN q : q[k].conn \in Conns /\ TaskOK(q, t, k)
  BY <1>0, <1>1, QueueFacts
<1>7. /\ Tail(q) \in Seq(Tasks) /\ Orderly(Tail(q)) /\ Apart(Tail(q), <<>>)
      /\ \A k \in DOMAIN Tail(q) : /\ k \in Nat /\ k >= 1 /\ k + 1 \in DOMAIN q
                                   /\ Tail(q)[k] = q[k + 1]
  BY <1>1, <1>6, OrderlyTail
<1>8. TypeOK'
  <2>1. queue' \in [Threads -> Seq(Tasks)]
    BY <1>1, <1>2, <1>7 DEF Inv, TypeOK
  <2>2. /\ m_client' = m_client /\ m_size' = m_size /\ io' = io /\ started' = started
        /\ m_index' = m_index /\ accepting' = accepting
    BY DEF TaskStep, main, boot
  <2> QED
    BY <1>2, <1>3, <2>1, <2>2 DEF TaskStep, Inv, TypeOK
<1>9. MaskInv'
  BY <1>1, <1>3, <1>5 DEF Inv, MaskInv
<1>10. ASSUME NEW k \in DOMAIN Tail(q)
       PROVE  LET task == Tail(q)[k]
              IN  /\ Accepted(task.conn)' /\ conn'[task.conn].thread = t
                  /\ conn'[task.conn].m_state = "Closed" /\ task.do # "add"
                     => task.do = "write" /\ \A j \in 1 .. k - 1 : Tail(q)[j].do = "add"
  <2>0. PICK task, d : task = Tail(q)[k] /\ d = task.conn
    OBVIOUS
  <2>1. k \in Nat /\ k >= 1 /\ k + 1 \in DOMAIN q /\ task = q[k + 1]
    BY <1>7, <2>0
  <2>2. d \in Conns /\ TaskOK(q, t, k + 1)
    BY <1>6, <2>0, <2>1
  <2>3. /\ Accepted(d) /\ conn[d].thread = t
        /\ conn[d].m_state = "Closed" /\ task.do # "add"
           => task.do = "write" /\ \A j \in 1 .. (k + 1) - 1 : q[j].do = "add"
    BY <2>0, <2>1, <2>2 DEF TaskOK
  <2>4. Accepted(d)' /\ conn'[d].thread = t
    BY <1>4, <1>5, <2>2, <2>3
  <2>5. ASSUME conn'[d].m_state = "Closed", task.do # "add"
        PROVE  task.do = "write" /\ \A j \in 2 .. k : q[j].do = "add"
    <3>1. CASE conn[d].m_state = "Closed"
      <4>1. \A j \in 2 .. k : j \in 1 .. (k + 1) - 1
        BY <2>1
      <4> QED
        BY <2>3, <2>5, <3>1, <4>1
    <3>2. CASE conn[d].m_state # "Closed"
      <4>1. d = c /\ do = "read"
        BY <1>3, <2>2, <2>5, <3>2
      <4>2. PairOK(q, 1, k + 1) /\ 1 < k + 1
        BY <1>1, <1>6, <2>1 DEF Orderly
      <4>3. q[1].conn = q[k + 1].conn /\ q[1].do # "add" /\ q[k + 1].do # "add"
        BY <1>1, <2>0, <2>1, <2>5, <4>1
      <4>4. q[k + 1].do = "write" /\ \A j \in 1 + 1 .. (k + 1) - 1 : q[j].do = "add"
        BY <4>2, <4>3 DEF PairOK
      <4>5. \A j \in 2 .. k : j \in 1 + 1 .. (k + 1) - 1
        BY <2>1
      <4> QED
        BY <2>1, <4>4, <4>5
    <3> QED
      BY <3>1, <3>2
  <2>6. \A j \in 1 .. k - 1 : Tail(q)[j] = q[j + 1] /\ j + 1 \in 2 .. k
    <3>1. DOMAIN Tail(q) = 1 .. Len(Tail(q)) /\ Len(Tail(q)) \in Nat
      BY <1>7
    <3>2. \A j \in 1 .. k - 1 : j \in DOMAIN Tail(q) /\ j + 1 \in 2 .. k
      BY <2>1, <3>1
    <3> QED
      BY <1>7, <3>2
  <2> QED
    BY <2>0, <2>4, <2>5, <2>6
<1>11. ThreadInv(t)'
  <2>1. PICK s : s = Tail(q)
    OBVIOUS
  <2>2. Orderly(s) /\ Apart(s, <<>>) /\ queue'[t] = s /\ reported'[t] = <<>>
    BY <1>2, <1>7, <2>1
  <2>3. \A k \in DOMAIN s :
          /\ Accepted(s[k].conn)' /\ conn'[s[k].conn].thread = t
          /\ conn'[s[k].conn].m_state = "Closed" /\ s[k].do # "add"
             => s[k].do = "write" /\ \A j \in 1 .. k - 1 : s[j].do = "add"
    BY <1>10, <2>1
  <2>4. DOMAIN <<>> = {}
    OBVIOUS
  <2> QED
    BY <1>1, <2>2, <2>3, <2>4, ThreadNext
<1>12. ASSUME NEW u \in Threads \ {t} PROVE ThreadInv(u)'
  <2>1. \A d \in Conns : Accepted(d) /\ conn[d].thread = u =>
          /\ Accepted(d)' /\ conn'[d].thread = u
          /\ conn'[d].m_state = "Closed" <=> conn[d].m_state = "Closed"
    BY <1>0, <1>3, <1>4, <1>5
  <2> QED
    BY <1>2, <2>1, ThreadSame
<1>13. QueueInv'
  BY <1>11, <1>12 DEF QueueInv
<1> QED
  BY <1>5, <1>8, <1>9, <1>13 DEF Inv

-----------------------------------------------------------------------------
(* The handlers.                                                            *)

\* What the operations of FdEvent, of the loop and of TcpConnection leave alone.
LEMMA ConnFields ==
  ASSUME NEW cn \in Conn
  PROVE  /\ \A event \in {"IN", "OUT"} :
              /\ listen(cn, event) \in Conn /\ cancle(cn, event) \in Conn
              /\ listen(cn, event).thread = cn.thread /\ cancle(cn, event).thread = cn.thread
              /\ listen(cn, event).m_state = cn.m_state
              /\ cancle(cn, event).m_state = cn.m_state
              /\ listen(cn, event).mask = cn.mask
              /\ cancle(cn, event).interest = cn.interest \ {event}
         /\ addEpollEvent(cn) \in Conn /\ deleteEpollEvent(cn) \in Conn
         /\ addEpollEvent(cn).thread = cn.thread /\ deleteEpollEvent(cn).thread = cn.thread
         /\ addEpollEvent(cn).m_state = cn.m_state
         /\ deleteEpollEvent(cn).m_state = cn.m_state
         /\ addEpollEvent(cn).mask = cn.interest /\ addEpollEvent(cn).interest = cn.interest
         /\ deleteEpollEvent(cn).mask = {} /\ deleteEpollEvent(cn).interest = cn.interest
BY DEF Conn, listen, cancle, addEpollEvent, deleteEpollEvent

\* clear() closes the connection, nothing is listened for, and epoll forgets it.
LEMMA ClearFields ==
  ASSUME NEW cn \in Conn
  PROVE  /\ clear(cn) \in Conn /\ clear(cn).thread = cn.thread
         /\ clear(cn).m_state = "Closed" /\ clear(cn).mask = {} /\ clear(cn).interest = {}
<1> DEFINE one == cancle(cn, "IN")
           two == cancle(one, "OUT")
           del == deleteEpollEvent(two)
<1>1. one \in Conn /\ one.thread = cn.thread /\ one.interest = cn.interest \ {"IN"}
  BY ConnFields
<1>2. two \in Conn /\ two.thread = cn.thread /\ two.interest = one.interest \ {"OUT"}
  BY <1>1, ConnFields
<1>3. del \in Conn /\ del.thread = cn.thread /\ del.mask = {} /\ del.interest = two.interest
  BY <1>2, ConnFields
<1>4. clear(cn) = [del EXCEPT !.m_state = "Closed"]
  BY DEF clear
<1>5. cn.interest \subseteq {"IN", "OUT"}
  BY DEF Conn
<1>6. del.interest = {}
  BY <1>1, <1>2, <1>3, <1>5
<1> HIDE DEF del
<1> QED
  BY <1>3, <1>4, <1>6 DEF Conn

\* Neither reply nor what onWrite does changes the state.
LEMMA WriteFields ==
  ASSUME NEW cn \in Conn
  PROVE  LET wrote == [cn EXCEPT !.unsent = FALSE]
             sent == addEpollEvent(cancle(cn, "OUT"))
         IN  /\ reply(cn) \in Conn /\ reply(cn).thread = cn.thread
             /\ reply(cn).m_state = cn.m_state
             /\ wrote \in Conn /\ wrote.thread = cn.thread /\ wrote.m_state = cn.m_state
             /\ wrote.mask = cn.mask /\ wrote.interest = cn.interest
             /\ sent \in Conn /\ sent.thread = cn.thread /\ sent.m_state = cn.m_state
             /\ sent.mask = cn.interest \ {"OUT"} /\ sent.interest = cn.interest \ {"OUT"}
<1> DEFINE full == [cn EXCEPT !.unsent = TRUE]
           wrote == [cn EXCEPT !.unsent = FALSE]
<1>1. /\ full \in Conn /\ full.thread = cn.thread /\ full.m_state = cn.m_state
      /\ wrote \in Conn /\ wrote.thread = cn.thread /\ wrote.m_state = cn.m_state
      /\ wrote.mask = cn.mask /\ wrote.interest = cn.interest
  BY DEF Conn
<1>2. reply(cn) = addEpollEvent(listen(full, "OUT"))
  BY DEF reply
<1> HIDE DEF full
<1>3. /\ listen(full, "OUT") \in Conn /\ listen(full, "OUT").thread = cn.thread
      /\ listen(full, "OUT").m_state = cn.m_state
      /\ cancle(cn, "OUT") \in Conn /\ cancle(cn, "OUT").thread = cn.thread
      /\ cancle(cn, "OUT").m_state = cn.m_state
      /\ cancle(cn, "OUT").interest = cn.interest \ {"OUT"}
  BY <1>1, ConnFields
<1>4. /\ addEpollEvent(listen(full, "OUT")) \in Conn
      /\ addEpollEvent(listen(full, "OUT")).thread = cn.thread
      /\ addEpollEvent(listen(full, "OUT")).m_state = cn.m_state
  BY <1>3, ConnFields
<1>5. LET sent == addEpollEvent(cancle(cn, "OUT"))
      IN  /\ sent \in Conn /\ sent.thread = cn.thread /\ sent.m_state = cn.m_state
          /\ sent.mask = cn.interest \ {"OUT"} /\ sent.interest = cn.interest \ {"OUT"}
  BY <1>3, ConnFields
<1> QED
  BY <1>1, <1>2, <1>4, <1>5

\* A task that changes no connection.
LEMMA IdleTaskInv ==
  ASSUME Inv, NEW c \in Conns, NEW do \in {"read", "write"}, Running(do, c),
         UNCHANGED <<main, conn, peer, closures>>, crashed' \in BOOLEAN
  PROVE  Inv'
<1>1. /\ conn \in [Conns -> Conn] /\ peer \in [Conns -> Peer]
      /\ kept \in 0 .. MaxKept /\ elsewhere \in [Conns -> Elsewhere]
  BY DEF Inv, TypeOK
<1>2. conn' = [conn EXCEPT ![c] = conn[c]] /\ conn[c] \in Conn
  BY <1>1
<1>3. conn[c].m_state = "Closed" => conn[c].interest = {} /\ conn[c].mask = {}
  BY DEF Inv, MaskInv
<1>4. TaskStep(c, do, conn[c])
  BY <1>1, <1>2 DEF TaskStep, closures
<1> QED
  BY <1>2, <1>3, <1>4, TaskInv


\* onWrite has written: it is still the first task, and no other handler of its
\* connection is behind it.
LEMMA WriteAllInv ==
  ASSUME Inv, NEW c \in Conns, WriteAll(c)
  PROVE  Inv'
<1> DEFINE cn == [conn[c] EXCEPT !.unsent = FALSE]
<1>0. PICK t, q : t = conn[c].thread /\ q = queue[t]
  OBVIOUS
<1>1. /\ t \in Threads /\ Accepted(c) /\ reported[t] = <<>>
      /\ q \in Seq(Tasks) /\ q # <<>> /\ Head(q) = Task("write", c)
  BY <1>0, FrontFacts DEF WriteAll
<1>2. conn \in [Conns -> Conn] /\ queue \in [Threads -> Seq(Tasks)]
  BY DEF Inv, TypeOK
<1>3. /\ cn \in Conn /\ cn.thread = conn[c].thread /\ cn.m_state = conn[c].m_state
      /\ cn.mask = conn[c].mask /\ cn.interest = conn[c].interest
  BY <1>2, WriteFields
<1> HIDE DEF cn
<1>4. conn' = [conn EXCEPT ![c] = cn]
  BY DEF WriteAll, cn
<1>5. /\ UNCHANGED <<main, peer, reported, closures, crashed>>
      /\ queue' = [queue EXCEPT ![t] = [q EXCEPT ![1] = Task("wrote", c)]]
  BY <1>0 DEF WriteAll
<1>6. /\ conn' \in [Conns -> Conn]
      /\ \A d \in Conns : conn'[d] = IF d = c THEN cn ELSE conn[d]
  BY <1>2, <1>3, <1>4
<1>7. \A d \in Conns : /\ conn'[d].thread = conn[d].thread /\ conn'[d].mask = conn[d].mask
                       /\ conn'[d].m_state = conn[d].m_state
                       /\ conn'[d].interest = conn[d].interest
  BY <1>3, <1>6
<1>8. BootInv' /\ PlacedInv' /\ DealtInv' /\ \A d \in Conns : Accepted(d)' <=> Accepted(d)
  BY <1>5, <1>7, PlaceSame
<1>9. MaskInv'
  BY <1>7, <1>8 DEF Inv, MaskInv
<1>10. PICK s : s = [q EXCEPT ![1] = Task("wrote", c)]
  OBVIOUS
<1>11. Orderly(q) /\ \A k \in DOMAIN q : q[k].conn \in Conns /\ TaskOK(q, t, k)
  BY <1>0, <1>1, QueueFacts
<1>12. /\ s \in Seq(Tasks) /\ DOMAIN s = DOMAIN q /\ 1 \in DOMAIN q
       /\ s[1].conn = q[1].conn /\ s[1].do = "wrote" /\ q[1].do = "write"
       /\ \A k \in DOMAIN q \ {1} : s[k] = q[k]
       /\ Orderly(s) /\ Apart(s, <<>>)
  BY <1>1, <1>10, <1>11, OrderlyWrote
<1>13. queue'[t] = s /\ reported'[t] = <<>> /\ \A u \in Threads \ {t} : queue'[u] = queue[u]
  BY <1>1, <1>2, <1>5, <1>10
<1>14. conn[c].m_state # "Closed" /\ q[1].conn = c
  <2>1. q[1] = Head(q)
    BY <1>1
  <2> QED
    BY <1>1, <2>1, TaskFields DEF WriteAll
<1>15. ASSUME NEW k \in DOMAIN s
       PROVE  /\ Accepted(s[k].conn)' /\ conn'[s[k].conn].thread = t
              /\ conn'[s[k].conn].m_state = "Closed" /\ s[k].do # "add"
                 => s[k].do = "write" /\ \A j \in 1 .. k - 1 : s[j].do = "add"
  <2>1. s[k].conn = q[k].conn /\ q[k].conn \in Conns /\ TaskOK(q, t, k)
    BY <1>11, <1>12
  <2>2. /\ Accepted(q[k].conn) /\ conn[q[k].conn].thread = t
        /\ conn[q[k].conn].m_state = "Closed" /\ q[k].do # "add"
           => q[k].do = "write" /\ \A j \in 1 .. k - 1 : q[j].do = "add"
    BY <2>1 DEF TaskOK
  <2>3. ASSUME conn[q[k].conn].m_state = "Closed", s[k].do # "add" PROVE FALSE \/ k # 1
    BY <1>14, <2>3
  <2>4. ASSUME conn[q[k].conn].m_state = "Closed", s[k].do # "add" PROVE FALSE
    <3>1. k # 1 /\ s[k] = q[k]
      BY <1>12, <2>3, <2>4
    <3>2. \A j \in 1 .. k - 1 : q[j].do = "add"
      BY <2>2, <2>4, <3>1
    <3>3. 1 \in 1 .. k - 1
      <4>1. DOMAIN q = 1 .. Len(q) /\ Len(q) \in Nat
        BY <1>1
      <4> QED
        BY <1>12, <3>1, <4>1
    <3> QED
      BY <1>12, <3>2, <3>3
  <2> QED
    BY <1>7, <1>8, <2>1, <2>2, <2>4
<1>16. ThreadInv(t)'
  <2>1. DOMAIN <<>> = {}
    OBVIOUS
  <2> QED
    BY <1>1, <1>12, <1>13, <1>15, <2>1, ThreadNext
<1>17. ASSUME NEW u \in Threads \ {t} PROVE ThreadInv(u)'
  <2>1. \A d \in Conns : Accepted(d) /\ conn[d].thread = u =>
          /\ Accepted(d)' /\ conn'[d].thread = u
          /\ conn'[d].m_state = "Closed" <=> conn[d].m_state = "Closed"
    BY <1>7, <1>8
  <2> QED
    BY <1>5, <1>13, <2>1, ThreadSame
<1>18. TypeOK'
  <2>1. queue' \in [Threads -> Seq(Tasks)]
    BY <1>1, <1>2, <1>5, <1>10, <1>12
  <2> QED
    BY <1>5, <1>6, <2>1 DEF Inv, TypeOK, main, boot, closures
<1> QED
  BY <1>8, <1>9, <1>16, <1>17, <1>18 DEF Inv, QueueInv

\* Every task keeps the invariant.
LEMMA RunTaskInv ==
  ASSUME Inv, NEW c \in Conns, RunTask(c)
  PROVE  Inv'
<1>1. /\ conn \in [Conns -> Conn] /\ peer \in [Conns -> Peer] /\ crashed \in BOOLEAN
      /\ kept \in 0 .. MaxKept /\ elsewhere \in [Conns -> Elsewhere]
  BY DEF Inv, TypeOK
<1>2. /\ conn[c] \in Conn
      /\ conn[c].m_state = "Closed" => conn[c].interest = {} /\ conn[c].mask = {}
  BY <1>1 DEF Inv, MaskInv
<1>3. CASE RunAdd(c)
  <2> DEFINE cn == addEpollEvent(conn[c])
  <2>1. /\ cn \in Conn /\ cn.thread = conn[c].thread /\ cn.m_state = conn[c].m_state
        /\ cn.interest = conn[c].interest /\ cn.mask = conn[c].interest
    BY <1>2, ConnFields
  <2>2. TaskStep(c, "add", cn)
    BY <1>1, <1>3 DEF RunAdd, TaskStep, closures
  <2> HIDE DEF cn
  <2> QED
    BY <1>2, <2>1, <2>2, TaskInv
<1>4. CASE NotConnected(c) \/ WriteSome(c) \/ WriteToNobody(c) \/ UseAfterFree(c)
  <2>1. PICK do \in {"read", "write"} : Running(do, c)
    BY <1>4 DEF NotConnected, WriteSome, WriteToNobody, UseAfterFree
  <2>2. UNCHANGED <<main, conn, peer, closures>> /\ crashed' \in BOOLEAN
    BY <1>1, <1>4 DEF NotConnected, WriteSome, WriteToNobody, UseAfterFree
  <2> QED
    BY <2>1, <2>2, IdleTaskInv
<1>5. CASE ReadEnd(c)
  <2> DEFINE cn == clear(conn[c])
  <2>1. /\ cn \in Conn /\ cn.thread = conn[c].thread
        /\ cn.m_state = "Closed" /\ cn.mask = {} /\ cn.interest = {}
    BY <1>2, ClearFields
  <2>2. peer' \in [Conns -> Peer] /\ \A d \in Conns : peer'[d].stage = peer[d].stage
    BY <1>1, <1>5 DEF ReadEnd, Peer
  <2>3. TaskStep(c, "read", cn) /\ conn[c].m_state = "Connected"
    BY <1>1, <1>5, <2>2 DEF ReadEnd, TaskStep, closures
  <2> HIDE DEF cn
  <2> QED
    BY <2>1, <2>3, TaskInv
<1>6. CASE ReadRequests(c)
  <2>1. PICK cn \in dispatch(conn[c]) : conn' = [conn EXCEPT ![c] = cn]
    BY <1>6 DEF ReadRequests
  <2>2. cn \in Conn /\ cn.thread = conn[c].thread /\ cn.m_state = conn[c].m_state
    BY <1>2, <2>1, WriteFields DEF dispatch
  <2>3. Running("read", c) /\ conn[c].m_state = "Connected" /\ UNCHANGED <<main, crashed>>
    BY <1>6 DEF ReadRequests
  <2>4. peer' \in [Conns -> Peer] /\ \A d \in Conns : peer'[d].stage = peer[d].stage
    BY <1>1, <1>6, ZenonT(40) DEF ReadRequests, Peer
  <2>5. kept' \in 0 .. MaxKept /\ elsewhere' \in [Conns -> Elsewhere]
    <3>1. UNCHANGED closures \/ Keep(c)
      BY <1>6 DEF ReadRequests
    <3>2. CASE UNCHANGED closures
      BY <1>1, <3>2 DEF closures
    <3>3. CASE Keep(c)
      BY <1>1, <3>3, ServerAssumption DEF Keep, Elsewhere
    <3> QED
      BY <3>1, <3>2, <3>3
  <2>6. TaskStep(c, "read", cn)
    BY <1>1, <2>1, <2>3, <2>4, <2>5 DEF TaskStep
  <2> QED
    BY <2>2, <2>3, <2>6, TaskInv
<1>7. CASE WriteAll(c)
  BY <1>7, WriteAllInv
<1>8. CASE CancelWrite(c)
  <2> DEFINE cn == addEpollEvent(cancle(conn[c], "OUT"))
  <2>1. /\ cn \in Conn /\ cn.thread = conn[c].thread /\ cn.m_state = conn[c].m_state
        /\ cn.interest = conn[c].interest \ {"OUT"} /\ cn.mask = conn[c].interest \ {"OUT"}
    BY <1>2, WriteFields
  <2>2. TaskStep(c, "wrote", cn)
    BY <1>1, <1>8 DEF CancelWrite, TaskStep, closures
  <2> HIDE DEF cn
  <2>3. cn.m_state = "Closed" => cn.interest = {} /\ cn.mask = {}
    BY <1>2, <2>1
  <2> QED
    BY <2>1, <2>2, <2>3, TaskInv
<1> QED
  BY <1>3, <1>4, <1>5, <1>6, <1>7, <1>8 DEF RunTask, Handler

-----------------------------------------------------------------------------
(* The main thread, and the clients.                                        *)

\* getIOThread returns a thread of the group.
LEMMA NextThreadType ==
  ASSUME Inv
  PROVE  /\ NextThread \in 0 .. m_size - 1 /\ NextThread \in Threads
         /\ m_size \in Nat /\ m_size >= 1
BY ThreadNumbers DEF Inv, TypeOK, NextThread

\* The round robin keeps the balance.
LEMMA AcceptDealt ==
  ASSUME Inv, NEW c \in Conns, Accept(c)
  PROVE  DealtInv'
<1> DEFINE n == NextThread
<1>1. n \in 0 .. m_size - 1 /\ n \in Threads /\ m_size \in Nat /\ m_size >= 1
  BY NextThreadType
<1>2. conn[c] \in Conn /\ peer[c] \in Peer
  BY DEF Inv, TypeOK
<1>3. /\ ~Accepted(c) /\ peer' = [peer EXCEPT ![c].stage = "accepted"]
      /\ m_index' = n + 1 /\ m_size' = m_size
      /\ conn' = [conn EXCEPT ![c] = listen([conn[c] EXCEPT !.thread = n], "IN")]
  BY DEF Accept, boot, Accepted
<1>4. listen([conn[c] EXCEPT !.thread = n], "IN").thread = n
  <2>1. [conn[c] EXCEPT !.thread = n] \in Conn /\ [conn[c] EXCEPT !.thread = n].thread = n
    BY <1>1, <1>2 DEF Conn
  <2> QED
    BY <2>1, ConnFields
<1>5. /\ \A d \in Conns : Accepted(d)' <=> d = c \/ Accepted(d)
      /\ \A d \in Conns : conn'[d].thread = IF d = c THEN n ELSE conn[d].thread
  <2>1. conn \in [Conns -> Conn] /\ peer \in [Conns -> Peer]
    BY DEF Inv, TypeOK
  <2> HIDE DEF n
  <2>2. \A d \in Conns : Accepted(d)' <=> d = c \/ Accepted(d)
    BY <1>2, <1>3, <2>1 DEF Accepted, Peer
  <2>3. \A d \in Conns : conn'[d].thread = IF d = c THEN n ELSE conn[d].thread
    BY <1>3, <1>4, <2>1
  <2> QED
    BY <2>2, <2>3
<1> HIDE DEF n
<1>6. \A t \in 0 .. m_size - 1 :
        Given(t)' = IF t = n THEN Given(t) \cup {c} ELSE Given(t)
  <2> TAKE t \in 0 .. m_size - 1
  <2>1. /\ Given(t) = {d \in Conns : Accepted(d) /\ conn[d].thread = t}
        /\ Given(t)' = {d \in Conns : Accepted(d)' /\ conn'[d].thread = t}
    BY DEF Given, Accepted
  <2>2. ~Accepted(c)
    BY <1>3
  <2> QED
    BY <1>5, <2>1, <2>2
<1>7. \A t \in 0 .. m_size - 1 : IsFiniteSet(Given(t)) /\ c \notin Given(t)
                                 /\ Cardinality(Given(t)) \in Nat
  <2>1. \A t : Given(t) \subseteq Conns /\ c \notin Given(t)
    BY <1>3 DEF Given, Accepted
  <2> QED
    BY <2>1, ServerAssumption, FS_Subset, FS_CardinalityType
<1>8. \A t \in 0 .. m_size - 1 :
        Cardinality(Given(t)') = IF t = n THEN Cardinality(Given(t)) + 1
                                          ELSE Cardinality(Given(t))
  BY <1>6, <1>7, FS_AddElement
<1>9. PICK q \in Nat : \A t \in 0 .. m_size - 1 :
        Cardinality(Given(t)) = IF t < m_index THEN q + 1 ELSE q
  BY DEF Inv, DealtInv
<1>10. m_index \in -1 .. m_size
  BY DEF Inv, TypeOK
<1>11. CASE m_index = m_size
  <2>1. n = 0
    BY <1>11 DEF n, NextThread
  <2>2. \A t \in 0 .. m_size - 1 :
          Cardinality(Given(t)') = IF t < n + 1 THEN (q + 1) + 1 ELSE q + 1
    BY <1>1, <1>8, <1>9, <1>11, <2>1
  <2>3. q + 1 \in Nat
    OBVIOUS
  <2> QED
    BY <1>1, <1>3, <2>2, <2>3 DEF DealtInv
<1>12. CASE m_index # m_size
  <2>1. n = IF m_index = -1 THEN 0 ELSE m_index
    BY <1>12 DEF n, NextThread
  <2>2. \A t \in 0 .. m_size - 1 :
          Cardinality(Given(t)') = IF t < n + 1 THEN q + 1 ELSE q
    BY <1>1, <1>8, <1>9, <1>10, <2>1
  <2> QED
    BY <1>1, <1>3, <2>2 DEF DealtInv
<1> QED
  BY <1>11, <1>12

\* The constructor of the connection, and the task it queues for the IO thread.
LEMMA AcceptInv ==
  ASSUME Inv, NEW c \in Conns, Accept(c)
  PROVE  Inv'
<1> DEFINE n  == NextThread
           cn == listen([conn[c] EXCEPT !.thread = n], "IN")
<1>1. n \in 0 .. m_size - 1 /\ n \in Threads /\ m_size \in Nat /\ m_size >= 1
  BY NextThreadType
<1>2. /\ conn \in [Conns -> Conn] /\ peer \in [Conns -> Peer]
      /\ queue \in [Threads -> Seq(Tasks)]
      /\ conn[c] \in Conn /\ peer[c] \in Peer
  BY DEF Inv, TypeOK
<1>3. /\ ~Accepted(c) /\ peer' = [peer EXCEPT ![c].stage = "accepted"]
      /\ m_index' = n + 1 /\ conn' = [conn EXCEPT ![c] = cn]
      /\ queue' = [queue EXCEPT ![n] = Append(@, Task("add", c))]
      /\ accepting = Nowhere /\ accepting' = At("setState", c) /\ started = m_size
      /\ m_client' = m_client /\ m_size' = m_size /\ io' = io /\ started' = started
      /\ crashed' = crashed /\ reported' = reported /\ kept' = kept
      /\ elsewhere' = elsewhere
  BY DEF Accept, boot, closures, Accepted, MainIdle
<1>4. cn \in Conn /\ cn.thread = n /\ cn.m_state = "NotConnected" /\ cn.mask = {}
  <2>1. /\ [conn[c] EXCEPT !.thread = n] \in Conn
        /\ [conn[c] EXCEPT !.thread = n].thread = n
        /\ [conn[c] EXCEPT !.thread = n].m_state = conn[c].m_state
        /\ [conn[c] EXCEPT !.thread = n].mask = conn[c].mask
    BY <1>1, <1>2 DEF Conn
  <2>2. conn[c].m_state = "NotConnected" /\ conn[c].mask = {}
    BY <1>3 DEF Inv, PlacedInv, MaskInv
  <2> QED
    BY <2>1, <2>2, ConnFields
<1> HIDE DEF n, cn
<1>5. /\ \A d \in Conns : conn'[d] = IF d = c THEN cn ELSE conn[d]
      /\ \A d \in Conns : Accepted(d)' <=> d = c \/ Accepted(d)
      /\ peer'[c].stage = "accepted" /\ \A d \in Conns : d # c => peer'[d] = peer[d]
  <2>1. peer'[c].stage = "accepted"
    BY <1>2, <1>3 DEF Peer
  <2> QED
    BY <1>2, <1>3, <2>1 DEF Accepted
<1>6. TypeOK'
  <2>1. conn' \in [Conns -> Conn]
    BY <1>2, <1>3, <1>4
  <2>2. peer' \in [Conns -> Peer]
    BY <1>2, <1>3 DEF Peer
  <2>3. queue' \in [Threads -> Seq(Tasks)]
    BY <1>1, <1>2, <1>3, TaskFields
  <2>4. m_index' \in -1 .. m_size'
    BY <1>1, <1>3
  <2>5. accepting' \in [at : {"setState", "insert"}, conn : Conns]
    BY <1>3, AtFields
  <2> QED
    BY <1>3, <2>1, <2>2, <2>3, <2>4, <2>5 DEF Inv, TypeOK
<1>7. BootInv'
  BY <1>1, <1>3 DEF Inv, BootInv
<1>8. PlacedInv'
  <2>1. \A d \in Conns : ~Accepting(d)
    BY <1>3, AtFields DEF Accepting
  <2>2. \A d \in Conns : Accepting(d)' <=> d = c
    BY <1>3, AtFields DEF Accepting
  <2>3. \A d \in Conns : accepting' = At("setState", d) <=> d = c
    BY <1>3, AtFields
  <2>4. \A d \in Conns : Accepted(d) => conn[d].m_state # "NotConnected"
    BY <1>3, AtFields DEF Inv, PlacedInv
  <2>5. c \notin m_client
    BY <1>3 DEF Inv, PlacedInv
  <2>6. \A d \in Conns : Accepted(d)' => conn'[d].thread < m_size'
    BY <1>1, <1>3, <1>4, <1>5 DEF Inv, PlacedInv
  <2>7. \A d \in Conns : Accepted(d)' /\ d \notin m_client' /\ ~Accepting(d)'
                         => conn'[d].m_state = "Closed"
    BY <1>3, <1>5, <2>1, <2>2 DEF Inv, PlacedInv
  <2>8. \A d \in Conns : d \in m_client' \/ Accepting(d)' => Accepted(d)'
    BY <1>3, <1>5, <2>2 DEF Inv, PlacedInv
  <2>9. \A d \in Conns : conn'[d].m_state # "NotConnected" => Accepted(d)'
    BY <1>4, <1>5 DEF Inv, PlacedInv
  <2>10. \A d \in Conns : /\ accepting' = At("setState", d) => conn'[d].m_state = "NotConnected"
                          /\ Accepted(d)' /\ conn'[d].m_state = "NotConnected"
                             => accepting' = At("setState", d)
    BY <1>4, <1>5, <2>3, <2>4
  <2> QED
    BY <2>6, <2>7, <2>8, <2>9, <2>10 DEF PlacedInv
<1>9. DealtInv'
  BY AcceptDealt
<1>10. MaskInv'
  <2>1. ~(cn.m_state = "Closed")
    BY <1>4
  <2> QED
    BY <1>4, <1>5, <2>1 DEF Inv, MaskInv
<1>11. QueueInv'
  <2>1. \A d \in Conns : Accepted(d) =>
          /\ Accepted(d)' /\ conn'[d].thread = conn[d].thread
          /\ conn'[d].m_state = "Closed" <=> conn[d].m_state = "Closed"
    BY <1>3, <1>5
  <2>2. Accepted(c)' /\ conn'[c].thread = n
    BY <1>4, <1>5
  <2> QED
    BY <1>1, <1>3, <2>1, <2>2, QueueAdd
<1> QED
  BY <1>6, <1>7, <1>8, <1>9, <1>10, <1>11 DEF Inv

\* The steps of onAccept that follow, and ClearClientTimerFunc.
LEMMA MainInv ==
  ASSUME Inv, SetState \/ Insert \/ Sweep
  PROVE  Inv'
<1>1. /\ peer' = peer /\ queue' = queue /\ m_index' = m_index /\ m_size' = m_size
      /\ io' = io /\ started' = started /\ crashed' = crashed
      /\ reported' = reported /\ kept' = kept /\ elsewhere' = elsewhere
      /\ \A d \in Conns : Accepted(d)' <=> Accepted(d)
  BY DEF SetState, Insert, Sweep, boot, work, closures, Accepted
<1>2. /\ conn \in [Conns -> Conn] /\ m_client \subseteq Conns
      /\ accepting \in {Nowhere} \cup [at : {"setState", "insert"}, conn : Conns]
  BY DEF Inv, TypeOK
<1>3. CASE SetState
  <2>1. PICK c \in Conns : accepting = At("setState", c)
    BY <1>2, <1>3, AtFields DEF SetState
  <2>2. accepting.conn = c
    BY <2>1, AtFields
  <2>3. /\ conn' = [conn EXCEPT ![c].m_state = "Connected"]
        /\ accepting' = At("insert", c) /\ m_client' = m_client
    BY <1>3, <2>2 DEF SetState
  <2>4. conn[c].m_state = "NotConnected" /\ Accepted(c)
    BY <2>1 DEF Inv, PlacedInv, Accepting
  <2>5. /\ conn' \in [Conns -> Conn] /\ conn'[c].m_state = "Connected"
        /\ conn'[c].thread = conn[c].thread /\ conn'[c].mask = conn[c].mask
        /\ conn'[c].interest = conn[c].interest
        /\ \A d \in Conns \ {c} : conn'[d] = conn[d]
    BY <1>2, <2>3 DEF Conn
  <2>6. \A d \in Conns : /\ Accepting(d)' <=> d = c
                         /\ Accepting(d) <=> d = c
                         /\ accepting' # At("setState", d)
                         /\ accepting = At("setState", d) <=> d = c
    BY <2>1, <2>3, AtFields DEF Accepting
  <2>7. PlacedInv'
    BY <1>1, <2>3, <2>4, <2>5, <2>6 DEF Inv, PlacedInv
  <2>8. TypeOK'
    BY <1>1, <2>3, <2>5, AtFields DEF Inv, TypeOK
  <2>9. BootInv' /\ DealtInv'
    <3>1. \A u : Given(u)' = Given(u)
      BY <1>1, <2>5, GivenSame
    <3> QED
      BY <1>1, <3>1 DEF Inv, BootInv, DealtInv
  <2>10. QueueInv'
    BY <1>1, <2>4, <2>5, QueueSame
  <2>11. MaskInv'
    BY <1>1, <2>4, <2>5 DEF Inv, MaskInv
  <2> QED
    BY <2>7, <2>8, <2>9, <2>10, <2>11 DEF Inv
<1>4. CASE Insert
  <2>1. PICK c \in Conns : accepting = At("insert", c)
    BY <1>2, <1>4, AtFields DEF Insert
  <2>2. accepting.conn = c
    BY <2>1, AtFields
  <2>3. conn' = conn /\ accepting' = Nowhere /\ m_client' = m_client \cup {c}
    BY <1>4, <2>2 DEF Insert
  <2>4. \A d \in Conns : /\ ~Accepting(d)'
                         /\ Accepting(d) <=> d = c
                         /\ accepting' # At("setState", d)
                         /\ accepting # At("setState", d)
    BY <2>1, <2>3, AtFields DEF Accepting
  <2>5. PlacedInv'
    BY <1>1, <2>3, <2>4 DEF Inv, PlacedInv
  <2>6. TypeOK'
    BY <1>1, <1>2, <2>3 DEF Inv, TypeOK
  <2>7. BootInv' /\ DealtInv'
    <3>1. \A u : Given(u)' = Given(u)
      BY <1>1, <2>3, GivenSame
    <3> QED
      BY <1>1, <3>1 DEF Inv, BootInv, DealtInv
  <2>8. QueueInv'
    BY <1>1, <2>3, QueueSame
  <2>9. MaskInv'
    BY <1>1, <2>3 DEF Inv, MaskInv
  <2> QED
    BY <2>5, <2>6, <2>7, <2>8, <2>9 DEF Inv
<1>5. CASE Sweep
  <2>1. conn' = conn /\ accepting' = accepting /\ m_client' = m_client \ SomeClosed
    BY <1>5 DEF Sweep, work
  <2>2. \A d \in Conns : Accepting(d)' <=> Accepting(d)
    BY <2>1 DEF Accepting
  <2>3. PlacedInv'
    BY <1>1, <2>1, <2>2 DEF Inv, PlacedInv, SomeClosed
  <2>4. TypeOK'
    BY <1>1, <1>2, <2>1 DEF Inv, TypeOK
  <2>5. BootInv' /\ DealtInv'
    <3>1. \A u : Given(u)' = Given(u)
      BY <1>1, <2>1, GivenSame
    <3> QED
      BY <1>1, <3>1 DEF Inv, BootInv, DealtInv
  <2>6. QueueInv'
    BY <1>1, <2>1, QueueSame
  <2>7. MaskInv'
    BY <1>1, <2>1 DEF Inv, MaskInv
  <2> QED
    BY <2>3, <2>4, <2>5, <2>6, <2>7 DEF Inv
<1> QED
  BY <1>3, <1>4, <1>5

\* Nothing that a client does is seen before its IO thread looks.
LEMMA ClientInv ==
  ASSUME Inv, NEW c \in Conns, Client(c)
  PROVE  Inv'
<1>1. UNCHANGED <<main, conn, queue, reported, closures, crashed>>
  BY DEF Client, Connect, Ask, Leave, Reset
<1>2. /\ m_client' = m_client /\ m_size' = m_size /\ io' = io /\ started' = started
      /\ m_index' = m_index /\ accepting' = accepting
  BY <1>1 DEF main, boot
<1>3. peer \in [Conns -> Peer]
  BY DEF Inv, TypeOK
<1>4. peer' \in [Conns -> Peer]
  BY <1>3, ZenonT(40) DEF Client, Connect, Ask, Leave, Reset, Peer
<1>5. \A d \in Conns : Accepted(d)' <=> Accepted(d)
  BY <1>3 DEF Client, Connect, Ask, Leave, Reset, Peer, Accepted
<1>6. \A d \in Conns : Accepting(d)' <=> Accepting(d)
  BY <1>2 DEF Accepting
<1>7. \A u : Given(u)' = Given(u)
  BY <1>1, <1>5 DEF Given, Accepted
<1>8. TypeOK' /\ BootInv' /\ PlacedInv' /\ DealtInv'
  BY <1>1, <1>2, <1>4, <1>5, <1>6, <1>7 DEF closures, Inv, TypeOK, BootInv, PlacedInv, DealtInv
<1>9. QueueInv'
  BY <1>1, <1>5, QueueSame
<1>10. MaskInv'
  BY <1>1, <1>5 DEF Inv, MaskInv
<1> QED
  BY <1>8, <1>9, <1>10 DEF Inv

\* A service that runs a closure elsewhere changes the events that are listened for,
\* or adds a task; and of no connection that is closed, or gone.
LEMMA ServiceInv ==
  ASSUME Inv, NEW c \in Conns, Service(c)
  PROVE  Inv'
<1>1. /\ conn \in [Conns -> Conn] /\ peer \in [Conns -> Peer] /\ crashed \in BOOLEAN
      /\ queue \in [Threads -> Seq(Tasks)] /\ elsewhere \in [Conns -> Elsewhere]
      /\ kept \in 0 .. MaxKept /\ reported \in [Threads -> Seq(Events)]
  BY DEF Inv, TypeOK
<1>2. UNCHANGED <<main, peer, reported, kept>>
  BY DEF Service, ReplyElsewhere, AddElsewhere, LateReply, closures
<1>3. /\ m_client' = m_client /\ m_size' = m_size /\ io' = io /\ started' = started
      /\ m_index' = m_index /\ accepting' = accepting
  BY <1>2 DEF main, boot
<1>4. elsewhere' \in [Conns -> Elsewhere] /\ crashed' \in BOOLEAN
  BY <1>1 DEF Service, ReplyElsewhere, AddElsewhere, LateReply, closures, Elsewhere
<1>5. CASE ReplyElsewhere(c)
  <2> DEFINE cn == listen(conn[c], "OUT")
  <2>1. /\ cn \in Conn /\ cn.thread = conn[c].thread /\ cn.m_state = conn[c].m_state
        /\ cn.mask = conn[c].mask
    BY <1>1, ConnFields
  <2>2. /\ conn' = [conn EXCEPT ![c] = cn] /\ queue' = queue
        /\ conn[c].m_state = "Connected"
    BY <1>5 DEF ReplyElsewhere
  <2> HIDE DEF cn
  <2>3. /\ conn' \in [Conns -> Conn]
        /\ \A d \in Conns : conn'[d] = IF d = c THEN cn ELSE conn[d]
    BY <1>1, <2>1, <2>2
  <2>4. \A d \in Conns : /\ conn'[d].thread = conn[d].thread /\ conn'[d].mask = conn[d].mask
                         /\ conn'[d].m_state = conn[d].m_state
                         /\ d # c => conn'[d].interest = conn[d].interest
    BY <2>1, <2>3
  <2>5. BootInv' /\ PlacedInv' /\ DealtInv' /\ \A d \in Conns : Accepted(d)' <=> Accepted(d)
    BY <1>2, <2>4, PlaceSame
  <2>6. MaskInv'
    BY <2>2, <2>4, <2>5 DEF Inv, MaskInv
  <2>7. QueueInv'
    BY <1>2, <2>2, <2>4, <2>5, QueueSame
  <2>8. TypeOK'
    BY <1>1, <1>2, <1>3, <1>4, <2>2, <2>3 DEF Inv, TypeOK
  <2> QED
    BY <2>5, <2>6, <2>7, <2>8 DEF Inv
<1>6. CASE AddElsewhere(c)
  <2>1. /\ conn' = conn /\ Alive(c)
        /\ queue' = [queue EXCEPT ![conn[c].thread] = Append(@, Task("add", c))]
    BY <1>6 DEF AddElsewhere
  <2>2. BootInv' /\ PlacedInv' /\ DealtInv' /\ \A d \in Conns : Accepted(d)' <=> Accepted(d)
    BY <1>2, <2>1, PlaceSame
  <2>3. Accepted(c) /\ conn[c].thread \in Threads
    <3>1. c \in m_client \/ Accepting(c)
      <4>1. accepting \in {Nowhere} \cup [at : {"setState", "insert"}, conn : Conns]
        BY DEF Inv, TypeOK
      <4> QED
        BY <2>1, <4>1, AtFields DEF Alive, Accepting
    <3> QED
      BY <1>1, <3>1 DEF Inv, PlacedInv, Conn
  <2>4. MaskInv'
    BY <2>1, <2>2 DEF Inv, MaskInv
  <2>5. QueueInv'
    BY <1>2, <2>1, <2>2, <2>3, QueueAdd
  <2>6. queue' \in [Threads -> Seq(Tasks)]
    BY <1>1, <2>1, <2>3, TaskFields
  <2>7. TypeOK'
    BY <1>1, <1>2, <1>3, <1>4, <2>1, <2>6 DEF Inv, TypeOK
  <2> QED
    BY <2>2, <2>4, <2>5, <2>7 DEF Inv
<1>7. CASE LateReply(c)
  <2>1. conn' = conn /\ queue' = queue
    BY <1>7 DEF LateReply
  <2>2. BootInv' /\ PlacedInv' /\ DealtInv' /\ \A d \in Conns : Accepted(d)' <=> Accepted(d)
    BY <1>2, <2>1, PlaceSame
  <2>3. MaskInv'
    BY <2>1, <2>2 DEF Inv, MaskInv
  <2>4. QueueInv'
    BY <1>2, <2>1, <2>2, QueueSame
  <2>5. TypeOK'
    BY <1>1, <1>2, <1>3, <1>4, <2>1 DEF Inv, TypeOK
  <2> QED
    BY <2>2, <2>3, <2>4, <2>5 DEF Inv
<1> QED
  BY <1>5, <1>6, <1>7 DEF Service

-----------------------------------------------------------------------------
(* epoll_wait, and what the loop makes of it.                               *)

\* A step of a loop that leaves the connections' threads and states alone, and what
\* is queued and reported in order.
LEMMA LoopStepInv ==
  ASSUME Inv, NEW t \in Threads, NEW q \in Seq(Tasks), NEW r \in Seq(Events),
         UNCHANGED <<main, peer, closures, crashed>>,
         conn' \in [Conns -> Conn],
         \A d \in Conns : /\ conn'[d].thread = conn[d].thread
                          /\ conn'[d].m_state = conn[d].m_state
                          /\ conn'[d].interest = conn[d].interest
                          /\ conn'[d].mask \in {conn[d].mask, {}},
         queue' = [queue EXCEPT ![t] = q], reported' = [reported EXCEPT ![t] = r],
         Orderly(q), Apart(q, r),
         \A k \in DOMAIN q : q[k].conn \in Conns /\ TaskOK(q, t, k),
         \A k \in DOMAIN r : r[k].conn \in Conns /\ EventOK(r[k], t)
  PROVE  Inv'
<1>1. /\ queue \in [Threads -> Seq(Tasks)] /\ reported \in [Threads -> Seq(Events)]
  BY DEF Inv, TypeOK
<1>2. BootInv' /\ PlacedInv' /\ DealtInv' /\ \A d \in Conns : Accepted(d)' <=> Accepted(d)
  BY PlaceSame
<1>3. MaskInv'
  BY <1>2 DEF Inv, MaskInv
<1>4. /\ queue' \in [Threads -> Seq(Tasks)] /\ reported' \in [Threads -> Seq(Events)]
      /\ queue'[t] = q /\ reported'[t] = r
      /\ \A u \in Threads \ {t} : queue'[u] = queue[u] /\ reported'[u] = reported[u]
  BY <1>1
<1>5. TypeOK'
  <2>1. /\ m_client' = m_client /\ m_size' = m_size /\ io' = io /\ started' = started
        /\ m_index' = m_index /\ accepting' = accepting /\ kept' = kept
        /\ elsewhere' = elsewhere /\ peer' = peer /\ crashed' = crashed
    BY DEF main, boot, closures
  <2> QED
    BY <1>4, <2>1 DEF Inv, TypeOK
<1>6. ThreadInv(t)'
  <2>1. \A k \in DOMAIN q :
          /\ Accepted(q[k].conn)' /\ conn'[q[k].conn].thread = t
          /\ conn'[q[k].conn].m_state = "Closed" /\ q[k].do # "add"
             => q[k].do = "write" /\ \A j \in 1 .. k - 1 : q[j].do = "add"
    BY <1>2 DEF TaskOK
  <2>2. \A k \in DOMAIN r : /\ Accepted(r[k].conn)' /\ conn'[r[k].conn].thread = t
                            /\ conn'[r[k].conn].m_state # "Closed"
    BY <1>2 DEF EventOK
  <2> QED
    BY <1>4, <2>1, <2>2, ThreadNext
<1>7. ASSUME NEW u \in Threads \ {t} PROVE ThreadInv(u)'
  BY <1>2, <1>4, ThreadSame
<1> QED
  BY <1>2, <1>3, <1>5, <1>6, <1>7 DEF Inv, QueueInv

\* epoll_wait reports each descriptor that is ready once.
LEMMA PollInv ==
  ASSUME Inv, NEW t \in Threads, Poll(t)
  PROVE  Inv'
<1>1. /\ UNCHANGED <<main, conn, peer, queue, closures, crashed>>
      /\ \A k \in DOMAIN queue[t] : queue[t][k].do = "add"
  BY DEF Poll
<1>2. PICK order \in SetToSeqs(Ready(t)) :
        reported' = [reported EXCEPT ![t] =
                       [k \in DOMAIN order |-> Event(order[k], Triggered(order[k]))]]
  BY DEF Poll
<1>3. PICK n \in Nat : /\ order \in [1 .. n -> Ready(t)]
                       /\ \A j, k \in 1 .. n : j # k => order[j] # order[k]
  <2>1. IsFiniteSet(Ready(t))
    BY ServerAssumption, FS_Subset DEF Ready
  <2> QED
    BY <2>1, FS_CardinalityType DEF SetToSeqs
<1>4. PICK r : r = [k \in DOMAIN order |-> Event(order[k], Triggered(order[k]))]
  OBVIOUS
<1>5. \A c \in Ready(t) : c \in Conns /\ conn[c].thread = t /\ conn[c].mask # {}
  BY DEF Ready, Triggered
<1>6. \A c \in Ready(t) : /\ Accepted(c) /\ conn[c].m_state # "Closed"
                          /\ Triggered(c) \subseteq {"IN", "OUT", "ERR"}
  <2>1. \A c \in Conns : conn[c].mask \subseteq {"IN", "OUT"}
    BY DEF Inv, TypeOK, Conn
  <2> QED
    BY <1>5, <2>1 DEF Inv, MaskInv, Triggered
<1>7. \A c \in Ready(t) : /\ Event(c, Triggered(c)) \in Events
                          /\ Event(c, Triggered(c)).conn = c
  BY <1>5, <1>6 DEF Event, Events
<1>8. r \in [1 .. n -> Events] /\ \A k \in 1 .. n : r[k].conn = order[k]
  BY <1>3, <1>4, <1>7
<1>9. r \in Seq(Events) /\ DOMAIN r = 1 .. n
  BY <1>8
<1>10. PICK q : q = queue[t]
  OBVIOUS
<1>11. /\ q \in Seq(Tasks) /\ Orderly(q) /\ queue' = [queue EXCEPT ![t] = q]
       /\ \A k \in DOMAIN q : q[k].conn \in Conns /\ TaskOK(q, t, k)
  BY <1>1, <1>10, QueueFacts DEF Inv, TypeOK
<1>12. Apart(q, r)
  BY <1>1, <1>3, <1>8, <1>9, <1>10 DEF Apart
<1>13. \A k \in DOMAIN r : r[k].conn \in Conns /\ EventOK(r[k], t)
  BY <1>3, <1>5, <1>6, <1>8, <1>9 DEF EventOK
<1>14. conn \in [Conns -> Conn]
  BY DEF Inv, TypeOK
<1> QED
  BY <1>1, <1>2, <1>4, <1>9, <1>11, <1>12, <1>13, <1>14, LoopStepInv

\* What Dispatched does to a report.
LEMMA DispatchedFacts ==
  ASSUME Inv, NEW t \in Threads, NEW e, Dispatched(t, e)
  PROVE  LET r == reported[t]
         IN  /\ r \in Seq(Events) /\ r # <<>> /\ e \in Head(r).events
             /\ e = "OUT" => "IN" \notin Head(r).events
             /\ Head(r) = r[1] /\ 1 \in DOMAIN r
             /\ reported' = [reported EXCEPT ![t] = After(r, e)]
             /\ After(r, e) \in Seq(Events)
             /\ \A k \in DOMAIN After(r, e) :
                  After(r, e)[k].conn \in Conns /\ EventOK(After(r, e)[k], t)
<1>0. PICK r, a : r = reported[t] /\ a = After(r, e)
  OBVIOUS
<1>1. /\ r \in Seq(Events) /\ r # <<>> /\ e \in Head(r).events
      /\ e = "OUT" => "IN" \notin Head(r).events
  BY <1>0, QueueFacts DEF Dispatched
<1>2. reported' = [reported EXCEPT ![t] = a]
  BY <1>0 DEF Dispatched
<1>3. Head(r) = r[1] /\ 1 \in DOMAIN r
  BY <1>1
<1>4. /\ a \in Seq(Events)
      /\ \/ \A k \in DOMAIN a : k + 1 \in DOMAIN r /\ a[k] = r[k + 1]
         \/ /\ DOMAIN a = DOMAIN r /\ a[1].conn = r[1].conn
            /\ \A k \in DOMAIN r \ {1} : a[k] = r[k]
  BY <1>0, <1>1, AfterFields
<1>5. \A k \in DOMAIN a : \E j \in DOMAIN r : a[k].conn = r[j].conn
  BY <1>4
<1>6. \A j \in DOMAIN r : r[j].conn \in Conns /\ EventOK(r[j], t)
  BY <1>0, QueueFacts
<1>7. \A k \in DOMAIN a : a[k].conn \in Conns /\ EventOK(a[k], t)
  BY <1>5, <1>6 DEF EventOK
<1> QED
  BY <1>0, <1>1, <1>2, <1>3, <1>4, <1>7

\* A handler is of a connection that is not closed, and in its place.
LEMMA AddHandlerInv ==
  ASSUME Inv, NEW t \in Threads, NEW e, NEW do, AddHandler(t, e, do),
         <<e, do>> \in {<<"IN", "read">>, <<"OUT", "write">>}
  PROVE  Inv'
<1>0. PICK q, r : q = queue[t] /\ r = reported[t]
  OBVIOUS
<1>1. PICK a, c : a = After(r, e) /\ c = Head(r).conn
  OBVIOUS
<1>2. /\ r \in Seq(Events) /\ r # <<>> /\ e \in Head(r).events
      /\ e = "OUT" => "IN" \notin Head(r).events
      /\ Head(r) = r[1] /\ 1 \in DOMAIN r
      /\ reported' = [reported EXCEPT ![t] = a] /\ a \in Seq(Events)
      /\ \A k \in DOMAIN a : a[k].conn \in Conns /\ EventOK(a[k], t)
  BY <1>0, <1>1, DispatchedFacts DEF AddHandler
<1>3. /\ q \in Seq(Tasks) /\ Orderly(q) /\ Apart(q, r)
      /\ \A k \in DOMAIN q : q[k].conn \in Conns /\ TaskOK(q, t, k)
      /\ \A k \in DOMAIN r : r[k].conn \in Conns /\ EventOK(r[k], t)
  BY <1>0, QueueFacts
<1>4. c \in Conns /\ Accepted(c) /\ conn[c].thread = t /\ conn[c].m_state # "Closed"
  <2>1. c = r[1].conn /\ EventOK(r[1], t)
    BY <1>1, <1>2, <1>3
  <2> QED
    BY <1>2, <1>3, <2>1 DEF EventOK
<1>5. PICK s : s = Append(q, Task(do, c))
  OBVIOUS
<1>6. \/ e = "IN" /\ do = "read"
      \/ e = "OUT" /\ do = "write" /\ "IN" \notin Head(r).events
  BY <1>2
<1>7. Orderly(s) /\ Apart(s, a)
  BY <1>1, <1>2, <1>3, <1>5, <1>6, OrderlyHandler
<1>8. Task(do, c) \in Tasks /\ Task(do, c).conn = c
  BY <1>4, <1>6, TaskFields
<1>9. /\ s \in Seq(Tasks) /\ Len(q) \in Nat
      /\ DOMAIN q = 1 .. Len(q) /\ DOMAIN s = 1 .. Len(q) + 1
      /\ \A k \in DOMAIN q : s[k] = q[k]
      /\ s[Len(q) + 1].conn = c
  BY <1>3, <1>5, <1>8, AppendFields
<1>10. ASSUME NEW k \in DOMAIN s PROVE s[k].conn \in Conns /\ TaskOK(s, t, k)
  <2>1. CASE k \in DOMAIN q
    <3>1. s[k] = q[k] /\ q[k].conn \in Conns /\ TaskOK(q, t, k)
      BY <1>3, <1>9, <2>1
    <3>2. \A j \in 1 .. k - 1 : s[j] = q[j]
      BY <1>9, <2>1
    <3> QED
      BY <3>1, <3>2 DEF TaskOK
  <2>2. CASE k = Len(q) + 1
    BY <1>4, <1>9, <2>2 DEF TaskOK
  <2> QED
    BY <1>9, <2>1, <2>2
<1>11. /\ UNCHANGED <<main, conn, peer, closures, crashed>>
       /\ queue' = [queue EXCEPT ![t] = s]
  BY <1>0, <1>1, <1>5 DEF AddHandler
<1>12. conn \in [Conns -> Conn]
  BY DEF Inv, TypeOK
<1> QED
  BY <1>2, <1>7, <1>9, <1>10, <1>11, <1>12, LoopStepInv

\* A descriptor that the loop gives up is watched no longer.
LEMMA DropFailedInv ==
  ASSUME Inv, NEW t \in Threads, DropFailed(t)
  PROVE  Inv'
<1>0. PICK q, r : q = queue[t] /\ r = reported[t]
  OBVIOUS
<1>1. PICK a, c : a = After(r, "ERR") /\ c = Head(r).conn
  OBVIOUS
<1>2. /\ r \in Seq(Events) /\ r # <<>> /\ Head(r) = r[1] /\ 1 \in DOMAIN r
      /\ reported' = [reported EXCEPT ![t] = a] /\ a \in Seq(Events)
      /\ \A k \in DOMAIN a : a[k].conn \in Conns /\ EventOK(a[k], t)
  BY <1>0, <1>1, DispatchedFacts DEF DropFailed
<1>3. /\ q \in Seq(Tasks) /\ Orderly(q) /\ Apart(q, r)
      /\ \A k \in DOMAIN q : q[k].conn \in Conns /\ TaskOK(q, t, k)
  BY <1>0, QueueFacts
<1>4. c \in Conns
  BY <1>0, <1>1, <1>2, QueueFacts
<1>5. Apart(q, a)
  BY <1>1, <1>2, <1>3, ApartAfter
<1>6. /\ UNCHANGED <<main, peer, closures, crashed>> /\ queue' = queue
      /\ conn' = [conn EXCEPT ![c] = deleteEpollEvent(conn[c])]
  BY <1>0, <1>1 DEF DropFailed
<1>7. conn \in [Conns -> Conn] /\ queue \in [Threads -> Seq(Tasks)]
  BY DEF Inv, TypeOK
<1>8. PICK cn : cn = deleteEpollEvent(conn[c])
  OBVIOUS
<1>9. /\ cn \in Conn /\ cn.thread = conn[c].thread /\ cn.m_state = conn[c].m_state
      /\ cn.mask = {} /\ cn.interest = conn[c].interest
  BY <1>4, <1>7, <1>8, ConnFields
<1>10. /\ conn' \in [Conns -> Conn]
       /\ \A d \in Conns : conn'[d] = IF d = c THEN cn ELSE conn[d]
  BY <1>6, <1>7, <1>8, <1>9
<1>11. \A d \in Conns : /\ conn'[d].thread = conn[d].thread
                        /\ conn'[d].m_state = conn[d].m_state
                        /\ conn'[d].interest = conn[d].interest
                        /\ conn'[d].mask \in {conn[d].mask, {}}
  BY <1>9, <1>10
<1>12. queue' = [queue EXCEPT ![t] = q]
  BY <1>0, <1>6, <1>7
<1> QED
  BY <1>2, <1>3, <1>5, <1>6, <1>10, <1>11, <1>12, LoopStepInv

-----------------------------------------------------------------------------
(* The theorems.                                                            *)

\* Every step keeps the invariant.
LEMMA NextInv == Inv /\ [Next]_vars => Inv'
<1> SUFFICES ASSUME Inv, [Next]_vars PROVE Inv'
  OBVIOUS
<1>1. CASE UNCHANGED vars
  <2>1. UNCHANGED <<main, conn, peer, queue, reported, closures, crashed>>
    BY <1>1 DEF vars, work
  <2>2. /\ m_client' = m_client /\ m_size' = m_size /\ io' = io /\ started' = started
        /\ m_index' = m_index /\ accepting' = accepting /\ kept' = kept
        /\ elsewhere' = elsewhere
    BY <2>1 DEF main, boot, closures
  <2>3. BootInv' /\ PlacedInv' /\ DealtInv' /\ \A c \in Conns : Accepted(c)' <=> Accepted(c)
    BY <2>1, PlaceSame
  <2>4. TypeOK' /\ MaskInv'
    BY <2>1, <2>2, <2>3 DEF Inv, TypeOK, MaskInv
  <2>5. QueueInv'
    BY <2>1, <2>3, QueueSame
  <2> QED
    BY <2>3, <2>4, <2>5 DEF Inv
<1>2. CASE MainStep
  BY <1>2, StartUpInv, AcceptInv, MainInv DEF MainStep
<1>3. CASE \E t \in Threads : ThreadStep(t)
  <2>1. PICK t \in Threads : ThreadStep(t)
    BY <1>3
  <2>2. CASE MakeLoop(t) \/ EnterLoop(t)
    BY <2>2, StartUpInv
  <2>3. CASE Dispatch(t)
    BY <2>3, AddHandlerInv, DropFailedInv DEF Dispatch
  <2> QED
    BY <2>1, <2>2, <2>3, PollInv, RunTaskInv DEF ThreadStep
<1>4. CASE \E c \in Conns : Service(c) \/ Client(c)
  BY <1>4, ServiceInv, ClientInv
<1> QED
  BY <1>1, <1>2, <1>3, <1>4 DEF Next

\* The invariant holds in every reachable state.
LEMMA Invariance == Spec => []Inv
BY InitInv, NextInv, PTL DEF Spec

\* Everything has its type; in particular the round robin stays in its range.
THEOREM TypeCorrect == Spec => []TypeOK
<1>1. Inv => TypeOK
  BY DEF Inv
<1> QED
  BY <1>1, Invariance, PTL

\* Each connection is given to a thread that has its EventLoop by then, and the
\* threads get as many as one another, but for one.
THEOREM DealtWell == Spec => []WellDealt
<1>1. ASSUME Inv PROVE WellDealt
  <2>1. m_size \in Nat /\ started \in 0 .. m_size
    BY <1>1, ThreadNumbers DEF Inv, TypeOK
  <2>2. ASSUME NEW t \in Threads, Given(t) # {}
        PROVE  t < m_size /\ io[t] \in {"ready", "looping"}
    <3>1. PICK c \in Conns : Accepted(c) /\ conn[c].thread = t
      BY <2>2 DEF Given, Accepted
    <3>2. t < m_size /\ started = m_size
      BY <1>1, <2>1, <3>1 DEF Inv, BootInv, PlacedInv
    <3>3. t \in 0 .. m_size - 1 /\ started > 0
      BY <2>1, <3>2, ThreadNumbers
    <3> QED
      BY <1>1, <3>2, <3>3 DEF Inv, BootInv
  <2>3. PICK q \in Nat : \A t \in 0 .. m_size - 1 :
          Cardinality(Given(t)) = IF t < m_index THEN q + 1 ELSE q
    BY <1>1 DEF Inv, DealtInv
  <2>4. ASSUME NEW t \in Threads, t < m_size, NEW u \in 0 .. m_size - 1
        PROVE  Cardinality(Given(t)) <= Cardinality(Given(u)) + 1
    <3>1. t \in 0 .. m_size - 1
      BY <2>1, <2>4, ThreadNumbers
    <3> QED
      BY <2>3, <3>1
  <2> QED
    BY <2>2, <2>4 DEF WellDealt
<1> QED
  BY <1>1, Invariance, PTL

\* Of a connection that the main thread has taken away from its IO thread, one handler
\* may be left, an onWrite, and only what other threads have added is before it; and
\* the report of the last epoll_wait does not name it.
THEOREM ConnectionsOutlive == Spec => []HandlersHaveConnections
<1>1. ASSUME Inv PROVE HandlersHaveConnections
  <2>1. ASSUME NEW c \in Conns, Accepted(c), ~Alive(c) PROVE conn[c].m_state = "Closed"
    <3>1. c \notin m_client /\ ~Accepting(c)
      BY <2>1, AtFields DEF Alive, Accepting
    <3> QED
      BY <1>1, <2>1, <3>1 DEF Inv, PlacedInv
  <2>2. ASSUME NEW t \in Threads, NEW k \in DOMAIN reported[t]
        PROVE  Alive(reported[t][k].conn)
    <3>1. PICK c \in Conns : c = reported[t][k].conn
      BY <1>1, <2>2, QueueFacts
    <3>2. Accepted(c) /\ conn[c].m_state # "Closed"
      BY <1>1, <2>2, <3>1, QueueFacts DEF EventOK
    <3> QED
      BY <2>1, <3>1, <3>2
  <2>3. ASSUME NEW t \in Threads, NEW k \in DOMAIN queue[t],
               queue[t][k].do # "add", ~Alive(queue[t][k].conn)
        PROVE  queue[t][k].do = "write" /\ \A j \in 1 .. k - 1 : queue[t][j].do = "add"
    <3>1. PICK c \in Conns : c = queue[t][k].conn
      BY <1>1, <2>3, QueueFacts
    <3>2. TaskOK(queue[t], t, k)
      BY <1>1, <2>3, QueueFacts
    <3>3. conn[c].m_state = "Closed"
      BY <2>1, <2>3, <3>1, <3>2 DEF TaskOK
    <3> QED
      BY <2>3, <3>1, <3>2, <3>3 DEF TaskOK
  <2> QED
    BY <2>2, <2>3 DEF HandlersHaveConnections
<1> QED
  BY <1>1, Invariance, PTL

\* No connection is opened again: onAccept is done with it before onRead can close
\* it.
THEOREM ClosedForGood == Spec => ClosedIsFinal
<1>1. ASSUME Inv, [Next]_vars, NEW c \in Conns, conn[c].m_state = "Closed"
      PROVE  conn'[c].m_state = "Closed"
  <2>1. conn \in [Conns -> Conn]
    BY <1>1 DEF Inv, TypeOK
  <2>2. ASSUME MainStep PROVE conn'[c].m_state = "Closed"
    <3>1. CASE \E d \in Conns : Accept(d)
      <4>1. PICK d \in Conns : Accept(d)
        BY <3>1
      <4>2. d # c
        BY <1>1, <4>1 DEF Accept, Inv, PlacedInv, Accepted
      <4> QED
        BY <1>1, <2>1, <4>1, <4>2 DEF Accept
    <3>2. CASE SetState
      <4>1. accepting.conn # c
        BY <1>1, <3>2, AtFields DEF SetState, Inv, TypeOK, PlacedInv
      <4> QED
        BY <1>1, <2>1, <3>2, <4>1 DEF SetState
    <3>3. CASE Insert \/ Sweep \/ \E t \in Threads : CreateThread(t) \/ StartThread(t)
      BY <1>1, <3>3 DEF Insert, Sweep, CreateThread, StartThread, work
    <3> QED
      BY <2>2, <3>1, <3>2, <3>3 DEF MainStep
  <2>3. ASSUME NEW d \in Conns, RunTask(d) PROVE conn'[c].m_state = "Closed"
    <3>1. CASE RunAdd(d) \/ CancelWrite(d)
      <4>1. /\ addEpollEvent(conn[d]).m_state = conn[d].m_state
            /\ addEpollEvent(cancle(conn[d], "OUT")).m_state = conn[d].m_state
        BY <2>1, ConnFields, WriteFields
      <4> QED
        BY <1>1, <2>1, <3>1, <4>1 DEF RunAdd, CancelWrite
    <3>2. CASE d # c /\ (ReadEnd(d) \/ ReadRequests(d) \/ WriteAll(d))
      BY <1>1, <2>1, <3>2 DEF ReadEnd, ReadRequests, WriteAll
    <3>3. CASE NotConnected(d) \/ UseAfterFree(d) \/ WriteSome(d) \/ WriteToNobody(d)
      BY <1>1, <3>3 DEF NotConnected, UseAfterFree, WriteSome, WriteToNobody
    <3>4. ~(d = c /\ (ReadEnd(d) \/ ReadRequests(d) \/ WriteAll(d)))
      BY <1>1 DEF ReadEnd, ReadRequests, WriteAll
    <3> QED
      BY <2>3, <3>1, <3>2, <3>3, <3>4 DEF RunTask, Handler
  <2>4. ASSUME NEW t \in Threads, ThreadStep(t) PROVE conn'[c].m_state = "Closed"
    <3>1. CASE MakeLoop(t) \/ EnterLoop(t) \/ Poll(t)
      BY <1>1, <3>1 DEF MakeLoop, EnterLoop, Poll, work
    <3>2. CASE Dispatch(t)
      <4>1. \A d \in Conns : deleteEpollEvent(conn[d]).m_state = conn[d].m_state
        BY <2>1, ConnFields
      <4> QED
        BY <1>1, <2>1, <3>2, <4>1 DEF Dispatch, AddHandler, DropFailed
    <3> QED
      BY <2>3, <2>4, <3>1, <3>2 DEF ThreadStep
  <2>5. ASSUME NEW d \in Conns, Service(d) PROVE conn'[c].m_state = "Closed"
    <3>1. listen(conn[d], "OUT").m_state = conn[d].m_state
      BY <2>1, ConnFields
    <3> QED
      BY <1>1, <2>1, <2>5, <3>1 DEF Service, ReplyElsewhere, AddElsewhere, LateReply
  <2>6. ASSUME NEW d \in Conns, Client(d) PROVE conn'[c].m_state = "Closed"
    BY <1>1, <2>6 DEF Client, Connect, Ask, Leave, Reset
  <2>7. CASE UNCHANGED vars
    BY <1>1, <2>7 DEF vars, work
  <2> QED
    BY <1>1, <2>2, <2>4, <2>5, <2>6, <2>7 DEF Next
<1>2. Inv /\ [Next]_vars =>
        [\A c \in Conns : conn[c].m_state = "Closed" => conn'[c].m_state = "Closed"]_vars
  BY <1>1
<1> QED
  BY <1>2, Invariance, PTL DEF Spec, ClosedIsFinal

=============================================================================
