--------------------------- MODULE SequenceLemmas ---------------------------
(***************************************************************************)
(* What the proofs need of sequences.  First of those that are defined by  *)
(* recursion, the library's FlattenSeq among them: induction over the      *)
(* natural numbers as a statement about sets of them.  Then of sequences   *)
(* that increase, and of those that have each element once: what is        *)
(* appended, inserted, removed or cut off, and where the rest then is.     *)
(***************************************************************************)
EXTENDS Integers, FiniteSets, SequencesExt, SequenceTheorems, FiniteSetTheorems,
        WellFoundedInduction, TLAPS

-----------------------------------------------------------------------------
(* Natural numbers.                                                         *)

\* A set of natural numbers has a smallest one.
LEMMA SmallestOf ==
  ASSUME NEW T \in SUBSET Nat, T # {}
  PROVE  \E x \in T : \A y \in T : x <= y
<1>1. IsWellFoundedOn({ss \in Nat \X Nat : ss[1] < ss[2]}, Nat)
  BY NatLessThanWellFounded, Zenon DEF OpToRel
<1>2. PICK x \in T : \A y \in T : <<y, x>> \notin {ss \in Nat \X Nat : ss[1] < ss[2]}
  BY <1>1, WFMin
<1>3. ASSUME NEW y \in T PROVE x <= y
  <2>1. <<y, x>> \in Nat \X Nat /\ <<y, x>>[1] = y /\ <<y, x>>[2] = x
    OBVIOUS
  <2>2. ~ (<<y, x>>[1] < <<y, x>>[2])
    BY <1>2, <2>1
  <2> QED
    BY <2>1, <2>2
<1> QED
  BY <1>3

\* Induction.
LEMMA NatSets ==
  ASSUME NEW S \in SUBSET Nat, 0 \in S, \A n \in S : n + 1 \in S
  PROVE  S = Nat
<1> SUFFICES ASSUME Nat \ S # {} PROVE FALSE
  OBVIOUS
<1>1. PICK x \in Nat \ S : \A y \in Nat \ S : x <= y
  BY SmallestOf
<1>2. x # 0 /\ x - 1 \in Nat /\ x - 1 \notin Nat \ S
  BY <1>1
<1> QED
  BY <1>1, <1>2

\* Induction up to a number.
LEMMA UpTo ==
  ASSUME NEW n \in Nat, NEW S, 0 \in S, \A i \in 0 .. n - 1 : i \in S => i + 1 \in S
  PROVE  \A i \in 0 .. n : i \in S
<1> DEFINE T == {i \in Nat : i <= n => i \in S}
<1>1. T \in SUBSET Nat /\ 0 \in T
  OBVIOUS
<1>2. \A i \in T : i + 1 \in T
  OBVIOUS
<1>3. T = Nat
  <2> HIDE DEF T
  <2> QED
    BY <1>1, <1>2, NatSets
<1> QED
  BY <1>3

\* f is defined by recursion over the numbers up to n.
Recurs(f, n, a, step) == f[0] = a /\ \A k \in 1 .. n : f[k] = step[<<k, f[k - 1]>>]

\* There is such a function.
LEMMA RecursionExists ==
  ASSUME NEW n \in Nat, NEW D, NEW a \in D, NEW step \in [(1 .. n) \X D -> D]
  PROVE  \E f \in [0 .. n -> D] : Recurs(f, n, a, step)
<1> DEFINE Ok(f, m) == f[0] = a /\ \A k \in 1 .. m : f[k] = step[<<k, f[k - 1]>>]
           P == {m \in Nat : \E f \in [0 .. n -> D] : Ok(f, m)}
<1>1. 0 \in P
  <2>1. [k \in 0 .. n |-> a] \in [0 .. n -> D] /\ Ok([k \in 0 .. n |-> a], 0)
    OBVIOUS
  <2> QED
    BY <2>1
<1>2. ASSUME NEW m \in 0 .. n - 1, m \in P PROVE m + 1 \in P
  <2>1. PICK f \in [0 .. n -> D] : Ok(f, m)
    BY <1>2
  <2> DEFINE value == step[<<m + 1, f[m]>>]
             g == [f EXCEPT ![m + 1] = value]
  <2>2. value \in D
    <3>1. m \in 0 .. n /\ m + 1 \in 1 .. n
      OBVIOUS
    <3>2. <<m + 1, f[m]>> \in (1 .. n) \X D
      BY <3>1
    <3> QED
      BY <3>2
  <2>3. g \in [0 .. n -> D]
    BY <2>2
  <2>4. Ok(g, m + 1)
    <3>1. g[0] = a
      BY <2>1
    <3>2. ASSUME NEW k \in 1 .. m + 1 PROVE g[k] = step[<<k, g[k - 1]>>]
      <4>1. k \in 0 .. n /\ k - 1 \in 0 .. m /\ k - 1 \in 0 .. n /\ k - 1 # m + 1
        OBVIOUS
      <4>2. g[k - 1] = f[k - 1]
        BY <4>1
      <4>3. CASE k = m + 1
        BY <4>1, <4>2, <4>3
      <4>4. CASE k # m + 1
        <5>1. k \in 1 .. m /\ g[k] = f[k]
          BY <4>1, <4>4
        <5> HIDE DEF g
        <5> QED
          BY <2>1, <4>2, <5>1
      <4> QED
        BY <4>3, <4>4
    <3> QED
      BY <3>1, <3>2
  <2> HIDE DEF g, Ok
  <2> QED
    BY <2>3, <2>4
<1>3. n \in P
  <2>1. \A i \in 0 .. n - 1 : i \in P => i + 1 \in P
    BY <1>2
  <2> HIDE DEF P
  <2>2. \A i \in 0 .. n : i \in P
    BY <1>1, <2>1, UpTo
  <2> QED
    BY <2>2
<1>4. PICK f \in [0 .. n -> D] : Ok(f, n)
  BY <1>3
<1> QED
  BY <1>4 DEF Recurs

-----------------------------------------------------------------------------
(* FlattenSeq.                                                              *)

\* The recursion by which FlattenSeq is defined: f[i] joins the first i of them.
Flattens(f, seqs) ==
  f = [i \in 1 .. Len(seqs) |-> IF i = 1 THEN seqs[i] ELSE f[i - 1] \o seqs[i]]

\* There is such a function.
LEMMA FlattensExists ==
  ASSUME NEW S, NEW seqs \in Seq(Seq(S))
  PROVE  \E f \in [1 .. Len(seqs) -> Seq(S)] : Flattens(f, seqs)
<1> DEFINE n == Len(seqs)
           Ok(f, m) == \A i \in 1 .. m : f[i] = IF i = 1 THEN seqs[i] ELSE f[i - 1] \o seqs[i]
           P == {m \in Nat : \E f \in [1 .. n -> Seq(S)] : Ok(f, m)}
<1>1. n \in Nat /\ \A i \in 1 .. n : seqs[i] \in Seq(S)
  OBVIOUS
<1>2. 0 \in P
  <2>1. [i \in 1 .. n |-> <<>>] \in [1 .. n -> Seq(S)] /\ Ok([i \in 1 .. n |-> <<>>], 0)
    OBVIOUS
  <2> QED
    BY <2>1
<1>3. ASSUME NEW m \in 0 .. n - 1, m \in P PROVE m + 1 \in P
  <2>1. PICK f \in [1 .. n -> Seq(S)] : Ok(f, m)
    BY <1>3
  <2> DEFINE next == IF m = 0 THEN seqs[1] ELSE f[m] \o seqs[m + 1]
             g == [f EXCEPT ![m + 1] = next]
  <2>2. next \in Seq(S)
    <3>1. CASE m = 0
      BY <1>1, <3>1
    <3>2. CASE m # 0
      <4>0. m \in 1 .. n /\ m + 1 \in 1 .. n
        BY <1>1, <3>2
      <4>1. f[m] \in Seq(S) /\ seqs[m + 1] \in Seq(S)
        BY <1>1, <4>0
      <4>2. f[m] \o seqs[m + 1] \in Seq(S)
        BY <4>1, ConcatProperties
      <4> QED
        BY <3>2, <4>2
    <3> QED
      BY <3>1, <3>2
  <2>3. g \in [1 .. n -> Seq(S)]
    BY <2>2
  <2>4. Ok(g, m + 1)
    BY <1>1, <2>1
  <2>5. m + 1 \in Nat
    BY <1>1
  <2> HIDE DEF g, Ok
  <2> QED
    BY <2>3, <2>4, <2>5
<1>4. n \in P
  <2>1. \A i \in 0 .. n - 1 : i \in P => i + 1 \in P
    BY <1>3
  <2> HIDE DEF P
  <2>2. \A i \in 0 .. n : i \in P
    BY <1>1, <1>2, <2>1, UpTo
  <2> QED
    BY <1>1, <2>2
<1>5. PICK f \in [1 .. n -> Seq(S)] : Ok(f, n)
  BY <1>4
<1>6. f = [i \in 1 .. n |-> IF i = 1 THEN seqs[i] ELSE f[i - 1] \o seqs[i]]
  BY <1>5
<1> QED
  BY <1>6 DEF Flattens

\* Its first value.
LEMMA FlattensFirst ==
  ASSUME NEW f, NEW seqs, Len(seqs) \in Nat, Len(seqs) >= 1, Flattens(f, seqs)
  PROVE  f[1] = seqs[1]
<1>1. 1 \in 1 .. Len(seqs)
  OBVIOUS
<1> QED
  BY <1>1 DEF Flattens

\* Each value from the one before.
LEMMA FlattensNext ==
  ASSUME NEW f, NEW seqs, Len(seqs) \in Nat, Flattens(f, seqs),
         NEW i \in 1 .. Len(seqs), i + 1 <= Len(seqs)
  PROVE  f[i + 1] = f[i] \o seqs[i + 1]
<1>1. i + 1 \in 1 .. Len(seqs) /\ i + 1 # 1 /\ (i + 1) - 1 = i
  OBVIOUS
<1>2. f[i + 1] = IF i + 1 = 1 THEN seqs[i + 1] ELSE f[(i + 1) - 1] \o seqs[i + 1]
  BY <1>1 DEF Flattens
<1> QED
  BY <1>1, <1>2

\* What it says of the first sequences depends on these alone.
LEMMA FlattensAgree ==
  ASSUME NEW s, NEW t, Len(s) \in Nat, Len(t) \in Nat,
         Len(s) <= Len(t), \A i \in 1 .. Len(s) : s[i] = t[i],
         NEW f, NEW g, Flattens(f, s), Flattens(g, t)
  PROVE  \A i \in 1 .. Len(s) : f[i] = g[i]
<1> DEFINE n == Len(s)
           P == {m \in Nat : \A i \in 1 .. m : i <= n => f[i] = g[i]}
<1>1. /\ \A i \in 1 .. Len(s) : f[i] = IF i = 1 THEN s[i] ELSE f[i - 1] \o s[i]
      /\ \A i \in 1 .. Len(t) : g[i] = IF i = 1 THEN t[i] ELSE g[i - 1] \o t[i]
  BY DEF Flattens
<1>2. 0 \in P
  OBVIOUS
<1>3. ASSUME NEW m \in 0 .. n - 1, m \in P PROVE m + 1 \in P
  BY <1>1, <1>3
<1>4. n \in P
  <2>1. \A i \in 0 .. n - 1 : i \in P => i + 1 \in P
    BY <1>3
  <2> HIDE DEF P
  <2>2. \A i \in 0 .. n : i \in P
    BY <1>2, <2>1, UpTo
  <2> QED
    BY <2>2
<1> QED
  BY <1>4

\* It gives the value of FlattenSeq.
LEMMA FlattenIs ==
  ASSUME NEW S, NEW seqs \in Seq(Seq(S)), seqs # <<>>, NEW f, Flattens(f, seqs)
  PROVE  FlattenSeq(seqs) = f[Len(seqs)]
<1>1. Len(seqs) \in Nat /\ Len(seqs) # 0
  OBVIOUS
<1> DEFINE g == CHOOSE h : Flattens(h, seqs)
<1>2. Flattens(g, seqs)
  OBVIOUS
<1>3. FlattenSeq(seqs) = g[Len(seqs)]
  BY <1>1 DEF FlattenSeq, Flattens
<1> HIDE DEF g
<1>4. \A i \in 1 .. Len(seqs) : g[i] = f[i]
  <2>1. Len(seqs) <= Len(seqs) /\ \A i \in 1 .. Len(seqs) : seqs[i] = seqs[i]
    BY <1>1
  <2> QED
    BY <1>1, <1>2, <2>1, FlattensAgree, SMTT(40)
<1> QED
  BY <1>1, <1>3, <1>4

\* A queue of sequences of S is a sequence of S.
LEMMA FlattenType ==
  ASSUME NEW S, NEW seqs \in Seq(Seq(S))
  PROVE  FlattenSeq(seqs) \in Seq(S)
<1>1. CASE seqs = <<>>
  BY <1>1 DEF FlattenSeq
<1>2. CASE seqs # <<>>
  <2>1. PICK f \in [1 .. Len(seqs) -> Seq(S)] : Flattens(f, seqs)
    BY FlattensExists
  <2>2. Len(seqs) \in 1 .. Len(seqs)
    BY <1>2
  <2> QED
    BY <1>2, <2>1, <2>2, FlattenIs, SMTT(40)
<1> QED
  BY <1>1, <1>2

\* An empty one.
LEMMA FlattenEmpty == FlattenSeq(<<>>) = <<>>
BY DEF FlattenSeq

\* A sequence is added at the end.
LEMMA FlattenAppend ==
  ASSUME NEW S, NEW seqs \in Seq(Seq(S)), NEW b \in Seq(S)
  PROVE  FlattenSeq(Append(seqs, b)) = FlattenSeq(seqs) \o b
<1> DEFINE more == Append(seqs, b)
<1>1. /\ Len(seqs) \in Nat /\ more \in Seq(Seq(S)) /\ more # <<>>
      /\ Len(more) = Len(seqs) + 1 /\ Len(more) \in Nat /\ Len(more) >= 1
      /\ more[Len(more)] = b /\ \A i \in 1 .. Len(seqs) : seqs[i] = more[i]
  BY AppendProperties
<1> HIDE DEF more
<1>2. PICK g \in [1 .. Len(more) -> Seq(S)] : Flattens(g, more)
  BY <1>1, FlattensExists
<1>3. FlattenSeq(more) = g[Len(more)]
  BY <1>1, <1>2, FlattenIs
<1>4. FlattenSeq(more) = FlattenSeq(seqs) \o b
  <2>1. CASE seqs = <<>>
    <3>1. Len(more) = 1 /\ FlattenSeq(seqs) = <<>>
      BY <1>1, <2>1, FlattenEmpty
    <3>2. <<>> \o b = b
      BY ConcatEmptySeq
    <3>3. g[1] = more[1]
      BY <1>1, <1>2, FlattensFirst
    <3> QED
      BY <1>1, <1>3, <3>1, <3>2, <3>3
  <2>2. CASE seqs # <<>>
    <3>1. PICK f \in [1 .. Len(seqs) -> Seq(S)] : Flattens(f, seqs)
      BY FlattensExists
    <3>2. FlattenSeq(seqs) = f[Len(seqs)]
      BY <2>2, <3>1, FlattenIs
    <3>3. Len(seqs) >= 1 /\ Len(seqs) \in 1 .. Len(seqs) /\ Len(seqs) \in 1 .. Len(more)
      BY <1>1, <2>2
    <3>4. \A i \in 1 .. Len(seqs) : f[i] = g[i]
      <4>1. Len(seqs) <= Len(seqs) /\ Len(seqs) <= Len(more)
        BY <1>1
      <4>2. /\ Len(seqs) \in Nat /\ Len(more) \in Nat
            /\ \A i \in 1 .. Len(seqs) : seqs[i] = more[i]
        BY <1>1
      <4>3. Flattens(f, seqs) /\ Flattens(g, more)
        BY <1>2, <3>1
      <4> QED
        BY <4>1, <4>2, <4>3, FlattensAgree
    <3>5. g[Len(seqs) + 1] = g[Len(seqs)] \o more[Len(seqs) + 1]
      <4>1. Len(seqs) + 1 <= Len(more)
        BY <1>1
      <4> QED
        BY <1>1, <1>2, <3>3, <4>1, FlattensNext
    <3>6. f[Len(seqs)] = g[Len(seqs)]
      BY <3>3, <3>4
    <3> QED
      BY <1>1, <1>3, <3>2, <3>5, <3>6
  <2> QED
    BY <2>1, <2>2
<1> QED
  BY <1>4 DEF more

\* The first sequence is in front.
LEMMA FlattenHead ==
  ASSUME NEW S, NEW seqs \in Seq(Seq(S)), seqs # <<>>
  PROVE  FlattenSeq(seqs) = Head(seqs) \o FlattenSeq(Tail(seqs))
<1> DEFINE rest == Tail(seqs)
           first == Head(seqs)
<1>1. /\ Len(seqs) \in Nat /\ Len(rest) \in Nat /\ Len(seqs) = Len(rest) + 1 /\ Len(seqs) >= 1
      /\ rest \in Seq(Seq(S)) /\ first \in Seq(S) /\ first = seqs[1]
      /\ \A i \in 1 .. Len(rest) : rest[i] = seqs[i + 1] /\ rest[i] \in Seq(S)
  <2>1. Len(seqs) \in Nat \ {0} /\ first = seqs[1]
    BY EmptySeq
  <2>2. /\ first \in Seq(S) /\ rest \in Seq(Seq(S)) /\ Len(rest) = Len(seqs) - 1
        /\ \A i \in 1 .. Len(rest) : rest[i] = seqs[i + 1]
    BY HeadTailProperties
  <2> HIDE DEF rest, first
  <2>3. \A i \in 1 .. Len(rest) : rest[i] \in Seq(S)
    BY <2>2, ElementOfSeq
  <2> QED
    BY <2>1, <2>2, <2>3
<1> HIDE DEF rest, first
<1>0. \A v, w \in Seq(S) : (first \o v) \o w = first \o (v \o w)
  <2>1. first \in Seq(S)
    BY <1>1
  <2>2. ASSUME NEW v \in Seq(S), NEW w \in Seq(S) PROVE (first \o v) \o w = first \o (v \o w)
    BY <2>1, ConcatAssociative, SMTT(40)
  <2> QED
    BY <2>2
<1>2. PICK f \in [1 .. Len(seqs) -> Seq(S)] : Flattens(f, seqs)
  BY FlattensExists
<1>3. FlattenSeq(seqs) = f[Len(seqs)]
  BY <1>2, FlattenIs
<1>4. f[1] = first
  BY <1>1, <1>2, FlattensFirst, ZenonT(40)
<1>5. FlattenSeq(seqs) = first \o FlattenSeq(rest)
  <2>1. CASE rest = <<>>
    <3>1. Len(seqs) = 1 /\ FlattenSeq(rest) = <<>>
      BY <1>1, <2>1, FlattenEmpty
    <3>2. first \o <<>> = first
      BY <1>1, ConcatEmptySeq
    <3> QED
      BY <1>3, <1>4, <3>1, <3>2
  <2>2. CASE rest # <<>>
    <3>1. PICK g \in [1 .. Len(rest) -> Seq(S)] : Flattens(g, rest)
      BY <1>1, FlattensExists
    <3>2. FlattenSeq(rest) = g[Len(rest)]
      BY <1>1, <2>2, <3>1, FlattenIs
    <3>3. Len(rest) >= 1
      BY <1>1, <2>2
    <3>4. g[1] = rest[1] /\ 1 \in 1 .. Len(rest) /\ 1 \in 1 .. Len(seqs) /\ 1 + 1 <= Len(seqs)
      BY <1>1, <3>1, <3>3, FlattensFirst
    <3> DEFINE P == {m \in 0 .. Len(rest) : m = 0 \/ f[m + 1] = first \o g[m]}
    <3>5. f[1 + 1] = first \o g[1]
      <4>1. f[1 + 1] = f[1] \o seqs[1 + 1]
        <5>1. Len(seqs) \in Nat /\ Flattens(f, seqs)
          BY <1>1, <1>2
        <5> QED
          BY <3>4, <5>1, FlattensNext, ZenonT(40)
      <4>2. rest[1] = seqs[1 + 1]
        BY <1>1, <3>4
      <4> QED
        BY <1>4, <3>4, <4>1, <4>2
    <3>6. ASSUME NEW m \in 1 .. Len(rest), m + 1 <= Len(rest), f[m + 1] = first \o g[m]
          PROVE  f[(m + 1) + 1] = first \o g[m + 1]
      <4>1. m + 1 \in 1 .. Len(seqs) /\ (m + 1) + 1 <= Len(seqs) /\ m + 1 \in 1 .. Len(rest)
        BY <1>1, <3>6
      <4>2. f[(m + 1) + 1] = f[m + 1] \o seqs[(m + 1) + 1]
        <5>1. Len(seqs) \in Nat /\ Flattens(f, seqs)
          BY <1>1, <1>2
        <5> QED
          BY <4>1, <5>1, FlattensNext, ZenonT(40)
      <4>3. g[m + 1] = g[m] \o rest[m + 1]
        BY <1>1, <3>1, <3>6, FlattensNext, ZenonT(40)
      <4>4. rest[m + 1] = seqs[(m + 1) + 1] /\ rest[m + 1] \in Seq(S)
        BY <1>1, <4>1
      <4>5. g[m] \in Seq(S)
        BY <3>1
      <4>6. (first \o g[m]) \o rest[m + 1] = first \o (g[m] \o rest[m + 1])
        BY <1>0, <4>4, <4>5
      <4> QED
        BY <3>6, <4>2, <4>3, <4>4, <4>6
    <3>7. ASSUME NEW m \in 0 .. Len(rest) - 1, m \in P PROVE m + 1 \in P
      <4>1. CASE m = 0
        BY <1>1, <3>3, <3>5, <4>1
      <4>2. CASE m # 0
        <5>0. f[m + 1] = first \o g[m]
          BY <3>7, <4>2, Zenon
        <5>1. m \in 1 .. Len(rest) /\ m + 1 <= Len(rest) /\ f[m + 1] = first \o g[m]
          <6>1. m \in 1 .. Len(rest) /\ m + 1 <= Len(rest)
            BY <1>1, <4>2
          <6> QED
            BY <5>0, <6>1
        <5>2. f[(m + 1) + 1] = first \o g[m + 1]
          BY <3>6, <5>1
        <5>3. m + 1 \in 0 .. Len(rest)
          BY <1>1, <5>1
        <5> QED
          BY <5>2, <5>3, Zenon
      <4> QED
        BY <4>1, <4>2
    <3>8. 0 \in P
      BY <1>1
    <3>9. Len(rest) \in P
      <4>1. \A i \in 0 .. Len(rest) - 1 : i \in P => i + 1 \in P
        BY <3>7
      <4> HIDE DEF P
      <4>2. \A i \in 0 .. Len(rest) : i \in P
        BY <1>1, <3>8, <4>1, UpTo
      <4> QED
        BY <1>1, <4>2
    <3>10. f[Len(rest) + 1] = first \o g[Len(rest)]
      BY <3>3, <3>9
    <3> QED
      BY <1>1, <1>3, <3>2, <3>10
  <2> QED
    BY <2>1, <2>2
<1> QED
  BY <1>5 DEF rest, first

\* An element is added to the last sequence.
LEMMA FlattenExtend ==
  ASSUME NEW S, NEW seqs \in Seq(Seq(S)), seqs # <<>>, NEW x \in S
  PROVE  /\ [seqs EXCEPT ![Len(seqs)] = Append(@, x)] \in Seq(Seq(S))
         /\ FlattenSeq([seqs EXCEPT ![Len(seqs)] = Append(@, x)]) = Append(FlattenSeq(seqs), x)
<1> DEFINE longer == [seqs EXCEPT ![Len(seqs)] = Append(@, x)]
<1>1. PICK front \in Seq(Seq(S)), last \in Seq(S) : seqs = Append(front, last)
  BY SequenceEmptyOrAppend
<1>2. /\ Len(front) \in Nat /\ Len(seqs) = Len(front) + 1 /\ seqs[Len(seqs)] = last
      /\ \A i \in 1 .. Len(front) : seqs[i] = front[i]
  BY <1>1, AppendProperties
<1>3. Append(last, x) \in Seq(S) /\ Append(last, x) = last \o <<x>>
  BY AppendProperties, AppendIsConcat
<1>4. longer \in Seq(Seq(S)) /\ longer = Append(front, Append(last, x))
  <2>1. Append(front, Append(last, x)) \in Seq(Seq(S))
    BY <1>3, AppendProperties
  <2>2. /\ Len(Append(front, Append(last, x))) = Len(front) + 1
        /\ \A i \in 1 .. Len(front) : Append(front, Append(last, x))[i] = front[i]
        /\ Append(front, Append(last, x))[Len(front) + 1] = Append(last, x)
    BY <1>3, AppendProperties
  <2>3. Len(seqs) \in 1 .. Len(seqs) /\ longer = [seqs EXCEPT ![Len(seqs)] = Append(last, x)]
    BY <1>2
  <2>4. /\ longer \in Seq(Seq(S)) /\ Len(longer) = Len(seqs)
        /\ \A j \in 1 .. Len(seqs) : longer[j] = IF j = Len(seqs) THEN Append(last, x) ELSE seqs[j]
    <3>1. seqs \in Seq(Seq(S)) /\ Append(last, x) \in Seq(S) /\ Len(seqs) \in 1 .. Len(seqs)
      BY <1>3, <2>3
    <3>2. \A k \in 1 .. Len(seqs) :
            LET changed == [seqs EXCEPT ![k] = Append(last, x)]
            IN  /\ changed \in Seq(Seq(S)) /\ Len(changed) = Len(seqs)
                /\ \A j \in 1 .. Len(seqs) :
                     changed[j] = IF j = k THEN Append(last, x) ELSE seqs[j]
      BY <3>1, ExceptSeq
    <3> HIDE DEF longer
    <3> QED
      BY <2>3, <3>1, <3>2
  <2> DEFINE other == Append(front, Append(last, x))
  <2>5. Len(longer) = Len(other) /\ \A i \in 1 .. Len(longer) : longer[i] = other[i]
    <3> HIDE DEF longer
    <3>1. other[Len(front) + 1] = Append(last, x) /\ \A i \in 1 .. Len(front) : other[i] = front[i]
      BY <2>2
    <3>2. Len(other) = Len(front) + 1
      BY <2>2
    <3> HIDE DEF other
    <3>3. ASSUME NEW i \in 1 .. Len(longer) PROVE longer[i] = other[i]
      <4>1. CASE i = Len(seqs)
        BY <1>2, <2>4, <3>1, <4>1
      <4>2. CASE i # Len(seqs)
        <5>1. i \in 1 .. Len(front) /\ i \in 1 .. Len(seqs)
          BY <1>2, <2>4, <4>2
        <5> QED
          BY <1>2, <2>4, <3>1, <4>2, <5>1
      <4> QED
        BY <4>1, <4>2
    <3> QED
      BY <1>2, <2>4, <3>2, <3>3
  <2> HIDE DEF longer
  <2>6. longer = other
    <3> HIDE DEF other
    <3>1. other \in Seq(Seq(S))
      BY <2>1 DEF other
    <3> QED
      BY <2>4, <2>5, <3>1, SeqEqual
  <2> QED
    BY <2>4, <2>6
<1> HIDE DEF longer
<1>5. FlattenSeq(longer) = FlattenSeq(front) \o (last \o <<x>>)
  BY <1>3, <1>4, FlattenAppend
<1>6. FlattenSeq(seqs) = FlattenSeq(front) \o last /\ FlattenSeq(front) \in Seq(S)
  BY <1>1, FlattenAppend, FlattenType
<1>7. FlattenSeq(front) \o (last \o <<x>>) = (FlattenSeq(front) \o last) \o <<x>>
  <2>1. <<x>> \in Seq(S)
    OBVIOUS
  <2> QED
    BY <1>6, <2>1, ConcatAssociative
<1>8. Append(FlattenSeq(seqs), x) = FlattenSeq(seqs) \o <<x>>
  BY FlattenType, AppendIsConcat
<1> QED
  BY <1>4, <1>5, <1>6, <1>7, <1>8 DEF longer

-----------------------------------------------------------------------------
(* The parts of a sequence.                                                 *)

\* Where the elements of s \o t come from.
LEMMA ConcatElements ==
  ASSUME NEW S, NEW s \in Seq(S), NEW t \in Seq(S)
  PROVE  /\ s \o t \in Seq(S) /\ Len(s \o t) = Len(s) + Len(t)
         /\ Len(s) \in Nat /\ Len(t) \in Nat
         /\ DOMAIN s = 1 .. Len(s) /\ DOMAIN t = 1 .. Len(t)
         /\ DOMAIN (s \o t) = 1 .. Len(s) + Len(t)
         /\ \A i \in 1 .. Len(s) : (s \o t)[i] = s[i]
         /\ \A i \in 1 .. Len(t) : (s \o t)[Len(s) + i] = t[i]
<1>1. Len(s) \in Nat /\ Len(t) \in Nat /\ DOMAIN s = 1 .. Len(s) /\ DOMAIN t = 1 .. Len(t)
  OBVIOUS
<1>2. s \o t \in Seq(S) /\ Len(s \o t) = Len(s) + Len(t)
  BY ConcatProperties
<1>3. DOMAIN (s \o t) = 1 .. Len(s) + Len(t)
  BY <1>2, LenProperties
<1>4. \A i \in 1 .. Len(s) + Len(t) : (s \o t)[i] = IF i <= Len(s) THEN s[i] ELSE t[i - Len(s)]
  BY ConcatProperties
<1>5. ASSUME NEW i \in 1 .. Len(s) PROVE (s \o t)[i] = s[i]
  <2>1. i \in 1 .. Len(s) + Len(t) /\ i <= Len(s)
    BY <1>1
  <2> QED
    BY <1>4, <2>1
<1>6. ASSUME NEW i \in 1 .. Len(t) PROVE (s \o t)[Len(s) + i] = t[i]
  <2>1. /\ Len(s) + i \in 1 .. Len(s) + Len(t) /\ ~ (Len(s) + i <= Len(s))
        /\ (Len(s) + i) - Len(s) = i
    BY <1>1
  <2>2. (s \o t)[Len(s) + i] =
          IF Len(s) + i <= Len(s) THEN s[Len(s) + i] ELSE t[(Len(s) + i) - Len(s)]
    BY <1>4, <2>1
  <2> QED
    BY <2>1, <2>2
<1> QED
  BY <1>1, <1>2, <1>3, <1>5, <1>6

\* A sequence of one element.
LEMMA Singleton ==
  ASSUME NEW S, NEW x \in S
  PROVE  <<x>> \in Seq(S) /\ Len(<<x>>) = 1 /\ DOMAIN <<x>> = 1 .. 1 /\ <<x>>[1] = x
OBVIOUS

\* A sequence is its head and its tail.
LEMMA HeadAndTail ==
  ASSUME NEW S, NEW s \in Seq(S), s # <<>>
  PROVE  Head(s) \in S /\ Tail(s) \in Seq(S) /\ s = <<Head(s)>> \o Tail(s)
<1>1. Head(s) \in S /\ Tail(s) \in Seq(S)
  BY HeadTailProperties
<1>2. s = <<Head(s)>> \o Tail(s)
  OBVIOUS
<1> QED
  BY <1>1, <1>2

\* The head and the tail of what begins with an element.
LEMMA HeadAndTailOf ==
  ASSUME NEW S, NEW x \in S, NEW t \in Seq(S)
  PROVE  <<x>> \o t # <<>> /\ Head(<<x>> \o t) = x /\ Tail(<<x>> \o t) = t
OBVIOUS

\* The first element of a sequence is the first one of what begins with it.
LEMMA HeadTailConcat ==
  ASSUME NEW S, NEW s \in Seq(S), s # <<>>, NEW t \in Seq(S)
  PROVE  s \o t # <<>> /\ Head(s \o t) = Head(s) /\ Tail(s \o t) = Tail(s) \o t
<1> DEFINE x == Head(s)
           r == Tail(s)
<1>1. x \in S /\ r \in Seq(S) /\ s = <<x>> \o r
  BY HeadAndTail
<1> HIDE DEF x, r
<1>2. <<x>> \in Seq(S) /\ r \o t \in Seq(S)
  BY <1>1, ConcatProperties, Singleton
<1>3. (<<x>> \o r) \o t = <<x>> \o (r \o t)
  BY <1>1, <1>2, ConcatAssociative
<1>4. <<x>> \o (r \o t) # <<>> /\ Head(<<x>> \o (r \o t)) = x /\ Tail(<<x>> \o (r \o t)) = r \o t
  BY <1>1, <1>2, HeadAndTailOf
<1>5. s \o t = <<x>> \o (r \o t)
  BY <1>1, <1>3
<1> QED
  BY <1>4, <1>5 DEF x, r

\* What is added at the end of the last part is added at the end.
LEMMA ConcatAppend ==
  ASSUME NEW S, NEW s \in Seq(S), NEW t \in Seq(S), NEW x \in S
  PROVE  s \o Append(t, x) = Append(s \o t, x)
<1>1. <<x>> \in Seq(S) /\ s \o t \in Seq(S)
  BY ConcatProperties, Singleton
<1>2. Append(t, x) = t \o <<x>>
  BY AppendIsConcat
<1>3. Append(s \o t, x) = (s \o t) \o <<x>>
  BY <1>1, AppendIsConcat
<1>4. (s \o t) \o <<x>> = s \o (t \o <<x>>)
  BY <1>1, ConcatAssociative
<1> QED
  BY <1>2, <1>3, <1>4

\* The first element of the second part goes to the first one.
LEMMA HeadMoves ==
  ASSUME NEW S, NEW s \in Seq(S), NEW t \in Seq(S), t # <<>>
  PROVE  Append(s, Head(t)) \o Tail(t) = s \o t
<1> DEFINE x == Head(t)
           r == Tail(t)
<1>1. x \in S /\ r \in Seq(S) /\ t = <<x>> \o r
  BY HeadAndTail
<1> HIDE DEF x, r
<1>2. <<x>> \in Seq(S) /\ Append(s, x) = s \o <<x>>
  BY <1>1, AppendIsConcat, Singleton
<1>3. (s \o <<x>>) \o r = s \o (<<x>> \o r)
  BY <1>1, <1>2, ConcatAssociative
<1>4. Append(s, x) \o r = s \o t
  BY <1>1, <1>2, <1>3
<1> QED
  BY <1>4 DEF x, r

-----------------------------------------------------------------------------
(* Increasing sequences of numbers.                                         *)

Increasing(s) == \A i, j \in DOMAIN s : i < j => s[i] < s[j]

AtMost(s, n) == \A i \in DOMAIN s : s[i] <= n

\* The parts of an increasing sequence are increasing, and follow each other.
LEMMA IncreasingConcat ==
  ASSUME NEW s \in Seq(Int), NEW t \in Seq(Int)
  PROVE  Increasing(s \o t) <=> /\ Increasing(s) /\ Increasing(t)
                                /\ \A i \in DOMAIN s, j \in DOMAIN t : s[i] < t[j]
<1>1. /\ Len(s) \in Nat /\ Len(t) \in Nat
      /\ DOMAIN s = 1 .. Len(s) /\ DOMAIN t = 1 .. Len(t)
      /\ DOMAIN (s \o t) = 1 .. Len(s) + Len(t)
      /\ \A i \in 1 .. Len(s) : (s \o t)[i] = s[i]
      /\ \A i \in 1 .. Len(t) : (s \o t)[Len(s) + i] = t[i]
  BY ConcatElements
<1> DEFINE st == s \o t
<1> HIDE DEF st
<1>2. ASSUME Increasing(st)
      PROVE  /\ Increasing(s) /\ Increasing(t)
             /\ \A i \in DOMAIN s, j \in DOMAIN t : s[i] < t[j]
  <2>1. Increasing(s)
    <3> SUFFICES ASSUME NEW i \in 1 .. Len(s), NEW j \in 1 .. Len(s), i < j PROVE s[i] < s[j]
      BY <1>1 DEF Increasing
    <3>1. i \in DOMAIN st /\ j \in DOMAIN st /\ st[i] = s[i] /\ st[j] = s[j]
      BY <1>1 DEF st
    <3> QED
      BY <1>2, <3>1 DEF Increasing
  <2>2. Increasing(t)
    <3> SUFFICES ASSUME NEW i \in 1 .. Len(t), NEW j \in 1 .. Len(t), i < j PROVE t[i] < t[j]
      BY <1>1 DEF Increasing
    <3>1. /\ Len(s) + i \in DOMAIN st /\ Len(s) + j \in DOMAIN st
          /\ st[Len(s) + i] = t[i] /\ st[Len(s) + j] = t[j]
      BY <1>1 DEF st
    <3>2. Len(s) + i < Len(s) + j
      BY <1>1
    <3> QED
      BY <1>2, <3>1, <3>2 DEF Increasing
  <2>3. ASSUME NEW i \in DOMAIN s, NEW j \in DOMAIN t PROVE s[i] < t[j]
    <3>1. /\ i \in DOMAIN st /\ Len(s) + j \in DOMAIN st
          /\ st[i] = s[i] /\ st[Len(s) + j] = t[j]
      BY <1>1 DEF st
    <3>2. i < Len(s) + j
      BY <1>1
    <3> QED
      BY <1>2, <3>1, <3>2 DEF Increasing
  <2> QED
    BY <2>1, <2>2, <2>3
<1>3. ASSUME Increasing(s), Increasing(t), \A i \in DOMAIN s, j \in DOMAIN t : s[i] < t[j]
      PROVE  Increasing(st)
  <2> SUFFICES ASSUME NEW i \in 1 .. Len(s) + Len(t), NEW j \in 1 .. Len(s) + Len(t), i < j
               PROVE  st[i] < st[j]
    BY <1>1 DEF Increasing, st
  <2>1. CASE j <= Len(s)
    <3>1. /\ i \in DOMAIN s /\ j \in DOMAIN s /\ st[i] = s[i] /\ st[j] = s[j]
      BY <1>1, <2>1 DEF st
    <3> QED
      BY <1>3, <3>1 DEF Increasing
  <2>2. CASE i > Len(s)
    <3> DEFINE k == i - Len(s)
               l == j - Len(s)
    <3>1. /\ k \in 1 .. Len(t) /\ l \in 1 .. Len(t) /\ k < l /\ i = Len(s) + k /\ j = Len(s) + l
      BY <1>1, <2>2
    <3> HIDE DEF k, l
    <3>2. st[i] = t[k] /\ st[j] = t[l]
      BY <1>1, <3>1 DEF st
    <3> QED
      BY <1>1, <1>3, <3>1, <3>2 DEF Increasing
  <2>3. CASE i <= Len(s) /\ j > Len(s)
    <3> DEFINE l == j - Len(s)
    <3>1. i \in 1 .. Len(s) /\ l \in 1 .. Len(t) /\ j = Len(s) + l
      BY <1>1, <2>3
    <3> HIDE DEF l
    <3>2. st[i] = s[i] /\ st[j] = t[l]
      BY <1>1, <3>1 DEF st
    <3> QED
      BY <1>1, <1>3, <3>1, <3>2
  <2> QED
    BY <1>1, <2>1, <2>2, <2>3
<1> QED
  BY <1>2, <1>3 DEF st

\* The numbers of both parts.
LEMMA AtMostConcat ==
  ASSUME NEW s \in Seq(Int), NEW t \in Seq(Int), NEW n
  PROVE  AtMost(s \o t, n) <=> AtMost(s, n) /\ AtMost(t, n)
<1>1. /\ Len(s) \in Nat /\ Len(t) \in Nat
      /\ DOMAIN s = 1 .. Len(s) /\ DOMAIN t = 1 .. Len(t)
      /\ DOMAIN (s \o t) = 1 .. Len(s) + Len(t)
      /\ \A i \in 1 .. Len(s) : (s \o t)[i] = s[i]
      /\ \A i \in 1 .. Len(t) : (s \o t)[Len(s) + i] = t[i]
  BY ConcatElements
<1> DEFINE st == s \o t
<1> HIDE DEF st
<1>2. ASSUME AtMost(st, n) PROVE AtMost(s, n) /\ AtMost(t, n)
  <2>1. ASSUME NEW i \in 1 .. Len(s) PROVE s[i] <= n
    <3>1. i \in DOMAIN st /\ st[i] = s[i]
      BY <1>1 DEF st
    <3> QED
      BY <1>2, <3>1 DEF AtMost
  <2>2. ASSUME NEW i \in 1 .. Len(t) PROVE t[i] <= n
    <3>1. Len(s) + i \in DOMAIN st /\ st[Len(s) + i] = t[i]
      BY <1>1 DEF st
    <3> QED
      BY <1>2, <3>1 DEF AtMost
  <2> QED
    BY <1>1, <2>1, <2>2 DEF AtMost
<1>3. ASSUME AtMost(s, n), AtMost(t, n) PROVE AtMost(st, n)
  <2> SUFFICES ASSUME NEW i \in 1 .. Len(s) + Len(t) PROVE st[i] <= n
    BY <1>1 DEF AtMost, st
  <2>1. CASE i <= Len(s)
    <3>1. i \in DOMAIN s /\ st[i] = s[i]
      BY <1>1, <2>1 DEF st
    <3> QED
      BY <1>3, <3>1 DEF AtMost
  <2>2. CASE i > Len(s)
    <3> DEFINE k == i - Len(s)
    <3>1. k \in 1 .. Len(t) /\ i = Len(s) + k
      BY <1>1, <2>2
    <3> HIDE DEF k
    <3>2. k \in DOMAIN t /\ st[i] = t[k]
      BY <1>1, <3>1 DEF st
    <3> QED
      BY <1>3, <3>2 DEF AtMost
  <2> QED
    BY <1>1, <2>1, <2>2
<1> QED
  BY <1>2, <1>3 DEF st

\* A greater number is added at the end.
LEMMA IncreasingAppend ==
  ASSUME NEW s \in Seq(Int), NEW n \in Int, Increasing(s), AtMost(s, n)
  PROVE  Increasing(Append(s, n + 1)) /\ AtMost(Append(s, n + 1), n + 1)
<1> DEFINE x == n + 1
<1>1. /\ x \in Int /\ <<x>> \in Seq(Int) /\ DOMAIN <<x>> = 1 .. 1 /\ <<x>>[1] = x
      /\ Append(s, x) = s \o <<x>>
  BY AppendIsConcat, Singleton
<1>2. \A i \in DOMAIN s : s[i] \in Int /\ s[i] <= n
  BY LenProperties DEF AtMost
<1>3. \A i \in DOMAIN s : s[i] < x /\ s[i] <= x
  BY <1>2
<1>4. x <= x
  OBVIOUS
<1> HIDE DEF x
<1>5. Increasing(<<x>>) /\ AtMost(<<x>>, x) /\ AtMost(s, x)
  <2>1. \A i, j \in 1 .. 1 : ~ (i < j)
    OBVIOUS
  <2>2. \A i \in 1 .. 1 : i = 1
    OBVIOUS
  <2> QED
    BY <1>1, <1>3, <1>4, <2>1, <2>2 DEF Increasing, AtMost
<1>6. \A i \in DOMAIN s, j \in DOMAIN <<x>> : s[i] < <<x>>[j]
  <2>1. \A j \in 1 .. 1 : j = 1
    OBVIOUS
  <2> QED
    BY <1>1, <1>3, <2>1
<1>7. Increasing(s \o <<x>>) /\ AtMost(s \o <<x>>, x)
  BY <1>1, <1>5, <1>6, IncreasingConcat, AtMostConcat
<1>8. Increasing(Append(s, x)) /\ AtMost(Append(s, x), x)
  BY <1>1, <1>7
<1> QED
  BY <1>8 DEF x

\* What is left when a part in the middle is dropped.
LEMMA IncreasingDrop ==
  ASSUME NEW s \in Seq(Int), NEW t \in Seq(Int), NEW u \in Seq(Int), NEW n,
         Increasing(s \o (t \o u)), AtMost(s \o (t \o u), n)
  PROVE  Increasing(s \o u) /\ AtMost(s \o u, n)
<1>1. t \o u \in Seq(Int)
  BY ConcatProperties
<1>2. /\ Increasing(s) /\ Increasing(t \o u)
      /\ \A i \in DOMAIN s, j \in DOMAIN (t \o u) : s[i] < (t \o u)[j]
  BY <1>1, IncreasingConcat
<1>3. Increasing(u)
  BY <1>2, IncreasingConcat
<1>4. ASSUME NEW i \in DOMAIN s, NEW j \in DOMAIN u PROVE s[i] < u[j]
  <2>1. /\ Len(t) \in Nat /\ Len(u) \in Nat /\ DOMAIN u = 1 .. Len(u)
        /\ DOMAIN (t \o u) = 1 .. Len(t) + Len(u)
        /\ \A k \in 1 .. Len(u) : (t \o u)[Len(t) + k] = u[k]
    BY ConcatElements
  <2>2. Len(t) + j \in DOMAIN (t \o u) /\ (t \o u)[Len(t) + j] = u[j]
    BY <2>1
  <2> QED
    BY <1>2, <2>2
<1>5. AtMost(s, n) /\ AtMost(u, n)
  <2>1. AtMost(s, n) /\ AtMost(t \o u, n)
    BY <1>1, AtMostConcat
  <2>2. AtMost(t, n) /\ AtMost(u, n)
    BY <2>1, AtMostConcat
  <2> QED
    BY <2>1, <2>2
<1> QED
  BY <1>2, <1>3, <1>4, <1>5, IncreasingConcat, AtMostConcat

\* The same of a part that is itself in the middle of the second one.
LEMMA IncreasingDropInner ==
  ASSUME NEW S, S \subseteq Int,
         NEW s \in Seq(S), NEW t \in Seq(S), NEW u \in Seq(S), NEW v \in Seq(S), NEW n
  PROVE  Increasing(s \o (t \o u \o v)) /\ AtMost(s \o (t \o u \o v), n)
         => Increasing(s \o (t \o v)) /\ AtMost(s \o (t \o v), n)
<1>1. s \o (t \o u \o v) = (s \o t) \o (u \o v) /\ s \o (t \o v) = (s \o t) \o v
  <2> DEFINE uv == u \o v
  <2>1. (t \o u) \o v = t \o uv
    BY ConcatAssociative
  <2>2. uv \in Seq(S)
    BY ConcatProperties
  <2> HIDE DEF uv
  <2>3. (s \o t) \o uv = s \o (t \o uv)
    BY <2>2, ConcatAssociative, SMTT(40)
  <2>4. (s \o t) \o v = s \o (t \o v)
    BY ConcatAssociative
  <2>5. s \o ((t \o u) \o v) = (s \o t) \o uv
    BY <2>1, <2>3, Zenon
  <2> QED
    BY <2>4, <2>5, Zenon DEF uv
<1> SUFFICES ASSUME Increasing(s \o (t \o u \o v)), AtMost(s \o (t \o u \o v), n)
             PROVE  Increasing(s \o (t \o v)) /\ AtMost(s \o (t \o v), n)
  OBVIOUS
<1>2. s \o t \in Seq(Int) /\ u \in Seq(Int) /\ v \in Seq(Int)
  <2>1. s \o t \in Seq(S)
    BY ConcatProperties
  <2> QED
    BY <2>1, SeqMonotonic
<1>3. Increasing((s \o t) \o (u \o v)) /\ AtMost((s \o t) \o (u \o v), n)
  BY <1>1
<1>4. Increasing((s \o t) \o v) /\ AtMost((s \o t) \o v, n)
  BY <1>2, <1>3, IncreasingDrop
<1> QED
  BY <1>1, <1>4

-----------------------------------------------------------------------------
(* The elements of a sequence, each once.                                   *)

\* Elements and places.
LEMMA RangeIs ==
  ASSUME NEW S, NEW s \in Seq(S)
  PROVE  /\ Len(s) \in Nat /\ DOMAIN s = 1 .. Len(s)
         /\ \A x : x \in Range(s) <=> \E i \in 1 .. Len(s) : s[i] = x
         /\ IsInjective(s) <=> \A i, j \in 1 .. Len(s) : s[i] = s[j] => i = j
<1>1. Len(s) \in Nat /\ DOMAIN s = 1 .. Len(s)
  OBVIOUS
<1>2. \A x : x \in Range(s) <=> \E i \in DOMAIN s : s[i] = x
  BY DEF Range
<1>3. IsInjective(s) <=> \A i, j \in DOMAIN s : s[i] = s[j] => i = j
  BY DEF IsInjective
<1> QED
  BY <1>1, <1>2, <1>3

\* A sequence has elements unless it is empty.
LEMMA RangeEmpty ==
  ASSUME NEW S, NEW s \in Seq(S)
  PROVE  Range(s) \subseteq S /\ (Range(s) = {} <=> s = <<>>)
<1>1. Range(s) \subseteq S
  <2> SUFFICES ASSUME NEW x \in Range(s) PROVE x \in S
    OBVIOUS
  <2>1. PICK i \in 1 .. Len(s) : s[i] = x
    BY RangeIs
  <2> QED
    BY <2>1, ElementOfSeq
<1>2. CASE s = <<>>
  <2>1. Len(s) = 0
    BY <1>2
  <2>2. \A i \in 1 .. 0 : FALSE
    OBVIOUS
  <2>3. \A x : x \notin Range(s)
    BY <2>1, <2>2, RangeIs
  <2> QED
    BY <1>1, <1>2, <2>3
<1>3. CASE s # <<>>
  <2>1. Len(s) \in Nat \ {0}
    BY <1>3, EmptySeq
  <2>2. 1 \in 1 .. Len(s)
    BY <2>1
  <2>3. s[1] \in Range(s)
    BY <2>2, RangeIs
  <2> QED
    BY <1>1, <1>3, <2>3
<1> QED
  BY <1>2, <1>3

\* Append.
LEMMA AppendOnce ==
  ASSUME NEW S, NEW s \in Seq(S), NEW x \in S
  PROVE  /\ Append(s, x) \in Seq(S) /\ Range(Append(s, x)) = Range(s) \cup {x}
         /\ IsInjective(s) /\ x \notin Range(s) => IsInjective(Append(s, x))
<1> DEFINE r == Append(s, x)
<1>1. /\ r \in Seq(S) /\ Len(r) = Len(s) + 1 /\ r[Len(s) + 1] = x
      /\ \A i \in 1 .. Len(s) : r[i] = s[i]
  BY AppendProperties
<1> HIDE DEF r
<1>2. /\ Len(s) \in Nat
      /\ \A y : y \in Range(s) <=> \E i \in 1 .. Len(s) : s[i] = y
      /\ IsInjective(s) <=> \A i, j \in 1 .. Len(s) : s[i] = s[j] => i = j
  BY RangeIs
<1>3. /\ \A y : y \in Range(r) <=> \E i \in 1 .. Len(r) : r[i] = y
      /\ IsInjective(r) <=> \A i, j \in 1 .. Len(r) : r[i] = r[j] => i = j
  <2>1. r \in Seq(S)
    BY <1>1
  <2> QED
    BY <2>1, RangeIs
<1>4. \A i \in 1 .. Len(r) : i \in 1 .. Len(s) \/ i = Len(s) + 1
  BY <1>1, <1>2
<1>5. \A i \in 1 .. Len(s) : i \in 1 .. Len(r)
  BY <1>1, <1>2
<1>6. Len(s) + 1 \in 1 .. Len(r)
  BY <1>1, <1>2
<1>7. Range(r) = Range(s) \cup {x}
  <2>1. ASSUME NEW y \in Range(r) PROVE y \in Range(s) \cup {x}
    BY <1>1, <1>2, <1>3, <1>4
  <2>2. ASSUME NEW y \in Range(s) \cup {x} PROVE y \in Range(r)
    BY <1>1, <1>2, <1>3, <1>5, <1>6
  <2> QED
    BY <2>1, <2>2
<1>8. ASSUME IsInjective(s), x \notin Range(s) PROVE IsInjective(r)
  <2> SUFFICES ASSUME NEW i \in 1 .. Len(r), NEW j \in 1 .. Len(r), r[i] = r[j] PROVE i = j
    BY <1>3
  <2> QED
    BY <1>1, <1>2, <1>4, <1>8
<1> QED
  BY <1>1, <1>7, <1>8 DEF r

\* The first element is taken away.
LEMMA TailOnce ==
  ASSUME NEW S, NEW s \in Seq(S), s # <<>>, IsInjective(s)
  PROVE  /\ Head(s) \in S /\ Tail(s) \in Seq(S)
         /\ Head(s) \in Range(s) /\ Range(Tail(s)) = Range(s) \ {Head(s)} /\ IsInjective(Tail(s))
<1> DEFINE r == Tail(s)
           x == Head(s)
<1>1. /\ x \in S /\ r \in Seq(S) /\ Len(r) = Len(s) - 1 /\ Len(s) \in Nat \ {0} /\ x = s[1]
      /\ \A i \in 1 .. Len(r) : r[i] = s[i + 1]
  BY HeadTailProperties, EmptySeq
<1> HIDE DEF r, x
<1>2. /\ \A y : y \in Range(s) <=> \E i \in 1 .. Len(s) : s[i] = y
      /\ \A i, j \in 1 .. Len(s) : s[i] = s[j] => i = j
  BY RangeIs
<1>3. /\ \A y : y \in Range(r) <=> \E i \in 1 .. Len(r) : r[i] = y
      /\ IsInjective(r) <=> \A i, j \in 1 .. Len(r) : r[i] = r[j] => i = j
  <2>1. r \in Seq(S)
    BY <1>1
  <2> QED
    BY <2>1, RangeIs
<1>4. \A i \in 1 .. Len(r) : i + 1 \in 1 .. Len(s) /\ i + 1 # 1
  BY <1>1
<1>5. ASSUME NEW y \in Range(r) PROVE y \in Range(s) \ {x}
  <2>1. PICK i \in 1 .. Len(r) : r[i] = y
    BY <1>3
  <2>2. s[i + 1] = y /\ i + 1 \in 1 .. Len(s) /\ i + 1 # 1 /\ 1 \in 1 .. Len(s)
    BY <1>1, <1>4, <2>1
  <2>3. y # s[1]
    BY <1>2, <2>2
  <2> QED
    BY <1>1, <1>2, <2>2, <2>3
<1>6. ASSUME NEW y \in Range(s) \ {x} PROVE y \in Range(r)
  <2>1. PICK i \in 1 .. Len(s) : s[i] = y
    BY <1>2
  <2>2. i - 1 \in 1 .. Len(r) /\ (i - 1) + 1 = i
    BY <1>1, <2>1
  <2>3. r[i - 1] = s[(i - 1) + 1]
    BY <1>1, <2>2
  <2> QED
    BY <1>3, <2>1, <2>2, <2>3
<1>7. x \in Range(s)
  <2>1. 1 \in 1 .. Len(s)
    BY <1>1
  <2> QED
    BY <1>1, <1>2, <2>1
<1>8. IsInjective(r)
  <2> SUFFICES ASSUME NEW i \in 1 .. Len(r), NEW j \in 1 .. Len(r), r[i] = r[j] PROVE i = j
    BY <1>3
  <2>1. s[i + 1] = s[j + 1] /\ i + 1 \in 1 .. Len(s) /\ j + 1 \in 1 .. Len(s)
    BY <1>1, <1>4
  <2>2. i + 1 = j + 1
    BY <1>2, <2>1
  <2> QED
    BY <2>2
<1> QED
  BY <1>1, <1>5, <1>6, <1>7, <1>8 DEF r, x

\* A sequence is cut in two.
LEMMA CutOnce ==
  ASSUME NEW S, NEW s \in Seq(S), NEW n \in 0 .. Len(s)
  PROVE  LET front == SubSeq(s, 1, n)
             rest  == SubSeq(s, n + 1, Len(s))
         IN  /\ front \in Seq(S) /\ Len(front) = n /\ \A i \in 1 .. n : front[i] = s[i]
             /\ rest \in Seq(S) /\ Len(rest) = Len(s) - n
             /\ \A i \in 1 .. Len(s) - n : rest[i] = s[n + i]
             /\ Range(s) = Range(front) \cup Range(rest)
             /\ IsInjective(s) => /\ IsInjective(front) /\ IsInjective(rest)
                                  /\ Range(front) \cap Range(rest) = {}
<1> DEFINE front == SubSeq(s, 1, n)
           rest  == SubSeq(s, n + 1, Len(s))
           m     == Len(s) - n
<1>1. Len(s) \in Nat /\ n \in Nat /\ m \in Nat /\ n + m = Len(s)
  OBVIOUS
<1>2. front \in Seq(S) /\ Len(front) = n /\ \A i \in 1 .. n : front[i] = s[i]
  <2>1. \A i \in 1 .. n : s[i] \in S
    BY <1>1, ElementOfSeq
  <2>2. /\ front \in Seq(S) /\ Len(front) = IF 1 <= n THEN n - 1 + 1 ELSE 0
        /\ \A i \in 1 .. n - 1 + 1 : front[i] = s[1 + i - 1]
    BY <1>1, <2>1, SubSeqProperties
  <2>3. n - 1 + 1 = n /\ \A i \in 1 .. n : 1 + i - 1 = i
    BY <1>1
  <2> HIDE DEF front
  <2> QED
    BY <1>1, <2>2, <2>3
<1>3. rest \in Seq(S) /\ Len(rest) = m /\ \A i \in 1 .. m : rest[i] = s[n + i]
  <2>1. \A i \in n + 1 .. Len(s) : s[i] \in S
    BY <1>1, ElementOfSeq
  <2>2. /\ rest \in Seq(S)
        /\ Len(rest) = IF n + 1 <= Len(s) THEN Len(s) - (n + 1) + 1 ELSE 0
        /\ \A i \in 1 .. Len(s) - (n + 1) + 1 : rest[i] = s[(n + 1) + i - 1]
    BY <1>1, <2>1, SubSeqProperties
  <2>3. Len(s) - (n + 1) + 1 = m /\ \A i \in 1 .. m : (n + 1) + i - 1 = n + i
    BY <1>1
  <2> HIDE DEF rest
  <2>4. Len(rest) = m
    <3>1. CASE n + 1 <= Len(s)
      BY <2>2, <2>3, <3>1
    <3>2. CASE ~ (n + 1 <= Len(s))
      <4>1. Len(rest) = 0
        BY <2>2, <3>2
      <4>2. Len(s) \in Nat /\ n \in Nat /\ n <= Len(s) /\ n + 1 > Len(s)
        BY <1>1, <3>2
      <4>3. m = 0
        BY <4>2
      <4> HIDE DEF m
      <4> QED
        BY <4>1, <4>3
    <3> QED
      BY <3>1, <3>2
  <2> HIDE DEF m
  <2> QED
    BY <2>2, <2>3, <2>4
<1> HIDE DEF front, rest, m
<1>4. /\ \A y : y \in Range(s) <=> \E i \in 1 .. Len(s) : s[i] = y
      /\ IsInjective(s) <=> \A i, j \in 1 .. Len(s) : s[i] = s[j] => i = j
  BY RangeIs
<1>5. /\ \A y : y \in Range(front) <=> \E i \in 1 .. n : front[i] = y
      /\ IsInjective(front) <=> \A i, j \in 1 .. n : front[i] = front[j] => i = j
  <2>1. front \in Seq(S) /\ Len(front) = n
    BY <1>2
  <2> QED
    BY <2>1, RangeIs
<1>6. /\ \A y : y \in Range(rest) <=> \E i \in 1 .. m : rest[i] = y
      /\ IsInjective(rest) <=> \A i, j \in 1 .. m : rest[i] = rest[j] => i = j
  <2>1. rest \in Seq(S) /\ Len(rest) = m
    BY <1>3
  <2> QED
    BY <2>1, RangeIs
<1>7. /\ \A i \in 1 .. n : i \in 1 .. Len(s)
      /\ \A i \in 1 .. m : n + i \in 1 .. Len(s) /\ n + i \notin 1 .. n
      /\ \A i \in 1 .. Len(s) : i \in 1 .. n \/ (i - n \in 1 .. m /\ n + (i - n) = i)
  BY <1>1
<1>8. Range(s) = Range(front) \cup Range(rest)
  <2>1. ASSUME NEW y \in Range(s) PROVE y \in Range(front) \cup Range(rest)
    <3>1. PICK i \in 1 .. Len(s) : s[i] = y
      BY <1>4
    <3>2. CASE i \in 1 .. n
      BY <1>2, <1>5, <3>1, <3>2
    <3>3. CASE i \notin 1 .. n
      <4>1. i - n \in 1 .. m /\ rest[i - n] = y
        BY <1>3, <1>7, <3>1, <3>3
      <4> QED
        BY <1>6, <4>1
    <3> QED
      BY <3>2, <3>3
  <2>2. ASSUME NEW y \in Range(front) PROVE y \in Range(s)
    BY <1>2, <1>4, <1>5, <1>7
  <2>3. ASSUME NEW y \in Range(rest) PROVE y \in Range(s)
    BY <1>3, <1>4, <1>6, <1>7
  <2> QED
    BY <2>1, <2>2, <2>3
<1>9. ASSUME IsInjective(s)
      PROVE  IsInjective(front) /\ IsInjective(rest) /\ Range(front) \cap Range(rest) = {}
  <2>1. IsInjective(front)
    BY <1>2, <1>4, <1>5, <1>7, <1>9
  <2>2. IsInjective(rest)
    <3> SUFFICES ASSUME NEW i \in 1 .. m, NEW j \in 1 .. m, rest[i] = rest[j] PROVE i = j
      BY <1>6
    <3>1. s[n + i] = s[n + j] /\ n + i \in 1 .. Len(s) /\ n + j \in 1 .. Len(s)
      BY <1>3, <1>7
    <3>2. n + i = n + j
      BY <1>4, <1>9, <3>1
    <3> QED
      BY <1>1, <3>2
  <2>3. ASSUME NEW y \in Range(front), y \in Range(rest) PROVE FALSE
    <3>1. PICK i \in 1 .. n : s[i] = y
      BY <1>2, <1>5
    <3>2. PICK j \in 1 .. m : s[n + j] = y
      BY <1>3, <1>6, <2>3, SMTT(40)
    <3>3. i \in 1 .. Len(s) /\ n + j \in 1 .. Len(s) /\ n + j \notin 1 .. n
      BY <1>7
    <3> QED
      BY <1>4, <1>9, <3>1, <3>2, <3>3
  <2> QED
    BY <2>1, <2>2, <2>3
<1> QED
  BY <1>2, <1>3, <1>8, <1>9 DEF front, rest, m

\* InsertAt: what follows moves by one place.
LEMMA InsertPlaces ==
  ASSUME NEW S, NEW s \in Seq(S), NEW x \in S, NEW i \in 1 .. Len(s) + 1
  PROVE  LET r == InsertAt(s, i, x)
         IN  /\ r \in Seq(S) /\ Len(r) = Len(s) + 1 /\ r[i] = x
             /\ \A k \in 1 .. i - 1 : r[k] = s[k]
             /\ \A k \in i .. Len(s) : r[k + 1] = s[k]
<1> DEFINE n     == i - 1
           front == SubSeq(s, 1, n)
           rest  == SubSeq(s, i, Len(s))
           r     == InsertAt(s, i, x)
<1>1. Len(s) \in Nat /\ i \in Nat /\ n \in 0 .. Len(s) /\ n + 1 = i
  OBVIOUS
<1>2. /\ front \in Seq(S) /\ Len(front) = n /\ \A k \in 1 .. n : front[k] = s[k]
      /\ rest \in Seq(S) /\ Len(rest) = Len(s) - n
      /\ \A k \in 1 .. Len(s) - n : rest[k] = s[n + k]
  <2>1. rest = SubSeq(s, n + 1, Len(s))
    BY <1>1
  <2> HIDE DEF n, rest
  <2> QED
    BY <1>1, <2>1, CutOnce
<1>3. r = (front \o <<x>>) \o rest
  BY DEF InsertAt
<1> HIDE DEF n, front, rest, r
<1>4. <<x>> \in Seq(S) /\ Len(<<x>>) = 1 /\ <<x>>[1] = x
  OBVIOUS
<1> DEFINE one == <<x>>
           fx  == front \o one
<1>5. r = fx \o rest /\ one \in Seq(S) /\ Len(one) = 1 /\ one[1] = x
  BY <1>3, <1>4
<1> HIDE DEF one
<1>6. /\ fx \in Seq(S) /\ Len(fx) = n + 1
      /\ \A k \in 1 .. n + 1 : fx[k] = IF k <= n THEN front[k] ELSE one[k - n]
  <2>1. front \in Seq(S) /\ one \in Seq(S)
    BY <1>2, <1>5
  <2>2. /\ fx \in Seq(S) /\ Len(fx) = Len(front) + Len(one)
        /\ \A k \in 1 .. Len(front) + Len(one) :
             fx[k] = IF k <= Len(front) THEN front[k] ELSE one[k - Len(front)]
    BY <2>1, ConcatProperties
  <2>3. Len(front) = n /\ Len(one) = 1
    BY <1>2, <1>5
  <2> HIDE DEF fx
  <2> QED
    BY <2>2, <2>3
<1> HIDE DEF fx
<1>7. /\ r \in Seq(S) /\ Len(r) = (n + 1) + (Len(s) - n)
      /\ \A k \in 1 .. (n + 1) + (Len(s) - n) :
           r[k] = IF k <= n + 1 THEN fx[k] ELSE rest[k - (n + 1)]
  <2>1. fx \in Seq(S) /\ rest \in Seq(S) /\ r = fx \o rest
    BY <1>2, <1>5, <1>6
  <2>2. /\ r \in Seq(S) /\ Len(r) = Len(fx) + Len(rest)
        /\ \A k \in 1 .. Len(fx) + Len(rest) :
             r[k] = IF k <= Len(fx) THEN fx[k] ELSE rest[k - Len(fx)]
    BY <2>1, ConcatProperties
  <2>3. Len(fx) = n + 1 /\ Len(rest) = Len(s) - n
    BY <1>2, <1>6
  <2> QED
    BY <2>2, <2>3
<1>8. Len(r) = Len(s) + 1
  BY <1>1, <1>7
<1>9. r[i] = x
  <2>1. i \in 1 .. (n + 1) + (Len(s) - n) /\ i <= n + 1 /\ i \in 1 .. n + 1 /\ ~ (i <= n) /\ i - n = 1
    BY <1>1
  <2> QED
    BY <1>5, <1>6, <1>7, <2>1
<1>10. ASSUME NEW k \in 1 .. i - 1 PROVE r[k] = s[k]
  <2>1. k \in 1 .. (n + 1) + (Len(s) - n) /\ k <= n + 1 /\ k \in 1 .. n + 1 /\ k <= n /\ k \in 1 .. n
    BY <1>1
  <2> QED
    BY <1>2, <1>6, <1>7, <2>1
<1>11. ASSUME NEW k \in i .. Len(s) PROVE r[k + 1] = s[k]
  <2>1. /\ k + 1 \in 1 .. (n + 1) + (Len(s) - n) /\ ~ (k + 1 <= n + 1)
        /\ (k + 1) - (n + 1) = k - n /\ k - n \in 1 .. Len(s) - n /\ n + (k - n) = k
    BY <1>1
  <2>2. r[k + 1] = rest[k - n]
    BY <1>7, <2>1
  <2>3. rest[k - n] = s[n + (k - n)]
    BY <1>2, <2>1
  <2> QED
    BY <2>1, <2>2, <2>3
<1> QED
  BY <1>7, <1>8, <1>9, <1>10, <1>11 DEF r

LEMMA InsertOnce ==
  ASSUME NEW S, NEW s \in Seq(S), NEW x \in S, NEW i \in 1 .. Len(s) + 1
  PROVE  LET r == InsertAt(s, i, x)
         IN  /\ r \in Seq(S) /\ Range(r) = Range(s) \cup {x}
             /\ IsInjective(s) /\ x \notin Range(s) => IsInjective(r)
<1> DEFINE r == InsertAt(s, i, x)
<1>1. /\ r \in Seq(S) /\ Len(r) = Len(s) + 1 /\ r[i] = x
      /\ \A k \in 1 .. i - 1 : r[k] = s[k]
      /\ \A k \in i .. Len(s) : r[k + 1] = s[k]
  BY InsertPlaces
<1> HIDE DEF r
<1>2. /\ Len(s) \in Nat
      /\ \A y : y \in Range(s) <=> \E k \in 1 .. Len(s) : s[k] = y
      /\ IsInjective(s) <=> \A k, l \in 1 .. Len(s) : s[k] = s[l] => k = l
  BY RangeIs
<1>3. /\ \A y : y \in Range(r) <=> \E k \in 1 .. Len(r) : r[k] = y
      /\ IsInjective(r) <=> \A k, l \in 1 .. Len(r) : r[k] = r[l] => k = l
  <2>1. r \in Seq(S)
    BY <1>1
  <2> QED
    BY <2>1, RangeIs
<1> DEFINE From(k) == IF k < i THEN k ELSE k - 1
<1>4. ASSUME NEW k \in 1 .. Len(r), k # i
      PROVE  From(k) \in 1 .. Len(s) /\ r[k] = s[From(k)]
  <2>1. CASE k < i
    <3>1. k \in 1 .. i - 1 /\ k \in 1 .. Len(s)
      BY <1>1, <1>2, <2>1
    <3> QED
      BY <1>1, <2>1, <3>1
  <2>2. CASE k > i
    <3>1. k - 1 \in i .. Len(s) /\ (k - 1) + 1 = k /\ ~ (k < i) /\ k - 1 \in 1 .. Len(s)
      BY <1>1, <1>2, <2>2
    <3>2. r[(k - 1) + 1] = s[k - 1]
      BY <1>1, <3>1
    <3> QED
      BY <3>1, <3>2
  <2> QED
    BY <1>4, <1>1, <1>2, <2>1, <2>2
<1>5. ASSUME NEW k \in 1 .. Len(s) PROVE s[k] \in Range(r)
  <2>1. CASE k < i
    <3>1. k \in 1 .. i - 1 /\ k \in 1 .. Len(r)
      BY <1>1, <1>2, <2>1
    <3> QED
      BY <1>1, <1>3, <3>1
  <2>2. CASE ~ (k < i)
    <3>1. k \in i .. Len(s) /\ k + 1 \in 1 .. Len(r)
      BY <1>1, <1>2, <2>2
    <3> QED
      BY <1>1, <1>3, <3>1
  <2> QED
    BY <2>1, <2>2
<1>6. i \in 1 .. Len(r)
  BY <1>1, <1>2
<1>7. Range(r) = Range(s) \cup {x}
  <2>1. ASSUME NEW y \in Range(r) PROVE y \in Range(s) \cup {x}
    <3>1. PICK k \in 1 .. Len(r) : r[k] = y
      BY <1>3
    <3> QED
      BY <1>1, <1>2, <1>4, <3>1
  <2>2. ASSUME NEW y \in Range(s) \cup {x} PROVE y \in Range(r)
    BY <1>1, <1>2, <1>3, <1>5, <1>6
  <2> QED
    BY <2>1, <2>2
<1>8. ASSUME IsInjective(s), x \notin Range(s) PROVE IsInjective(r)
  <2> SUFFICES ASSUME NEW k \in 1 .. Len(r), NEW l \in 1 .. Len(r), r[k] = r[l] PROVE k = l
    BY <1>3
  <2>1. CASE k # i /\ l # i
    <3>1. From(k) = From(l)
      <4>1. /\ From(k) \in 1 .. Len(s) /\ From(l) \in 1 .. Len(s)
            /\ s[From(k)] = s[From(l)]
        BY <1>4, <2>1
      <4> HIDE DEF From
      <4> QED
        BY <1>2, <1>8, <4>1
    <3> QED
      BY <2>1, <3>1
  <2>2. ASSUME NEW j \in 1 .. Len(r), j # i, r[j] = x PROVE FALSE
    BY <1>2, <1>4, <1>8, <2>2
  <2> QED
    BY <1>1, <2>1, <2>2
<1> QED
  BY <1>1, <1>7, <1>8 DEF r

\* RemoveAt: what follows closes up.
LEMMA RemovePlaces ==
  ASSUME NEW S, NEW s \in Seq(S), NEW i \in 1 .. Len(s)
  PROVE  LET r == RemoveAt(s, i)
         IN  /\ r \in Seq(S) /\ Len(r) = Len(s) - 1
             /\ \A k \in 1 .. i - 1 : r[k] = s[k]
             /\ \A k \in i .. Len(s) - 1 : r[k] = s[k + 1]
<1> DEFINE n     == i - 1
           front == SubSeq(s, 1, n)
           rest  == SubSeq(s, i + 1, Len(s))
           r     == RemoveAt(s, i)
<1>1. Len(s) \in Nat /\ i \in 0 .. Len(s) /\ n \in 0 .. Len(s) /\ n + 1 = i
  OBVIOUS
<1>2. r = front \o rest
  BY DEF RemoveAt
<1> HIDE DEF n, r
<1>3. front \in Seq(S) /\ Len(front) = n /\ \A k \in 1 .. n : front[k] = s[k]
  BY <1>1, CutOnce
<1>4. /\ rest \in Seq(S) /\ Len(rest) = Len(s) - i
      /\ \A k \in 1 .. Len(s) - i : rest[k] = s[i + k]
  BY <1>1, CutOnce
<1> HIDE DEF front, rest
<1>5. /\ r \in Seq(S) /\ Len(r) = n + (Len(s) - i)
      /\ \A k \in 1 .. n + (Len(s) - i) : r[k] = IF k <= n THEN front[k] ELSE rest[k - n]
  <2>1. front \in Seq(S) /\ rest \in Seq(S) /\ r = front \o rest
    BY <1>2, <1>3, <1>4
  <2>2. /\ r \in Seq(S) /\ Len(r) = Len(front) + Len(rest)
        /\ \A k \in 1 .. Len(front) + Len(rest) :
             r[k] = IF k <= Len(front) THEN front[k] ELSE rest[k - Len(front)]
    BY <2>1, ConcatProperties
  <2>3. Len(front) = n /\ Len(rest) = Len(s) - i
    BY <1>3, <1>4
  <2> QED
    BY <2>2, <2>3
<1>6. Len(r) = Len(s) - 1
  <2>1. Len(r) = n + (Len(s) - i)
    BY <1>5
  <2>2. n + (Len(s) - i) = Len(s) - 1
    BY <1>1
  <2> QED
    BY <2>1, <2>2
<1>7. ASSUME NEW k \in 1 .. i - 1 PROVE r[k] = s[k]
  <2>1. k \in 1 .. n + (Len(s) - i) /\ k <= n /\ k \in 1 .. n
    BY <1>1
  <2> QED
    BY <1>3, <1>5, <2>1
<1>8. ASSUME NEW k \in i .. Len(s) - 1 PROVE r[k] = s[k + 1]
  <2>1. /\ k \in 1 .. n + (Len(s) - i) /\ ~ (k <= n)
        /\ k - n \in 1 .. Len(s) - i /\ i + (k - n) = k + 1
    BY <1>1
  <2>2. r[k] = rest[k - n]
    BY <1>5, <2>1
  <2>3. rest[k - n] = s[i + (k - n)]
    BY <1>4, <2>1
  <2> QED
    BY <2>1, <2>2, <2>3
<1> QED
  BY <1>5, <1>6, <1>7, <1>8 DEF r

LEMMA RemoveOnce ==
  ASSUME NEW S, NEW s \in Seq(S), NEW i \in 1 .. Len(s)
  PROVE  LET r == RemoveAt(s, i)
         IN  /\ r \in Seq(S) /\ Range(r) \subseteq Range(s)
             /\ \A y \in Range(s) : y # s[i] => y \in Range(r)
             /\ IsInjective(s) => IsInjective(r)
<1> DEFINE r == RemoveAt(s, i)
           To(k)   == IF k < i THEN k ELSE k + 1
           From(k) == IF k < i THEN k ELSE k - 1
<1>1. /\ r \in Seq(S) /\ Len(r) = Len(s) - 1
      /\ \A k \in 1 .. i - 1 : r[k] = s[k]
      /\ \A k \in i .. Len(s) - 1 : r[k] = s[k + 1]
  BY RemovePlaces
<1> HIDE DEF r
<1>2. /\ Len(s) \in Nat /\ i \in Int
      /\ \A y : y \in Range(s) <=> \E k \in 1 .. Len(s) : s[k] = y
      /\ IsInjective(s) <=> \A k, l \in 1 .. Len(s) : s[k] = s[l] => k = l
  BY RangeIs
<1>3. /\ \A y : y \in Range(r) <=> \E k \in 1 .. Len(r) : r[k] = y
      /\ IsInjective(r) <=> \A k, l \in 1 .. Len(r) : r[k] = r[l] => k = l
  <2>1. r \in Seq(S)
    BY <1>1
  <2> QED
    BY <2>1, RangeIs
<1>4. ASSUME NEW k \in 1 .. Len(r) PROVE To(k) \in 1 .. Len(s) /\ r[k] = s[To(k)]
  <2>1. CASE k < i
    <3>1. k \in 1 .. i - 1 /\ k \in 1 .. Len(s)
      BY <1>1, <1>2, <2>1
    <3> QED
      BY <1>1, <2>1, <3>1
  <2>2. CASE ~ (k < i)
    <3>1. k \in i .. Len(s) - 1 /\ k + 1 \in 1 .. Len(s)
      BY <1>1, <1>2, <2>2
    <3> QED
      BY <1>1, <2>2, <3>1
  <2> QED
    BY <2>1, <2>2
<1>5. ASSUME NEW k \in 1 .. Len(s), k # i PROVE From(k) \in 1 .. Len(r) /\ r[From(k)] = s[k]
  <2>1. CASE k < i
    <3>1. k \in 1 .. i - 1 /\ k \in 1 .. Len(r)
      BY <1>1, <1>2, <2>1
    <3> QED
      BY <1>1, <2>1, <3>1
  <2>2. CASE k > i
    <3>1. k - 1 \in i .. Len(s) - 1 /\ (k - 1) + 1 = k /\ k - 1 \in 1 .. Len(r) /\ ~ (k < i)
      BY <1>1, <1>2, <2>2
    <3>2. r[k - 1] = s[(k - 1) + 1]
      BY <1>1, <3>1
    <3> QED
      BY <3>1, <3>2
  <2> QED
    BY <1>2, <1>5, <2>1, <2>2
<1>6. Range(r) \subseteq Range(s)
  <2> SUFFICES ASSUME NEW y \in Range(r) PROVE y \in Range(s)
    OBVIOUS
  <2> HIDE DEF To
  <2> QED
    BY <1>2, <1>3, <1>4
<1>7. ASSUME NEW y \in Range(s), y # s[i] PROVE y \in Range(r)
  <2>1. PICK k \in 1 .. Len(s) : s[k] = y
    BY <1>2
  <2>2. k # i
    BY <1>7, <2>1
  <2> HIDE DEF From
  <2> QED
    BY <1>3, <1>5, <2>1, <2>2
<1>8. ASSUME IsInjective(s) PROVE IsInjective(r)
  <2> SUFFICES ASSUME NEW k \in 1 .. Len(r), NEW l \in 1 .. Len(r), r[k] = r[l] PROVE k = l
    BY <1>3
  <2>1. To(k) = To(l)
    <3> HIDE DEF To
    <3> QED
      BY <1>2, <1>4, <1>8
  <2> QED
    BY <2>1
<1> QED
  BY <1>1, <1>6, <1>7, <1>8 DEF r

\* The places before a place of a set are in the set, too: it begins the interval.
LEMMA FirstPlaces ==
  ASSUME NEW n \in Nat, NEW K \in SUBSET (1 .. n),
         \A k \in K : \A l \in 1 .. k : l \in K
  PROVE  Cardinality(K) \in 0 .. n /\ K = 1 .. Cardinality(K)
<1> DEFINE T == {i \in 1 .. n + 1 : i \notin K}
<1>1. T \in SUBSET Nat /\ n + 1 \in T
  OBVIOUS
<1>2. PICK x \in T : \A y \in T : x <= y
  BY <1>1, SmallestOf
<1>3. x \in 1 .. n + 1 /\ x \notin K
  OBVIOUS
<1>4. ASSUME NEW k \in K PROVE k \in 1 .. x - 1
  BY <1>3
<1>5. ASSUME NEW k \in 1 .. x - 1 PROVE k \in K
  BY <1>2, <1>3
<1>6. K = 1 .. x - 1
  BY <1>4, <1>5
<1>7. Cardinality(1 .. x - 1) = IF 1 > x - 1 THEN 0 ELSE (x - 1) - 1 + 1
  BY <1>3, FS_Interval
<1>8. Cardinality(1 .. x - 1) = x - 1
  BY <1>3, <1>7
<1> QED
  BY <1>3, <1>6, <1>8

=============================================================================
