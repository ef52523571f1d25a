-------------------------- MODULE FoldProtocolProofs --------------------------
(***************************************************************************)
(* Proofs about the fold protocol, for every set of schedules that         *)
(* satisfies ScheduleAssumption and every bound on nonces tried.           *)
(*                                                                         *)
(* FoldTranscript writes the transcript of a whole run as one expression   *)
(* of the schedule.  First: the run makes exactly the queries of the plan. *)
(* Then: each side is always at a place of that run, the prover with its   *)
(* transcript, the verifier with a replay of it.  The properties of the    *)
(* protocol are then properties of the run.                                *)
(***************************************************************************)
EXTENDS FoldTranscript, FiniteSetTheorems, WellFoundedInduction, TLAPS

-----------------------------------------------------------------------------
\* Naturals and lists.

\* Every nonempty set of naturals has a least element.
LEMMA Least ==
  ASSUME NEW T \in SUBSET Nat, T # {}
  PROVE  \E m \in T : \A k \in T : m <= k
<1>1. IsWellFoundedOn(OpToRel(<, Nat), Nat)
  BY NatLessThanWellFounded
<1>2. \E m \in T : \A k \in T : ~(<<k, m>> \in OpToRel(<, Nat))
  BY <1>1, WFMin
<1>3. OpToRel(<, Nat) = {ss \in Nat \X Nat : ss[1] < ss[2]}
  BY Zenon DEF OpToRel
<1>4. \E m \in T : \A k \in T : ~(<<k, m>> \in {ss \in Nat \X Nat : ss[1] < ss[2]})
  BY <1>2, <1>3, Zenon
<1>5. PICK m \in T : \A k \in T : ~(<<k, m>> \in {ss \in Nat \X Nat : ss[1] < ss[2]})
  BY <1>4, Zenon
<1>6. ASSUME NEW k \in T PROVE m <= k
  <2>1. <<k, m>> \in Nat \X Nat /\ <<k, m>>[1] = k /\ <<k, m>>[2] = m OBVIOUS
  <2>2. ~(<<k, m>>[1] < <<k, m>>[2]) BY <1>5, <2>1, Zenon
  <2> QED BY <2>1, <2>2
<1> QED BY <1>6

\* Induction over the naturals, stated for a set: this is how the recursive
\* definitions of the protocol (the flattened stages of a level, of a sumcheck,
\* of a schedule) are reasoned about.
LEMMA SetInduction ==
  ASSUME NEW T, 0 \in T, \A n \in Nat : n \in T => n + 1 \in T
  PROVE  Nat \subseteq T
<1>1. SUFFICES ASSUME Nat \ T # {} PROVE FALSE OBVIOUS
<1>2. PICK m \in Nat \ T : \A k \in Nat \ T : m <= k BY <1>1, Least
<1>3. m # 0 /\ m - 1 \in Nat /\ m - 1 \in T BY <1>2
<1> QED BY <1>2, <1>3

\* Transcript events are appended in any grouping.
LEMMA ConcatAssoc ==
  ASSUME NEW S, NEW a \in Seq(S), NEW b \in Seq(S), NEW c \in Seq(S)
  PROVE  (a \o b) \o c = a \o (b \o c)
OBVIOUS

\* Appending no events changes nothing.
LEMMA EmptyConcat ==
  ASSUME NEW S, NEW a \in Seq(S)
  PROVE  a \o <<>> = a /\ <<>> \o a = a
OBVIOUS

\* The length and the entries of two event lists appended.
LEMMA ConcatFacts ==
  ASSUME NEW S, NEW a \in Seq(S), NEW b \in Seq(S)
  PROVE  /\ a \o b \in Seq(S)
         /\ Len(a \o b) = Len(a) + Len(b)
         /\ DOMAIN a = 1 .. Len(a) /\ Len(a) \in Nat
         /\ DOMAIN b = 1 .. Len(b) /\ Len(b) \in Nat
         /\ DOMAIN (a \o b) = 1 .. Len(a) + Len(b)
         /\ \A i \in 1 .. Len(a) : (a \o b)[i] = a[i]
         /\ \A i \in 1 .. Len(b) : (a \o b)[Len(a) + i] = b[i]
OBVIOUS

\* The partial results of FlattenSeq.
Partial(S, f, n, g) ==
  /\ g \in [1 .. n -> Seq(S)]
  /\ \A i \in 1 .. n : g[i] = IF i = 1 THEN f[i] ELSE g[i - 1] \o f[i]

\* The partial concatenations FlattenSeq is defined by exist.
LEMMA PartialExists ==
  ASSUME NEW S, NEW m \in Nat, NEW f \in [1 .. m -> Seq(S)]
  PROVE  \E g : Partial(S, f, m, g)
<1> DEFINE T == {n \in Nat : n <= m => \E g : Partial(S, f, n, g)}
<1>1. 0 \in T
  <2>1. Partial(S, f, 0, [i \in 1 .. 0 |-> <<>>]) BY DEF Partial
  <2> QED BY <2>1
<1>2. ASSUME NEW n \in Nat, n \in T PROVE n + 1 \in T
  <2> SUFFICES ASSUME n + 1 <= m PROVE \E g : Partial(S, f, n + 1, g) OBVIOUS
  <2>1. PICK g : Partial(S, f, n, g) BY <1>2
  <2> DEFINE last == IF n = 0 THEN f[1] ELSE g[n] \o f[n + 1]
             h == [i \in 1 .. n + 1 |-> IF i <= n THEN g[i] ELSE last]
  <2>2. last \in Seq(S) /\ f[n + 1] \in Seq(S)
    <3>1. f[n + 1] \in Seq(S) /\ (n = 0 => f[1] \in Seq(S)) OBVIOUS
    <3>2. n # 0 => g[n] \in Seq(S) BY <2>1 DEF Partial
    <3> QED BY <3>1, <3>2, ConcatFacts
  <2> HIDE DEF last
  <2>3. h \in [1 .. n + 1 -> Seq(S)] BY <2>1, <2>2 DEF Partial
  <2>4. ASSUME NEW i \in 1 .. n + 1 PROVE h[i] = IF i = 1 THEN f[i] ELSE h[i - 1] \o f[i]
    <3>1. CASE i <= n
      <4>1. h[i] = g[i] /\ (i # 1 => h[i - 1] = g[i - 1]) BY <3>1
      <4>2. i \in 1 .. n BY <3>1
      <4>3. g[i] = IF i = 1 THEN f[i] ELSE g[i - 1] \o f[i]
        BY <2>1, <4>2, Zenon DEF Partial
      <4> HIDE DEF h
      <4> QED BY <4>1, <4>3
    <3>2. CASE i = n + 1
      <4>1. h[i] = last /\ (i # 1 => h[i - 1] = g[n]) BY <3>2
      <4> QED BY <3>2, <4>1 DEF last
    <3> QED BY <3>1, <3>2
  <2>5. Partial(S, f, n + 1, h) BY <2>3, <2>4 DEF Partial
  <2> QED BY <2>5
<1>3. m \in T
  <2> HIDE DEF T
  <2> QED BY <1>1, <1>2, SetInduction
<1> QED BY <1>3

\* Partial concatenations do not depend on where they stop.
LEMMA PartialUnique ==
  ASSUME NEW S, NEW f, NEW m \in Nat, NEW n \in Nat, n <= m, NEW g, NEW h,
         Partial(S, f, m, g), Partial(S, f, n, h)
  PROVE  \A i \in 1 .. n : g[i] = h[i]
<1> DEFINE T == {k \in Nat : k \in 1 .. n => g[k] = h[k]}
<1>1. 0 \in T OBVIOUS
<1>2. ASSUME NEW k \in Nat, k \in T PROVE k + 1 \in T
  <2> SUFFICES ASSUME k + 1 \in 1 .. n PROVE g[k + 1] = h[k + 1] OBVIOUS
  <2>2. CASE k = 0
    <3>1. 1 \in 1 .. m /\ 1 \in 1 .. n BY <2>2
    <3>2. g[1] = f[1] /\ h[1] = f[1] BY <3>1 DEF Partial
    <3> QED BY <2>2, <3>2
  <2>3. CASE k # 0
    <3>1. g[k] = h[k] BY <1>2, <2>3
    <3>2. g[k + 1] = g[k] \o f[k + 1] /\ h[k + 1] = h[k] \o f[k + 1]
      <4>1. k + 1 \in 1 .. m /\ k + 1 \in 1 .. n /\ k + 1 # 1 /\ (k + 1) - 1 = k BY <2>3
      <4> QED BY <4>1 DEF Partial
    <3> QED BY <3>1, <3>2
  <2> QED BY <2>2, <2>3
<1>3. Nat \subseteq T
  <2> HIDE DEF T
  <2> QED BY <1>1, <1>2, SetInduction
<1> QED BY <1>3

\* FlattenSeq is the last partial concatenation.
LEMMA FlattenPartial ==
  ASSUME NEW S, NEW m \in Nat, m > 0, NEW f \in [1 .. m -> Seq(S)]
  PROVE  \E g : Partial(S, f, m, g) /\ FlattenSeq(f) = g[m]
<1> DEFINE Rec(g) == g = [i \in 1 .. Len(f) |-> IF i = 1 THEN f[i] ELSE g[i - 1] \o f[i]]
           c == CHOOSE g : Rec(g)
<1>1. Len(f) = m /\ ~(Len(f) = 0) OBVIOUS
<1>2. FlattenSeq(f) = c[Len(f)]
  BY <1>1, Zenon DEF FlattenSeq
<1>3. PICK g : Partial(S, f, m, g) BY PartialExists
<1>4. Rec(g)
  BY <1>1, <1>3 DEF Partial
<1>5. Rec(c)
  <2> HIDE DEF Rec
  <2> QED BY <1>4
<1>6. \A i \in 1 .. m : c[i] = IF i = 1 THEN f[i] ELSE c[i - 1] \o f[i]
  <2> HIDE DEF c
  <2> QED BY <1>1, <1>5
<1>7. c[m] = g[m]
  <2> HIDE DEF c
  <2> DEFINE T == {k \in Nat : k \in 1 .. m => c[k] = g[k]}
  <2>1. 0 \in T OBVIOUS
  <2>2. ASSUME NEW k \in Nat, k \in T PROVE k + 1 \in T
    <3> SUFFICES ASSUME k + 1 \in 1 .. m PROVE c[k + 1] = g[k + 1] OBVIOUS
    <3>1. CASE k = 0
      <4>1. c[1] = f[1] BY <1>6
      <4>2. g[1] = f[1] BY <1>3 DEF Partial
      <4> QED BY <3>1, <4>1, <4>2
    <3>2. CASE k # 0
      <4>1. c[k] = g[k] BY <2>2, <3>2
      <4>2. k + 1 \in 1 .. m /\ k + 1 # 1 /\ (k + 1) - 1 = k BY <3>2
      <4>3. c[k + 1] = c[k] \o f[k + 1] BY <1>6, <4>2
      <4>4. g[k + 1] = g[k] \o f[k + 1] BY <1>3, <4>2 DEF Partial
      <4> QED BY <4>1, <4>3, <4>4
    <3> QED BY <3>1, <3>2
  <2>3. Nat \subseteq T
    <3> HIDE DEF T
    <3> QED BY <2>1, <2>2, SetInduction
  <2> QED BY <2>3
<1> HIDE DEF c
<1> QED BY <1>1, <1>2, <1>3, <1>7

\* Flattening no lists.
LEMMA FlattenEmpty == FlattenSeq(<<>>) = <<>>
BY DEF FlattenSeq

\* Flattening one list more appends it: the step of a round loop.
LEMMA FlattenSnoc ==
  ASSUME NEW S, NEW n \in Nat, NEW f \in [1 .. n + 1 -> Seq(S)],
         NEW h, h = [i \in 1 .. n |-> f[i]]
  PROVE  FlattenSeq(f) = FlattenSeq(h) \o f[n + 1]
<1>1. PICK g : Partial(S, f, n + 1, g) /\ FlattenSeq(f) = g[n + 1]
  BY FlattenPartial
<1>2. f[n + 1] \in Seq(S) OBVIOUS
<1>3. CASE n = 0
  <2>1. h = <<>> BY <1>3
  <2>2. g[1] = f[1] BY <1>1, <1>3 DEF Partial
  <2> QED BY <1>1, <1>2, <1>3, <2>1, <2>2, FlattenEmpty, EmptyConcat
<1>4. CASE n > 0
  <2>1. h \in [1 .. n -> Seq(S)] OBVIOUS
  <2>2. PICK k : Partial(S, h, n, k) /\ FlattenSeq(h) = k[n] BY <1>4, <2>1, FlattenPartial
  <2>3. \A i \in 1 .. n : g[i] = k[i]
    <3>1. \A i \in 1 .. n : f[i] = h[i] OBVIOUS
    <3>2. Partial(S, f, n, k)
      <4>1. k \in [1 .. n -> Seq(S)] BY <2>2 DEF Partial
      <4>2. \A i \in 1 .. n : k[i] = IF i = 1 THEN h[i] ELSE k[i - 1] \o h[i]
        BY <2>2, Zenon DEF Partial
      <4>3. \A i \in 1 .. n : k[i] = IF i = 1 THEN f[i] ELSE k[i - 1] \o f[i]
        BY <3>1, <4>2, Zenon
      <4> QED BY <4>1, <4>3, Zenon DEF Partial
    <3>3. n + 1 \in Nat /\ n <= n + 1 OBVIOUS
    <3>4. Partial(S, f, n + 1, g) BY <1>1
    <3> DEFINE m == n + 1
    <3>5. m \in Nat /\ n <= m /\ Partial(S, f, m, g) BY <3>3, <3>4
    <3> HIDE DEF m
    <3> QED BY <3>2, <3>5, PartialUnique
  <2>4. g[n + 1] = g[n] \o f[n + 1]
    <3>1. n + 1 \in 1 .. n + 1 /\ n + 1 # 1 /\ (n + 1) - 1 = n BY <1>4
    <3> QED BY <1>1, <3>1 DEF Partial
  <2>5. n \in 1 .. n BY <1>4
  <2> QED BY <1>1, <2>2, <2>3, <2>4, <2>5
<1> QED BY <1>3, <1>4

\* Flattened lists hold the entries of the lists.
LEMMA FlattenType ==
  ASSUME NEW S, NEW m \in Nat, NEW f \in [1 .. m -> Seq(S)]
  PROVE  FlattenSeq(f) \in Seq(S)
<1>1. CASE m = 0
  <2>1. f = <<>> BY <1>1
  <2>2. <<>> \in Seq(S) OBVIOUS
  <2> QED BY <2>1, <2>2, FlattenEmpty, Zenon
<1>2. CASE m > 0
  <2>1. PICK g : Partial(S, f, m, g) /\ FlattenSeq(f) = g[m] BY <1>2, FlattenPartial
  <2> QED BY <1>2, <2>1 DEF Partial
<1> QED BY <1>1, <1>2

-----------------------------------------------------------------------------
\* Counting queries.

\* The positions of the queries.
Draws(events) == {i \in DOMAIN events : IsDraw(events[i])}

\* A list of events has finitely many queries.
LEMMA DrawsFinite ==
  ASSUME NEW S, NEW a \in Seq(S)
  PROVE  IsFiniteSet(Draws(a)) /\ DrawCount(a) = Cardinality(Draws(a)) /\ DrawCount(a) \in Nat
<1>1. Draws(a) \in SUBSET (1 .. Len(a)) /\ Len(a) \in Nat BY DEF Draws
<1>2. IsFiniteSet(1 .. Len(a)) BY <1>1, FS_Interval
<1>3. IsFiniteSet(Draws(a)) BY <1>1, <1>2, FS_Subset
<1>4. DrawCount(a) = Cardinality(Draws(a)) BY DEF DrawCount, Draws
<1> QED BY <1>3, <1>4, FS_CardinalityType

\* Shifted positions are as many.
LEMMA ShiftFinite ==
  ASSUME NEW B \in SUBSET Nat, IsFiniteSet(B), NEW n \in Nat,
         NEW C, C = {n + i : i \in B}
  PROVE  IsFiniteSet(C) /\ Cardinality(C) = Cardinality(B)
<1> DEFINE f == [i \in B |-> n + i]
<1>1. f \in [B -> C] OBVIOUS
<1>2. \A i, j \in B : f[i] = f[j] => i = j OBVIOUS
<1>3. \A c \in C : \E i \in B : f[i] = c OBVIOUS
<1> HIDE DEF f
<1>4. f \in Bijection(B, C)
  BY <1>1, <1>2, <1>3 DEF Bijection, Injection, Surjection, IsInjective
<1>5. ExistsBijection(B, C) BY <1>4 DEF ExistsBijection
<1> QED BY <1>5, FS_Bijection

\* The grinding cursor advances by the queries of the events appended
\* (TranscriptGrinding cursor of both sides).
LEMMA CountConcat ==
  ASSUME NEW S, NEW a \in Seq(S), NEW b \in Seq(S)
  PROVE  DrawCount(a \o b) = DrawCount(a) + DrawCount(b)
<1> DEFINE C == {Len(a) + i : i \in Draws(b)}
<1>1. /\ IsFiniteSet(Draws(a)) /\ DrawCount(a) = Cardinality(Draws(a)) /\ DrawCount(a) \in Nat
      /\ IsFiniteSet(Draws(b)) /\ DrawCount(b) = Cardinality(Draws(b)) /\ DrawCount(b) \in Nat
  BY DrawsFinite
<1>2. a \o b \in Seq(S) BY ConcatFacts
<1>3. DrawCount(a \o b) = Cardinality(Draws(a \o b)) BY <1>2, DrawsFinite
<1>4. Draws(b) \in SUBSET Nat /\ Len(a) \in Nat BY DEF Draws
<1>5. IsFiniteSet(C) /\ Cardinality(C) = Cardinality(Draws(b)) BY <1>1, <1>4, ShiftFinite, ZenonT(30)
<1>6. Draws(a \o b) = Draws(a) \cup C
  <2>1. ASSUME NEW i \in Draws(a \o b) PROVE i \in Draws(a) \cup C
    <3>1. i \in 1 .. Len(a) + Len(b) /\ IsDraw((a \o b)[i]) BY <2>1, ConcatFacts DEF Draws
    <3>2. CASE i <= Len(a) BY <3>1, <3>2, ConcatFacts DEF Draws
    <3>3. CASE i > Len(a)
      <4>1. i - Len(a) \in 1 .. Len(b) /\ i = Len(a) + (i - Len(a)) BY <3>1, <3>3, ConcatFacts
      <4>2. b[i - Len(a)] = (a \o b)[i] BY <4>1, ConcatFacts
      <4>3. i - Len(a) \in Draws(b) BY <3>1, <4>1, <4>2, ConcatFacts DEF Draws
      <4> QED BY <4>1, <4>3
    <3> QED BY <3>1, <3>2, <3>3, ConcatFacts
  <2>2. Draws(a) \subseteq Draws(a \o b)
    BY ConcatFacts DEF Draws
  <2>3. ASSUME NEW i \in Draws(b) PROVE Len(a) + i \in Draws(a \o b)
    <3>1. i \in 1 .. Len(b) /\ IsDraw(b[i]) BY <2>3, ConcatFacts DEF Draws
    <3>2. (a \o b)[Len(a) + i] = b[i] BY <3>1, ConcatFacts
    <3>3. Len(a) + i \in DOMAIN (a \o b) BY <3>1, ConcatFacts
    <3> QED BY <3>1, <3>2, <3>3 DEF Draws
  <2> QED BY <2>1, <2>2, <2>3
<1>7. Draws(a) \cap C = {}
  <2>1. \A i \in Draws(a) : i \in Nat /\ i <= Len(a) BY DEF Draws
  <2>2. \A i \in Draws(b) : i \in Nat /\ i > 0 BY DEF Draws
  <2> QED BY <1>4, <2>1, <2>2
<1> HIDE DEF C
<1>8. Cardinality(Draws(a) \cup C)
          = Cardinality(Draws(a)) + Cardinality(C) - Cardinality(Draws(a) \cap C)
  BY <1>1, <1>5, FS_Union
<1>9. Cardinality(Draws(a) \cap C) = 0 BY <1>7, FS_EmptySet, Zenon
<1>10. DrawCount(a \o b) = DrawCount(a) + DrawCount(b) - 0
  BY <1>1, <1>3, <1>5, <1>6, <1>8, <1>9
<1> QED BY <1>1, <1>10

\* A prefix of two lists appended that ends in the second.
LEMMA SubSeqConcat ==
  ASSUME NEW S, NEW a \in Seq(S), NEW b \in Seq(S)
  PROVE  /\ \A i \in 1 .. Len(a) : SubSeq(a \o b, 1, i) = SubSeq(a, 1, i)
         /\ \A i \in 1 .. Len(b) : SubSeq(a \o b, 1, Len(a) + i) = a \o SubSeq(b, 1, i)
         /\ \A i \in 1 .. Len(a) : SubSeq(a, 1, i) \in Seq(S)
OBVIOUS

\* The plan index of a query in a list appended to another.
LEMMA IndexConcat ==
  ASSUME NEW S, NEW a \in Seq(S), NEW b \in Seq(S)
  PROVE  /\ \A i \in 1 .. Len(a) : DrawCount(SubSeq(a \o b, 1, i)) = DrawCount(SubSeq(a, 1, i))
         /\ \A i \in 1 .. Len(b) :
              DrawCount(SubSeq(a \o b, 1, Len(a) + i))
                  = DrawCount(a) + DrawCount(SubSeq(b, 1, i))
<1>1. \A i \in 1 .. Len(b) : SubSeq(b, 1, i) \in Seq(S) BY SubSeqConcat
<1>2. ASSUME NEW i \in 1 .. Len(a)
      PROVE  DrawCount(SubSeq(a \o b, 1, i)) = DrawCount(SubSeq(a, 1, i))
  <2>1. SubSeq(a \o b, 1, i) = SubSeq(a, 1, i) BY SubSeqConcat
  <2> QED BY <2>1
<1>3. ASSUME NEW i \in 1 .. Len(b)
      PROVE  DrawCount(SubSeq(a \o b, 1, Len(a) + i))
             = DrawCount(a) + DrawCount(SubSeq(b, 1, i))
  <2>1. SubSeq(a \o b, 1, Len(a) + i) = a \o SubSeq(b, 1, i) BY SubSeqConcat
  <2>2. DrawCount(a \o SubSeq(b, 1, i)) = DrawCount(a) + DrawCount(SubSeq(b, 1, i))
    BY <1>1, CountConcat
  <2> QED BY <2>1, <2>2
<1> QED BY <1>2, <1>3

-----------------------------------------------------------------------------
\* On plan, and the same shape.

\* The draws of these events are exactly these places, in this order.
Covers(e, p) ==
  /\ e \in Seq(EventSet) /\ p \in Seq(Places)
  /\ DrawCount(e) = Len(p)
  /\ \A i \in 1 .. Len(e) : IsDraw(e[i]) =>
       DrawCount(SubSeq(e, 1, i)) \in 1 .. Len(p) /\ e[i][2] = p[DrawCount(SubSeq(e, 1, i))]

\* Event lists that make exactly the queries of two pieces of plan make those
\* of the pieces appended.
LEMMA CoversConcat ==
  ASSUME NEW a, NEW b, NEW p, NEW q, Covers(a, p), Covers(b, q)
  PROVE  Covers(a \o b, p \o q)
<1>1. a \in Seq(EventSet) /\ b \in Seq(EventSet) /\ p \in Seq(Places) /\ q \in Seq(Places)
  BY DEF Covers
<1>2. /\ a \o b \in Seq(EventSet) /\ Len(a \o b) = Len(a) + Len(b)
      /\ Len(a) \in Nat /\ Len(b) \in Nat
      /\ \A i \in 1 .. Len(a) : (a \o b)[i] = a[i]
      /\ \A i \in 1 .. Len(b) : (a \o b)[Len(a) + i] = b[i]
  BY <1>1, ConcatFacts
<1>3. /\ p \o q \in Seq(Places) /\ Len(p \o q) = Len(p) + Len(q)
      /\ Len(p) \in Nat /\ Len(q) \in Nat
      /\ \A i \in 1 .. Len(p) : (p \o q)[i] = p[i]
      /\ \A i \in 1 .. Len(q) : (p \o q)[Len(p) + i] = q[i]
  BY <1>1, ConcatFacts
<1>4. DrawCount(a \o b) = Len(p \o q) BY <1>1, <1>3, CountConcat DEF Covers
<1>5. ASSUME NEW i \in 1 .. Len(a) + Len(b), IsDraw((a \o b)[i])
      PROVE  /\ DrawCount(SubSeq(a \o b, 1, i)) \in 1 .. Len(p \o q)
             /\ (a \o b)[i][2] = (p \o q)[DrawCount(SubSeq(a \o b, 1, i))]
  <2>1. CASE i <= Len(a)
    <3>1. i \in 1 .. Len(a) /\ (a \o b)[i] = a[i] BY <1>2, <2>1
    <3>2. DrawCount(SubSeq(a \o b, 1, i)) = DrawCount(SubSeq(a, 1, i))
      BY <1>1, <3>1, IndexConcat
    <3>3. DrawCount(SubSeq(a, 1, i)) \in 1 .. Len(p) /\ a[i][2] = p[DrawCount(SubSeq(a, 1, i))]
      BY <1>5, <3>1 DEF Covers
    <3>4. (p \o q)[DrawCount(SubSeq(a, 1, i))] = p[DrawCount(SubSeq(a, 1, i))] BY <1>3, <3>3
    <3> QED BY <1>3, <3>1, <3>2, <3>3, <3>4
  <2>2. CASE i > Len(a)
    <3> DEFINE k == i - Len(a)
    <3>1. k \in 1 .. Len(b) /\ i = Len(a) + k BY <1>2, <2>2
    <3> HIDE DEF k
    <3>2. (a \o b)[i] = b[k] BY <1>2, <3>1
    <3>3. DrawCount(SubSeq(a \o b, 1, i)) = Len(p) + DrawCount(SubSeq(b, 1, k))
      <4>1. DrawCount(SubSeq(a \o b, 1, Len(a) + k))
                = DrawCount(a) + DrawCount(SubSeq(b, 1, k))
        BY <1>1, <3>1, IndexConcat
      <4> QED BY <3>1, <4>1 DEF Covers
    <3>4. DrawCount(SubSeq(b, 1, k)) \in 1 .. Len(q) /\ b[k][2] = q[DrawCount(SubSeq(b, 1, k))]
      BY <1>5, <3>1, <3>2 DEF Covers
    <3>5. (p \o q)[Len(p) + DrawCount(SubSeq(b, 1, k))] = q[DrawCount(SubSeq(b, 1, k))]
      BY <1>3, <3>4
    <3> QED BY <1>3, <3>2, <3>3, <3>4, <3>5
  <2> QED BY <1>2, <2>1, <2>2
<1> QED BY <1>2, <1>3, <1>4, <1>5 DEF Covers

\* Lists of the same shape appended have the same shape.
LEMMA SameConcat ==
  ASSUME NEW a, NEW b, NEW c, NEW d, Same(a, c), Same(b, d)
  PROVE  Same(a \o b, c \o d)
<1>1. /\ a \in Seq(EventSet) /\ b \in Seq(EventSet) /\ c \in Seq(EventSet)
          /\ d \in Seq(EventSet)
      /\ Len(a) = Len(c) /\ Len(b) = Len(d)
  BY DEF Same
<1>2. /\ a \o b \in Seq(EventSet) /\ Len(a \o b) = Len(a) + Len(b)
      /\ Len(a) \in Nat /\ Len(b) \in Nat
      /\ \A i \in 1 .. Len(a) : (a \o b)[i] = a[i]
      /\ \A i \in 1 .. Len(b) : (a \o b)[Len(a) + i] = b[i]
  <2>1. a \in Seq(EventSet) /\ b \in Seq(EventSet) BY <1>1
  <2> QED BY <2>1, ConcatFacts
<1>3. /\ c \o d \in Seq(EventSet) /\ Len(c \o d) = Len(c) + Len(d)
      /\ \A i \in 1 .. Len(c) : (c \o d)[i] = c[i]
      /\ \A i \in 1 .. Len(d) : (c \o d)[Len(c) + i] = d[i]
  <2>1. c \in Seq(EventSet) /\ d \in Seq(EventSet) BY <1>1
  <2> QED BY <2>1, ConcatFacts
<1>4. ASSUME NEW i \in 1 .. Len(c) + Len(d)
      PROVE  (a \o b)[i][1] = (c \o d)[i][1] /\ (a \o b)[i][2] = (c \o d)[i][2]
  <2>1. CASE i <= Len(a)
    <3>1. i \in 1 .. Len(a) BY <1>1, <1>2, <2>1
    <3> QED BY <1>1, <1>2, <1>3, <3>1 DEF Same
  <2>2. CASE i > Len(a)
    <3> DEFINE k == i - Len(a)
    <3>1. k \in 1 .. Len(b) /\ i = Len(a) + k BY <1>1, <1>2, <2>2
    <3> HIDE DEF k
    <3> QED BY <1>1, <1>2, <1>3, <3>1 DEF Same
  <2> QED BY <1>1, <1>2, <2>1, <2>2
<1> QED BY <1>1, <1>2, <1>3, <1>4 DEF Same

\* Events of the same shape make the same draws.
LEMMA SameDraws ==
  ASSUME NEW v, NEW e, Same(v, e)
  PROVE  /\ DrawCount(v) = DrawCount(e)
         /\ \A i \in 1 .. Len(e) : DrawCount(SubSeq(v, 1, i)) = DrawCount(SubSeq(e, 1, i))
<1>1. /\ v \in Seq(EventSet) /\ e \in Seq(EventSet) /\ Len(v) = Len(e) /\ Len(e) \in Nat
      /\ \A i \in 1 .. Len(e) : v[i][1] = e[i][1]
  BY DEF Same
<1>2. DOMAIN v = DOMAIN e /\ \A i \in DOMAIN e : v[i][1] = e[i][1] BY <1>1
<1>3. {i \in DOMAIN v : IsDraw(v[i])} = {i \in DOMAIN e : IsDraw(e[i])}
  BY <1>2, Zenon DEF IsDraw
<1>4. ASSUME NEW n \in 1 .. Len(e)
      PROVE DrawCount(SubSeq(v, 1, n)) = DrawCount(SubSeq(e, 1, n))
  <2>1. /\ DOMAIN SubSeq(v, 1, n) = 1 .. n /\ DOMAIN SubSeq(e, 1, n) = 1 .. n
        /\ \A i \in 1 .. n : SubSeq(v, 1, n)[i] = v[i] /\ SubSeq(e, 1, n)[i] = e[i]
        /\ 1 .. n \subseteq DOMAIN e
    BY <1>1
  <2>2. {i \in DOMAIN SubSeq(v, 1, n) : IsDraw(SubSeq(v, 1, n)[i])}
          = {i \in DOMAIN SubSeq(e, 1, n) : IsDraw(SubSeq(e, 1, n)[i])}
    BY <1>2, <2>1, Zenon DEF IsDraw
  <2> QED BY <2>2, Zenon DEF DrawCount
<1> QED BY <1>3, <1>4, Zenon DEF DrawCount

\* A list has its own shape.
LEMMA SameRefl == ASSUME NEW e \in Seq(EventSet) PROVE Same(e, e)
BY DEF Same

\* Stage by stage on plan means on plan altogether.
LEMMA FlattenCovers ==
  ASSUME NEW m \in Nat, NEW f \in [1 .. m -> Seq(EventSet)], NEW g \in [1 .. m -> Seq(Places)],
         \A i \in 1 .. m : Covers(f[i], g[i])
  PROVE  Covers(FlattenSeq(f), FlattenSeq(g))
<1> DEFINE T == {n \in Nat : \A a \in [1 .. n -> Seq(EventSet)],
        b \in [1 .. n -> Seq(Places)] :
                   (\A i \in 1 .. n : Covers(a[i], b[i]))
                       => Covers(FlattenSeq(a), FlattenSeq(b))}
<1>1. 0 \in T
  <2> SUFFICES ASSUME NEW a \in [1 .. 0 -> Seq(EventSet)], NEW b \in [1 .. 0 -> Seq(Places)]
               PROVE  Covers(FlattenSeq(a), FlattenSeq(b))
    OBVIOUS
  <2>1. a = <<>> /\ b = <<>> OBVIOUS
  <2>2. Covers(<<>>, <<>>)
    <3>1. DrawCount(<<>>) = 0 BY FS_EmptySet DEF DrawCount
    <3> QED BY <3>1 DEF Covers
  <2> QED BY <2>1, <2>2, FlattenEmpty
<1>2. ASSUME NEW n \in Nat, n \in T PROVE n + 1 \in T
  <2> SUFFICES ASSUME NEW a \in [1 .. n + 1 -> Seq(EventSet)],
          NEW b \in [1 .. n + 1 -> Seq(Places)],
                      \A i \in 1 .. n + 1 : Covers(a[i], b[i])
               PROVE  Covers(FlattenSeq(a), FlattenSeq(b))
    <3>1. n + 1 \in Nat OBVIOUS
    <3> QED BY <3>1, Zenon
  <2> DEFINE c == [i \in 1 .. n |-> a[i]]
             d == [i \in 1 .. n |-> b[i]]
  <2>1. c \in [1 .. n -> Seq(EventSet)] /\ d \in [1 .. n -> Seq(Places)]
        /\ \A i \in 1 .. n : Covers(c[i], d[i])
    OBVIOUS
  <2>2. FlattenSeq(a) = FlattenSeq(c) \o a[n + 1] BY FlattenSnoc
  <2>3. FlattenSeq(b) = FlattenSeq(d) \o b[n + 1] BY FlattenSnoc
  <2> HIDE DEF c, d
  <2>4. Covers(FlattenSeq(c), FlattenSeq(d)) BY <1>2, <2>1
  <2>5. Covers(a[n + 1], b[n + 1]) OBVIOUS
  <2> QED BY <2>2, <2>3, <2>4, <2>5, CoversConcat
<1>3. m \in T
  <2> HIDE DEF T
  <2> QED BY <1>1, <1>2, SetInduction
<1> QED BY <1>3

-----------------------------------------------------------------------------
\* Facts about schedules.

\* The largest arity of a level's groups exists.
LEMMA MaxExists ==
  ASSUME NEW M \in Nat, NEW S \in SUBSET (0 .. M), S # {}
  PROVE  Max(S) \in S
<1> DEFINE T == {M - x : x \in S}
<1>1. T \in SUBSET Nat /\ T # {}
  <2>1. \A x \in S : M - x \in Nat OBVIOUS
  <2>2. PICK x \in S : TRUE OBVIOUS
  <2>3. M - x \in T BY <2>2
  <2> QED BY <2>1, <2>3
<1>2. PICK m \in T : \A k \in T : m <= k BY <1>1, Least
<1>3. PICK x \in S : m = M - x BY <1>2
<1>4. \A y \in S : x >= y
  <2>1. \A y \in S : M - y \in T OBVIOUS
  <2> HIDE DEF T
  <2>2. \A y \in S : M - x <= M - y BY <1>2, <1>3, <2>1
  <2>3. \A y \in S : y \in Nat OBVIOUS
  <2> QED BY <2>2, <2>3
<1> QED BY <1>4, Zenon DEF Max

\* The sum that PolyCount is defined by.
Summed(w, n, f) == f \in [0 .. n -> Nat] /\ f[0] = 0
    /\ \A i \in 1 .. n : f[i] = f[i - 1] + w[i].polys

\* The running sum PolyCount is defined by exists.
LEMMA SumExists ==
  ASSUME NEW w \in Seq(Groups)
  PROVE  \E f : Summed(w, Len(w), f)
<1> DEFINE T == {n \in Nat : n <= Len(w) => \E f : Summed(w, n, f)}
<1>0. \A i \in 1 .. Len(w) : w[i].polys \in Nat
  <2>1. \A i \in 1 .. Len(w) : w[i] \in Groups OBVIOUS
  <2> QED BY <2>1 DEF Groups
<1>1. 0 \in T
  <2>1. Summed(w, 0, [i \in 0 .. 0 |-> 0]) BY DEF Summed
  <2> QED BY <2>1
<1>2. ASSUME NEW n \in Nat, n \in T PROVE n + 1 \in T
  <2> SUFFICES ASSUME n + 1 <= Len(w) PROVE \E f : Summed(w, n + 1, f) OBVIOUS
  <2>0. Len(w) \in Nat OBVIOUS
  <2>1. PICK f : Summed(w, n, f) BY <1>2, <2>0
  <2> DEFINE h == [i \in 0 .. n + 1 |-> IF i <= n THEN f[i] ELSE f[n] + w[n + 1].polys]
  <2>2. w[n + 1].polys \in Nat /\ f[n] \in Nat BY <1>0, <2>0, <2>1 DEF Summed
  <2>3. h \in [0 .. n + 1 -> Nat] /\ h[0] = 0 BY <2>1, <2>2 DEF Summed
  <2>4. ASSUME NEW i \in 1 .. n + 1 PROVE h[i] = h[i - 1] + w[i].polys
    <3>1. CASE i <= n
      <4>1. h[i] = f[i] /\ h[i - 1] = f[i - 1] /\ i \in 1 .. n BY <3>1
      <4>2. f[i] = f[i - 1] + w[i].polys BY <2>1, <4>1, Zenon DEF Summed
      <4> QED BY <4>1, <4>2
    <3>2. CASE i = n + 1
      <4>1. h[i] = f[n] + w[n + 1].polys /\ h[i - 1] = f[n] BY <3>2
      <4> QED BY <3>2, <4>1
    <3> QED BY <3>1, <3>2
  <2>5. Summed(w, n + 1, h) BY <2>3, <2>4 DEF Summed
  <2> QED BY <2>5
<1>3. Len(w) \in T
  <2>1. Len(w) \in Nat OBVIOUS
  <2> HIDE DEF T
  <2> QED BY <1>1, <1>2, <2>1, SetInduction
<1> QED BY <1>3

\* PolyCount is that running sum's last value, a natural, and at least the
\* group count.
LEMMA PolyCountFacts ==
  ASSUME NEW s, NEW l, OpenedGroups(s, l) \in Seq(Groups)
  PROVE  /\ PolyCount(s, l) \in Nat
         /\ Len(OpenedGroups(s, l)) = 1 => PolyCount(s, l) = OpenedGroups(s, l)[1].polys
         /\ Len(OpenedGroups(s, l)) = 2 =>
              PolyCount(s, l) = OpenedGroups(s, l)[1].polys + OpenedGroups(s, l)[2].polys
<1> DEFINE w == OpenedGroups(s, l)
           n == Len(w)
           Rec(f) == f = [g \in 0 .. n |-> IF g = 0 THEN 0 ELSE f[g - 1] + w[g].polys]
           c == CHOOSE f : Rec(f)
<1>1. PolyCount(s, l) = c[n] BY Zenon DEF PolyCount
<1>2. w \in Seq(Groups) OBVIOUS
<1>3. PICK f : Summed(w, n, f)
  <2> HIDE DEF w
  <2> QED BY <1>2, SumExists
<1>4. n \in Nat BY <1>2
<1>5. \A i \in 1 .. n : w[i].polys \in Nat
  <2> HIDE DEF w
  <2>1. \A i \in 1 .. n : w[i] \in Groups BY <1>2
  <2> QED BY <2>1 DEF Groups
<1> HIDE DEF w, n
<1>6. Rec(f)
  <2>1. DOMAIN f = 0 .. n /\ f[0] = 0 /\ \A i \in 1 .. n : f[i] = f[i - 1] + w[i].polys
    BY <1>3 DEF Summed
  <2>2. \A i \in 0 .. n : i # 0 => i \in 1 .. n BY <1>4
  <2>3. \A i \in 0 .. n : f[i] = IF i = 0 THEN 0 ELSE f[i - 1] + w[i].polys
    BY <2>1, <2>2, Zenon
  <2>4. [i \in 0 .. n |-> f[i]] = [i \in 0 .. n |-> IF i = 0 THEN 0 ELSE f[i - 1] + w[i].polys]
    BY <2>3, Zenon
  <2>8. f \in [0 .. n -> Nat] BY <1>3, Zenon DEF Summed
  <2>5. f = [i \in 0 .. n |-> f[i]] BY <2>8, Zenon
  <2> DEFINE A == [i \in 0 .. n |-> f[i]]
             B == [g \in 0 .. n |-> IF g = 0 THEN 0 ELSE f[g - 1] + w[g].polys]
  <2>6. f = A /\ A = B BY <2>4, <2>5, Zenon
  <2> HIDE DEF A
  <2>7. f = B
    <3> HIDE DEF B
    <3> QED BY <2>6
  <2> QED BY <2>7
<1>7. Rec(c)
  <2> HIDE DEF Rec
  <2> QED BY <1>6
<1> HIDE DEF c
<1>8. c[0] = 0 BY <1>4, <1>7
<1>9. \A i \in 1 .. n : c[i] = c[i - 1] + w[i].polys
  <2>1. \A i \in 1 .. n : i \in 0 .. n /\ i # 0 BY <1>4
  <2>2. \A i \in 0 .. n : c[i] = IF i = 0 THEN 0 ELSE c[i - 1] + w[i].polys BY <1>7
  <2> QED BY <2>1, <2>2
<1> HIDE DEF Rec
<1>10. c[n] \in Nat
  <2> DEFINE T == {i \in Nat : i <= n => c[i] \in Nat}
  <2>1. 0 \in T BY <1>8
  <2>2. ASSUME NEW i \in Nat, i \in T PROVE i + 1 \in T
    <3> SUFFICES ASSUME i + 1 <= n PROVE c[i + 1] \in Nat OBVIOUS
    <3>1. i + 1 \in 1 .. n /\ (i + 1) - 1 = i /\ c[i] \in Nat BY <1>4, <2>2
    <3>2. c[i + 1] = c[i] + w[i + 1].polys BY <1>9, <3>1
    <3> QED BY <1>5, <3>1, <3>2
  <2>3. Nat \subseteq T
    <3> HIDE DEF T
    <3> QED BY <2>1, <2>2, SetInduction
  <2> QED BY <1>4, <2>3
<1>11. n = 1 => c[n] = w[1].polys
  BY <1>5, <1>8, <1>9
<1>12. ASSUME n = 2 PROVE c[n] = w[1].polys + w[2].polys
  <2>1. 1 \in 1 .. n /\ 2 \in 1 .. n BY <1>12
  <2>2. c[1] = c[0] + w[1].polys /\ c[2] = c[1] + w[2].polys BY <1>9, <2>1
  <2>3. w[1].polys \in Nat BY <1>5, <2>1
  <2> QED BY <1>8, <1>12, <2>2, <2>3
<1> QED BY <1>1, <1>10, <1>11, <1>12 DEF w, n

\* What ScheduleAssumption says of the levels of a schedule.
LEMMA LevelFacts ==
  ASSUME NEW s \in Schedules
  PROVE  /\ LevelCount(s) \in Nat \ {0} /\ Terminal(s) = LevelCount(s) + 1 /\ SplitBits(s) \in Nat
         /\ \A l \in 1 .. LevelCount(s) :
              /\ s.levels[l].groups \in Seq(Groups) /\ Len(s.levels[l].groups) > 0
              /\ s.levels[l].products \in Nat
              /\ s.levels[l].rounds \in 1 .. MaxVars
              /\ s.levels[l].prefix \in BOOLEAN /\ s.levels[l].compressed \in BOOLEAN
              /\ s.levels[l].route \in Routes
<1>1. s \in [split : Nat, levels : Seq(Levels), blocks : Nat \ {0}] /\ Legal(s)
  BY ScheduleAssumption
<1>2. s.levels \in Seq(Levels) /\ SplitBits(s) \in Nat BY <1>1 DEF SplitBits
<1>3. LevelCount(s) = Len(s.levels) /\ Len(s.levels) \in Nat BY <1>2 DEF LevelCount
<1>4. Len(s.levels) > 0 /\ \A l \in 1 .. Len(s.levels) : s.levels[l].groups # <<>>
  BY <1>1 DEF Legal
<1>5. \A l \in 1 .. Len(s.levels) : s.levels[l] \in Levels BY <1>2
<1>6. \A l \in 1 .. Len(s.levels) :
        /\ s.levels[l].groups \in Seq(Groups)
        /\ s.levels[l].products \in Nat
        /\ s.levels[l].rounds \in 1 .. MaxVars
        /\ s.levels[l].prefix \in BOOLEAN /\ s.levels[l].compressed \in BOOLEAN
        /\ s.levels[l].route \in Routes
  BY <1>5 DEF Levels
<1>7. \A l \in 1 .. Len(s.levels) : Len(s.levels[l].groups) > 0
  BY <1>4, <1>6
<1> QED BY <1>2, <1>3, <1>4, <1>6, <1>7 DEF Terminal

\* Every level opens at least one group, of bounded arity.
LEMMA GroupFacts ==
  ASSUME NEW s \in Schedules, NEW l \in 1 .. Terminal(s)
  PROVE  /\ OpenedGroups(s, l) \in Seq(Groups) /\ Len(OpenedGroups(s, l)) > 0
         /\ \A g \in 1 .. Len(OpenedGroups(s, l)) :
              /\ OpenedGroups(s, l)[g].vars \in 1 .. MaxVars
              /\ OpenedGroups(s, l)[g].polys \in Nat /\ OpenedGroups(s, l)[g].blocks \in Nat
         /\ PolyCount(s, l) \in Nat /\ (Reduces(s, l) => EorRounds(s, l) \in Nat)
<1>1. OpenedGroups(s, l) \in Seq(Groups) /\ Len(OpenedGroups(s, l)) > 0
  <2>1. CASE l = Terminal(s)
    <3>1. l - 1 \in 1 .. LevelCount(s) BY <2>1, LevelFacts
    <3>2. s.levels[l - 1].rounds \in 1 .. MaxVars BY <3>1, LevelFacts
    <3>3. s.blocks \in Nat \ {0} BY ScheduleAssumption
    <3>4. [polys |-> 1, vars |-> s.levels[l - 1].rounds, blocks |-> s.blocks] \in Groups
      BY <3>2, <3>3 DEF Groups
    <3> QED BY <2>1, <3>4 DEF OpenedGroups
  <2>2. CASE l # Terminal(s)
    <3>1. l \in 1 .. LevelCount(s) BY <2>2, LevelFacts
    <3> QED BY <2>2, <3>1, LevelFacts DEF OpenedGroups
  <2> QED BY <2>1, <2>2
<1> DEFINE w == OpenedGroups(s, l)
           S == {w[g].vars : g \in DOMAIN w}
<1>2. \A g \in 1 .. Len(w) : w[g].vars \in 1 .. MaxVars /\ w[g].polys \in Nat
          /\ w[g].blocks \in Nat
  <2> HIDE DEF w
  <2>1. w \in Seq(Groups) BY <1>1 DEF w
  <2>2. \A g \in 1 .. Len(w) : w[g] \in Groups BY <2>1
  <2> QED BY <2>2 DEF Groups
<1>3. MaxArity(s, l) = Max(S) BY DEF MaxArity
<1>4. MaxVars \in Nat BY ScheduleAssumption
<1>5. DOMAIN w = 1 .. Len(w) /\ Len(w) \in Nat /\ Len(w) > 0 BY <1>1
<1> HIDE DEF w
<1>6. S \subseteq 1 .. MaxVars /\ S # {} BY <1>2, <1>5
<1> HIDE DEF S
<1>7. S \in SUBSET (0 .. MaxVars) BY <1>4, <1>6
<1>8. Max(S) \in S BY <1>4, <1>6, <1>7, MaxExists
<1>9. Max(S) \in 1 .. MaxVars BY <1>6, <1>8
<1>10. ASSUME Reduces(s, l) PROVE EorRounds(s, l) \in Nat
  <2>1. \A g \in DOMAIN w : w[g].vars >= SplitBits(s)
    <3>1. Legal(s) /\ l \in 1 .. Len(s.levels) + 1
      BY ScheduleAssumption DEF Terminal, LevelCount
    <3> QED BY <1>10, <3>1 DEF Legal, w
  <2>2. Max(S) >= SplitBits(s) BY <1>8, <2>1 DEF S
  <2> QED BY <1>3, <1>4, <1>9, <2>2, LevelFacts DEF EorRounds
<1>11. PolyCount(s, l) \in Nat BY <1>1, PolyCountFacts
<1> QED BY <1>1, <1>2, <1>10, <1>11 DEF w

\* What the structure of a schedule says about reductions, setup prefixes and
\* the number of claims.
LEMMA ShapeFacts ==
  ASSUME NEW s \in Schedules
  PROVE  /\ ~Reduces(s, 1) /\ ~s.levels[1].prefix
         /\ \A l \in 1 .. LevelCount(s) : s.levels[l].method = "packing" <=> l <= 2
         /\ \A l \in 1 .. LevelCount(s) : s.levels[l].method = "packing" => ~Reduces(s, l)
         /\ \A l \in 2 .. LevelCount(s) : PolyCount(s, l) = IF s.levels[l].prefix THEN 2 ELSE 1
         /\ PolyCount(s, Terminal(s)) = 1
         /\ \A l \in 1 .. LevelCount(s) : Defers(s, l) => PrefixVars(s, l) \in Nat
<1>1. Legal(s) BY ScheduleAssumption
<1>2. LevelCount(s) = Len(s.levels) /\ LevelCount(s) \in Nat \ {0}
          /\ Terminal(s) = LevelCount(s) + 1
  BY LevelFacts DEF LevelCount
<1>3. ~s.levels[1].prefix BY <1>1 DEF Legal
<1>4. \A l \in 1 .. LevelCount(s) : s.levels[l].method = "packing" <=> l <= 2
  BY <1>1, <1>2 DEF Legal
<1>5. \A l \in 1 .. LevelCount(s) : s.levels[l].method = "packing" => ~Reduces(s, l)
  BY <1>2 DEF Reduces
<1>6. ~Reduces(s, 1) BY <1>2, <1>4, <1>5
<1>7. ASSUME NEW l \in 2 .. LevelCount(s)
      PROVE PolyCount(s, l) = IF s.levels[l].prefix THEN 2 ELSE 1
  <2>1. /\ Len(s.levels[l].groups) = IF s.levels[l].prefix THEN 2 ELSE 1
        /\ \A g \in 1 .. Len(s.levels[l].groups) : s.levels[l].groups[g].polys = 1
    BY <1>1, <1>2 DEF Legal
  <2>2. OpenedGroups(s, l) = s.levels[l].groups BY <1>2 DEF OpenedGroups
  <2>3. OpenedGroups(s, l) \in Seq(Groups) BY <1>2, GroupFacts
  <2>4. CASE s.levels[l].prefix
    <3>1. Len(OpenedGroups(s, l)) = 2 BY <2>1, <2>2, <2>4
    <3>2. OpenedGroups(s, l)[1].polys = 1 /\ OpenedGroups(s, l)[2].polys = 1
      BY <2>1, <2>2, <3>1
    <3> QED BY <2>3, <2>4, <3>1, <3>2, PolyCountFacts
  <2>5. CASE ~s.levels[l].prefix
    <3>1. Len(OpenedGroups(s, l)) = 1 BY <2>1, <2>2, <2>5
    <3>2. OpenedGroups(s, l)[1].polys = 1 BY <2>1, <2>2, <3>1
    <3> QED BY <2>3, <2>5, <3>1, <3>2, PolyCountFacts
  <2> QED BY <2>4, <2>5
<1>8. PolyCount(s, Terminal(s)) = 1
  <2>1. OpenedGroups(s, Terminal(s)) \in Seq(Groups) BY <1>2, GroupFacts
  <2>2. Len(OpenedGroups(s, Terminal(s))) = 1 /\ OpenedGroups(s, Terminal(s))[1].polys = 1
    BY DEF OpenedGroups
  <2> QED BY <2>1, <2>2, PolyCountFacts
<1>9. ASSUME NEW l \in 1 .. LevelCount(s), Defers(s, l) PROVE PrefixVars(s, l) \in Nat
  <2>1. l + 1 \in 1 .. Terminal(s) BY <1>2
  <2>2. Len(OpenedGroups(s, l + 1)) \in Nat /\ Len(OpenedGroups(s, l + 1)) > 0
    BY <2>1, GroupFacts
  <2>3. OpenedGroups(s, l + 1)[1].vars \in 1 .. MaxVars
    BY <2>1, <2>2, GroupFacts
  <2> QED BY <2>3, ScheduleAssumption DEF PrefixVars
<1> QED BY <1>3, <1>4, <1>5, <1>6, <1>7, <1>8, <1>9

-----------------------------------------------------------------------------
\* Every step makes the planned queries.

\* The names of messages and queries are names.
LEMMA NameFacts ==
  /\ "CompressionBinary" \in Names /\ "Eor" \in Names /\ "EvaluationBatch" \in Names
  /\ "ExtensionOpeningClaimBatch" \in Names /\ "ExtensionOpeningPoint" \in Names
  /\ "FoldChallengeGroup" \in Names /\ "FoldResponse" \in Names
  /\ "L2NormMerge" \in Names /\ "L2SubclaimBatch" \in Names /\ "L2VirtualBatch" \in Names
  /\ "PhysicalL2" \in Names /\ "RingSwitchAlpha" \in Names /\ "Stage1" \in Names
  /\ "Stage1InterstageBatch" \in Names /\ "Stage2" \in Names /\ "Stage2Batch" \in Names
  /\ "Stage3" \in Names /\ "Tau0Point" \in Names /\ "Tau1Point" \in Names
  /\ "child_claims" \in Names /\ "commitment" \in Names /\ "descriptor" \in Names
  /\ "e_hat" \in Names /\ "eor_final" \in Names /\ "eor_partials" \in Names
  /\ "next_binding" \in Names /\ "next_payload" \in Names /\ "next_w_eval" \in Names
  /\ "norm_integer" \in Names /\ "norm_subclaims" \in Names /\ "norm_virtual" \in Names
  /\ "payload" \in Names /\ "points" \in Names /\ "prefix_slot" \in Names
  /\ "range_image" \in Names /\ "setup_claim" \in Names /\ "setup_prefix_eval" \in Names
  /\ "shape" \in Names /\ "t_fields" \in Names /\ "values" \in Names
  /\ "w_remainder" \in Names
BY DEF Names

\* A place made of a level, a name and indices is a place.
LEMMA SiteType ==
  ASSUME NEW l \in Nat, NEW name \in Names, NEW i \in Nat, NEW r \in Nat
  PROVE  Site(l, name, i, r) \in Places
BY DEF Site, Places

\* A list of one entry.
LEMMA Single ==
  ASSUME NEW S, NEW x \in S
  PROVE  <<x>> \in Seq(S) /\ Len(<<x>>) = 1 /\ <<x>>[1] = x
OBVIOUS

\* A function on 1 .. n is a list.
LEMMA MapSeq ==
  ASSUME NEW S, NEW n \in Nat, NEW f \in [1 .. n -> S]
  PROVE  f \in Seq(S) /\ Len(f) = n
OBVIOUS

\* A list is its front and its last entry.
LEMMA MapSnoc ==
  ASSUME NEW S, NEW n \in Nat, NEW f \in [1 .. n + 1 -> S], NEW h, h = [i \in 1 .. n |-> f[i]]
  PROVE  f = h \o <<f[n + 1]>>
OBVIOUS

\* The place of a message sent once per level.
LEMMA AtType ==
  ASSUME NEW l \in Nat, NEW name \in Names
  PROVE  At(l, name) \in Seq(Places) /\ Len(At(l, name)) = 1
<1>1. Site(l, name, 0, 0) \in Places BY SiteType
<1> QED BY <1>1, Single DEF At

\* No places.
LEMMA EmptyPlaces == <<>> \in Seq(Places)
OBVIOUS

\* What absorbing or querying at given places appends to a transcript.
LEMMA SaysType ==
  ASSUME NEW p \in Seq(Places)
  PROVE  /\ Says(p) \in Seq(EventSet) /\ Derives(p) \in Seq(EventSet)
            /\ Asks(p) \in Seq(EventSet)
         /\ Len(Says(p)) = Len(p) /\ Len(Derives(p)) = Len(p) /\ Len(Asks(p)) = Len(p)
         /\ \A i \in 1 .. Len(p) : /\ Says(p)[i] = <<"absorb", p[i], "good">>
                                   /\ Derives(p)[i] = <<"absorb", p[i], "drawn">>
                                   /\ Asks(p)[i] = <<"draw", p[i], "good">>
<1>1. Len(p) \in Nat /\ DOMAIN p = 1 .. Len(p) /\ \A i \in 1 .. Len(p) : p[i] \in Places
  OBVIOUS
<1>2. \A x \in Places : /\ <<"absorb", x, "good">> \in EventSet
                        /\ <<"absorb", x, "drawn">> \in EventSet
                        /\ <<"draw", x, "good">> \in EventSet
  BY DEF EventSet
<1>3. /\ Says(p) = [i \in 1 .. Len(p) |-> <<"absorb", p[i], "good">>]
      /\ Derives(p) = [i \in 1 .. Len(p) |-> <<"absorb", p[i], "drawn">>]
      /\ Asks(p) = [i \in 1 .. Len(p) |-> <<"draw", p[i], "good">>]
  BY <1>1 DEF Says, Derives, Asks, Event
<1>4. Says(p) \in Seq(EventSet) /\ Len(Says(p)) = Len(p)
  BY <1>1, <1>2, <1>3
<1>5. Derives(p) \in Seq(EventSet) /\ Len(Derives(p)) = Len(p)
  BY <1>1, <1>2, <1>3
<1>6. Asks(p) \in Seq(EventSet) /\ Len(Asks(p)) = Len(p)
  BY <1>1, <1>2, <1>3
<1> QED BY <1>1, <1>3, <1>4, <1>5, <1>6

\* Events without a query need no plan.
LEMMA QuietCovers ==
  ASSUME NEW e \in Seq(EventSet), \A i \in 1 .. Len(e) : e[i][1] = "absorb"
  PROVE  Covers(e, <<>>)
<1>1. Draws(e) = {} /\ \A i \in 1 .. Len(e) : ~IsDraw(e[i])
  BY DEF Draws, IsDraw
<1>2. DrawCount(e) = 0
  BY <1>1, DrawsFinite, FS_EmptySet
<1> QED BY <1>1, <1>2 DEF Covers

\* No events need no plan.
LEMMA EmptyCovers == Covers(<<>>, <<>>)
<1>1. <<>> \in Seq(EventSet) /\ \A i \in 1 .. Len(<<>>) : <<>>[i][1] = "absorb" OBVIOUS
<1> HIDE <1>1
<1> DEFINE e == <<>>
<1>2. e \in Seq(EventSet) /\ \A i \in 1 .. Len(e) : e[i][1] = "absorb" BY <1>1
<1> HIDE DEF e
<1>3. Covers(e, <<>>) BY <1>2, QuietCovers
<1> QED BY <1>3 DEF e

\* Absorbed messages need no plan.
LEMMA SaysCovers ==
  ASSUME NEW p \in Seq(Places)
  PROVE  Covers(Says(p), <<>>) /\ Covers(Derives(p), <<>>)
<1>1. /\ Says(p) \in Seq(EventSet) /\ Len(Says(p)) = Len(p)
      /\ \A i \in 1 .. Len(p) : Says(p)[i] = <<"absorb", p[i], "good">>
  BY SaysType
<1>2. /\ Derives(p) \in Seq(EventSet) /\ Len(Derives(p)) = Len(p)
      /\ \A i \in 1 .. Len(p) : Derives(p)[i] = <<"absorb", p[i], "drawn">>
  BY SaysType
<1>3. \A i \in 1 .. Len(Says(p)) : Says(p)[i][1] = "absorb" BY <1>1
<1>4. \A i \in 1 .. Len(Derives(p)) : Derives(p)[i][1] = "absorb" BY <1>2
<1>5. Covers(Says(p), <<>>) BY <1>1, <1>3, QuietCovers
<1>6. Covers(Derives(p), <<>>) BY <1>2, <1>4, QuietCovers
<1> QED BY <1>5, <1>6

\* A list of queries counts them all.
LEMMA AllDraws ==
  ASSUME NEW e \in Seq(EventSet), \A i \in 1 .. Len(e) : e[i][1] = "draw"
  PROVE  DrawCount(e) = Len(e)
<1>1. Draws(e) = 1 .. Len(e) /\ Len(e) \in Nat
  BY DEF Draws, IsDraw
<1>2. DrawCount(e) = Cardinality(Draws(e)) BY DrawsFinite
<1>3. Cardinality(1 .. Len(e)) = Len(e)
  <2> DEFINE n == Len(e)
  <2>1. 1 \in Int /\ n \in Int /\ n \in Nat BY <1>1
  <2> HIDE DEF n
  <2>2. Cardinality(1 .. n) = IF 1 > n THEN 0 ELSE n - 1 + 1 BY <2>1, FS_Interval, Zenon
  <2>3. Cardinality(1 .. n) = n BY <2>1, <2>2
  <2> QED BY <2>3 DEF n
<1> QED BY <1>1, <1>2, <1>3

\* Queries at given places need exactly those places of the plan.
LEMMA AsksCovers ==
  ASSUME NEW p \in Seq(Places)
  PROVE  Covers(Asks(p), p)
<1> DEFINE e == Asks(p)
<1>1. /\ e \in Seq(EventSet) /\ Len(e) = Len(p) /\ Len(p) \in Nat
      /\ \A i \in 1 .. Len(e) : e[i] = <<"draw", p[i], "good">>
  BY SaysType
<1> HIDE DEF e
<1>2. DrawCount(e) = Len(p) BY <1>1, AllDraws
<1>3. ASSUME NEW i \in 1 .. Len(e) PROVE DrawCount(SubSeq(e, 1, i)) = i
  <2>1. SubSeq(e, 1, i) \in Seq(EventSet) /\ Len(SubSeq(e, 1, i)) = i
        /\ \A k \in 1 .. i : SubSeq(e, 1, i)[k][1] = "draw"
    BY <1>1
  <2> QED BY <2>1, AllDraws
<1>4. \A i \in 1 .. Len(e) : DrawCount(SubSeq(e, 1, i)) \in 1 .. Len(p)
                             /\ e[i][2] = p[DrawCount(SubSeq(e, 1, i))]
  BY <1>1, <1>3
<1>5. Covers(e, p) BY <1>1, <1>2, <1>4 DEF Covers
<1> QED BY <1>5 DEF e

\* A message or a query made once per level.
LEMMA AtCovers ==
  ASSUME NEW l \in Nat, NEW name \in Names
  PROVE  /\ Covers(Says(At(l, name)), <<>>) /\ Covers(Derives(At(l, name)), <<>>)
         /\ Covers(Asks(At(l, name)), At(l, name))
BY AtType, SaysCovers, AsksCovers

\* An optional part is on plan if its queries are planned under the same
\* condition.
LEMMA WhenCovers ==
  ASSUME NEW c, NEW e, NEW p, c => Covers(e, p)
  PROVE  Covers(When(c, e), When(c, p))
BY EmptyCovers DEF When

\* Silence before or after does not change what is covered.
LEMMA QuietConcat ==
  ASSUME NEW a, NEW b, NEW p, Covers(a, p), Covers(b, <<>>)
  PROVE  Covers(a \o b, p) /\ Covers(b \o a, p)
<1>1. p \in Seq(Places) BY DEF Covers
<1>2. Covers(a \o b, p \o <<>>) /\ Covers(b \o a, <<>> \o p) BY CoversConcat
<1> QED BY <1>1, <1>2, EmptyConcat

\* The places of a sumcheck's rounds.
LEMMA RoundsType ==
  ASSUME NEW l \in Nat, NEW name \in Names, NEW i \in Nat, NEW n \in Nat
  PROVE  Rounds(l, name, i, n) \in Seq(Places)
<1>1. ASSUME NEW r \in 1 .. n PROVE Site(l, name, i, r) \in Places
  <2>1. r \in Nat OBVIOUS
  <2> QED BY <2>1, SiteType
<1>2. Rounds(l, name, i, n) \in [1 .. n -> Places] BY <1>1 DEF Rounds
<1> QED BY <1>2, MapSeq

\* One round more.
LEMMA RoundsSnoc ==
  ASSUME NEW l \in Nat, NEW name \in Names, NEW i \in Nat, NEW n \in Nat
  PROVE  Rounds(l, name, i, n + 1) = Rounds(l, name, i, n) \o <<Site(l, name, i, n + 1)>>
<1> DEFINE place(r) == Site(l, name, i, r)
           x == [r \in 1 .. n + 1 |-> place(r)]
           y == [r \in 1 .. n |-> place(r)]
<1>1. \A r \in Nat : place(r) \in Places BY SiteType
<1>2. Rounds(l, name, i, n + 1) = x /\ Rounds(l, name, i, n) = y BY DEF Rounds
<1> HIDE DEF place
<1>3. x \in [1 .. n + 1 -> Places] /\ x[n + 1] = place(n + 1) BY <1>1
<1>4. y = [r \in 1 .. n |-> x[r]] OBVIOUS
<1> HIDE DEF x, y
<1>5. x = y \o <<x[n + 1]>> BY <1>3, <1>4, MapSnoc
<1> QED BY <1>2, <1>3, <1>5 DEF place

\* A sumcheck makes the queries planned for its rounds (SumcheckInstanceProver
\* rounds against append_sumcheck_rounds).
LEMMA RoundsCovers ==
  ASSUME NEW l \in Nat, NEW name \in Names, NEW i \in Nat, NEW n \in Nat
  PROVE  Covers(SaysRounds(l, name, i, n), Rounds(l, name, i, n))
<1> DEFINE piece(r) == Says(<<Site(l, name, i, r)>>) \o Asks(<<Site(l, name, i, r)>>)
           T == {k \in Nat : Covers(SaysRounds(l, name, i, k), Rounds(l, name, i, k))}
<1>1. \A r \in Nat : Covers(piece(r), <<Site(l, name, i, r)>>)
  <2> SUFFICES ASSUME NEW r \in Nat PROVE Covers(piece(r), <<Site(l, name, i, r)>>) OBVIOUS
  <2>1. <<Site(l, name, i, r)>> \in Seq(Places)
    <3>1. Site(l, name, i, r) \in Places BY SiteType
    <3> QED BY <3>1, Single
  <2>2. Covers(Says(<<Site(l, name, i, r)>>), <<>>)
            /\ Covers(Asks(<<Site(l, name, i, r)>>), <<Site(l, name, i, r)>>)
    BY <2>1, SaysCovers, AsksCovers
  <2> QED BY <2>2, QuietConcat
<1>2. \A r \in Nat : piece(r) \in Seq(EventSet) BY <1>1 DEF Covers
<1>3. \A k \in Nat : SaysRounds(l, name, i, k) = FlattenSeq([r \in 1 .. k |-> piece(r)])
  BY DEF SaysRounds
<1> HIDE DEF piece
<1>4. 0 \in T
  <2>1. [r \in 1 .. 0 |-> piece(r)] = <<>> OBVIOUS
  <2>2. SaysRounds(l, name, i, 0) = <<>> BY <1>3, <2>1, FlattenEmpty
  <2>3. Rounds(l, name, i, 0) = <<>> BY DEF Rounds
  <2> QED BY <2>2, <2>3, EmptyCovers
<1>5. ASSUME NEW k \in Nat, k \in T PROVE k + 1 \in T
  <2> DEFINE m == k + 1
             f == [r \in 1 .. m |-> piece(r)]
             h == [r \in 1 .. k |-> piece(r)]
  <2>1. m \in Nat /\ f \in [1 .. k + 1 -> Seq(EventSet)] /\ f[k + 1] = piece(m) BY <1>2
  <2>2. h = [r \in 1 .. k |-> f[r]] OBVIOUS
  <2>3. FlattenSeq(f) = FlattenSeq(h) \o f[k + 1]
    <3> HIDE DEF f, h
    <3> QED BY <2>1, <2>2, FlattenSnoc
  <2>4. SaysRounds(l, name, i, m) = SaysRounds(l, name, i, k) \o piece(m)
    <3>1. SaysRounds(l, name, i, m) = FlattenSeq(f)
              /\ SaysRounds(l, name, i, k) = FlattenSeq(h)
      BY <1>3, <2>1
    <3> QED BY <3>1, <2>1, <2>3
  <2>5. Rounds(l, name, i, m) = Rounds(l, name, i, k) \o <<Site(l, name, i, m)>>
    BY RoundsSnoc
  <2>6. Covers(SaysRounds(l, name, i, k), Rounds(l, name, i, k)) BY <1>5
  <2>7. Covers(piece(m), <<Site(l, name, i, m)>>) BY <1>1, <2>1
  <2>8. Covers(SaysRounds(l, name, i, m), Rounds(l, name, i, m))
    BY <2>4, <2>5, <2>6, <2>7, CoversConcat
  <2> HIDE DEF m
  <2>9. m \in T BY <2>1, <2>8
  <2> QED BY <2>9 DEF m
<1> HIDE DEF T
<1>6. Nat \subseteq T BY <1>4, <1>5, SetInduction
<1> QED BY <1>6 DEF T

\* The places of the fold challenges.
LEMMA FoldGroupsType ==
  ASSUME NEW s \in Schedules, NEW l \in 1 .. Terminal(s)
  PROVE  FoldGroups(s, l) \in Seq(Places)
<1> DEFINE w == OpenedGroups(s, l)
           n == Len(w)
           place(g) == Site(l, "FoldChallengeGroup", g, w[g].polys * w[g].blocks)
<1>1. l \in Nat /\ n \in Nat /\ DOMAIN w = 1 .. n
      /\ \A g \in 1 .. n : w[g].polys \in Nat /\ w[g].blocks \in Nat
  BY GroupFacts, LevelFacts
<1>2. FoldGroups(s, l) = [g \in DOMAIN w |-> place(g)] BY DEF FoldGroups
<1> HIDE DEF w, n
<1>3. ASSUME NEW g \in 1 .. n PROVE place(g) \in Places
  <2>1. g \in Nat /\ w[g].polys * w[g].blocks \in Nat BY <1>1
  <2> QED BY <1>1, <2>1, SiteType, NameFacts
<1> HIDE DEF place
<1>4. [g \in DOMAIN w |-> place(g)] \in [1 .. n -> Places] BY <1>1, <1>3
<1> QED BY <1>1, <1>2, <1>4, MapSeq

\* The places of a level's claims.
LEMMA ClaimsType ==
  ASSUME NEW s \in Schedules, NEW l \in 1 .. Terminal(s)
  PROVE  /\ ClaimSites(s, l) \in [1 .. PolyCount(s, l) -> Places]
         /\ FinalClaims(s, l) \in [1 .. PolyCount(s, l) -> Places]
         /\ PolyCount(s, l) \in Nat
         /\ ClaimSites(s, l) \in Seq(Places) /\ FinalClaims(s, l) \in Seq(Places)
         /\ Len(ClaimSites(s, l)) = PolyCount(s, l)
<1> DEFINE n == PolyCount(s, l)
<1>1. l \in Nat /\ n \in Nat BY GroupFacts, LevelFacts
<1> HIDE DEF n
<1>2. ASSUME NEW i \in 1 .. n
      PROVE Site(l, "values", i, 0) \in Places /\ Site(l, "eor_final", i, 0) \in Places
  <2>1. i \in Nat /\ 0 \in Nat BY <1>1
  <2> QED BY <1>1, <2>1, SiteType, NameFacts
<1>3. ClaimSites(s, l) \in [1 .. n -> Places] /\ FinalClaims(s, l) \in [1 .. n -> Places]
  BY <1>2 DEF ClaimSites, FinalClaims, n
<1>4. ClaimSites(s, l) \in Seq(Places) /\ FinalClaims(s, l) \in Seq(Places)
          /\ Len(ClaimSites(s, l)) = n
  BY <1>1, <1>3, MapSeq
<1> QED BY <1>1, <1>3, <1>4 DEF n

\* The places of the root's commitments.
LEMMA RootCommitmentsType ==
  ASSUME NEW s \in Schedules
  PROVE  RootCommitments(s) \in Seq(Places)
<1> DEFINE w == OpenedGroups(s, 1)
           n == Len(w)
<1>1. 1 \in 1 .. Terminal(s) BY LevelFacts
<1>2. n \in Nat /\ DOMAIN w = 1 .. n BY <1>1, GroupFacts
<1>3. RootCommitments(s) = [g \in DOMAIN w |-> Site(1, "commitment", g, 0)]
  BY DEF RootCommitments
<1> HIDE DEF w, n
<1>4. ASSUME NEW g \in 1 .. n PROVE Site(1, "commitment", g, 0) \in Places
  <2>1. g \in Nat /\ 0 \in Nat /\ 1 \in Nat BY <1>2
  <2> QED BY <2>1, SiteType, NameFacts
<1>5. RootCommitments(s) \in [1 .. n -> Places] BY <1>2, <1>3, <1>4
<1> QED BY <1>2, <1>5, MapSeq

\* Binding the root statement makes no query.
LEMMA RootCovers ==
  ASSUME NEW s \in Schedules
  PROVE  Covers(RootEvents(s), <<>>)
<1> DEFINE a == Says(At(1, "shape"))
           b == Says(RootCommitments(s))
           c == Says(At(1, "points"))
           d == Says(ClaimSites(s, 1))
<1>1. RootEvents(s) = a \o b \o c \o d BY DEF RootEvents
<1>2. Covers(a, <<>>) /\ Covers(c, <<>>) BY AtCovers, NameFacts
<1>3. Covers(b, <<>>) BY RootCommitmentsType, SaysCovers
<1>4. Covers(d, <<>>)
  <2>1. 1 \in 1 .. Terminal(s) BY LevelFacts
  <2> QED BY <2>1, ClaimsType, SaysCovers
<1> HIDE DEF a, b, c, d
<1>5. Covers(a \o b, <<>>) BY <1>2, <1>3, QuietConcat
<1>6. Covers(a \o b \o c, <<>>) BY <1>2, <1>5, QuietConcat
<1> QED BY <1>1, <1>4, <1>6, QuietConcat

\* Rebinding the incoming witness makes no query.
LEMMA ClaimCovers ==
  ASSUME NEW s \in Schedules, NEW l \in 1 .. Terminal(s)
  PROVE  Covers(ClaimEvents(s, l), <<>>)
<1> DEFINE a == Says(At(l, "commitment"))
           p == Derives(At(l, "points"))
           b == When(~Reduces(s, l), p)
           c == Says(ClaimSites(s, l))
<1>1. ClaimEvents(s, l) = a \o b \o c BY DEF ClaimEvents
<1>2. l \in Nat BY LevelFacts
<1>3. Covers(a, <<>>) /\ Covers(p, <<>>) BY <1>2, AtCovers, NameFacts
<1>4. Covers(b, <<>>) BY <1>3, EmptyCovers DEF When
<1>5. Covers(c, <<>>) BY ClaimsType, SaysCovers
<1> HIDE DEF a, b, c
<1>6. Covers(a \o b, <<>>) BY <1>3, <1>4, QuietConcat
<1> QED BY <1>1, <1>5, <1>6, QuietConcat

\* The extension-opening reduction makes the queries append_eor plans.
LEMMA EorCovers ==
  ASSUME NEW s \in Schedules, NEW l \in 1 .. Terminal(s), Reduces(s, l)
  PROVE  Covers(EorEvents(s, l), EorPlan(s, l))
<1> DEFINE a == Says(At(l, "eor_partials"))
           b == Asks(At(l, "ExtensionOpeningPoint"))
           c == When(RowBatch(s, l), Asks(At(l, "ExtensionOpeningClaimBatch")))
           d == SaysRounds(l, "Eor", 0, EorRounds(s, l))
           e == Says(FinalClaims(s, l))
           f == Derives(At(l, "points"))
           q == At(l, "ExtensionOpeningPoint")
           r == When(RowBatch(s, l), At(l, "ExtensionOpeningClaimBatch"))
           t == Rounds(l, "Eor", 0, EorRounds(s, l))
<1>1. EorEvents(s, l) = a \o b \o c \o d \o e \o f /\ EorPlan(s, l) = q \o r \o t
  BY DEF EorEvents, EorPlan
<1>2. l \in Nat /\ EorRounds(s, l) \in Nat /\ 0 \in Nat BY GroupFacts, LevelFacts
<1>3. Covers(a, <<>>) /\ Covers(f, <<>>) /\ Covers(b, q) BY <1>2, AtCovers, NameFacts
<1>4. Covers(c, r)
  <2>1. Covers(Asks(At(l, "ExtensionOpeningClaimBatch")), At(l, "ExtensionOpeningClaimBatch"))
    BY <1>2, AtCovers, NameFacts
  <2> QED BY <2>1, WhenCovers
<1>5. Covers(d, t) BY <1>2, RoundsCovers, NameFacts
<1>6. Covers(e, <<>>) BY ClaimsType, SaysCovers
<1> HIDE DEF a, b, c, d, e, f, q, r, t
<1>7. Covers(a \o b, q) BY <1>3, QuietConcat
<1>8. Covers(a \o b \o c, q \o r) BY <1>4, <1>7, CoversConcat
<1>9. Covers(a \o b \o c \o d, q \o r \o t) BY <1>5, <1>8, CoversConcat
<1>10. Covers(a \o b \o c \o d \o e, q \o r \o t) BY <1>6, <1>9, QuietConcat
<1> QED BY <1>1, <1>3, <1>10, QuietConcat

\* The opening payload makes the planned row-batching query.
LEMMA PayloadCovers ==
  ASSUME NEW s \in Schedules, NEW l \in 1 .. Terminal(s)
  PROVE  Covers(PayloadEvents(s, l), When(RowBatch(s, l), At(l, "EvaluationBatch")))
<1>1. l \in Nat BY LevelFacts
<1>2. Covers(Says(At(l, "payload")), <<>>)
          /\ Covers(Asks(At(l, "EvaluationBatch")), At(l, "EvaluationBatch"))
  BY <1>1, AtCovers, NameFacts
<1>3. Covers(When(RowBatch(s, l), Asks(At(l, "EvaluationBatch"))),
          When(RowBatch(s, l), At(l, "EvaluationBatch")))
  BY <1>2, WhenCovers
<1> QED BY <1>2, <1>3, QuietConcat DEF PayloadEvents

\* The fold makes the queries append_fold_queries plans.
LEMMA FoldCovers ==
  ASSUME NEW s \in Schedules, NEW l \in 1 .. Terminal(s)
  PROVE  Covers(FoldEvents(s, l), FoldPlan(s, l))
<1>1. l \in Nat BY LevelFacts
<1>2. Covers(Asks(At(l, "FoldResponse")), At(l, "FoldResponse")) BY <1>1, AtCovers, NameFacts
<1>3. Covers(Asks(FoldGroups(s, l)), FoldGroups(s, l)) BY FoldGroupsType, AsksCovers
<1>4. FoldPlan(s, l) = At(l, "FoldResponse") \o FoldGroups(s, l) BY DEF FoldPlan, FoldGroups
<1> QED BY <1>2, <1>3, <1>4, CoversConcat DEF FoldEvents

\* The ring switch makes its three planned queries.
LEMMA SwitchCovers ==
  ASSUME NEW l \in Nat
  PROVE  Covers(SwitchEvents(l), At(l, "RingSwitchAlpha") \o At(l, "Tau0Point")
         \o At(l, "Tau1Point"))
<1>1. /\ Covers(Asks(At(l, "RingSwitchAlpha")), At(l, "RingSwitchAlpha"))
      /\ Covers(Asks(At(l, "Tau0Point")), At(l, "Tau0Point"))
      /\ Covers(Asks(At(l, "Tau1Point")), At(l, "Tau1Point"))
  BY AtCovers, NameFacts
<1>2. Covers(Asks(At(l, "RingSwitchAlpha")) \o Asks(At(l, "Tau0Point")),
          At(l, "RingSwitchAlpha") \o At(l, "Tau0Point"))
  BY <1>1, CoversConcat
<1> QED BY <1>1, <1>2, CoversConcat DEF SwitchEvents

\* The product stages of the range proof make the planned queries.
LEMMA ProductCovers ==
  ASSUME NEW l \in Nat, NEW m \in Nat, NEW n \in Nat
  PROVE  Covers(FlattenSeq([j \in 1 .. m |-> SaysRounds(l, "Stage1", j, n)
                    \o Says(<<Site(l, "child_claims", j, 0)>>)
                    \o Asks(<<Site(l, "Stage1InterstageBatch", j, 0)>>)]),
                FlattenSeq([j \in 1 .. m |-> Rounds(l, "Stage1", j, n)
                    \o <<Site(l, "Stage1InterstageBatch", j, 0)>>]))
<1> DEFINE x(j) == SaysRounds(l, "Stage1", j, n)
                    \o Says(<<Site(l, "child_claims", j, 0)>>)
                    \o Asks(<<Site(l, "Stage1InterstageBatch", j, 0)>>)
           y(j) == Rounds(l, "Stage1", j, n) \o <<Site(l, "Stage1InterstageBatch", j, 0)>>
           f == [j \in 1 .. m |-> x(j)]
           g == [j \in 1 .. m |-> y(j)]
<1>1. ASSUME NEW j \in Nat PROVE Covers(x(j), y(j))
  <2>1. Site(l, "child_claims", j, 0) \in Places
            /\ Site(l, "Stage1InterstageBatch", j, 0) \in Places
    BY SiteType, NameFacts
  <2>2. <<Site(l, "child_claims", j, 0)>> \in Seq(Places)
            /\ <<Site(l, "Stage1InterstageBatch", j, 0)>> \in Seq(Places)
    BY <2>1, Single
  <2>3. Covers(Says(<<Site(l, "child_claims", j, 0)>>), <<>>) BY <2>2, SaysCovers
  <2>4. Covers(Asks(<<Site(l, "Stage1InterstageBatch", j, 0)>>),
            <<Site(l, "Stage1InterstageBatch", j, 0)>>)
    BY <2>2, AsksCovers
  <2>5. Covers(SaysRounds(l, "Stage1", j, n), Rounds(l, "Stage1", j, n))
    BY RoundsCovers, NameFacts
  <2>6. Covers(SaysRounds(l, "Stage1", j, n) \o Says(<<Site(l, "child_claims", j, 0)>>),
            Rounds(l, "Stage1", j, n))
    BY <2>3, <2>5, QuietConcat
  <2> QED BY <2>4, <2>6, CoversConcat
<1>2. \A j \in Nat : x(j) \in Seq(EventSet) /\ y(j) \in Seq(Places) BY <1>1 DEF Covers
<1> HIDE DEF x, y
<1>3. /\ f \in [1 .. m -> Seq(EventSet)] /\ g \in [1 .. m -> Seq(Places)]
      /\ \A j \in 1 .. m : Covers(f[j], g[j])
  BY <1>1, <1>2
<1>4. Covers(FlattenSeq(f), FlattenSeq(g))
  <2> HIDE DEF f, g
  <2> QED BY <1>3, FlattenCovers
<1> QED BY <1>4 DEF x, y

\* Stage 1 makes the queries planned for its route.
LEMMA Stage1Covers ==
  ASSUME NEW s \in Schedules, NEW l \in 1 .. LevelCount(s)
  PROVE  Covers(Stage1Events(s, l), Stage1Plan(s, l))
<1> DEFINE p == s.levels[l]
           a == ProductEvents(s, l)
           b == When(p.route = "linf", LeafEvents(s, l))
           q == FlattenSeq([j \in 1 .. p.products |-> Rounds(l, "Stage1", j, p.rounds)
               \o <<Site(l, "Stage1InterstageBatch", j, 0)>>])
           r == When(p.route = "linf", Rounds(l, "Stage1", p.products + 1, p.rounds))
<1>1. l \in Nat /\ p.products \in Nat /\ p.products + 1 \in Nat /\ p.rounds \in Nat
  BY LevelFacts, ScheduleAssumption, SMTT(30)
<1>2. Stage1Events(s, l) = a \o b /\ Stage1Plan(s, l) = q \o r BY DEF Stage1Events, Stage1Plan
<1>3. Covers(a, q) BY <1>1, ProductCovers DEF ProductEvents
<1>4. Covers(LeafEvents(s, l), Rounds(l, "Stage1", p.products + 1, p.rounds))
  <2>1. Covers(SaysRounds(l, "Stage1", p.products + 1, p.rounds),
            Rounds(l, "Stage1", p.products + 1, p.rounds))
    BY <1>1, RoundsCovers, NameFacts
  <2>2. Covers(Says(At(l, "range_image")), <<>>) BY <1>1, AtCovers, NameFacts
  <2> QED BY <2>1, <2>2, QuietConcat DEF LeafEvents
<1>5. Covers(b, r) BY <1>4, WhenCovers
<1> HIDE DEF a, b, q, r
<1> QED BY <1>2, <1>3, <1>5, CoversConcat

\* The norm proof makes the queries planned for it.
LEMMA NormCovers ==
  ASSUME NEW s \in Schedules, NEW l \in 1 .. LevelCount(s)
  PROVE  Covers(NormEvents(s, l), NormPlan(s, l))
<1> DEFINE g == s.levels[l].route = "l2gram"
           n == s.levels[l].rounds
           a == Says(At(l, "norm_integer"))
           b == When(g, Says(At(l, "norm_subclaims")) \o Asks(At(l, "L2SubclaimBatch")))
           c == Asks(At(l, "L2NormMerge"))
           d == SaysRounds(l, "PhysicalL2", 0, n)
           e == Says(At(l, "norm_virtual"))
           f == Says(At(l, "range_image"))
           h == Asks(At(l, "L2VirtualBatch"))
           q == When(g, At(l, "L2SubclaimBatch"))
           r == At(l, "L2NormMerge")
           t == Rounds(l, "PhysicalL2", 0, n)
           u == At(l, "L2VirtualBatch")
<1>1. l \in Nat /\ n \in Nat /\ 0 \in Nat BY LevelFacts, ScheduleAssumption
<1>2. NormEvents(s, l) = a \o b \o c \o d \o e \o f \o h /\ NormPlan(s, l) = q \o r \o t \o u
  BY DEF NormEvents, NormPlan
<1>3. Covers(a, <<>>) /\ Covers(c, r) /\ Covers(e, <<>>) /\ Covers(f, <<>>) /\ Covers(h, u)
  BY <1>1, AtCovers, NameFacts
<1>4. Covers(b, q)
  <2>1. Covers(Says(At(l, "norm_subclaims")), <<>>)
            /\ Covers(Asks(At(l, "L2SubclaimBatch")), At(l, "L2SubclaimBatch"))
    BY <1>1, AtCovers, NameFacts
  <2>2. Covers(Says(At(l, "norm_subclaims")) \o Asks(At(l, "L2SubclaimBatch")),
            At(l, "L2SubclaimBatch"))
    BY <2>1, QuietConcat
  <2> QED BY <2>2, WhenCovers
<1>5. Covers(d, t) BY <1>1, RoundsCovers, NameFacts
<1> HIDE DEF a, b, c, d, e, f, h, q, r, t, u
<1>6. Covers(a \o b, q) BY <1>3, <1>4, QuietConcat
<1>7. Covers(a \o b \o c, q \o r) BY <1>3, <1>6, CoversConcat
<1>8. Covers(a \o b \o c \o d, q \o r \o t) BY <1>5, <1>7, CoversConcat
<1>9. Covers(a \o b \o c \o d \o e, q \o r \o t) BY <1>3, <1>8, QuietConcat
<1>10. Covers(a \o b \o c \o d \o e \o f, q \o r \o t) BY <1>3, <1>9, QuietConcat
<1> QED BY <1>2, <1>3, <1>10, CoversConcat

\* Stage 2 makes the planned queries.
LEMMA Stage2Covers ==
  ASSUME NEW s \in Schedules, NEW l \in 1 .. LevelCount(s)
  PROVE  Covers(Stage2Events(s, l), When(s.levels[l].compressed, At(l, "CompressionBinary"))
                \o At(l, "Stage2Batch") \o Rounds(l, "Stage2", 0, s.levels[l].rounds))
<1> DEFINE c == s.levels[l].compressed
           n == s.levels[l].rounds
           a == When(c, Asks(At(l, "CompressionBinary")))
           b == Asks(At(l, "Stage2Batch"))
           d == SaysRounds(l, "Stage2", 0, n)
           e == Says(At(l, "next_w_eval"))
           q == When(c, At(l, "CompressionBinary"))
           r == At(l, "Stage2Batch")
           t == Rounds(l, "Stage2", 0, n)
<1>1. l \in Nat /\ n \in Nat /\ 0 \in Nat BY LevelFacts, ScheduleAssumption
<1>2. Stage2Events(s, l) = a \o b \o d \o e BY DEF Stage2Events
<1>3. Covers(b, r) /\ Covers(e, <<>>) BY <1>1, AtCovers, NameFacts
<1>4. Covers(a, q)
  <2>1. Covers(Asks(At(l, "CompressionBinary")), At(l, "CompressionBinary"))
    BY <1>1, AtCovers, NameFacts
  <2> QED BY <2>1, WhenCovers
<1>5. Covers(d, t) BY <1>1, RoundsCovers, NameFacts
<1> HIDE DEF a, b, d, e, q, r, t
<1>6. Covers(a \o b, q \o r) BY <1>3, <1>4, CoversConcat
<1>7. Covers(a \o b \o d, q \o r \o t) BY <1>5, <1>6, CoversConcat
<1>8. Covers(a \o b \o d \o e, q \o r \o t) BY <1>3, <1>7, QuietConcat
<1> QED BY <1>2, <1>8 DEF q, r, t

\* A deferred setup contribution makes the planned queries.
LEMMA Stage3Covers ==
  ASSUME NEW s \in Schedules, NEW l \in 1 .. LevelCount(s), Defers(s, l)
  PROVE  Covers(Stage3Events(s, l), Rounds(l, "Stage3", 0, PrefixVars(s, l)))
<1> DEFINE n == PrefixVars(s, l)
           a == Says(At(l, "prefix_slot"))
           b == Says(At(l, "setup_claim"))
           c == SaysRounds(l, "Stage3", 0, n)
           q == Rounds(l, "Stage3", 0, n)
<1>1. l \in Nat /\ n \in Nat /\ 0 \in Nat BY LevelFacts, ShapeFacts
<1>2. Stage3Events(s, l) = a \o b \o c BY DEF Stage3Events
<1>3. Covers(a, <<>>) /\ Covers(b, <<>>) BY <1>1, AtCovers, NameFacts
<1>4. Covers(c, q) BY <1>1, RoundsCovers, NameFacts
<1> HIDE DEF a, b, c, q
<1>5. Covers(a \o b, <<>>) BY <1>3, QuietConcat
<1>6. Covers(a \o b \o c, q) BY <1>4, <1>5, QuietConcat
<1> QED BY <1>2, <1>6 DEF q

-----------------------------------------------------------------------------
\* The whole run, and its fronts.

\* The second list continues the first.
Begins(a, b) == a \in Seq(EventSet) /\ \E r \in Seq(EventSet) : b = a \o r

\* A level starts without a query.
LEMMA StartCovers ==
  ASSUME NEW s \in Schedules, NEW l \in 1 .. Terminal(s)
  PROVE  Covers(LevelStart(s, l), <<>>)
BY RootCovers, ClaimCovers DEF LevelStart

\* A level is on plan up to its reduction.
LEMMA OpenedCovers ==
  ASSUME NEW s \in Schedules, NEW l \in 1 .. Terminal(s)
  PROVE  Covers(Opened(s, l), When(Reduces(s, l), EorPlan(s, l)))
<1>1. Reduces(s, l) => Covers(EorEvents(s, l), EorPlan(s, l)) BY EorCovers
<1>2. Covers(When(Reduces(s, l), EorEvents(s, l)), When(Reduces(s, l), EorPlan(s, l)))
  BY <1>1, WhenCovers
<1> QED BY <1>2, StartCovers, QuietConcat DEF Opened

\* A level is on plan up to its fold.
LEMMA FoldedCovers ==
  ASSUME NEW s \in Schedules, NEW l \in 1 .. Terminal(s)
  PROVE  /\ Covers(Bound(s, l), When(Reduces(s, l), EorPlan(s, l))
                      \o When(l < Terminal(s) /\ RowBatch(s, l), At(l, "EvaluationBatch")))
         /\ Covers(Folded(s, l), When(Reduces(s, l), EorPlan(s, l))
                      \o When(l < Terminal(s) /\ RowBatch(s, l), At(l, "EvaluationBatch"))
                          \o FoldPlan(s, l))
<1> DEFINE a == Opened(s, l)
           p == When(Reduces(s, l), EorPlan(s, l))
           b == IF l = Terminal(s) THEN Says(At(l, "e_hat")) ELSE PayloadEvents(s, l)
           q == When(l < Terminal(s) /\ RowBatch(s, l), At(l, "EvaluationBatch"))
<1>1. Covers(a, p) BY OpenedCovers
<1>2. Covers(b, q)
  <2>1. l \in Nat /\ Terminal(s) \in Nat BY LevelFacts
  <2>2. CASE l = Terminal(s)
    <3>1. Covers(Says(At(l, "e_hat")), <<>>) BY <2>1, AtCovers, NameFacts
    <3>2. q = <<>> BY <2>1, <2>2 DEF When
    <3> QED BY <2>2, <3>1, <3>2
  <2>3. CASE l # Terminal(s)
    <3>1. q = When(RowBatch(s, l), At(l, "EvaluationBatch")) BY <2>1, <2>3 DEF When
    <3> QED BY <2>3, <3>1, PayloadCovers
  <2> QED BY <2>2, <2>3
<1>3. Bound(s, l) = a \o b /\ Folded(s, l) = Bound(s, l) \o FoldEvents(s, l)
  BY DEF Bound, Folded
<1> HIDE DEF a, b, p, q
<1>4. Covers(Bound(s, l), p \o q) BY <1>1, <1>2, <1>3, CoversConcat
<1>5. Covers(Folded(s, l), p \o q \o FoldPlan(s, l)) BY <1>3, <1>4, FoldCovers, CoversConcat
<1> QED BY <1>4, <1>5 DEF p, q

\* A nonterminal level makes the queries append_nonterminal plans.
LEMMA LevelCovers ==
  ASSUME NEW s \in Schedules, NEW l \in 1 .. LevelCount(s)
  PROVE  /\ Rebound(s, l) \in Seq(EventSet) /\ Switched(s, l) \in Seq(EventSet)
         /\ Ranged(s, l) \in Seq(EventSet) /\ Normed(s, l) \in Seq(EventSet)
         /\ Related(s, l) \in Seq(EventSet)
         /\ Covers(LevelEvents(s, l), NonterminalPlan(s, l))
<1> DEFINE p == When(Reduces(s, l), EorPlan(s, l))
                  \o When(RowBatch(s, l), At(l, "EvaluationBatch")) \o FoldPlan(s, l)
           a1 == At(l, "RingSwitchAlpha")
           a2 == At(l, "Tau0Point")
           a3 == At(l, "Tau1Point")
           q == Stage1Plan(s, l)
           r == When(s.levels[l].route # "linf", NormPlan(s, l))
           b1 == When(s.levels[l].compressed, At(l, "CompressionBinary"))
           b2 == At(l, "Stage2Batch")
           b3 == Rounds(l, "Stage2", 0, s.levels[l].rounds)
           t == When(Defers(s, l), Rounds(l, "Stage3", 0, PrefixVars(s, l)))
<1>0. /\ l \in Nat /\ l \in 1 .. Terminal(s) /\ l < Terminal(s) /\ 0 \in Nat
      /\ s.levels[l].rounds \in Nat
  <2>1. /\ LevelCount(s) \in Nat /\ Terminal(s) = LevelCount(s) + 1
        /\ s.levels[l].rounds \in 1 .. MaxVars
    BY LevelFacts
  <2>2. MaxVars \in Nat BY ScheduleAssumption
  <2> HIDE DEF p, q, r, t
  <2> QED BY <2>1, <2>2
<1>1. Covers(Folded(s, l), p)
  <2>1. When(l < Terminal(s) /\ RowBatch(s, l), At(l, "EvaluationBatch"))
            = When(RowBatch(s, l), At(l, "EvaluationBatch"))
    BY <1>0 DEF When
  <2> QED BY <1>0, <2>1, FoldedCovers
<1>2. a1 \in Seq(Places) /\ a2 \in Seq(Places) /\ a3 \in Seq(Places) /\ b2 \in Seq(Places)
  BY <1>0, AtType, NameFacts
<1>3. b1 \in Seq(Places)
  <2>1. At(l, "CompressionBinary") \in Seq(Places) BY <1>0, AtType, NameFacts
  <2> QED BY <2>1, EmptyPlaces DEF When
<1>4. b3 \in Seq(Places) BY <1>0, RoundsType, NameFacts
<1>5. Covers(Says(At(l, "next_binding")), <<>>) BY <1>0, AtCovers, NameFacts
<1>6. Covers(SwitchEvents(l), a1 \o a2 \o a3) BY <1>0, SwitchCovers
<1>7. Covers(Stage1Events(s, l), q) BY Stage1Covers
<1>8. Covers(When(s.levels[l].route # "linf", NormEvents(s, l)), r) BY NormCovers, WhenCovers
<1>9. Covers(Stage2Events(s, l), b1 \o b2 \o b3) BY Stage2Covers
<1>10. Covers(When(Defers(s, l), Stage3Events(s, l)), t)
  <2>1. Defers(s, l) => Covers(Stage3Events(s, l), Rounds(l, "Stage3", 0, PrefixVars(s, l)))
    BY Stage3Covers
  <2> QED BY <2>1, WhenCovers
<1>11. NonterminalPlan(s, l) = p \o a1 \o a2 \o a3 \o q \o r \o b1 \o b2 \o b3 \o t
  BY DEF NonterminalPlan
<1> HIDE DEF p, a1, a2, a3, q, r, b1, b2, b3, t
<1>12. Covers(Rebound(s, l), p) BY <1>1, <1>5, QuietConcat DEF Rebound
<1>13. Covers(Switched(s, l), p \o a1 \o a2 \o a3)
  <2>1. Covers(Switched(s, l), p \o (a1 \o a2 \o a3)) BY <1>6, <1>12, CoversConcat DEF Switched
  <2>2. p \in Seq(Places) BY <1>1 DEF Covers
  <2>3. p \o (a1 \o a2 \o a3) = p \o a1 \o a2 \o a3 BY <1>2, <2>2, SMTT(30)
  <2> QED BY <2>1, <2>3
<1>14. Covers(Ranged(s, l), p \o a1 \o a2 \o a3 \o q) BY <1>7, <1>13, CoversConcat DEF Ranged
<1> DEFINE u == p \o a1 \o a2 \o a3 \o q \o r
<1>15. Covers(Normed(s, l), u) BY <1>8, <1>14, CoversConcat DEF Normed
<1> HIDE DEF u
<1>16. Covers(Related(s, l), u \o b1 \o b2 \o b3)
  <2>1. Covers(Related(s, l), u \o (b1 \o b2 \o b3)) BY <1>9, <1>15, CoversConcat DEF Related
  <2>2. u \in Seq(Places) BY <1>15 DEF Covers
  <2>3. u \o (b1 \o b2 \o b3) = u \o b1 \o b2 \o b3 BY <1>2, <1>3, <1>4, <2>2, SMTT(30)
  <2> QED BY <2>1, <2>3
<1>17. Covers(LevelEvents(s, l), u \o b1 \o b2 \o b3 \o t)
  BY <1>10, <1>16, CoversConcat DEF LevelEvents
<1>18. Covers(LevelEvents(s, l), NonterminalPlan(s, l)) BY <1>11, <1>17 DEF u
<1>19. Rebound(s, l) \in Seq(EventSet) /\ Switched(s, l) \in Seq(EventSet)
  BY <1>12, <1>13 DEF Covers
<1>20. Ranged(s, l) \in Seq(EventSet) /\ Normed(s, l) \in Seq(EventSet)
  BY <1>14, <1>15 DEF Covers
<1>21. Related(s, l) \in Seq(EventSet) BY <1>16 DEF Covers
<1> QED BY <1>18, <1>19, <1>20, <1>21

\* The terminal makes the queries append_terminal plans.
LEMMA EndedCovers ==
  ASSUME NEW s \in Schedules
  PROVE  Covers(Ended(s), TerminalPlan(s))
<1> DEFINE l == Terminal(s)
           p == When(Reduces(s, l), EorPlan(s, l))
<1>1. l \in 1 .. Terminal(s) /\ l \in Nat /\ ~(l < Terminal(s)) BY LevelFacts
<1>2. Covers(Says(At(l, "w_remainder")), <<>>) BY <1>1, AtCovers, NameFacts
<1>3. Covers(Folded(s, l), p
          \o When(l < Terminal(s) /\ RowBatch(s, l), At(l, "EvaluationBatch"))
          \o FoldPlan(s, l))
  BY <1>1, FoldedCovers
<1>4. When(l < Terminal(s) /\ RowBatch(s, l), At(l, "EvaluationBatch")) = <<>> BY <1>1 DEF When
<1>5. Covers(Opened(s, l), p) BY <1>1, OpenedCovers
<1>6. p \o <<>> = p
  <2> HIDE DEF p
  <2>1. p \in Seq(Places) BY <1>5 DEF Covers
  <2> QED BY <2>1, EmptyConcat
<1>7. Covers(Folded(s, l), p \o FoldPlan(s, l)) BY <1>3, <1>4, <1>6
<1> QED BY <1>2, <1>7, QuietConcat DEF Ended, TerminalPlan

\* A whole run makes exactly the queries derive_transcript_grinding_plan lists,
\* in that order: the plan and the protocol, written separately in the code,
\* agree for every schedule.
LEMMA FullCovers ==
  ASSUME NEW s \in Schedules
  PROVE  Covers(Full(s), Plan(s)) /\ Before(s, Terminal(s)) \in Seq(EventSet)
<1> DEFINE n == LevelCount(s)
           f == [k \in 1 .. n |-> LevelEvents(s, k)]
           g == [k \in 1 .. n |-> NonterminalPlan(s, k)]
<1>1. n \in Nat /\ Terminal(s) - 1 = n BY LevelFacts
<1>2. \A k \in 1 .. n : Covers(LevelEvents(s, k), NonterminalPlan(s, k)) BY LevelCovers
<1>3. \A k \in 1 .. n : LevelEvents(s, k) \in Seq(EventSet)
          /\ NonterminalPlan(s, k) \in Seq(Places)
  BY <1>2 DEF Covers
<1>4. Before(s, Terminal(s)) = Says(At(0, "descriptor")) \o FlattenSeq(f) BY <1>1 DEF Before
<1>5. Plan(s) = FlattenSeq(g) \o TerminalPlan(s) BY DEF Plan
<1>6. f \in [1 .. n -> Seq(EventSet)] /\ g \in [1 .. n -> Seq(Places)]
          /\ \A k \in 1 .. n : Covers(f[k], g[k])
  BY <1>2, <1>3
<1> HIDE DEF f, g, n
<1>7. Covers(FlattenSeq(f), FlattenSeq(g)) BY <1>1, <1>6, FlattenCovers
<1>8. Covers(Says(At(0, "descriptor")), <<>>)
  <2>1. 0 \in Nat OBVIOUS
  <2> QED BY <2>1, AtCovers, NameFacts
<1>9. Covers(Before(s, Terminal(s)), FlattenSeq(g)) BY <1>4, <1>7, <1>8, QuietConcat
<1>10. Covers(Full(s), Plan(s)) BY <1>5, <1>9, EndedCovers, CoversConcat DEF Full
<1>11. Before(s, Terminal(s)) \in Seq(EventSet) BY <1>9 DEF Covers
<1> QED BY <1>10, <1>11

\* A list begins with its front.
LEMMA BeginsConcat ==
  ASSUME NEW a \in Seq(EventSet), NEW b \in Seq(EventSet)
  PROVE  Begins(a, a \o b)
BY DEF Begins

\* Beginning with is transitive.
LEMMA BeginsTrans ==
  ASSUME NEW a, NEW b, NEW c, Begins(a, b), Begins(b, c)
  PROVE  Begins(a, c)
<1>1. PICK q \in Seq(EventSet) : b = a \o q BY DEF Begins
<1>2. PICK r \in Seq(EventSet) : c = b \o r BY DEF Begins
<1>3. a \in Seq(EventSet) BY DEF Begins
<1>4. q \o r \in Seq(EventSet) BY ConcatFacts
<1>5. c = a \o (q \o r) BY <1>1, <1>2, <1>3, ConcatAssoc
<1> QED BY <1>3, <1>4, <1>5 DEF Begins

\* Two lists after a common front.
LEMMA BeginsAfter ==
  ASSUME NEW a, NEW b, NEW c \in Seq(EventSet), Begins(a, b)
  PROVE  Begins(c \o a, c \o b)
<1>1. PICK q \in Seq(EventSet) : b = a \o q BY DEF Begins
<1>2. a \in Seq(EventSet) BY DEF Begins
<1>3. c \o a \in Seq(EventSet) BY <1>2, ConcatFacts
<1>4. c \o b = (c \o a) \o q BY <1>1, <1>2, ConcatAssoc, SMTT(30)
<1> QED BY <1>3, <1>4 DEF Begins

\* Every list begins with nothing, and with itself.
LEMMA EmptyBegins ==
  ASSUME NEW a \in Seq(EventSet)
  PROVE  Begins(<<>>, a) /\ Begins(a, a)
<1>1. <<>> \in Seq(EventSet) OBVIOUS
<1>2. a = <<>> \o a /\ a = a \o <<>> BY EmptyConcat
<1> QED BY <1>1, <1>2 DEF Begins

\* The events of the opening steps are events.
LEMMA PieceTypes ==
  ASSUME NEW s \in Schedules, NEW l \in 1 .. Terminal(s)
  PROVE  /\ LevelStart(s, l) \in Seq(EventSet) /\ Opened(s, l) \in Seq(EventSet)
         /\ Bound(s, l) \in Seq(EventSet) /\ Folded(s, l) \in Seq(EventSet)
         /\ (Reduces(s, l) => EorEvents(s, l) \in Seq(EventSet))
         /\ PayloadEvents(s, l) \in Seq(EventSet)
         /\ FoldEvents(s, l) \in Seq(EventSet) /\ SwitchEvents(l) \in Seq(EventSet)
         /\ \A name \in Names : Says(At(l, name)) \in Seq(EventSet)
<1>1. LevelStart(s, l) \in Seq(EventSet) BY StartCovers DEF Covers
<1>2. Opened(s, l) \in Seq(EventSet) BY OpenedCovers DEF Covers
<1>3. Bound(s, l) \in Seq(EventSet) BY FoldedCovers DEF Covers
<1>4. Folded(s, l) \in Seq(EventSet) BY FoldedCovers DEF Covers
<1>5. Reduces(s, l) => EorEvents(s, l) \in Seq(EventSet) BY EorCovers DEF Covers
<1>6. PayloadEvents(s, l) \in Seq(EventSet) BY PayloadCovers DEF Covers
<1>7. FoldEvents(s, l) \in Seq(EventSet) BY FoldCovers DEF Covers
<1>8. l \in Nat BY LevelFacts
<1>9. SwitchEvents(l) \in Seq(EventSet) BY <1>8, SwitchCovers DEF Covers
<1>10. \A name \in Names : Says(At(l, name)) \in Seq(EventSet) BY <1>8, AtCovers DEF Covers
<1> QED BY <1>1, <1>2, <1>3, <1>4, <1>5, <1>6, <1>7, <1>9, <1>10

\* The events of the later stages are events.
LEMMA StageTypes ==
  ASSUME NEW s \in Schedules, NEW l \in 1 .. LevelCount(s)
  PROVE  /\ Stage1Events(s, l) \in Seq(EventSet) /\ NormEvents(s, l) \in Seq(EventSet)
         /\ Stage2Events(s, l) \in Seq(EventSet) /\ LevelEvents(s, l) \in Seq(EventSet)
         /\ Defers(s, l) => Stage3Events(s, l) \in Seq(EventSet)
<1>1. Stage1Events(s, l) \in Seq(EventSet) BY Stage1Covers DEF Covers
<1>2. NormEvents(s, l) \in Seq(EventSet) BY NormCovers DEF Covers
<1>3. Stage2Events(s, l) \in Seq(EventSet) BY Stage2Covers DEF Covers
<1>4. Defers(s, l) => Stage3Events(s, l) \in Seq(EventSet) BY Stage3Covers DEF Covers
<1>5. LevelEvents(s, l) \in Seq(EventSet) BY LevelCovers DEF Covers
<1> QED BY <1>1, <1>2, <1>3, <1>4, <1>5

\* So are those of an optional part.
LEMMA WhenType ==
  ASSUME NEW c, NEW e, c => e \in Seq(EventSet)
  PROVE  When(c, e) \in Seq(EventSet)
<1>1. <<>> \in Seq(EventSet) OBVIOUS
<1> QED BY <1>1 DEF When

\* Every section of a level is the beginning of the next one.
LEMMA FoldedBegins ==
  ASSUME NEW s \in Schedules, NEW l \in 1 .. Terminal(s)
  PROVE  /\ Begins(<<>>, Folded(s, l)) /\ Begins(LevelStart(s, l), Folded(s, l))
         /\ Begins(Opened(s, l), Folded(s, l)) /\ Begins(Bound(s, l), Folded(s, l))
         /\ Begins(Folded(s, l), Folded(s, l))
<1>1. Begins(LevelStart(s, l), Opened(s, l)) BY PieceTypes, WhenType, BeginsConcat DEF Opened
<1>2. Begins(Opened(s, l), Bound(s, l))
  <2> DEFINE b == IF l = Terminal(s) THEN Says(At(l, "e_hat")) ELSE PayloadEvents(s, l)
  <2>1. b \in Seq(EventSet) BY PieceTypes, NameFacts
  <2>2. Bound(s, l) = Opened(s, l) \o b BY DEF Bound
  <2> HIDE DEF b
  <2> QED BY <2>1, <2>2, PieceTypes, BeginsConcat
<1>3. Begins(Bound(s, l), Folded(s, l)) BY PieceTypes, BeginsConcat DEF Folded
<1>4. Begins(<<>>, Folded(s, l)) /\ Begins(Folded(s, l), Folded(s, l))
  BY PieceTypes, EmptyBegins
<1>5. Begins(Opened(s, l), Folded(s, l)) BY <1>2, <1>3, BeginsTrans
<1>6. Begins(LevelStart(s, l), Folded(s, l)) BY <1>1, <1>5, BeginsTrans
<1> QED BY <1>3, <1>4, <1>5, <1>6

\* The sections of a nonterminal level are fronts of its events.
LEMMA LevelBegins ==
  ASSUME NEW s \in Schedules, NEW l \in 1 .. LevelCount(s)
  PROVE  /\ Begins(Folded(s, l), LevelEvents(s, l)) /\ Begins(Rebound(s, l), LevelEvents(s, l))
         /\ Begins(Switched(s, l), LevelEvents(s, l))
             /\ Begins(Ranged(s, l), LevelEvents(s, l))
         /\ Begins(Normed(s, l), LevelEvents(s, l)) /\ Begins(Related(s, l), LevelEvents(s, l))
         /\ Begins(LevelEvents(s, l), LevelEvents(s, l))
<1>0. l \in 1 .. Terminal(s) BY LevelFacts
<1>1. Begins(Folded(s, l), Rebound(s, l))
  BY <1>0, PieceTypes, NameFacts, BeginsConcat DEF Rebound
<1>2. Begins(Rebound(s, l), Switched(s, l))
  BY <1>0, LevelCovers, PieceTypes, BeginsConcat DEF Switched
<1>3. Begins(Switched(s, l), Ranged(s, l)) BY LevelCovers, StageTypes, BeginsConcat DEF Ranged
<1>4. Begins(Ranged(s, l), Normed(s, l))
  BY LevelCovers, StageTypes, WhenType, BeginsConcat DEF Normed
<1>5. Begins(Normed(s, l), Related(s, l)) BY LevelCovers, StageTypes, BeginsConcat DEF Related
<1>6. Begins(Related(s, l), LevelEvents(s, l))
  BY LevelCovers, StageTypes, WhenType, BeginsConcat DEF LevelEvents
<1>7. Begins(Normed(s, l), LevelEvents(s, l)) BY <1>5, <1>6, BeginsTrans
<1>8. Begins(Ranged(s, l), LevelEvents(s, l)) BY <1>4, <1>7, BeginsTrans
<1>9. Begins(Switched(s, l), LevelEvents(s, l)) BY <1>3, <1>8, BeginsTrans
<1>10. Begins(Rebound(s, l), LevelEvents(s, l)) BY <1>2, <1>9, BeginsTrans
<1>11. Begins(Folded(s, l), LevelEvents(s, l)) BY <1>1, <1>10, BeginsTrans
<1>12. Begins(LevelEvents(s, l), LevelEvents(s, l)) BY StageTypes, EmptyBegins
<1> QED BY <1>6, <1>7, <1>8, <1>9, <1>10, <1>11, <1>12

\* All a level contributes.
Whole(s, l) == IF l = Terminal(s) THEN Ended(s) ELSE LevelEvents(s, l)

\* What a level has contributed at a step is a front of what it contributes.
LEMMA SectionBegins ==
  ASSUME NEW s \in Schedules, NEW l, NEW pc, Located(s, l, pc)
  PROVE  Begins(Section(s, l, pc), Whole(s, l)) /\ l \in 1 .. Terminal(s)
<1>1. l \in 1 .. Terminal(s) BY LevelFacts DEF Located
<1>2. Begins(Folded(s, l), Whole(s, l))
  <2>1. CASE l = Terminal(s)
    <3>1. Folded(s, l) \in Seq(EventSet) /\ Says(At(l, "w_remainder")) \in Seq(EventSet)
      BY <1>1, PieceTypes, NameFacts
    <3> QED BY <2>1, <3>1, BeginsConcat DEF Whole, Ended
  <2>2. CASE l # Terminal(s)
    <3>1. l \in 1 .. LevelCount(s) BY <1>1, <2>2, LevelFacts
    <3> QED BY <2>2, <3>1, LevelBegins DEF Whole
  <2> QED BY <2>1, <2>2
<1>3. CASE pc \in {"root", "claims"}
  <2>1. Section(s, l, pc) = <<>> BY <1>3 DEF Section
  <2> QED BY <1>1, <1>2, <2>1, FoldedBegins, BeginsTrans
<1>4. CASE pc = "eor"
  <2>1. Section(s, l, pc) = LevelStart(s, l) BY <1>4 DEF Section
  <2> QED BY <1>1, <1>2, <2>1, FoldedBegins, BeginsTrans
<1>5. CASE pc \in {"payload", "ehat"}
  <2>1. Section(s, l, pc) = Opened(s, l) BY <1>5 DEF Section
  <2> QED BY <1>1, <1>2, <2>1, FoldedBegins, BeginsTrans
<1>6. CASE pc \in {"grind", "fold", "failed"}
  <2>1. Section(s, l, pc) = Bound(s, l) BY <1>6 DEF Section
  <2> QED BY <1>1, <1>2, <2>1, FoldedBegins, BeginsTrans
<1>7. CASE pc \in {"bind", "response"}
  <2>1. Section(s, l, pc) = Folded(s, l) BY <1>7 DEF Section
  <2> QED BY <1>1, <1>2, <2>1
<1>8. CASE pc \in {"switch", "stage1", "norm", "stage2", "stage3", "advance"}
  <2>1. l \in 1 .. LevelCount(s) BY <1>8 DEF Located
  <2>2. Whole(s, l) = LevelEvents(s, l) BY <2>1, LevelFacts DEF Whole
  <2>3. Section(s, l, pc) \in {Rebound(s, l), Switched(s, l), Ranged(s, l), Normed(s, l),
            Related(s, l), LevelEvents(s, l)}
    BY <1>8 DEF Section
  <2> QED BY <1>1, <2>1, <2>2, <2>3, LevelBegins
<1>9. CASE pc \in {"finish", "proved", "accepted"}
  <2>1. l = Terminal(s) BY <1>9 DEF Located
  <2>2. Section(s, l, pc) = Ended(s) BY <1>9 DEF Section
  <2>3. Ended(s) \in Seq(EventSet) BY EndedCovers DEF Covers
  <2> QED BY <1>1, <2>1, <2>2, <2>3, EmptyBegins DEF Whole
<1> QED BY <1>1, <1>3, <1>4, <1>5, <1>6, <1>7, <1>8, <1>9 DEF Located

\* The events of earlier levels are events.
LEMMA BeforeType ==
  ASSUME NEW s \in Schedules, NEW l \in 1 .. Terminal(s)
  PROVE  Before(s, l) \in Seq(EventSet)
<1> DEFINE n == l - 1
           f == [k \in 1 .. n |-> LevelEvents(s, k)]
<1>1. n \in Nat /\ \A k \in 1 .. n : k \in 1 .. LevelCount(s) BY LevelFacts
<1>2. \A k \in 1 .. n : LevelEvents(s, k) \in Seq(EventSet) BY <1>1, StageTypes
<1>3. f \in [1 .. n -> Seq(EventSet)] BY <1>2
<1>4. Before(s, l) = Says(At(0, "descriptor")) \o FlattenSeq(f) BY DEF Before
<1> HIDE DEF f, n
<1>5. FlattenSeq(f) \in Seq(EventSet) BY <1>1, <1>3, FlattenType
<1>6. Says(At(0, "descriptor")) \in Seq(EventSet)
  <2>1. 0 \in Nat OBVIOUS
  <2>2. Covers(Says(At(0, "descriptor")), <<>>) BY <2>1, AtCovers, NameFacts
  <2> QED BY <2>2 DEF Covers
<1> QED BY <1>4, <1>5, <1>6, ConcatFacts

\* Completing a level moves on to the next.
LEMMA BeforeStep ==
  ASSUME NEW s \in Schedules, NEW l \in 1 .. LevelCount(s)
  PROVE  Before(s, l + 1) = Before(s, l) \o LevelEvents(s, l)
<1> DEFINE n == l - 1
           f == [k \in 1 .. l |-> LevelEvents(s, k)]
           h == [k \in 1 .. n |-> LevelEvents(s, k)]
           d == Says(At(0, "descriptor"))
<1>1. n \in Nat /\ l = n + 1 /\ l + 1 - 1 = l /\ \A k \in 1 .. l : k \in 1 .. LevelCount(s)
  BY LevelFacts
<1>2. \A k \in 1 .. l : LevelEvents(s, k) \in Seq(EventSet) BY <1>1, StageTypes
<1>3. f \in [1 .. n + 1 -> Seq(EventSet)] /\ f[n + 1] = LevelEvents(s, l) BY <1>1, <1>2
<1>4. h = [k \in 1 .. n |-> f[k]] BY <1>1
<1>5. Before(s, l + 1) = d \o FlattenSeq(f) BY <1>1 DEF Before
<1>6. Before(s, l) = d \o FlattenSeq(h) BY DEF Before
<1>7. h \in [1 .. n -> Seq(EventSet)] BY <1>1, <1>2
<1>8. d \in Seq(EventSet)
  <2>1. 0 \in Nat OBVIOUS
  <2>2. Covers(Says(At(0, "descriptor")), <<>>) BY <2>1, AtCovers, NameFacts
  <2> QED BY <2>2 DEF Covers
<1> HIDE DEF n, f, h, d
<1>9. FlattenSeq(f) = FlattenSeq(h) \o LevelEvents(s, l) BY <1>1, <1>3, <1>4, FlattenSnoc
<1>10. FlattenSeq(h) \in Seq(EventSet) BY <1>1, <1>7, FlattenType
<1>11. LevelEvents(s, l) \in Seq(EventSet) BY StageTypes
<1>12. d \o (FlattenSeq(h) \o LevelEvents(s, l)) = (d \o FlattenSeq(h)) \o LevelEvents(s, l)
  BY <1>8, <1>10, <1>11, ConcatAssoc
<1> QED BY <1>5, <1>6, <1>9, <1>12

\* The events before a level are a front of those before a later one.
LEMMA BeforeBegins ==
  ASSUME NEW s \in Schedules, NEW l \in 1 .. Terminal(s)
  PROVE  Begins(Before(s, l), Before(s, Terminal(s)))
<1> DEFINE t == Terminal(s)
           T == {n \in Nat : n < t => Begins(Before(s, t - n), Before(s, t))}
<1>1. t \in Nat /\ t > 0 /\ t = LevelCount(s) + 1 BY LevelFacts
<1>2. 0 \in T
  <2>1. t - 0 = t /\ t \in 1 .. Terminal(s) BY <1>1
  <2>2. Begins(Before(s, t), Before(s, t)) BY <2>1, BeforeType, EmptyBegins
  <2> QED BY <2>1, <2>2
<1>3. ASSUME NEW n \in Nat, n \in T PROVE n + 1 \in T
  <2> DEFINE m == t - (n + 1)
  <2> SUFFICES ASSUME n + 1 < t PROVE Begins(Before(s, m), Before(s, t)) OBVIOUS
  <2>1. m \in 1 .. LevelCount(s) /\ m + 1 = t - n /\ n < t
        /\ m \in 1 .. Terminal(s)
    BY <1>1, LevelFacts
  <2>2. Begins(Before(s, t - n), Before(s, t)) BY <1>3, <2>1
  <2> HIDE DEF m, t
  <2>3. Begins(Before(s, m), Before(s, m + 1))
    BY <2>1, BeforeStep, BeforeType, StageTypes, BeginsConcat
  <2> QED BY <2>1, <2>2, <2>3, BeginsTrans
<1>4. Nat \subseteq T
  <2> HIDE DEF T
  <2> QED BY <1>2, <1>3, SetInduction
<1>5. t - l \in Nat /\ t - l < t /\ t - (t - l) = l BY <1>1
<1> QED BY <1>4, <1>5

\* The transcript at any step is a front of the transcript of the whole run.
LEMMA ReachedBegins ==
  ASSUME NEW s \in Schedules, NEW l, NEW pc, Located(s, l, pc)
  PROVE  Begins(Reached(s, l, pc), Full(s)) /\ l \in 1 .. Terminal(s)
<1>1. Begins(Section(s, l, pc), Whole(s, l)) /\ l \in 1 .. Terminal(s) BY SectionBegins
<1>2. Begins(Reached(s, l, pc), Before(s, l) \o Whole(s, l))
  BY <1>1, BeforeType, BeginsAfter DEF Reached
<1>3. CASE l = Terminal(s) BY <1>1, <1>2, <1>3 DEF Whole, Full
<1>4. CASE l # Terminal(s)
  <2>1. l \in 1 .. LevelCount(s) /\ l + 1 \in 1 .. Terminal(s) BY <1>1, <1>4, LevelFacts
  <2>2. Before(s, l) \o Whole(s, l) = Before(s, l + 1) BY <1>4, <2>1, BeforeStep DEF Whole
  <2>3. Begins(Before(s, l + 1), Before(s, Terminal(s))) BY <2>1, BeforeBegins
  <2>4. Begins(Before(s, Terminal(s)), Full(s))
    <3>1. Before(s, Terminal(s)) \in Seq(EventSet) BY FullCovers
    <3>2. Ended(s) \in Seq(EventSet) BY EndedCovers DEF Covers
    <3> QED BY <3>1, <3>2, BeginsConcat DEF Full
  <2>5. Begins(Reached(s, l, pc), Before(s, Terminal(s))) BY <1>2, <2>2, <2>3, BeginsTrans
  <2> QED BY <1>1, <2>4, <2>5, BeginsTrans
<1> QED BY <1>3, <1>4

-----------------------------------------------------------------------------
\* Steps along the run.

\* Events that continue an on-plan transcript are on plan, whatever values they
\* carry: the guard of a planned query never fails.
LEMMA AheadOnPlan ==
  ASSUME NEW F, NEW d, NEW e, NEW v, Covers(F, plan), Begins(d \o e, F), Same(v, e),
         d \in Seq(EventSet)
  PROVE  /\ OnPlan(DrawCount(d), v)
         /\ \A i \in DOMAIN v : IsDraw(v[i])
             => PlanIndex(DrawCount(d), v, i) \in 1 .. Len(plan)
<1>1. /\ v \in Seq(EventSet) /\ e \in Seq(EventSet) /\ Len(v) = Len(e)
      /\ \A i \in 1 .. Len(e) : v[i][1] = e[i][1] /\ v[i][2] = e[i][2]
  BY DEF Same
<1>2. PICK r \in Seq(EventSet) : F = (d \o e) \o r BY DEF Begins
<1> DEFINE c == d \o e
<1>3. /\ c \in Seq(EventSet) /\ Len(c) = Len(d) + Len(e) /\ Len(d) \in Nat /\ Len(e) \in Nat
      /\ DOMAIN v = 1 .. Len(e)
      /\ \A i \in 1 .. Len(e) : c[Len(d) + i] = e[i]
  BY <1>1, ConcatFacts
<1>4. \A i \in 1 .. Len(e) : DrawCount(SubSeq(c, 1, Len(d) + i))
          = DrawCount(d) + DrawCount(SubSeq(e, 1, i))
  BY <1>1, IndexConcat
<1> HIDE DEF c
<1>5. /\ \A i \in 1 .. Len(c) : F[i] = c[i]
      /\ Len(F) = Len(c) + Len(r) /\ Len(r) \in Nat
  BY <1>2, <1>3, ConcatFacts DEF c
<1>6. \A i \in 1 .. Len(c) : DrawCount(SubSeq(F, 1, i)) = DrawCount(SubSeq(c, 1, i))
  <2>1. F = c \o r BY <1>2 DEF c
  <2> QED BY <1>3, <2>1, IndexConcat
<1>7. \A i \in 1 .. Len(e) : DrawCount(SubSeq(v, 1, i)) = DrawCount(SubSeq(e, 1, i))
  BY SameDraws
<1>8. \A i \in 1 .. Len(F) : IsDraw(F[i]) =>
        DrawCount(SubSeq(F, 1, i)) \in 1 .. Len(plan)
            /\ F[i][2] = plan[DrawCount(SubSeq(F, 1, i))]
  BY DEF Covers
<1>9. ASSUME NEW i \in DOMAIN v, IsDraw(v[i])
      PROVE  PlanIndex(DrawCount(d), v, i) \in 1 .. Len(plan)
             /\ plan[PlanIndex(DrawCount(d), v, i)] = v[i][2]
  <2> DEFINE k == Len(d) + i
  <2>1. i \in 1 .. Len(e) BY <1>3
  <2>2. k \in 1 .. Len(c) /\ k \in 1 .. Len(F) BY <1>3, <1>5, <2>1
  <2>3. F[k] = e[i] BY <1>3, <1>5, <2>1, <2>2
  <2>4. DrawCount(SubSeq(F, 1, k)) = DrawCount(d) + DrawCount(SubSeq(v, 1, i))
    BY <1>4, <1>6, <1>7, <2>1, <2>2
  <2>5. IsDraw(F[k]) /\ F[k][2] = v[i][2] BY <1>1, <1>9, <2>1, <2>3 DEF IsDraw
  <2> HIDE DEF k
  <2> QED BY <1>8, <2>2, <2>4, <2>5 DEF PlanIndex
<1>10. Len(plan) \in Nat BY DEF Covers
<1> QED BY <1>9, <1>10 DEF OnPlan

\* A step extends the transcript reached by its events.
LEMMA ReachedStep ==
  ASSUME NEW s \in Schedules, NEW l, NEW from, NEW to, NEW events \in Seq(EventSet),
         Located(s, l, from), Located(s, l, to), Section(s, l, to)
             = Section(s, l, from) \o events
  PROVE  /\ Reached(s, l, to) = Reached(s, l, from) \o events
         /\ Reached(s, l, from) \in Seq(EventSet)
         /\ DrawCount(Reached(s, l, to)) = DrawCount(Reached(s, l, from)) + DrawCount(events)
         /\ Begins(Reached(s, l, from) \o events, Full(s))
<1>1. Begins(Section(s, l, from), Whole(s, l)) /\ l \in 1 .. Terminal(s) BY SectionBegins
<1>2. Section(s, l, from) \in Seq(EventSet) BY <1>1 DEF Begins
<1>3. Before(s, l) \in Seq(EventSet) BY <1>1, BeforeType
<1>4. Reached(s, l, to) = Reached(s, l, from) \o events BY <1>2, <1>3, ConcatAssoc DEF Reached
<1>5. Reached(s, l, from) \in Seq(EventSet) BY <1>2, <1>3, ConcatFacts DEF Reached
<1>6. Begins(Reached(s, l, to), Full(s)) BY ReachedBegins
<1> QED BY <1>4, <1>5, <1>6, CountConcat

\* The steps of a level, their events and where they lead.
LEMMA Moves ==
  ASSUME NEW s \in Schedules
  PROVE  /\ Section(s, 1, "payload") = Section(s, 1, "root") \o RootEvents(s)
         /\ \A l \in 2 .. Terminal(s) :
              Section(s, l, IF Reduces(s, l) THEN "eor" ELSE AfterClaims(s, l))
              = Section(s, l, "claims") \o ClaimEvents(s, l)
         /\ \A l \in 2 .. Terminal(s) : Reduces(s, l) =>
              Section(s, l, AfterClaims(s, l)) = Section(s, l, "eor") \o EorEvents(s, l)
         /\ \A l \in 1 .. LevelCount(s) :
              /\ Section(s, l, "grind") = Section(s, l, "payload") \o PayloadEvents(s, l)
              /\ Section(s, l, "bind") = Section(s, l, "grind") \o FoldEvents(s, l)
              /\ Section(s, l, "switch") = Section(s, l, "bind") \o Says(At(l, "next_binding"))
              /\ Section(s, l, "stage1") = Section(s, l, "switch") \o SwitchEvents(l)
              /\ Section(s, l, IF s.levels[l].route = "linf" THEN "stage2" ELSE "norm")
                 = Section(s, l, "stage1") \o Stage1Events(s, l)
              /\ s.levels[l].route # "linf" =>
                   Section(s, l, "stage2") = Section(s, l, "norm") \o NormEvents(s, l)
              /\ Section(s, l, IF Defers(s, l) THEN "stage3" ELSE "advance")
                 = Section(s, l, "stage2") \o Stage2Events(s, l)
              /\ Defers(s, l) =>
                   Section(s, l, "advance") = Section(s, l, "stage3") \o Stage3Events(s, l)
         /\ Section(s, Terminal(s), "grind")
            = Section(s, Terminal(s), "ehat") \o Says(At(Terminal(s), "e_hat"))
         /\ Section(s, Terminal(s), "response")
            = Section(s, Terminal(s), "grind") \o FoldEvents(s, Terminal(s))
         /\ Section(s, Terminal(s), "finish")
            = Section(s, Terminal(s), "response") \o Says(At(Terminal(s), "w_remainder"))
<1>0. LevelCount(s) \in Nat \ {0} /\ Terminal(s) = LevelCount(s) + 1 BY LevelFacts
<1>1. Section(s, 1, "payload") = Section(s, 1, "root") \o RootEvents(s)
  <2>1. Section(s, 1, "root") = <<>> BY DEF Section
  <2>2. Section(s, 1, "payload") = Opened(s, 1) BY DEF Section
  <2>3. Opened(s, 1) = LevelStart(s, 1) \o <<>> BY ShapeFacts DEF Opened, When
  <2>4. LevelStart(s, 1) \in Seq(EventSet) /\ LevelStart(s, 1) = RootEvents(s)
    BY <1>0, PieceTypes DEF LevelStart
  <2> QED BY <2>1, <2>2, <2>3, <2>4, EmptyConcat
<1>2. ASSUME NEW l \in 2 .. Terminal(s)
      PROVE  Section(s, l, IF Reduces(s, l) THEN "eor" ELSE AfterClaims(s, l))
             = Section(s, l, "claims") \o ClaimEvents(s, l)
  <2>1. Section(s, l, "claims") = <<>> BY DEF Section
  <2>2. LevelStart(s, l) \in Seq(EventSet) /\ LevelStart(s, l) = ClaimEvents(s, l)
    BY <1>0, PieceTypes DEF LevelStart
  <2>3. Section(s, l, "claims") \o ClaimEvents(s, l) = LevelStart(s, l)
    BY <2>1, <2>2, EmptyConcat
  <2>4. CASE Reduces(s, l)
    <3>1. Section(s, l, "eor") = LevelStart(s, l) BY DEF Section
    <3> QED BY <2>3, <2>4, <3>1
  <2>5. CASE ~Reduces(s, l)
    <3>1. Section(s, l, AfterClaims(s, l)) = Opened(s, l) BY DEF Section, AfterClaims
    <3>2. Opened(s, l) = LevelStart(s, l) \o <<>> BY <2>5 DEF Opened, When
    <3> QED BY <2>2, <2>3, <2>5, <3>1, <3>2, EmptyConcat
  <2> QED BY <2>4, <2>5
<1>3. ASSUME NEW l \in 2 .. Terminal(s), Reduces(s, l)
      PROVE  Section(s, l, AfterClaims(s, l)) = Section(s, l, "eor") \o EorEvents(s, l)
  <2>1. Section(s, l, AfterClaims(s, l)) = Opened(s, l) BY DEF Section, AfterClaims
  <2>2. Section(s, l, "eor") = LevelStart(s, l) BY DEF Section
  <2> QED BY <1>3, <2>1, <2>2 DEF Opened, When
<1>4. ASSUME NEW l \in 1 .. LevelCount(s)
      PROVE  /\ Section(s, l, "grind") = Section(s, l, "payload") \o PayloadEvents(s, l)
             /\ Section(s, l, "bind") = Section(s, l, "grind") \o FoldEvents(s, l)
             /\ Section(s, l, "switch") = Section(s, l, "bind") \o Says(At(l, "next_binding"))
             /\ Section(s, l, "stage1") = Section(s, l, "switch") \o SwitchEvents(l)
  <2>1. Section(s, l, "grind") = Bound(s, l) /\ Section(s, l, "payload") = Opened(s, l)
    BY DEF Section
  <2>2. Section(s, l, "bind") = Folded(s, l) BY DEF Section
  <2>3. Section(s, l, "switch") = Rebound(s, l) BY DEF Section
  <2>4. Section(s, l, "stage1") = Switched(s, l) BY DEF Section
  <2>5. l # Terminal(s) BY <1>0
  <2>6. Bound(s, l) = Opened(s, l) \o PayloadEvents(s, l) BY <2>5 DEF Bound
  <2> QED BY <2>1, <2>2, <2>3, <2>4, <2>6 DEF Folded, Rebound, Switched
<1>5. ASSUME NEW l \in 1 .. LevelCount(s)
      PROVE  /\ Section(s, l, IF s.levels[l].route = "linf" THEN "stage2" ELSE "norm")
                 = Section(s, l, "stage1") \o Stage1Events(s, l)
             /\ s.levels[l].route # "linf" =>
                   Section(s, l, "stage2") = Section(s, l, "norm") \o NormEvents(s, l)
  <2>1. Section(s, l, "stage1") = Switched(s, l) BY DEF Section
  <2>2. Section(s, l, "norm") = Ranged(s, l) BY DEF Section
  <2>3. Section(s, l, "stage2") = Normed(s, l) BY DEF Section
  <2>4. Ranged(s, l) = Switched(s, l) \o Stage1Events(s, l) BY DEF Ranged
  <2>5. CASE s.levels[l].route = "linf"
    <3>1. Normed(s, l) = Ranged(s, l) \o <<>> BY <2>5 DEF Normed, When
    <3>2. Normed(s, l) = Ranged(s, l) BY <3>1, LevelCovers, EmptyConcat
    <3> QED BY <2>1, <2>3, <2>4, <2>5, <3>2
  <2>6. CASE s.levels[l].route # "linf"
    <3>1. Normed(s, l) = Ranged(s, l) \o NormEvents(s, l) BY <2>6 DEF Normed, When
    <3> QED BY <2>1, <2>2, <2>3, <2>4, <2>6, <3>1
  <2> QED BY <2>5, <2>6
<1>6. ASSUME NEW l \in 1 .. LevelCount(s)
      PROVE  /\ Section(s, l, IF Defers(s, l) THEN "stage3" ELSE "advance")
                 = Section(s, l, "stage2") \o Stage2Events(s, l)
             /\ Defers(s, l) =>
                   Section(s, l, "advance") = Section(s, l, "stage3") \o Stage3Events(s, l)
  <2>1. Section(s, l, "stage2") = Normed(s, l) BY DEF Section
  <2>2. Section(s, l, "stage3") = Related(s, l) BY DEF Section
  <2>3. Section(s, l, "advance") = LevelEvents(s, l) BY DEF Section
  <2>4. Related(s, l) = Normed(s, l) \o Stage2Events(s, l) BY DEF Related
  <2>5. CASE ~Defers(s, l)
    <3>1. LevelEvents(s, l) = Related(s, l) \o <<>> BY <2>5 DEF LevelEvents, When
    <3>2. LevelEvents(s, l) = Related(s, l) BY <3>1, LevelCovers, EmptyConcat
    <3> QED BY <2>1, <2>3, <2>4, <2>5, <3>2
  <2>6. CASE Defers(s, l)
    <3>1. LevelEvents(s, l) = Related(s, l) \o Stage3Events(s, l) BY <2>6 DEF LevelEvents, When
    <3> QED BY <2>1, <2>2, <2>3, <2>4, <2>6, <3>1
  <2> QED BY <2>5, <2>6
<1>7. /\ Section(s, Terminal(s), "grind")
         = Section(s, Terminal(s), "ehat") \o Says(At(Terminal(s), "e_hat"))
      /\ Section(s, Terminal(s), "response")
         = Section(s, Terminal(s), "grind") \o FoldEvents(s, Terminal(s))
      /\ Section(s, Terminal(s), "finish")
         = Section(s, Terminal(s), "response") \o Says(At(Terminal(s), "w_remainder"))
  <2>1. Section(s, Terminal(s), "grind") = Bound(s, Terminal(s)) BY DEF Section
  <2>2. Section(s, Terminal(s), "ehat") = Opened(s, Terminal(s)) BY DEF Section
  <2>3. Section(s, Terminal(s), "response") = Folded(s, Terminal(s)) BY DEF Section
  <2>4. Section(s, Terminal(s), "finish") = Ended(s) BY DEF Section
  <2> QED BY <2>1, <2>2, <2>3, <2>4 DEF Bound, Folded, Ended
<1> QED BY <1>1, <1>2, <1>3, <1>4, <1>5, <1>6, <1>7

\* The events of every step are events.
LEMMA EventTypes ==
  ASSUME NEW s \in Schedules
  PROVE  /\ RootEvents(s) \in Seq(EventSet)
         /\ \A l \in 1 .. Terminal(s) : ClaimEvents(s, l) \in Seq(EventSet)
         /\ Says(At(0, "descriptor")) \in Seq(EventSet)
<1>1. RootEvents(s) \in Seq(EventSet) BY RootCovers DEF Covers
<1>2. \A l \in 1 .. Terminal(s) : ClaimEvents(s, l) \in Seq(EventSet) BY ClaimCovers DEF Covers
<1>3. Says(At(0, "descriptor")) \in Seq(EventSet)
  <2>1. 0 \in Nat OBVIOUS
  <2>2. Covers(Says(At(0, "descriptor")), <<>>) BY <2>1, AtCovers, NameFacts
  <2> QED BY <2>2 DEF Covers
<1> QED BY <1>1, <1>2, <1>3

-----------------------------------------------------------------------------
\* What the prover ships.

\* The order of the steps of a level.
LEMMA RankFacts ==
  /\ Rank("root") = 0 /\ Rank("claims") = 0 /\ Rank("eor") = 1 /\ Rank("payload") = 2
  /\ Rank("ehat") = 2 /\ Rank("grind") = 3 /\ Rank("fold") = 3 /\ Rank("failed") = 3
  /\ Rank("bind") = 4 /\ Rank("response") = 4 /\ Rank("switch") = 5 /\ Rank("stage1") = 6
  /\ Rank("norm") = 7 /\ Rank("stage2") = 8 /\ Rank("stage3") = 9 /\ Rank("advance") = 10
  /\ Rank("finish") = 10 /\ Rank("proved") = 10 /\ Rank("accepted") = 10
<1>1. Rank("root") = 0 /\ Rank("claims") = 0 /\ Rank("eor") = 1 /\ Rank("payload") = 2
  BY DEF Rank
<1>2. Rank("ehat") = 2 /\ Rank("grind") = 3 /\ Rank("fold") = 3 /\ Rank("failed") = 3
  BY DEF Rank
<1>3. Rank("bind") = 4 /\ Rank("response") = 4 /\ Rank("switch") = 5 /\ Rank("stage1") = 6
  BY DEF Rank
<1>4. Rank("norm") = 7 /\ Rank("stage2") = 8 /\ Rank("stage3") = 9 BY DEF Rank
<1>5. Rank("advance") = 10 /\ Rank("finish") = 10 /\ Rank("proved") = 10
          /\ Rank("accepted") = 10
  BY DEF Rank
<1> QED BY <1>1, <1>2, <1>3, <1>4, <1>5

\* Between two steps of a level nothing is shipped but by the first of them.
Follows(s, l, from, to) ==
  \A x \in ShipSteps : Located(s, l, x) =>
    (Rank(x) < Rank(to) <=> (Rank(x) < Rank(from) \/ x = from))

\* Which steps ship between one step and the next.
LEMMA Order ==
  ASSUME NEW s \in Schedules
  PROVE  /\ Follows(s, 1, "root", "payload")
         /\ \A l \in 2 .. Terminal(s) :
              Follows(s, l, "claims", IF Reduces(s, l) THEN "eor" ELSE AfterClaims(s, l))
         /\ \A l \in 2 .. Terminal(s) : Follows(s, l, "eor", AfterClaims(s, l))
         /\ \A l \in 1 .. LevelCount(s) :
              /\ Follows(s, l, "payload", "grind")
              /\ Follows(s, l, "grind", "bind")
              /\ Follows(s, l, "bind", "switch")
              /\ Follows(s, l, "switch", "stage1")
              /\ Follows(s, l, "stage1", IF s.levels[l].route = "linf" THEN "stage2"
                  ELSE "norm")
              /\ Follows(s, l, "norm", "stage2")
              /\ Follows(s, l, "stage2", IF Defers(s, l) THEN "stage3" ELSE "advance")
              /\ Follows(s, l, "stage3", "advance")
         /\ Follows(s, Terminal(s), "ehat", "grind")
         /\ Follows(s, Terminal(s), "grind", "response")
         /\ Follows(s, Terminal(s), "response", "finish")
<1>0. LevelCount(s) \in Nat \ {0} /\ Terminal(s) = LevelCount(s) + 1 BY LevelFacts
<1>1. Follows(s, 1, "root", "payload") BY <1>0, RankFacts DEF Follows, ShipSteps, Located
<1>2. ASSUME NEW l \in 2 .. Terminal(s)
      PROVE  /\ Follows(s, l, "claims", IF Reduces(s, l) THEN "eor" ELSE AfterClaims(s, l))
             /\ Follows(s, l, "eor", AfterClaims(s, l))
  BY <1>0, RankFacts DEF Follows, ShipSteps, Located, AfterClaims
<1>3. ASSUME NEW l \in 1 .. LevelCount(s)
      PROVE  /\ Follows(s, l, "payload", "grind") /\ Follows(s, l, "grind", "bind")
             /\ Follows(s, l, "bind", "switch") /\ Follows(s, l, "switch", "stage1")
  BY <1>0, RankFacts DEF Follows, ShipSteps, Located
<1>4. ASSUME NEW l \in 1 .. LevelCount(s)
      PROVE  /\ Follows(s, l, "stage1", IF s.levels[l].route = "linf" THEN "stage2"
                ELSE "norm")
             /\ Follows(s, l, "norm", "stage2")
             /\ Follows(s, l, "stage2", IF Defers(s, l) THEN "stage3" ELSE "advance")
             /\ Follows(s, l, "stage3", "advance")
  BY <1>0, RankFacts DEF Follows, ShipSteps, Located
<1>5. /\ Follows(s, Terminal(s), "ehat", "grind")
          /\ Follows(s, Terminal(s), "grind", "response")
      /\ Follows(s, Terminal(s), "response", "finish")
  BY <1>0, RankFacts DEF Follows, ShipSteps, Located
<1> QED BY <1>1, <1>2, <1>3, <1>4, <1>5

\* What has been shipped: the messages of the steps that are due.
LEMMA SentMembers ==
  ASSUME NEW s, NEW l, NEW pc, NEW f
  PROVE  f \in Sent(s, l, pc) <=>
           \E k \in 1 .. l, x \in ShipSteps : Due(s, l, pc, k, x) /\ f \in FieldsAt(s, k, x)
<1>1. ASSUME f \in Sent(s, l, pc)
      PROVE  \E k \in 1 .. l, x \in ShipSteps : Due(s, l, pc, k, x) /\ f \in FieldsAt(s, k, x)
  <2>1. PICK z \in (1 .. l) \X ShipSteps : Due(s, l, pc, z[1], z[2])
            /\ f \in FieldsAt(s, z[1], z[2])
    BY <1>1 DEF Sent
  <2>2. z[1] \in 1 .. l /\ z[2] \in ShipSteps BY <2>1
  <2> QED BY <2>1, <2>2
<1>2. ASSUME NEW k \in 1 .. l,
          NEW x \in ShipSteps, Due(s, l, pc, k, x), f \in FieldsAt(s, k, x)
      PROVE  f \in Sent(s, l, pc)
  <2> DEFINE z == <<k, x>>
  <2>1. z \in (1 .. l) \X ShipSteps /\ z[1] = k /\ z[2] = x OBVIOUS
  <2> HIDE DEF z
  <2>2. Due(s, l, pc, z[1], z[2]) /\ f \in FieldsAt(s, z[1], z[2]) BY <1>2, <2>1
  <2> QED BY <2>1, <2>2 DEF Sent
<1> QED BY <1>1, <1>2

\* A step adds its messages to what has been shipped.
LEMMA SentStep ==
  ASSUME NEW s \in Schedules, NEW l \in 1 .. Terminal(s), NEW from, NEW to,
         Located(s, l, from), Follows(s, l, from, to)
  PROVE  Sent(s, l, to) = Sent(s, l, from) \cup FieldsAt(s, l, from)
<1>0. from \notin ShipSteps => FieldsAt(s, l, from) = {} BY DEF ShipSteps, FieldsAt
<1>1. ASSUME NEW f PROVE f \in Sent(s, l, to)
          <=> f \in Sent(s, l, from) \/ f \in FieldsAt(s, l, from)
  <2>0. l \in 1 .. l BY LevelFacts
  <2>1. ASSUME f \in Sent(s, l, to) PROVE f \in Sent(s, l, from) \/ f \in FieldsAt(s, l, from)
    <3>1. PICK k \in 1 .. l, x \in ShipSteps : Due(s, l, to, k, x) /\ f \in FieldsAt(s, k, x)
      BY <2>1, SentMembers
    <3>2. CASE k < l
      <4>0. Located(s, k, x) BY <3>1, Zenon DEF Due
      <4>1. Due(s, l, from, k, x) BY <3>2, <4>0 DEF Due
      <4> QED BY <3>1, <4>1, SentMembers
    <3>3. CASE ~(k < l)
      <4>1. Located(s, k, x) /\ k = l /\ Rank(x) < Rank(to) BY <3>1, <3>3, Zenon DEF Due
      <4>2. Located(s, l, x) BY <4>1
      <4>3. Rank(x) < Rank(from) \/ x = from BY <4>1, <4>2, Zenon DEF Follows
      <4>4. CASE x = from BY <3>1, <4>1, <4>4
      <4>5. CASE Rank(x) < Rank(from)
        <5>1. Due(s, l, from, k, x) BY <4>1, <4>5, Zenon DEF Due
        <5> QED BY <3>1, <5>1, SentMembers
      <4> QED BY <4>3, <4>4, <4>5
    <3> QED BY <3>2, <3>3
  <2>2. ASSUME f \in Sent(s, l, from) PROVE f \in Sent(s, l, to)
    <3>1. PICK k \in 1 .. l, x \in ShipSteps : Due(s, l, from, k, x) /\ f \in FieldsAt(s, k, x)
      BY <2>2, SentMembers
    <3>2. Due(s, l, to, k, x)
      <4>0. Located(s, k, x) BY <3>1, Zenon DEF Due
      <4>1. CASE k < l BY <4>0, <4>1 DEF Due
      <4>2. CASE ~(k < l)
        <5>1. Located(s, k, x) /\ k = l /\ Rank(x) < Rank(from) BY <3>1, <4>2, Zenon DEF Due
        <5>2. Located(s, l, x) BY <5>1
        <5>3. Rank(x) < Rank(to) BY <5>1, <5>2, Zenon DEF Follows
        <5> QED BY <5>1, <5>3, Zenon DEF Due
      <4> QED BY <4>1, <4>2
    <3> QED BY <3>1, <3>2, SentMembers
  <2>3. ASSUME f \in FieldsAt(s, l, from) PROVE f \in Sent(s, l, to)
    <3>1. from \in ShipSteps BY <1>0, <2>3
    <3>2. Due(s, l, to, l, from) BY <3>1 DEF Due, Follows
    <3> QED BY <2>0, <2>3, <3>1, <3>2, SentMembers
  <2> QED BY <2>1, <2>2, <2>3
<1> QED BY <1>1

\* Moving on to the next level ships nothing.
LEMMA SentAdvance ==
  ASSUME NEW s \in Schedules, NEW l \in 1 .. LevelCount(s)
  PROVE  Sent(s, l + 1, "claims") = Sent(s, l, "advance")
<1>0. l \in Nat BY LevelFacts
<1>1. ASSUME NEW k, NEW x \in ShipSteps
      PROVE  k \in 1 .. l + 1 /\ Due(s, l + 1, "claims", k, x)
             <=> k \in 1 .. l /\ Due(s, l, "advance", k, x)
  <2>1. Rank(x) \in 0 .. 9 BY RankFacts DEF ShipSteps
  <2>2. Rank("claims") = 0 /\ Rank("advance") = 10 BY RankFacts
  <2>3. (k \in 1 .. l + 1 /\ (k < l + 1 \/ (k = l + 1 /\ Rank(x) < Rank("claims"))))
        <=> (k \in 1 .. l /\ (k < l \/ (k = l /\ Rank(x) < Rank("advance"))))
    <3> DEFINE r == Rank(x)
    <3>1. (r < 0) = FALSE /\ (r < 10) = TRUE BY <2>1
    <3>2. k \in 1 .. l + 1 => k \in Int OBVIOUS
    <3>3. k \in 1 .. l => k \in Int OBVIOUS
    <3> HIDE DEF r
    <3>4. CASE k \in Int BY <1>0, <2>2, <3>1, <3>4 DEF r
    <3> QED BY <3>2, <3>3, <3>4
  <2> QED BY <2>3, Zenon DEF Due
<1>2. ASSUME NEW f PROVE f \in Sent(s, l + 1, "claims") <=> f \in Sent(s, l, "advance")
  <2>1. f \in Sent(s, l + 1, "claims") <=>
          \E k \in 1 .. l + 1, x \in ShipSteps : Due(s, l + 1, "claims", k, x)
              /\ f \in FieldsAt(s, k, x)
    BY SentMembers
  <2>2. f \in Sent(s, l, "advance") <=>
          \E k \in 1 .. l, x \in ShipSteps : Due(s, l, "advance", k, x)
              /\ f \in FieldsAt(s, k, x)
    BY SentMembers
  <2> QED BY <1>1, <2>1, <2>2
<1> QED BY <1>2

-----------------------------------------------------------------------------
\* The prover stays on the run.

\* A prover step from one place of the run to the next keeps the prover on the
\* honest run: its query is the planned one and its proof holds what is due.
LEMMA ProverStep ==
  ASSUME ProverAt, NEW from, NEW to, NEW events \in Seq(EventSet),
         PStep(from, to, events, FieldsAt(sched, plevel, from)),
             UNCHANGED <<sched, plan, plevel>>,
         Located(sched, plevel, to), Follows(sched, plevel, from, to),
         Section(sched, plevel, to) = Section(sched, plevel, from) \o events
  PROVE  ProverAt' /\ ppc' = to
<1>1. /\ ppc = from /\ ptr' = ptr \o events /\ pcur' = pcur + DrawCount(events)
      /\ ppc' = IF OnPlan(pcur, events) THEN to ELSE "off_plan"
  BY DEF PStep
<1>2. /\ Reached(sched, plevel, to) = ptr \o events /\ ptr \in Seq(EventSet)
      /\ DrawCount(Reached(sched, plevel, to)) = pcur + DrawCount(events)
      /\ Begins(ptr \o events, Full(sched))
  <2>1. /\ sched \in Schedules /\ Located(sched, plevel, from)
        /\ ptr = Reached(sched, plevel, from) /\ pcur = DrawCount(ptr)
    BY <1>1 DEF ProverAt
  <2>2. /\ Reached(sched, plevel, to) = Reached(sched, plevel, from) \o events
        /\ Reached(sched, plevel, from) \in Seq(EventSet)
        /\ DrawCount(Reached(sched, plevel, to))
            = DrawCount(Reached(sched, plevel, from)) + DrawCount(events)
        /\ Begins(Reached(sched, plevel, from) \o events, Full(sched))
    BY <2>1, ReachedStep, Zenon
  <2> QED BY <2>1, <2>2
<1>3. OnPlan(pcur, events)
  <2>1. Same(events, events) BY SameRefl
  <2>2. Covers(Full(sched), plan) BY FullCovers DEF ProverAt
  <2> QED BY <1>2, <2>1, <2>2, AheadOnPlan DEF ProverAt
<1>4. proof' = Sent(sched, plevel, to)
  <2>1. proof = Sent(sched, plevel, from) /\ Located(sched, plevel, from)
            /\ sched \in Schedules
    BY <1>1 DEF ProverAt
  <2>2. plevel \in 1 .. Terminal(sched) BY <2>1, ReachedBegins
  <2>3. proof' = proof \cup FieldsAt(sched, plevel, from) BY DEF PStep
  <2> QED BY <2>1, <2>2, <2>3, SentStep
<1> QED BY <1>1, <1>2, <1>3, <1>4 DEF ProverAt

\* The level of a nonterminal step.
LEMMA LevelIn ==
  ASSUME ProverAt
  PROVE  /\ sched \in Schedules /\ plevel \in 1 .. Terminal(sched) /\ plevel \in Nat
         /\ LevelCount(sched) \in Nat \ {0} /\ Terminal(sched) = LevelCount(sched) + 1
BY ReachedBegins, LevelFacts DEF ProverAt

\* The opening steps of the prover keep it on the run (prove_root,
\* prepare_suffix, the reduction).
LEMMA ProverOpens ==
  ASSUME ProverAt, ProveRoot \/ ProveClaims \/ ProveEor
  PROVE  ProverAt'
<1>0. /\ sched \in Schedules /\ plevel \in 1 .. Terminal(sched) /\ plevel \in Nat
      /\ LevelCount(sched) \in Nat \ {0} /\ Terminal(sched) = LevelCount(sched) + 1
      /\ Located(sched, plevel, ppc)
  BY LevelIn DEF ProverAt
<1>1. CASE ProveRoot
  <2>1. PStep("root", "payload", RootEvents(sched), {}) /\ UNCHANGED <<sched, plan, plevel>>
    BY <1>1 DEF ProveRoot
  <2>2. plevel = 1 /\ Located(sched, plevel, "payload")
    <3>1. ppc = "root" BY <2>1 DEF PStep
    <3> QED BY <1>0, <3>1 DEF Located
  <2>3. FieldsAt(sched, plevel, "root") = {} BY DEF FieldsAt
  <2>4. RootEvents(sched) \in Seq(EventSet) BY <1>0, EventTypes
  <2>5. Section(sched, plevel, "payload") = Section(sched, plevel, "root") \o RootEvents(sched)
    BY <1>0, <2>2, Moves
  <2>6. Follows(sched, plevel, "root", "payload") BY <1>0, <2>2, Order
  <2> QED BY <2>1, <2>2, <2>3, <2>4, <2>5, <2>6, ProverStep
<1>2. CASE ProveClaims
  <2> DEFINE to == IF Reduces(sched, plevel) THEN "eor" ELSE AfterClaims(sched, plevel)
  <2>1. PStep("claims", to, ClaimEvents(sched, plevel), {})
            /\ UNCHANGED <<sched, plan, plevel>>
    BY <1>2 DEF ProveClaims
  <2>2. plevel \in 2 .. Terminal(sched) /\ Located(sched, plevel, to)
    <3>1. ppc = "claims" BY <2>1 DEF PStep
    <3> QED BY <1>0, <3>1 DEF Located, AfterClaims
  <2>3. FieldsAt(sched, plevel, "claims") = {} BY DEF FieldsAt
  <2>4. ClaimEvents(sched, plevel) \in Seq(EventSet) BY <1>0, EventTypes
  <2>5. Section(sched, plevel, to)
            = Section(sched, plevel, "claims") \o ClaimEvents(sched, plevel)
    BY <1>0, <2>2, Moves
  <2>6. Follows(sched, plevel, "claims", to) BY <1>0, <2>2, Order
  <2> HIDE DEF to
  <2> QED BY <2>1, <2>2, <2>3, <2>4, <2>5, <2>6, ProverStep
<1>3. CASE ProveEor
  <2> DEFINE to == AfterClaims(sched, plevel)
  <2>1. PStep("eor", to, EorEvents(sched, plevel), EorFields(sched, plevel))
            /\ UNCHANGED <<sched, plan, plevel>>
    BY <1>3 DEF ProveEor
  <2>2. plevel \in 2 .. Terminal(sched) /\ Reduces(sched, plevel) /\ Located(sched, plevel, to)
    <3>1. ppc = "eor" BY <2>1 DEF PStep
    <3> QED BY <1>0, <3>1 DEF Located, AfterClaims
  <2>3. FieldsAt(sched, plevel, "eor") = EorFields(sched, plevel) BY DEF FieldsAt
  <2>4. EorEvents(sched, plevel) \in Seq(EventSet) BY <1>0, <2>2, PieceTypes
  <2>5. Section(sched, plevel, to) = Section(sched, plevel, "eor") \o EorEvents(sched, plevel)
    BY <1>0, <2>2, Moves
  <2>6. Follows(sched, plevel, "eor", to) BY <1>0, <2>2, Order
  <2> HIDE DEF to
  <2> QED BY <2>1, <2>2, <2>3, <2>4, <2>5, <2>6, ProverStep
<1> QED BY <1>1, <1>2, <1>3

\* So do binding the payload and the next witness, and the ring switch.
LEMMA ProverBinds ==
  ASSUME ProverAt, BindPayload \/ BindTerminalEHat \/ BindNextWitness \/ SwitchRing
  PROVE  ProverAt'
<1>0. /\ sched \in Schedules /\ plevel \in 1 .. Terminal(sched) /\ plevel \in Nat
      /\ LevelCount(sched) \in Nat \ {0} /\ Terminal(sched) = LevelCount(sched) + 1
      /\ Located(sched, plevel, ppc)
  BY LevelIn DEF ProverAt
<1>1. CASE BindPayload
  <2>1. PStep("payload", "grind", PayloadEvents(sched, plevel), Sites(At(plevel, "payload")))
        /\ UNCHANGED <<sched, plan, plevel>>
    BY <1>1 DEF BindPayload
  <2>2. plevel \in 1 .. LevelCount(sched) /\ Located(sched, plevel, "grind")
    <3>1. ppc = "payload" BY <2>1 DEF PStep
    <3> QED BY <1>0, <3>1 DEF Located
  <2>3. FieldsAt(sched, plevel, "payload") = Sites(At(plevel, "payload")) BY DEF FieldsAt
  <2>4. PayloadEvents(sched, plevel) \in Seq(EventSet) BY <1>0, PieceTypes
  <2>5. Section(sched, plevel, "grind")
            = Section(sched, plevel, "payload") \o PayloadEvents(sched, plevel)
    BY <1>0, <2>2, Moves
  <2>6. Follows(sched, plevel, "payload", "grind") BY <1>0, <2>2, Order
  <2> QED BY <2>1, <2>2, <2>3, <2>4, <2>5, <2>6, ProverStep
<1>2. CASE BindTerminalEHat
  <2>1. PStep("ehat", "grind", Says(At(plevel, "e_hat")), Sites(At(plevel, "e_hat")))
        /\ UNCHANGED <<sched, plan, plevel>>
    BY <1>2 DEF BindTerminalEHat
  <2>2. plevel = Terminal(sched) /\ Located(sched, plevel, "grind")
    <3>1. ppc = "ehat" BY <2>1 DEF PStep
    <3> QED BY <1>0, <3>1 DEF Located
  <2>3. FieldsAt(sched, plevel, "ehat") = Sites(At(plevel, "e_hat")) BY DEF FieldsAt
  <2>4. Says(At(plevel, "e_hat")) \in Seq(EventSet) BY <1>0, PieceTypes, NameFacts
  <2>5. Section(sched, plevel, "grind")
            = Section(sched, plevel, "ehat") \o Says(At(plevel, "e_hat"))
    BY <1>0, <2>2, Moves
  <2>6. Follows(sched, plevel, "ehat", "grind") BY <1>0, <2>2, Order
  <2> QED BY <2>1, <2>2, <2>3, <2>4, <2>5, <2>6, ProverStep
<1>3. CASE BindNextWitness
  <2>1. PStep("bind", "switch", Says(At(plevel, "next_binding")), {NextWitness(sched, plevel)})
        /\ UNCHANGED <<sched, plan, plevel>>
    BY <1>3 DEF BindNextWitness
  <2>2. plevel \in 1 .. LevelCount(sched) /\ Located(sched, plevel, "switch")
    <3>1. ppc = "bind" BY <2>1 DEF PStep
    <3> QED BY <1>0, <3>1 DEF Located
  <2>3. FieldsAt(sched, plevel, "bind") = {NextWitness(sched, plevel)} BY DEF FieldsAt
  <2>4. Says(At(plevel, "next_binding")) \in Seq(EventSet) BY <1>0, PieceTypes, NameFacts
  <2>5. Section(sched, plevel, "switch")
            = Section(sched, plevel, "bind") \o Says(At(plevel, "next_binding"))
    BY <1>0, <2>2, Moves
  <2>6. Follows(sched, plevel, "bind", "switch") BY <1>0, <2>2, Order
  <2> QED BY <2>1, <2>2, <2>3, <2>4, <2>5, <2>6, ProverStep
<1>4. CASE SwitchRing
  <2>1. PStep("switch", "stage1", SwitchEvents(plevel), {})
        /\ UNCHANGED <<sched, plan, plevel>>
    BY <1>4 DEF SwitchRing
  <2>2. plevel \in 1 .. LevelCount(sched) /\ Located(sched, plevel, "stage1")
    <3>1. ppc = "switch" BY <2>1 DEF PStep
    <3> QED BY <1>0, <3>1 DEF Located
  <2>3. FieldsAt(sched, plevel, "switch") = {} BY DEF FieldsAt
  <2>4. SwitchEvents(plevel) \in Seq(EventSet) BY <1>0, PieceTypes
  <2>5. Section(sched, plevel, "stage1")
            = Section(sched, plevel, "switch") \o SwitchEvents(plevel)
    BY <1>0, <2>2, Moves
  <2>6. Follows(sched, plevel, "switch", "stage1") BY <1>0, <2>2, Order
  <2> QED BY <2>1, <2>2, <2>3, <2>4, <2>5, <2>6, ProverStep
<1> QED BY <1>1, <1>2, <1>3, <1>4

\* So do the three stages and the norm proof.
LEMMA ProverStages ==
  ASSUME ProverAt, ProveStage1 \/ ProveNorm \/ ProveStage2 \/ ProveStage3 \/ RespondTerminal
  PROVE  ProverAt'
<1>0. /\ sched \in Schedules /\ plevel \in 1 .. Terminal(sched) /\ plevel \in Nat
      /\ LevelCount(sched) \in Nat \ {0} /\ Terminal(sched) = LevelCount(sched) + 1
      /\ Located(sched, plevel, ppc)
  BY LevelIn DEF ProverAt
<1>1. CASE ProveStage1
  <2> DEFINE to == IF sched.levels[plevel].route = "linf" THEN "stage2" ELSE "norm"
  <2>1. PStep("stage1", to, Stage1Events(sched, plevel), Stage1Fields(sched, plevel))
        /\ UNCHANGED <<sched, plan, plevel>>
    BY <1>1 DEF ProveStage1
  <2>2. plevel \in 1 .. LevelCount(sched) /\ Located(sched, plevel, to)
    <3>1. ppc = "stage1" BY <2>1 DEF PStep
    <3> QED BY <1>0, <3>1 DEF Located
  <2>3. FieldsAt(sched, plevel, "stage1") = Stage1Fields(sched, plevel) BY DEF FieldsAt
  <2>4. Stage1Events(sched, plevel) \in Seq(EventSet) BY <1>0, <2>2, StageTypes
  <2>5. Section(sched, plevel, to)
            = Section(sched, plevel, "stage1") \o Stage1Events(sched, plevel)
    BY <1>0, <2>2, Moves
  <2>6. Follows(sched, plevel, "stage1", to) BY <1>0, <2>2, Order
  <2> HIDE DEF to
  <2> QED BY <2>1, <2>2, <2>3, <2>4, <2>5, <2>6, ProverStep
<1>2. CASE ProveNorm
  <2>1. PStep("norm", "stage2", NormEvents(sched, plevel), NormFields(sched, plevel))
        /\ UNCHANGED <<sched, plan, plevel>>
    BY <1>2 DEF ProveNorm
  <2>2. plevel \in 1 .. LevelCount(sched) /\ sched.levels[plevel].route # "linf"
            /\ Located(sched, plevel, "stage2")
    <3>1. ppc = "norm" BY <2>1 DEF PStep
    <3> QED BY <1>0, <3>1 DEF Located
  <2>3. FieldsAt(sched, plevel, "norm") = NormFields(sched, plevel) BY DEF FieldsAt
  <2>4. NormEvents(sched, plevel) \in Seq(EventSet) BY <1>0, <2>2, StageTypes
  <2>5. Section(sched, plevel, "stage2")
            = Section(sched, plevel, "norm") \o NormEvents(sched, plevel)
    BY <1>0, <2>2, Moves
  <2>6. Follows(sched, plevel, "norm", "stage2") BY <1>0, <2>2, Order
  <2> QED BY <2>1, <2>2, <2>3, <2>4, <2>5, <2>6, ProverStep
<1>3. CASE ProveStage2
  <2> DEFINE to == IF Defers(sched, plevel) THEN "stage3" ELSE "advance"
  <2>1. PStep("stage2", to, Stage2Events(sched, plevel), Stage2Fields(sched, plevel))
        /\ UNCHANGED <<sched, plan, plevel>>
    BY <1>3 DEF ProveStage2
  <2>2. plevel \in 1 .. LevelCount(sched) /\ Located(sched, plevel, to)
    <3>1. ppc = "stage2" BY <2>1 DEF PStep
    <3> QED BY <1>0, <3>1 DEF Located
  <2>3. FieldsAt(sched, plevel, "stage2") = Stage2Fields(sched, plevel) BY DEF FieldsAt
  <2>4. Stage2Events(sched, plevel) \in Seq(EventSet) BY <1>0, <2>2, StageTypes
  <2>5. Section(sched, plevel, to)
            = Section(sched, plevel, "stage2") \o Stage2Events(sched, plevel)
    BY <1>0, <2>2, Moves
  <2>6. Follows(sched, plevel, "stage2", to) BY <1>0, <2>2, Order
  <2> HIDE DEF to
  <2> QED BY <2>1, <2>2, <2>3, <2>4, <2>5, <2>6, ProverStep
<1>4. CASE ProveStage3
  <2>1. PStep("stage3", "advance", Stage3Events(sched, plevel), SetupFields(sched, plevel))
        /\ UNCHANGED <<sched, plan, plevel>>
    BY <1>4 DEF ProveStage3
  <2>2. plevel \in 1 .. LevelCount(sched) /\ Defers(sched, plevel)
            /\ Located(sched, plevel, "advance")
    <3>1. ppc = "stage3" BY <2>1 DEF PStep
    <3> QED BY <1>0, <3>1 DEF Located
  <2>3. FieldsAt(sched, plevel, "stage3") = SetupFields(sched, plevel) BY DEF FieldsAt
  <2>4. Stage3Events(sched, plevel) \in Seq(EventSet) BY <1>0, <2>2, StageTypes
  <2>5. Section(sched, plevel, "advance")
            = Section(sched, plevel, "stage3") \o Stage3Events(sched, plevel)
    BY <1>0, <2>2, Moves
  <2>6. Follows(sched, plevel, "stage3", "advance") BY <1>0, <2>2, Order
  <2> QED BY <2>1, <2>2, <2>3, <2>4, <2>5, <2>6, ProverStep
<1>5. CASE RespondTerminal
  <2>1. PStep("response", "finish", Says(At(plevel, "w_remainder")),
            Sites(At(plevel, "w_remainder")))
        /\ UNCHANGED <<sched, plan, plevel>>
    BY <1>5 DEF RespondTerminal
  <2>2. plevel = Terminal(sched) /\ Located(sched, plevel, "finish")
    <3>1. ppc = "response" BY <2>1 DEF PStep
    <3> QED BY <1>0, <3>1 DEF Located
  <2>3. FieldsAt(sched, plevel, "response") = Sites(At(plevel, "w_remainder")) BY DEF FieldsAt
  <2>4. Says(At(plevel, "w_remainder")) \in Seq(EventSet) BY <1>0, PieceTypes, NameFacts
  <2>5. Section(sched, plevel, "finish")
            = Section(sched, plevel, "response") \o Says(At(plevel, "w_remainder"))
    BY <1>0, <2>2, Moves
  <2>6. Follows(sched, plevel, "response", "finish") BY <1>0, <2>2, Order
  <2> QED BY <2>1, <2>2, <2>3, <2>4, <2>5, <2>6, ProverStep
<1> QED BY <1>1, <1>2, <1>3, <1>4, <1>5

\* So does grinding the fold response: a rejected nonce leaves the transcript
\* alone, the accepted one draws the planned challenges.
LEMMA ProverGrinds ==
  ASSUME ProverAt, RejectNonce \/ CommitNonce
  PROVE  ProverAt'
<1>0. /\ sched \in Schedules /\ plevel \in 1 .. Terminal(sched) /\ plevel \in Nat
      /\ LevelCount(sched) \in Nat \ {0} /\ Terminal(sched) = LevelCount(sched) + 1
      /\ Located(sched, plevel, ppc)
  BY LevelIn DEF ProverAt
<1>1. CASE RejectNonce
  <2>1. ppc = "grind" /\ ppc' \in {"failed", "grind"}
            /\ UNCHANGED <<sched, plan, plevel, ptr, pcur, proof>>
    BY <1>1 DEF RejectNonce
  <2>2. /\ Located(sched, plevel, ppc')
            /\ Reached(sched, plevel, ppc') = Reached(sched, plevel, ppc)
    BY <1>0, <2>1 DEF Located, Reached, Section
  <2>3. Sent(sched, plevel, ppc') = Sent(sched, plevel, ppc)
    <3>1. Rank(ppc') = Rank(ppc) BY <2>1, RankFacts
    <3>2. \A k, x : Due(sched, plevel, ppc', k, x) <=> Due(sched, plevel, ppc, k, x)
      BY <3>1 DEF Due
    <3>3. \A f : f \in Sent(sched, plevel, ppc') <=> f \in Sent(sched, plevel, ppc)
      BY <3>2, SentMembers, Zenon
    <3> QED BY <3>3
  <2> QED BY <2>1, <2>2, <2>3 DEF ProverAt
<1>2. CASE CommitNonce
  <2> DEFINE to == IF plevel = Terminal(sched) THEN "response" ELSE "bind"
  <2>1. PStep("grind", to, FoldEvents(sched, plevel), {}) /\ UNCHANGED <<sched, plan, plevel>>
    BY <1>2 DEF CommitNonce
  <2>2. Located(sched, plevel, to) BY <1>0 DEF Located
  <2>3. FieldsAt(sched, plevel, "grind") = {} BY DEF FieldsAt
  <2>4. FoldEvents(sched, plevel) \in Seq(EventSet) BY <1>0, PieceTypes
  <2>5. Section(sched, plevel, to)
            = Section(sched, plevel, "grind") \o FoldEvents(sched, plevel)
        /\ Follows(sched, plevel, "grind", to)
    <3>1. CASE plevel = Terminal(sched) BY <1>0, <3>1, Moves, Order
    <3>2. CASE plevel # Terminal(sched)
      <4>1. plevel \in 1 .. LevelCount(sched) BY <1>0, <3>2
      <4> QED BY <1>0, <3>2, <4>1, Moves, Order
    <3> QED BY <3>1, <3>2
  <2> HIDE DEF to
  <2> QED BY <2>1, <2>2, <2>3, <2>4, <2>5, ProverStep
<1> QED BY <1>1, <1>2

\* So do the moves that only change the level or end the proof.
LEMMA ProverMoves ==
  ASSUME ProverAt, AdvanceProver \/ FinishProof
  PROVE  ProverAt'
<1>0. /\ sched \in Schedules /\ plevel \in 1 .. Terminal(sched) /\ plevel \in Nat
      /\ LevelCount(sched) \in Nat \ {0} /\ Terminal(sched) = LevelCount(sched) + 1
      /\ Located(sched, plevel, ppc) /\ plan = Plan(sched) /\ ptr = Reached(sched, plevel, ppc)
      /\ pcur = DrawCount(ptr) /\ proof = Sent(sched, plevel, ppc)
  BY LevelIn DEF ProverAt
<1>1. CASE AdvanceProver
  <2>1. /\ ppc = "advance" /\ plevel' = plevel + 1 /\ ppc' = "claims"
        /\ UNCHANGED <<sched, plan, ptr, pcur, proof>>
    BY <1>1 DEF AdvanceProver
  <2>2. plevel \in 1 .. LevelCount(sched) BY <1>0, <2>1 DEF Located
  <2>3. Located(sched, plevel + 1, "claims") BY <1>0, <2>2 DEF Located
  <2>4. Reached(sched, plevel + 1, "claims") = Reached(sched, plevel, "advance")
    <3>1. Section(sched, plevel + 1, "claims") = <<>>
              /\ Section(sched, plevel, "advance") = LevelEvents(sched, plevel)
      BY DEF Section
    <3>2. Before(sched, plevel + 1) = Before(sched, plevel) \o LevelEvents(sched, plevel)
      BY <1>0, <2>2, BeforeStep
    <3>3. Before(sched, plevel + 1) \in Seq(EventSet)
      <4>1. plevel + 1 \in 1 .. Terminal(sched) BY <1>0, <2>2
      <4> QED BY <1>0, <4>1, BeforeType
    <3> QED BY <3>1, <3>2, <3>3, EmptyConcat DEF Reached
  <2>5. Sent(sched, plevel + 1, "claims") = Sent(sched, plevel, "advance")
    BY <1>0, <2>2, SentAdvance
  <2> QED BY <1>0, <2>1, <2>3, <2>4, <2>5 DEF ProverAt
<1>2. CASE FinishProof
  <2>1. /\ ppc = "finish" /\ ppc' = IF pcur = Len(plan) THEN "proved" ELSE "off_plan"
        /\ UNCHANGED <<sched, plan, plevel, ptr, pcur, proof>>
    BY <1>2 DEF FinishProof
  <2>2. plevel = Terminal(sched) BY <1>0, <2>1 DEF Located
  <2>3. ptr = Full(sched) BY <1>0, <2>1, <2>2 DEF Reached, Section, Full
  <2>4. Covers(Full(sched), plan) BY <1>0, FullCovers
  <2>5. ppc' = "proved" BY <1>0, <2>1, <2>3, <2>4 DEF Covers
  <2>6. Located(sched, plevel, "proved") BY <2>2 DEF Located
  <2>7. Reached(sched, plevel, "proved") = Reached(sched, plevel, "finish")
    BY DEF Reached, Section
  <2>8. Sent(sched, plevel, "proved") = Sent(sched, plevel, "finish")
    <3>1. Rank("proved") = Rank("finish") BY RankFacts
    <3>2. \A k, x : Due(sched, plevel, "proved", k, x) <=> Due(sched, plevel, "finish", k, x)
      BY <3>1 DEF Due
    <3>3. \A f : f \in Sent(sched, plevel, "proved") <=> f \in Sent(sched, plevel, "finish")
      BY <3>2, SentMembers, Zenon
    <3> QED BY <3>3
  <2> QED BY <1>0, <2>1, <2>5, <2>6, <2>7, <2>8 DEF ProverAt
<1> QED BY <1>1, <1>2

\* Every step of the prover keeps it on the honest run.
LEMMA ProverKept ==
  ASSUME ProverAt, ProverNext \/ UNCHANGED pvars
  PROVE  ProverAt'
<1>1. CASE UNCHANGED pvars BY <1>1 DEF ProverAt, pvars
<1>2. CASE ProverNext
  BY <1>2, ProverOpens, ProverBinds, ProverStages, ProverGrinds, ProverMoves DEF ProverNext
<1> QED BY <1>1, <1>2

\* The prover starts on the honest run.
LEMMA ProverStarts ==
  ASSUME PInit
  PROVE  ProverAt
<1>1. sched \in Schedules /\ plan = Plan(sched) /\ ppc = "root" /\ plevel = 1 /\ proof = {}
      /\ ptr = Says(At(0, "descriptor")) /\ pcur = 0
  BY DEF PInit
<1>2. Located(sched, 1, "root") BY DEF Located
<1>3. Reached(sched, 1, "root") = ptr
  <2>1. [k \in 1 .. 1 - 1 |-> LevelEvents(sched, k)] = <<>> OBVIOUS
  <2>2. Before(sched, 1) = ptr \o <<>> BY <1>1, <2>1, FlattenEmpty DEF Before
  <2>3. Section(sched, 1, "root") = <<>> BY DEF Section
  <2>4. ptr \in Seq(EventSet) BY <1>1, EventTypes
  <2> QED BY <2>2, <2>3, <2>4, EmptyConcat DEF Reached
<1>4. DrawCount(ptr) = 0
  <2>1. 0 \in Nat OBVIOUS
  <2>2. Covers(ptr, <<>>) BY <1>1, <2>1, AtCovers, NameFacts
  <2> QED BY <2>2 DEF Covers
<1>5. Sent(sched, 1, "root") = {}
  <2>1. \A k \in 1 .. 1, x \in ShipSteps : ~Due(sched, 1, "root", k, x)
    BY RankFacts DEF Due, ShipSteps
  <2>2. \A f : f \notin Sent(sched, 1, "root") BY <2>1, SentMembers, Zenon
  <2> QED BY <2>2
<1> QED BY <1>1, <1>2, <1>3, <1>4, <1>5 DEF ProverAt

-----------------------------------------------------------------------------
\* Replaying what was given.

\* A replay of honest events: each as it was, or an absorbed message gone bad.
Echo(v, e) ==
  /\ Same(v, e)
  /\ \A i \in 1 .. Len(e) :
       /\ v[i] = e[i] \/ (v[i][3] = "bad" /\ ~IsDraw(e[i]))
       /\ e[i][3] # "bad" /\ (IsDraw(e[i]) => e[i][3] = "good")

\* Echoes appended are an echo.
LEMMA EchoConcat ==
  ASSUME NEW a, NEW b, NEW c, NEW d, Echo(a, c), Echo(b, d)
  PROVE  Echo(a \o b, c \o d)
<1>1. /\ a \in Seq(EventSet) /\ b \in Seq(EventSet) /\ c \in Seq(EventSet)
          /\ d \in Seq(EventSet)
      /\ Len(a) = Len(c) /\ Len(b) = Len(d)
  BY DEF Echo, Same
<1>2. /\ Len(a) \in Nat /\ Len(b) \in Nat
      /\ \A i \in 1 .. Len(a) : (a \o b)[i] = a[i]
      /\ \A i \in 1 .. Len(b) : (a \o b)[Len(a) + i] = b[i]
  <2>1. a \in Seq(EventSet) /\ b \in Seq(EventSet) BY <1>1
  <2> QED BY <2>1, ConcatFacts
<1>3. /\ Len(c \o d) = Len(c) + Len(d)
      /\ \A i \in 1 .. Len(c) : (c \o d)[i] = c[i]
      /\ \A i \in 1 .. Len(d) : (c \o d)[Len(c) + i] = d[i]
  <2>1. c \in Seq(EventSet) /\ d \in Seq(EventSet) BY <1>1
  <2> QED BY <2>1, ConcatFacts
<1>4. Same(a \o b, c \o d) BY SameConcat DEF Echo
<1> DEFINE ok(x, y) == /\ x = y \/ (x[3] = "bad" /\ ~IsDraw(y))
                       /\ y[3] # "bad" /\ (IsDraw(y) => y[3] = "good")
<1>5. /\ \A i \in 1 .. Len(c) : ok(a[i], c[i])
      /\ \A i \in 1 .. Len(d) : ok(b[i], d[i])
  BY DEF Echo
<1> HIDE DEF ok
<1>6. ASSUME NEW i \in 1 .. Len(c) + Len(d) PROVE ok((a \o b)[i], (c \o d)[i])
  <2>1. CASE i <= Len(a)
    <3>1. i \in 1 .. Len(a) BY <1>1, <1>2, <2>1
    <3> QED BY <1>1, <1>2, <1>3, <1>5, <3>1
  <2>2. CASE i > Len(a)
    <3> DEFINE k == i - Len(a)
    <3>1. k \in 1 .. Len(b) /\ i = Len(a) + k BY <1>1, <1>2, <2>2
    <3> HIDE DEF k
    <3> QED BY <1>1, <1>2, <1>3, <1>5, <3>1
  <2> QED BY <1>1, <1>2, <2>1, <2>2
<1> QED BY <1>3, <1>4, <1>6 DEF Echo, ok

\* Something bad in two lists appended is in one of them.
LEMMA BadConcat ==
  ASSUME NEW S, NEW a \in Seq(S), NEW b \in Seq(S)
  PROVE  Bad(a \o b) <=> Bad(a) \/ Bad(b)
<1>1. /\ Len(a) \in Nat /\ Len(b) \in Nat
      /\ DOMAIN a = 1 .. Len(a) /\ DOMAIN b = 1 .. Len(b)
      /\ DOMAIN (a \o b) = 1 .. Len(a) + Len(b)
      /\ \A i \in 1 .. Len(a) : (a \o b)[i] = a[i]
      /\ \A i \in 1 .. Len(b) : (a \o b)[Len(a) + i] = b[i]
  BY ConcatFacts
<1> DEFINE c == a \o b
<1> HIDE DEF c
<1>2. ASSUME Bad(c) PROVE Bad(a) \/ Bad(b)
  <2>1. PICK i \in DOMAIN c : c[i][3] = "bad" BY <1>2 DEF Bad
  <2>2. CASE i <= Len(a)
    <3>1. i \in DOMAIN a /\ a[i][3] = "bad" BY <1>1, <2>1, <2>2 DEF c
    <3> QED BY <3>1 DEF Bad
  <2>3. CASE i > Len(a)
    <3> DEFINE k == i - Len(a)
    <3>1. k \in 1 .. Len(b) /\ i = Len(a) + k BY <1>1, <2>1, <2>3 DEF c
    <3> HIDE DEF k
    <3>2. b[k][3] = "bad" /\ k \in DOMAIN b BY <1>1, <2>1, <3>1 DEF c
    <3> QED BY <3>2 DEF Bad
  <2> QED BY <1>1, <2>1, <2>2, <2>3 DEF c
<1>3. ASSUME Bad(a) PROVE Bad(c)
  <2>1. PICK i \in DOMAIN a : a[i][3] = "bad" BY <1>3 DEF Bad
  <2>2. i \in DOMAIN c /\ c[i][3] = "bad" BY <1>1, <2>1 DEF c
  <2> QED BY <2>2 DEF Bad
<1>4. ASSUME Bad(b) PROVE Bad(c)
  <2>1. PICK i \in DOMAIN b : b[i][3] = "bad" BY <1>4 DEF Bad
  <2> DEFINE k == Len(a) + i
  <2>2. k \in DOMAIN c /\ c[k][3] = "bad" BY <1>1, <2>1 DEF c
  <2> QED BY <2>2 DEF Bad
<1> QED BY <1>2, <1>3, <1>4 DEF c

\* Nothing echoes nothing.
LEMMA EmptyEcho == Echo(<<>>, <<>>) /\ ~Bad(<<>>)
<1>1. <<>> \in Seq(EventSet) OBVIOUS
<1>2. Same(<<>>, <<>>) BY <1>1, SameRefl
<1>3. Len(<<>>) = 0 /\ DOMAIN <<>> = {} OBVIOUS
<1> QED BY <1>2, <1>3 DEF Echo, Bad

\* Stage by stage an echo means an echo.
LEMMA FlattenEcho ==
  ASSUME NEW m \in Nat, NEW f \in [1 .. m -> Seq(EventSet)],
         NEW g \in [1 .. m -> Seq(EventSet)],
         \A i \in 1 .. m : Echo(f[i], g[i])
  PROVE  Echo(FlattenSeq(f), FlattenSeq(g))
<1> DEFINE T == {n \in Nat : \A a \in [1 .. n -> Seq(EventSet)],
        b \in [1 .. n -> Seq(EventSet)] :
                   (\A i \in 1 .. n : Echo(a[i], b[i])) => Echo(FlattenSeq(a), FlattenSeq(b))}
<1>1. 0 \in T
  <2> SUFFICES ASSUME NEW a \in [1 .. 0 -> Seq(EventSet)], NEW b \in [1 .. 0 -> Seq(EventSet)]
               PROVE  Echo(FlattenSeq(a), FlattenSeq(b))
    OBVIOUS
  <2>1. a = <<>> /\ b = <<>> OBVIOUS
  <2> QED BY <2>1, EmptyEcho, FlattenEmpty
<1>2. ASSUME NEW n \in Nat, n \in T PROVE n + 1 \in T
  <2> SUFFICES ASSUME NEW a \in [1 .. n + 1 -> Seq(EventSet)],
          NEW b \in [1 .. n + 1 -> Seq(EventSet)],
                      \A i \in 1 .. n + 1 : Echo(a[i], b[i])
               PROVE  Echo(FlattenSeq(a), FlattenSeq(b))
    <3>1. n + 1 \in Nat OBVIOUS
    <3> QED BY <3>1, Zenon
  <2> DEFINE c == [i \in 1 .. n |-> a[i]]
             d == [i \in 1 .. n |-> b[i]]
  <2>1. c \in [1 .. n -> Seq(EventSet)] /\ d \in [1 .. n -> Seq(EventSet)]
        /\ \A i \in 1 .. n : Echo(c[i], d[i])
    OBVIOUS
  <2>2. FlattenSeq(a) = FlattenSeq(c) \o a[n + 1] BY FlattenSnoc
  <2>3. FlattenSeq(b) = FlattenSeq(d) \o b[n + 1] BY FlattenSnoc
  <2> HIDE DEF c, d
  <2>4. Echo(FlattenSeq(c), FlattenSeq(d)) BY <1>2, <2>1
  <2>5. Echo(a[n + 1], b[n + 1]) OBVIOUS
  <2> QED BY <2>2, <2>3, <2>4, <2>5, EchoConcat
<1>3. m \in T
  <2> HIDE DEF T
  <2> QED BY <1>1, <1>2, SetInduction
<1> QED BY <1>3

\* Something bad in flattened lists is in one of them.
LEMMA FlattenBad ==
  ASSUME NEW m \in Nat, NEW f \in [1 .. m -> Seq(EventSet)]
  PROVE  Bad(FlattenSeq(f)) <=> \E i \in 1 .. m : Bad(f[i])
<1> DEFINE T == {n \in Nat : \A a \in [1 .. n -> Seq(EventSet)] :
                   Bad(FlattenSeq(a)) <=> \E i \in 1 .. n : Bad(a[i])}
<1>1. 0 \in T
  <2> SUFFICES ASSUME NEW a \in [1 .. 0 -> Seq(EventSet)]
               PROVE  ~Bad(FlattenSeq(a))
    OBVIOUS
  <2>1. a = <<>> OBVIOUS
  <2> QED BY <2>1, EmptyEcho, FlattenEmpty
<1>2. ASSUME NEW n \in Nat, n \in T PROVE n + 1 \in T
  <2> SUFFICES ASSUME NEW a \in [1 .. n + 1 -> Seq(EventSet)]
               PROVE  Bad(FlattenSeq(a)) <=> \E i \in 1 .. n + 1 : Bad(a[i])
    <3>1. n + 1 \in Nat OBVIOUS
    <3> QED BY <3>1, Zenon
  <2> DEFINE c == [i \in 1 .. n |-> a[i]]
  <2>1. c \in [1 .. n -> Seq(EventSet)] /\ (\A i \in 1 .. n : c[i] = a[i])
            /\ a[n + 1] \in Seq(EventSet)
    OBVIOUS
  <2>2. FlattenSeq(a) = FlattenSeq(c) \o a[n + 1] BY FlattenSnoc
  <2> HIDE DEF c
  <2>3. FlattenSeq(c) \in Seq(EventSet) BY <2>1, FlattenType
  <2>4. Bad(FlattenSeq(a)) <=> Bad(FlattenSeq(c)) \/ Bad(a[n + 1])
    BY <2>1, <2>2, <2>3, BadConcat
  <2>5. Bad(FlattenSeq(c)) <=> \E i \in 1 .. n : Bad(c[i]) BY <1>2, <2>1
  <2>6. \A i : i \in 1 .. n + 1 <=> (i \in 1 .. n \/ i = n + 1) OBVIOUS
  <2> QED BY <2>1, <2>4, <2>5, <2>6
<1>3. m \in T
  <2> HIDE DEF T
  <2> QED BY <1>1, <1>2, SetInduction
<1> QED BY <1>3

\* A replay whose absorbed messages come from F.
Replays(v, e, F) == Echo(v, e) /\ (Bad(v) <=> \E f \in F : Val(f) = "bad")

\* Replays of two parts appended replay the parts appended.
LEMMA ReplaysConcat ==
  ASSUME NEW a, NEW b, NEW c, NEW d, NEW F, NEW G, Replays(a, c, F), Replays(b, d, G)
  PROVE  Replays(a \o b, c \o d, F \cup G)
<1>1. Echo(a, c) /\ Echo(b, d) BY DEF Replays
<1>2. a \in Seq(EventSet) /\ b \in Seq(EventSet) BY <1>1 DEF Echo, Same
<1>3. Echo(a \o b, c \o d) BY <1>1, EchoConcat
<1>4. Bad(a \o b) <=> Bad(a) \/ Bad(b) BY <1>2, BadConcat
<1> QED BY <1>3, <1>4 DEF Replays

\* Stage by stage a replay means a replay.
LEMMA FlattenReplays ==
  ASSUME NEW m \in Nat, NEW f \in [1 .. m -> Seq(EventSet)],
         NEW g \in [1 .. m -> Seq(EventSet)],
         NEW h, NEW F, \A i \in 1 .. m : Replays(f[i], g[i], h[i]),
         \A x : x \in F <=> \E i \in 1 .. m : x \in h[i]
  PROVE  Replays(FlattenSeq(f), FlattenSeq(g), F)
<1>1. \A i \in 1 .. m : Echo(f[i], g[i]) BY DEF Replays
<1>2. Echo(FlattenSeq(f), FlattenSeq(g)) BY <1>1, FlattenEcho
<1>3. Bad(FlattenSeq(f)) <=> \E i \in 1 .. m : Bad(f[i]) BY FlattenBad
<1>4. \A i \in 1 .. m : Bad(f[i]) <=> \E x \in h[i] : Val(x) = "bad" BY DEF Replays
<1>5. (\E i \in 1 .. m : Bad(f[i])) <=> \E x \in F : Val(x) = "bad"
  BY <1>4, Zenon
<1> QED BY <1>2, <1>3, <1>5 DEF Replays

\* What both sides derive themselves is replayed from nothing.
LEMMA QuietReplays ==
  ASSUME NEW p \in Seq(Places)
  PROVE  Replays(Derives(p), Derives(p), {}) /\ Replays(Asks(p), Asks(p), {})
<1>1. /\ Derives(p) \in Seq(EventSet) /\ Len(Derives(p)) = Len(p)
      /\ \A i \in 1 .. Len(p) : Derives(p)[i] = <<"absorb", p[i], "drawn">>
  BY SaysType
<1>2. /\ Asks(p) \in Seq(EventSet) /\ Len(Asks(p)) = Len(p)
      /\ \A i \in 1 .. Len(p) : Asks(p)[i] = <<"draw", p[i], "good">>
  BY SaysType
<1>3. Replays(Derives(p), Derives(p), {})
  <2> DEFINE d == Derives(p)
  <2> HIDE DEF d
  <2>1. Same(d, d) /\ DOMAIN d = 1 .. Len(p) BY <1>1, SameRefl DEF d
  <2>2. \A i \in 1 .. Len(d) : d[i][3] # "bad" /\ (IsDraw(d[i]) => d[i][3] = "good")
    BY <1>1 DEF d, IsDraw
  <2>3. ~Bad(d) BY <2>1, <2>2, <1>1 DEF Bad, d
  <2> QED BY <2>1, <2>2, <2>3 DEF Replays, Echo, d
<1>4. Replays(Asks(p), Asks(p), {})
  <2> DEFINE d == Asks(p)
  <2> HIDE DEF d
  <2>1. Same(d, d) /\ DOMAIN d = 1 .. Len(p) BY <1>2, SameRefl DEF d
  <2>2. \A i \in 1 .. Len(d) : d[i][3] # "bad" /\ (IsDraw(d[i]) => d[i][3] = "good")
    BY <1>2 DEF d, IsDraw
  <2>3. ~Bad(d) BY <2>1, <2>2, <1>2 DEF Bad, d
  <2> QED BY <2>1, <2>2, <2>3 DEF Replays, Echo, d
<1> QED BY <1>3, <1>4

\* What the verifier reads is good or bad.
GivenOK == given \in [DOMAIN given -> Verdicts]

\* A message the verifier reads is good or bad; a missing one is bad.
LEMMA ValType == ASSUME GivenOK, NEW f PROVE Val(f) \in Verdicts
<1>1. CASE f \in DOMAIN given BY <1>1 DEF GivenOK, Val, Has
<1>2. CASE f \notin DOMAIN given BY <1>2 DEF Verdicts, Val, Has
<1> QED BY <1>1, <1>2

\* Messages of the verdicts w heard in the place of p.
LEMMA VerdictEcho ==
  ASSUME NEW p \in Seq(Places), NEW w, \A i \in 1 .. Len(p) : w[i] \in Verdicts,
         NEW v, v = [i \in 1 .. Len(p) |-> <<"absorb", p[i], w[i]>>]
  PROVE  Echo(v, Says(p)) /\ (Bad(v) <=> \E i \in 1 .. Len(p) : w[i] = "bad")
<1> DEFINE e == Says(p)
<1>1. /\ e \in Seq(EventSet) /\ Len(e) = Len(p)
      /\ \A i \in 1 .. Len(p) : e[i] = <<"absorb", p[i], "good">>
  BY SaysType
<1>2. Len(p) \in Nat /\ \A i \in 1 .. Len(p) : p[i] \in Places
  OBVIOUS
<1>3. \A x \in Places, y \in Verdicts : <<"absorb", x, y>> \in EventSet
  BY DEF EventSet, Verdicts
<1>4. /\ DOMAIN v = 1 .. Len(p)
      /\ \A i \in 1 .. Len(p) : v[i] = <<"absorb", p[i], w[i]>>
  OBVIOUS
<1>5. v \in [1 .. Len(p) -> EventSet] BY <1>2, <1>3
<1>6. v \in Seq(EventSet) /\ Len(v) = Len(p) BY <1>2, <1>5, MapSeq
<1>7. \A i \in 1 .. Len(p) : /\ v[i][1] = "absorb" /\ v[i][2] = p[i] /\ v[i][3] = w[i]
                             /\ e[i][1] = "absorb" /\ e[i][2] = p[i] /\ e[i][3] = "good"
                             /\ (w[i] = "good" => v[i] = e[i])
  BY <1>1, <1>4
<1> HIDE DEF e
<1>8. Same(v, e) BY <1>1, <1>6, <1>7 DEF Same
<1>9. \A i \in 1 .. Len(p) : w[i] = "good" \/ w[i] = "bad" BY DEF Verdicts
<1>10. \A i \in 1 .. Len(e) : /\ v[i] = e[i] \/ (v[i][3] = "bad" /\ ~IsDraw(e[i]))
                              /\ e[i][3] # "bad" /\ (IsDraw(e[i]) => e[i][3] = "good")
  BY <1>1, <1>7, <1>9 DEF IsDraw
<1>11. Bad(v) <=> \E i \in 1 .. Len(p) : w[i] = "bad" BY <1>4, <1>7, Zenon DEF Bad
<1> QED BY <1>8, <1>10, <1>11 DEF Echo, e

\* Messages heard in the place of p, the i-th of them from q[i].
LEMMA HeardReplays ==
  ASSUME GivenOK, NEW p \in Seq(Places), NEW q, NEW v,
         v = [i \in DOMAIN p |-> Event("absorb", p[i], Val(q[i]))]
  PROVE  Replays(v, Says(p), {q[i] : i \in 1 .. Len(p)})
<1> DEFINE w == [i \in 1 .. Len(p) |-> Val(q[i])]
<1>1. DOMAIN p = 1 .. Len(p) OBVIOUS
<1>2. \A i \in 1 .. Len(p) : Val(q[i]) \in Verdicts BY ValType
<1>3. \A i \in 1 .. Len(p) : w[i] = Val(q[i]) OBVIOUS
<1> HIDE DEF w
<1>4. v = [i \in 1 .. Len(p) |-> <<"absorb", p[i], w[i]>>] BY <1>1, <1>3, Zenon DEF Event
<1>5. \A i \in 1 .. Len(p) : w[i] \in Verdicts BY <1>2, <1>3
<1>6. Echo(v, Says(p)) /\ (Bad(v) <=> \E i \in 1 .. Len(p) : w[i] = "bad")
  BY <1>4, <1>5, VerdictEcho
<1>7. (\E i \in 1 .. Len(p) : w[i] = "bad")
          <=> \E f \in {q[i] : i \in 1 .. Len(p)} : Val(f) = "bad"
  BY <1>3, Zenon
<1> QED BY <1>6, <1>7 DEF Replays

\* Absorbing messages under their own names replays them.
LEMMA HearsReplays ==
  ASSUME GivenOK, NEW p \in Seq(Places)
  PROVE  Replays(Hears(p), Says(p), Sites(p))
<1>1. Hears(p) = [i \in DOMAIN p |-> Event("absorb", p[i], Val(p[i]))] BY DEF Hears
<1>2. Replays(Hears(p), Says(p), {p[i] : i \in 1 .. Len(p)}) BY <1>1, HeardReplays, Zenon
<1>3. DOMAIN p = 1 .. Len(p) OBVIOUS
<1>4. Sites(p) = {p[i] : i \in 1 .. Len(p)} BY <1>3 DEF Sites
<1> QED BY <1>2, <1>4

\* Absorbing a message under another name replays it.
LEMMA HearsAsReplays ==
  ASSUME GivenOK, NEW x \in Places, NEW y
  PROVE  Replays(HearsAs(x, y), Says(<<x>>), {y})
<1> DEFINE p == <<x>>
           q == <<y>>
           v == HearsAs(x, y)
<1>1. p \in Seq(Places) /\ Len(p) = 1 /\ DOMAIN p = 1 .. 1 /\ p[1] = x /\ q[1] = y OBVIOUS
<1>2. v = [i \in DOMAIN p |-> Event("absorb", p[i], Val(q[i]))]
  <2>1. v = <<Event("absorb", x, Val(y))>> BY DEF HearsAs
  <2>2. \A i \in 1 .. 1 : i = 1 OBVIOUS
  <2>3. [i \in 1 .. 1 |-> Event("absorb", p[i], Val(q[i]))] = <<Event("absorb", x, Val(y))>>
    <3> DEFINE z == Event("absorb", x, Val(y))
               w == [i \in 1 .. 1 |-> Event("absorb", p[i], Val(q[i]))]
    <3>1. Event("absorb", p[1], Val(q[1])) = z BY <1>1
    <3>2. w = [i \in 1 .. 1 |-> z] BY <2>2, <3>1
    <3> HIDE DEF z, w
    <3>3. [i \in 1 .. 1 |-> z] = <<z>> OBVIOUS
    <3> QED BY <3>2, <3>3 DEF z, w
  <2> QED BY <1>1, <2>1, <2>3
<1> HIDE DEF p, q, v
<1>3. Replays(v, Says(p), {q[i] : i \in 1 .. Len(p)}) BY <1>1, <1>2, HeardReplays
<1>4. {q[i] : i \in 1 .. Len(p)} = {y}
  <2>1. \A i : i \in 1 .. Len(p) <=> i = 1 BY <1>1
  <2> QED BY <1>1, <2>1
<1> QED BY <1>3, <1>4 DEF p, v

\* An optional part.
LEMMA WhenReplays ==
  ASSUME NEW c, NEW v, NEW e, NEW F, c => Replays(v, e, F)
  PROVE  Replays(When(c, v), When(c, e), IF c THEN F ELSE {})
<1>1. Replays(<<>>, <<>>, {}) BY EmptyEcho DEF Replays
<1> QED BY <1>1 DEF When

\* A message absorbed once per level.
LEMMA AtReplays ==
  ASSUME GivenOK, NEW l \in Nat, NEW name \in Names
  PROVE  /\ Replays(Hears(At(l, name)), Says(At(l, name)), Sites(At(l, name)))
         /\ Replays(Derives(At(l, name)), Derives(At(l, name)), {})
         /\ Replays(Asks(At(l, name)), Asks(At(l, name)), {})
BY AtType, HearsReplays, QuietReplays

\* A sumcheck is replayed from its round polynomials.
LEMMA RoundsReplays ==
  ASSUME GivenOK, NEW l \in Nat, NEW name \in Names, NEW i \in Nat, NEW n \in Nat
  PROVE  Replays(HearsRounds(l, name, i, n), SaysRounds(l, name, i, n),
         Sites(Rounds(l, name, i, n)))
<1> DEFINE x(r) == Hears(<<Site(l, name, i, r)>>) \o Asks(<<Site(l, name, i, r)>>)
           y(r) == Says(<<Site(l, name, i, r)>>) \o Asks(<<Site(l, name, i, r)>>)
           z(r) == {Site(l, name, i, r)}
           f == [r \in 1 .. n |-> x(r)]
           g == [r \in 1 .. n |-> y(r)]
           h == [r \in 1 .. n |-> z(r)]
<1>1. ASSUME NEW r \in Nat PROVE Replays(x(r), y(r), z(r))
  <2> DEFINE p == <<Site(l, name, i, r)>>
  <2>1. p \in Seq(Places) /\ Len(p) = 1 /\ p[1] = Site(l, name, i, r)
    <3>1. Site(l, name, i, r) \in Places BY SiteType
    <3> QED BY <3>1, Single
  <2>2. Sites(p) = z(r)
    <3>1. DOMAIN p = 1 .. 1 OBVIOUS
    <3>2. \A k : k \in 1 .. 1 <=> k = 1 OBVIOUS
    <3> QED BY <2>1, <3>1, <3>2 DEF Sites
  <2> HIDE DEF p
  <2>3. Replays(Hears(p), Says(p), Sites(p)) BY <2>1, HearsReplays
  <2>4. Replays(Asks(p), Asks(p), {}) BY <2>1, QuietReplays
  <2>5. Replays(Hears(p) \o Asks(p), Says(p) \o Asks(p), Sites(p) \cup {})
    BY <2>3, <2>4, ReplaysConcat
  <2>6. Sites(p) \cup {} = z(r) BY <2>2
  <2> QED BY <2>5, <2>6 DEF p
<1>2. \A r \in Nat : x(r) \in Seq(EventSet) /\ y(r) \in Seq(EventSet)
  BY <1>1 DEF Replays, Echo, Same
<1>3. HearsRounds(l, name, i, n) = FlattenSeq(f) /\ SaysRounds(l, name, i, n) = FlattenSeq(g)
  BY DEF HearsRounds, SaysRounds
<1>4. UNION {z(r) : r \in 1 .. n} = Sites(Rounds(l, name, i, n))
  <2>1. DOMAIN Rounds(l, name, i, n) = 1 .. n BY DEF Rounds
  <2>2. \A r \in 1 .. n : Rounds(l, name, i, n)[r] = Site(l, name, i, r) BY DEF Rounds
  <2> QED BY <2>1, <2>2, Zenon DEF Sites
<1> HIDE DEF x, y, z
<1>5. /\ f \in [1 .. n -> Seq(EventSet)] /\ g \in [1 .. n -> Seq(EventSet)]
      /\ \A r \in 1 .. n : Replays(f[r], g[r], h[r])
  BY <1>1, <1>2
<1>6. ASSUME NEW u PROVE u \in Sites(Rounds(l, name, i, n)) <=> \E r \in 1 .. n : u \in h[r]
  <2>1. \A r \in 1 .. n : h[r] = z(r) OBVIOUS
  <2> QED BY <1>4, <2>1, Zenon
<1> HIDE DEF f, g, h
<1>7. Replays(FlattenSeq(f), FlattenSeq(g), Sites(Rounds(l, name, i, n)))
  BY <1>5, <1>6, FlattenReplays
<1> QED BY <1>3, <1>7

\* The counts of a level's stages are naturals.
LEMMA StageNumbers ==
  ASSUME NEW s \in Schedules, NEW l \in 1 .. LevelCount(s)
  PROVE  /\ l \in Nat /\ l \in 1 .. Terminal(s) /\ s.levels[l].rounds \in Nat
         /\ s.levels[l].products \in Nat /\ s.levels[l].products + 1 \in Nat
<1> DEFINE p == s.levels[l]
<1>1. l \in Nat /\ p.products \in Nat /\ p.products + 1 \in Nat /\ p.rounds \in Nat
  BY LevelFacts, ScheduleAssumption, SMTT(30)
<1>2. l \in 1 .. Terminal(s) BY LevelFacts
<1> QED BY <1>1, <1>2

\* verify_root replays the statement.
LEMMA RootReplays ==
  ASSUME GivenOK, sched \in Schedules
  PROVE  Replays(RootReplay, RootEvents(sched), RootSources(sched))
<1>0. 1 \in Nat OBVIOUS
<1>1. Replays(Hears(At(1, "shape")), Says(At(1, "shape")), Sites(At(1, "shape")))
  BY <1>0, NameFacts, AtReplays
<1>2. Replays(Hears(RootCommitments(sched)), Says(RootCommitments(sched)),
          Sites(RootCommitments(sched)))
  BY RootCommitmentsType, HearsReplays
<1>3. Replays(Hears(At(1, "points")), Says(At(1, "points")), Sites(At(1, "points")))
  BY <1>0, NameFacts, AtReplays
<1>4. Replays(Hears(ClaimSites(sched, 1)), Says(ClaimSites(sched, 1)),
          Sites(ClaimSites(sched, 1)))
  <2>1. 1 \in 1 .. Terminal(sched) BY LevelFacts
  <2>2. ClaimSites(sched, 1) \in Seq(Places) BY <2>1, ClaimsType
  <2> QED BY <2>2, HearsReplays
<1> DEFINE v1 == Hears(At(1, "shape"))
           e1 == Says(At(1, "shape"))
           F1 == Sites(At(1, "shape"))
           v2 == Hears(RootCommitments(sched))
           e2 == Says(RootCommitments(sched))
           F2 == Sites(RootCommitments(sched))
           v3 == Hears(At(1, "points"))
           e3 == Says(At(1, "points"))
           F3 == Sites(At(1, "points"))
           v4 == Hears(ClaimSites(sched, 1))
           e4 == Says(ClaimSites(sched, 1))
           F4 == Sites(ClaimSites(sched, 1))
<1>20. Replays(v1, e1, F1) BY <1>1
<1>21. Replays(v2, e2, F2) BY <1>2
<1>22. Replays(v3, e3, F3) BY <1>3
<1>23. Replays(v4, e4, F4) BY <1>4
<1> HIDE DEF v1, e1, F1, v2, e2, F2, v3, e3, F3, v4, e4, F4
<1>42. Replays(v1 \o v2, e1 \o e2, (F1 \cup F2)) BY <1>20, <1>21, ReplaysConcat
<1>43. Replays(v1 \o v2 \o v3, e1 \o e2 \o e3, ((F1 \cup F2) \cup F3))
  BY <1>42, <1>22, ReplaysConcat
<1>44. Replays(v1 \o v2 \o v3 \o v4, e1 \o e2 \o e3 \o e4, (((F1 \cup F2) \cup F3) \cup F4))
  BY <1>43, <1>23, ReplaysConcat
<1>60. RootReplay = v1 \o v2 \o v3 \o v4 /\ RootEvents(sched) = e1 \o e2 \o e3 \o e4
  BY DEF RootReplay, RootEvents, v1, e1, v2, e2, v3, e3, v4, e4
<1>61. (((F1 \cup F2) \cup F3) \cup F4) = RootSources(sched)
  BY DEF F1, F2, F3, F4, RootSources
<1> QED BY <1>44, <1>60, <1>61

\* verify_eor_sumcheck replays the reduction.
LEMMA EorReplays ==
  ASSUME GivenOK, sched \in Schedules, NEW l \in 1 .. Terminal(sched), Reduces(sched, l)
  PROVE  Replays(EorReplay(l), EorEvents(sched, l), EorFields(sched, l))
<1>0. l \in Nat BY LevelFacts
<1>1. Replays(Hears(At(l, "eor_partials")), Says(At(l, "eor_partials")),
          Sites(At(l, "eor_partials")))
  BY <1>0, NameFacts, AtReplays
<1>2. Replays(Asks(At(l, "ExtensionOpeningPoint")), Asks(At(l, "ExtensionOpeningPoint")), {})
  BY <1>0, NameFacts, AtReplays
<1>3. Replays(When(RowBatch(sched, l), Asks(At(l, "ExtensionOpeningClaimBatch"))),
          When(RowBatch(sched, l), Asks(At(l, "ExtensionOpeningClaimBatch"))),
          IF RowBatch(sched, l) THEN {} ELSE {})
  <2>1. Replays(Asks(At(l, "ExtensionOpeningClaimBatch")),
            Asks(At(l, "ExtensionOpeningClaimBatch")), {})
    BY <1>0, NameFacts, AtReplays
  <2> QED BY <2>1, WhenReplays
<1>4. Replays(HearsRounds(l, "Eor", 0, EorRounds(sched, l)),
          SaysRounds(l, "Eor", 0, EorRounds(sched, l)),
          Sites(Rounds(l, "Eor", 0, EorRounds(sched, l))))
  BY <1>0, NameFacts, GroupFacts, RoundsReplays
<1>5. Replays(Hears(FinalClaims(sched, l)), Says(FinalClaims(sched, l)),
          Sites(FinalClaims(sched, l)))
  BY ClaimsType, HearsReplays
<1>6. Replays(Derives(At(l, "points")), Derives(At(l, "points")), {})
  BY <1>0, NameFacts, AtReplays
<1> DEFINE v1 == Hears(At(l, "eor_partials"))
           e1 == Says(At(l, "eor_partials"))
           F1 == Sites(At(l, "eor_partials"))
           v2 == Asks(At(l, "ExtensionOpeningPoint"))
           e2 == Asks(At(l, "ExtensionOpeningPoint"))
           F2 == {}
           v3 == When(RowBatch(sched, l), Asks(At(l, "ExtensionOpeningClaimBatch")))
           e3 == When(RowBatch(sched, l), Asks(At(l, "ExtensionOpeningClaimBatch")))
           F3 == IF RowBatch(sched, l) THEN {} ELSE {}
           v4 == HearsRounds(l, "Eor", 0, EorRounds(sched, l))
           e4 == SaysRounds(l, "Eor", 0, EorRounds(sched, l))
           F4 == Sites(Rounds(l, "Eor", 0, EorRounds(sched, l)))
           v5 == Hears(FinalClaims(sched, l))
           e5 == Says(FinalClaims(sched, l))
           F5 == Sites(FinalClaims(sched, l))
           v6 == Derives(At(l, "points"))
           e6 == Derives(At(l, "points"))
           F6 == {}
<1>20. Replays(v1, e1, F1) BY <1>1
<1>21. Replays(v2, e2, F2) BY <1>2
<1>22. Replays(v3, e3, F3) BY <1>3
<1>23. Replays(v4, e4, F4) BY <1>4
<1>24. Replays(v5, e5, F5) BY <1>5
<1>25. Replays(v6, e6, F6) BY <1>6
<1> HIDE DEF v1, e1, F1, v2, e2, F2, v3, e3, F3, v4, e4, F4, v5, e5, F5, v6, e6, F6
<1>42. Replays(v1 \o v2, e1 \o e2, (F1 \cup F2)) BY <1>20, <1>21, ReplaysConcat
<1>43. Replays(v1 \o v2 \o v3, e1 \o e2 \o e3, ((F1 \cup F2) \cup F3))
  BY <1>42, <1>22, ReplaysConcat
<1>44. Replays(v1 \o v2 \o v3 \o v4, e1 \o e2 \o e3 \o e4, (((F1 \cup F2) \cup F3) \cup F4))
  BY <1>43, <1>23, ReplaysConcat
<1>45. Replays(v1 \o v2 \o v3 \o v4 \o v5, e1 \o e2 \o e3 \o e4 \o e5,
           ((((F1 \cup F2) \cup F3) \cup F4) \cup F5))
  BY <1>44, <1>24, ReplaysConcat
<1>46. Replays(v1 \o v2 \o v3 \o v4 \o v5 \o v6, e1 \o e2 \o e3 \o e4 \o e5 \o e6,
           (((((F1 \cup F2) \cup F3) \cup F4) \cup F5) \cup F6))
  BY <1>45, <1>25, ReplaysConcat
<1>60. EorReplay(l) = v1 \o v2 \o v3 \o v4 \o v5 \o v6
           /\ EorEvents(sched, l) = e1 \o e2 \o e3 \o e4 \o e5 \o e6
  BY DEF EorReplay, EorEvents, v1, e1, v2, e2, v3, e3, v4, e4, v5, e5, v6, e6
<1>61. (((((F1 \cup F2) \cup F3) \cup F4) \cup F5) \cup F6) = EorFields(sched, l)
  BY DEF F1, F2, F3, F4, F5, F6, EorFields
<1> QED BY <1>46, <1>60, <1>61

\* The verifier replays the payload and the row-batching query.
LEMMA PayloadReplays ==
  ASSUME GivenOK, sched \in Schedules, NEW l \in 1 .. Terminal(sched)
  PROVE  Replays(Hears(At(l, "payload"))
         \o When(RowBatch(sched, l), Asks(At(l, "EvaluationBatch"))),
         PayloadEvents(sched, l), Sites(At(l, "payload")))
<1>0. l \in Nat BY LevelFacts
<1>1. Replays(Hears(At(l, "payload")), Says(At(l, "payload")), Sites(At(l, "payload")))
  BY <1>0, NameFacts, AtReplays
<1>2. Replays(When(RowBatch(sched, l), Asks(At(l, "EvaluationBatch"))),
          When(RowBatch(sched, l), Asks(At(l, "EvaluationBatch"))), IF RowBatch(sched, l)
          THEN {} ELSE {})
  <2>1. Replays(Asks(At(l, "EvaluationBatch")), Asks(At(l, "EvaluationBatch")), {})
    BY <1>0, NameFacts, AtReplays
  <2> QED BY <2>1, WhenReplays
<1> DEFINE v1 == Hears(At(l, "payload"))
           e1 == Says(At(l, "payload"))
           F1 == Sites(At(l, "payload"))
           v2 == When(RowBatch(sched, l), Asks(At(l, "EvaluationBatch")))
           e2 == When(RowBatch(sched, l), Asks(At(l, "EvaluationBatch")))
           F2 == IF RowBatch(sched, l) THEN {} ELSE {}
<1>20. Replays(v1, e1, F1) BY <1>1
<1>21. Replays(v2, e2, F2) BY <1>2
<1> HIDE DEF v1, e1, F1, v2, e2, F2
<1>42. Replays(v1 \o v2, e1 \o e2, (F1 \cup F2)) BY <1>20, <1>21, ReplaysConcat
<1>60. Hears(At(l, "payload")) \o When(RowBatch(sched, l), Asks(At(l, "EvaluationBatch")))
           = v1 \o v2 /\ PayloadEvents(sched, l) = e1 \o e2
  BY DEF PayloadEvents, v1, e1, v2, e2
<1>61. (F1 \cup F2) = Sites(At(l, "payload"))
  BY DEF F1, F2
<1> QED BY <1>42, <1>60, <1>61

\* It replays the fold queries from nothing but nonces.
LEMMA FoldReplays ==
  ASSUME GivenOK, sched \in Schedules, NEW l \in 1 .. Terminal(sched)
  PROVE  Replays(Asks(At(l, "FoldResponse")) \o Asks(FoldGroups(sched, l)),
         FoldEvents(sched, l), {})
<1>0. l \in Nat BY LevelFacts
<1>1. Replays(Asks(At(l, "FoldResponse")), Asks(At(l, "FoldResponse")), {})
  BY <1>0, NameFacts, AtReplays
<1>2. Replays(Asks(FoldGroups(sched, l)), Asks(FoldGroups(sched, l)), {})
  BY FoldGroupsType, QuietReplays
<1> DEFINE v1 == Asks(At(l, "FoldResponse"))
           e1 == Asks(At(l, "FoldResponse"))
           F1 == {}
           v2 == Asks(FoldGroups(sched, l))
           e2 == Asks(FoldGroups(sched, l))
           F2 == {}
<1>20. Replays(v1, e1, F1) BY <1>1
<1>21. Replays(v2, e2, F2) BY <1>2
<1> HIDE DEF v1, e1, F1, v2, e2, F2
<1>42. Replays(v1 \o v2, e1 \o e2, (F1 \cup F2)) BY <1>20, <1>21, ReplaysConcat
<1>60. Asks(At(l, "FoldResponse")) \o Asks(FoldGroups(sched, l)) = v1 \o v2
           /\ FoldEvents(sched, l) = e1 \o e2
  BY DEF FoldEvents, v1, e1, v2, e2
<1>61. (F1 \cup F2) = {}
  BY DEF F1, F2
<1> QED BY <1>42, <1>60, <1>61

\* It replays the ring switch.
LEMMA SwitchReplays ==
  ASSUME GivenOK, NEW l \in Nat
  PROVE  Replays(Asks(At(l, "RingSwitchAlpha")) \o Asks(At(l, "Tau0Point"))
                 \o Asks(At(l, "Tau1Point")), SwitchEvents(l), {})
<1>0. l \in Nat OBVIOUS
<1>1. Replays(Asks(At(l, "RingSwitchAlpha")), Asks(At(l, "RingSwitchAlpha")), {})
  BY <1>0, NameFacts, AtReplays
<1>2. Replays(Asks(At(l, "Tau0Point")), Asks(At(l, "Tau0Point")), {})
  BY <1>0, NameFacts, AtReplays
<1>3. Replays(Asks(At(l, "Tau1Point")), Asks(At(l, "Tau1Point")), {})
  BY <1>0, NameFacts, AtReplays
<1> DEFINE v1 == Asks(At(l, "RingSwitchAlpha"))
           e1 == Asks(At(l, "RingSwitchAlpha"))
           F1 == {}
           v2 == Asks(At(l, "Tau0Point"))
           e2 == Asks(At(l, "Tau0Point"))
           F2 == {}
           v3 == Asks(At(l, "Tau1Point"))
           e3 == Asks(At(l, "Tau1Point"))
           F3 == {}
<1>20. Replays(v1, e1, F1) BY <1>1
<1>21. Replays(v2, e2, F2) BY <1>2
<1>22. Replays(v3, e3, F3) BY <1>3
<1> HIDE DEF v1, e1, F1, v2, e2, F2, v3, e3, F3
<1>42. Replays(v1 \o v2, e1 \o e2, (F1 \cup F2)) BY <1>20, <1>21, ReplaysConcat
<1>43. Replays(v1 \o v2 \o v3, e1 \o e2 \o e3, ((F1 \cup F2) \cup F3))
  BY <1>42, <1>22, ReplaysConcat
<1>60. Asks(At(l, "RingSwitchAlpha")) \o Asks(At(l, "Tau0Point"))
                 \o Asks(At(l, "Tau1Point")) = v1 \o v2 \o v3
                     /\ SwitchEvents(l)
                     = e1 \o e2 \o e3 BY DEF SwitchEvents, v1, e1, v2, e2, v3, e3
<1>61. ((F1 \cup F2) \cup F3) = {}
  BY DEF F1, F2, F3
<1> QED BY <1>43, <1>60, <1>61

\* verify_stage2 replays stage 2.
LEMMA Stage2Replays ==
  ASSUME GivenOK, sched \in Schedules, NEW l \in 1 .. LevelCount(sched)
  PROVE  Replays(Stage2Replay(l), Stage2Events(sched, l), Stage2Fields(sched, l))
<1>0. l \in Nat BY LevelFacts
<1>00. sched.levels[l].rounds \in Nat /\ 0 \in Nat BY StageNumbers
<1>1. Replays(When(sched.levels[l].compressed, Asks(At(l, "CompressionBinary"))),
          When(sched.levels[l].compressed, Asks(At(l, "CompressionBinary"))),
          IF sched.levels[l].compressed THEN {} ELSE {})
  <2>1. Replays(Asks(At(l, "CompressionBinary")), Asks(At(l, "CompressionBinary")), {})
    BY <1>0, NameFacts, AtReplays
  <2> QED BY <2>1, WhenReplays
<1>2. Replays(Asks(At(l, "Stage2Batch")), Asks(At(l, "Stage2Batch")), {})
  BY <1>0, NameFacts, AtReplays
<1>3. Replays(HearsRounds(l, "Stage2", 0, sched.levels[l].rounds),
          SaysRounds(l, "Stage2", 0, sched.levels[l].rounds),
          Sites(Rounds(l, "Stage2", 0, sched.levels[l].rounds)))
  BY <1>0, <1>00, NameFacts, RoundsReplays
<1>4. Replays(Hears(At(l, "next_w_eval")), Says(At(l, "next_w_eval")),
          Sites(At(l, "next_w_eval")))
  BY <1>0, NameFacts, AtReplays
<1> DEFINE v1 == When(sched.levels[l].compressed, Asks(At(l, "CompressionBinary")))
           e1 == When(sched.levels[l].compressed, Asks(At(l, "CompressionBinary")))
           F1 == IF sched.levels[l].compressed THEN {} ELSE {}
           v2 == Asks(At(l, "Stage2Batch"))
           e2 == Asks(At(l, "Stage2Batch"))
           F2 == {}
           v3 == HearsRounds(l, "Stage2", 0, sched.levels[l].rounds)
           e3 == SaysRounds(l, "Stage2", 0, sched.levels[l].rounds)
           F3 == Sites(Rounds(l, "Stage2", 0, sched.levels[l].rounds))
           v4 == Hears(At(l, "next_w_eval"))
           e4 == Says(At(l, "next_w_eval"))
           F4 == Sites(At(l, "next_w_eval"))
<1>20. Replays(v1, e1, F1) BY <1>1
<1>21. Replays(v2, e2, F2) BY <1>2
<1>22. Replays(v3, e3, F3) BY <1>3
<1>23. Replays(v4, e4, F4) BY <1>4
<1> HIDE DEF v1, e1, F1, v2, e2, F2, v3, e3, F3, v4, e4, F4
<1>42. Replays(v1 \o v2, e1 \o e2, (F1 \cup F2)) BY <1>20, <1>21, ReplaysConcat
<1>43. Replays(v1 \o v2 \o v3, e1 \o e2 \o e3, ((F1 \cup F2) \cup F3))
  BY <1>42, <1>22, ReplaysConcat
<1>44. Replays(v1 \o v2 \o v3 \o v4, e1 \o e2 \o e3 \o e4, (((F1 \cup F2) \cup F3) \cup F4))
  BY <1>43, <1>23, ReplaysConcat
<1>60. Stage2Replay(l) = v1 \o v2 \o v3 \o v4 /\ Stage2Events(sched, l) = e1 \o e2 \o e3 \o e4
  BY DEF Stage2Replay, Stage2Events, v1, e1, v2, e2, v3, e3, v4, e4
<1>61. (((F1 \cup F2) \cup F3) \cup F4) = Stage2Fields(sched, l)
  BY DEF F1, F2, F3, F4, Stage2Fields
<1> QED BY <1>44, <1>60, <1>61

\* verify_stage3 replays the setup sumcheck; the slot is the verifier's own.
LEMMA Stage3Replays ==
  ASSUME GivenOK, sched \in Schedules, NEW l \in 1 .. LevelCount(sched), Defers(sched, l)
  PROVE  Replays(Stage3Replay(l), Stage3Events(sched, l), Stage3Sources(sched, l))
<1>0. l \in Nat BY LevelFacts
<1>00. PrefixVars(sched, l) \in Nat /\ 0 \in Nat BY ShapeFacts
<1>1. Replays(Hears(At(l, "prefix_slot")), Says(At(l, "prefix_slot")),
          Sites(At(l, "prefix_slot")))
  BY <1>0, NameFacts, AtReplays
<1>2. Replays(Hears(At(l, "setup_claim")), Says(At(l, "setup_claim")),
          Sites(At(l, "setup_claim")))
  BY <1>0, NameFacts, AtReplays
<1>3. Replays(HearsRounds(l, "Stage3", 0, PrefixVars(sched, l)),
          SaysRounds(l, "Stage3", 0, PrefixVars(sched, l)),
          Sites(Rounds(l, "Stage3", 0, PrefixVars(sched, l))))
  BY <1>0, <1>00, NameFacts, RoundsReplays
<1> DEFINE v1 == Hears(At(l, "prefix_slot"))
           e1 == Says(At(l, "prefix_slot"))
           F1 == Sites(At(l, "prefix_slot"))
           v2 == Hears(At(l, "setup_claim"))
           e2 == Says(At(l, "setup_claim"))
           F2 == Sites(At(l, "setup_claim"))
           v3 == HearsRounds(l, "Stage3", 0, PrefixVars(sched, l))
           e3 == SaysRounds(l, "Stage3", 0, PrefixVars(sched, l))
           F3 == Sites(Rounds(l, "Stage3", 0, PrefixVars(sched, l)))
<1>20. Replays(v1, e1, F1) BY <1>1
<1>21. Replays(v2, e2, F2) BY <1>2
<1>22. Replays(v3, e3, F3) BY <1>3
<1> HIDE DEF v1, e1, F1, v2, e2, F2, v3, e3, F3
<1>42. Replays(v1 \o v2, e1 \o e2, (F1 \cup F2)) BY <1>20, <1>21, ReplaysConcat
<1>43. Replays(v1 \o v2 \o v3, e1 \o e2 \o e3, ((F1 \cup F2) \cup F3))
  BY <1>42, <1>22, ReplaysConcat
<1>60. Stage3Replay(l) = v1 \o v2 \o v3 /\ Stage3Events(sched, l) = e1 \o e2 \o e3
  BY DEF Stage3Replay, Stage3Events, v1, e1, v2, e2, v3, e3
<1>61. ((F1 \cup F2) \cup F3) = Stage3Sources(sched, l)
  BY DEF F1, F2, F3, Stage3Sources
<1> QED BY <1>43, <1>60, <1>61

\* verify_physical_l2_norm replays the norm proof.
LEMMA NormReplays ==
  ASSUME GivenOK, sched \in Schedules, NEW l \in 1 .. LevelCount(sched)
  PROVE  Replays(NormReplay(l), NormEvents(sched, l), NormFields(sched, l)
         \cup Sites(At(l, "range_image")))
<1>0. l \in Nat BY LevelFacts
<1>00. sched.levels[l].rounds \in Nat /\ 0 \in Nat BY StageNumbers
<1>1. Replays(Hears(At(l, "norm_integer")), Says(At(l, "norm_integer")),
          Sites(At(l, "norm_integer")))
  BY <1>0, NameFacts, AtReplays
<1>2. Replays(When(sched.levels[l].route = "l2gram", Hears(At(l, "norm_subclaims"))
          \o Asks(At(l, "L2SubclaimBatch"))),
          When(sched.levels[l].route = "l2gram", Says(At(l, "norm_subclaims"))
          \o Asks(At(l, "L2SubclaimBatch"))), IF sched.levels[l].route = "l2gram"
          THEN Sites(At(l, "norm_subclaims")) \cup {} ELSE {})
  <2>1. Replays(Hears(At(l, "norm_subclaims")), Says(At(l, "norm_subclaims")),
            Sites(At(l, "norm_subclaims")))
    BY <1>0, NameFacts, AtReplays
  <2>2. Replays(Asks(At(l, "L2SubclaimBatch")), Asks(At(l, "L2SubclaimBatch")), {})
    BY <1>0, NameFacts, AtReplays
  <2>3. Replays(Hears(At(l, "norm_subclaims")) \o Asks(At(l, "L2SubclaimBatch")),
                Says(At(l, "norm_subclaims")) \o Asks(At(l, "L2SubclaimBatch")),
                Sites(At(l, "norm_subclaims")) \cup {})
    BY <2>1, <2>2, ReplaysConcat
  <2> QED BY <2>3, WhenReplays
<1>3. Replays(Asks(At(l, "L2NormMerge")), Asks(At(l, "L2NormMerge")), {})
  BY <1>0, NameFacts, AtReplays
<1>4. Replays(HearsRounds(l, "PhysicalL2", 0, sched.levels[l].rounds),
          SaysRounds(l, "PhysicalL2", 0, sched.levels[l].rounds),
          Sites(Rounds(l, "PhysicalL2", 0, sched.levels[l].rounds)))
  BY <1>0, <1>00, NameFacts, RoundsReplays
<1>5. Replays(Hears(At(l, "norm_virtual")), Says(At(l, "norm_virtual")),
          Sites(At(l, "norm_virtual")))
  BY <1>0, NameFacts, AtReplays
<1>6. Replays(Hears(At(l, "range_image")), Says(At(l, "range_image")),
          Sites(At(l, "range_image")))
  BY <1>0, NameFacts, AtReplays
<1>7. Replays(Asks(At(l, "L2VirtualBatch")), Asks(At(l, "L2VirtualBatch")), {})
  BY <1>0, NameFacts, AtReplays
<1> DEFINE v1 == Hears(At(l, "norm_integer"))
           e1 == Says(At(l, "norm_integer"))
           F1 == Sites(At(l, "norm_integer"))
           v2 == When(sched.levels[l].route = "l2gram", Hears(At(l, "norm_subclaims"))
               \o Asks(At(l, "L2SubclaimBatch")))
           e2 == When(sched.levels[l].route = "l2gram", Says(At(l, "norm_subclaims"))
               \o Asks(At(l, "L2SubclaimBatch")))
           F2 == IF sched.levels[l].route = "l2gram"
               THEN Sites(At(l, "norm_subclaims")) \cup {} ELSE {}
           v3 == Asks(At(l, "L2NormMerge"))
           e3 == Asks(At(l, "L2NormMerge"))
           F3 == {}
           v4 == HearsRounds(l, "PhysicalL2", 0, sched.levels[l].rounds)
           e4 == SaysRounds(l, "PhysicalL2", 0, sched.levels[l].rounds)
           F4 == Sites(Rounds(l, "PhysicalL2", 0, sched.levels[l].rounds))
           v5 == Hears(At(l, "norm_virtual"))
           e5 == Says(At(l, "norm_virtual"))
           F5 == Sites(At(l, "norm_virtual"))
           v6 == Hears(At(l, "range_image"))
           e6 == Says(At(l, "range_image"))
           F6 == Sites(At(l, "range_image"))
           v7 == Asks(At(l, "L2VirtualBatch"))
           e7 == Asks(At(l, "L2VirtualBatch"))
           F7 == {}
<1>20. Replays(v1, e1, F1) BY <1>1
<1>21. Replays(v2, e2, F2) BY <1>2
<1>22. Replays(v3, e3, F3) BY <1>3
<1>23. Replays(v4, e4, F4) BY <1>4
<1>24. Replays(v5, e5, F5) BY <1>5
<1>25. Replays(v6, e6, F6) BY <1>6
<1>26. Replays(v7, e7, F7) BY <1>7
<1> HIDE DEF v1, e1, F1, v2, e2, F2, v3, e3, F3, v4, e4, F4, v5, e5, F5, v6, e6, F6, v7, e7, F7
<1>42. Replays(v1 \o v2, e1 \o e2, (F1 \cup F2)) BY <1>20, <1>21, ReplaysConcat
<1>43. Replays(v1 \o v2 \o v3, e1 \o e2 \o e3, ((F1 \cup F2) \cup F3))
  BY <1>42, <1>22, ReplaysConcat
<1>44. Replays(v1 \o v2 \o v3 \o v4, e1 \o e2 \o e3 \o e4, (((F1 \cup F2) \cup F3) \cup F4))
  BY <1>43, <1>23, ReplaysConcat
<1>45. Replays(v1 \o v2 \o v3 \o v4 \o v5, e1 \o e2 \o e3 \o e4 \o e5,
           ((((F1 \cup F2) \cup F3) \cup F4) \cup F5))
  BY <1>44, <1>24, ReplaysConcat
<1>46. Replays(v1 \o v2 \o v3 \o v4 \o v5 \o v6, e1 \o e2 \o e3 \o e4 \o e5 \o e6,
           (((((F1 \cup F2) \cup F3) \cup F4) \cup F5) \cup F6))
  BY <1>45, <1>25, ReplaysConcat
<1>47. Replays(v1 \o v2 \o v3 \o v4 \o v5 \o v6 \o v7, e1 \o e2 \o e3 \o e4 \o e5 \o e6
           \o e7, ((((((F1 \cup F2) \cup F3) \cup F4) \cup F5) \cup F6) \cup F7))
  BY <1>46, <1>26, ReplaysConcat
<1>60. NormReplay(l) = v1 \o v2 \o v3 \o v4 \o v5 \o v6 \o v7
           /\ NormEvents(sched, l) = e1 \o e2 \o e3 \o e4 \o e5 \o e6 \o e7
  BY DEF NormReplay, NormEvents, v1, e1, v2, e2, v3, e3, v4, e4, v5, e5, v6, e6, v7, e7
<1>61. ((((((F1 \cup F2) \cup F3) \cup F4) \cup F5) \cup F6) \cup F7)
           = NormFields(sched, l) \cup Sites(At(l, "range_image"))
  BY DEF F1, F2, F3, F4, F5, F6, F7, NormFields
<1> QED BY <1>47, <1>60, <1>61

\* The leaf of the range proof.
LEMMA LeafReplays ==
  ASSUME GivenOK, sched \in Schedules, NEW l \in 1 .. LevelCount(sched)
  PROVE  Replays(LeafReplay(l), LeafEvents(sched, l),
         Sites(Rounds(l, "Stage1", sched.levels[l].products + 1, sched.levels[l].rounds))
                 \cup Sites(At(l, "range_image")))
<1>0. l \in Nat BY LevelFacts
<1>00. sched.levels[l].rounds \in Nat /\ 0 \in Nat BY StageNumbers
<1>01. sched.levels[l].products + 1 \in Nat BY StageNumbers
<1>1. Replays(HearsRounds(l, "Stage1", sched.levels[l].products + 1,
          sched.levels[l].rounds),
          SaysRounds(l, "Stage1", sched.levels[l].products + 1, sched.levels[l].rounds),
          Sites(Rounds(l, "Stage1", sched.levels[l].products + 1, sched.levels[l].rounds)))
  BY <1>0, <1>00, <1>01, NameFacts, RoundsReplays
<1>2. Replays(Hears(At(l, "range_image")), Says(At(l, "range_image")),
          Sites(At(l, "range_image")))
  BY <1>0, NameFacts, AtReplays
<1> DEFINE v1 == HearsRounds(l, "Stage1", sched.levels[l].products + 1, sched.levels[l].rounds)
           e1 == SaysRounds(l, "Stage1", sched.levels[l].products + 1, sched.levels[l].rounds)
           F1 == Sites(Rounds(l, "Stage1", sched.levels[l].products + 1,
               sched.levels[l].rounds))
           v2 == Hears(At(l, "range_image"))
           e2 == Says(At(l, "range_image"))
           F2 == Sites(At(l, "range_image"))
<1>20. Replays(v1, e1, F1) BY <1>1
<1>21. Replays(v2, e2, F2) BY <1>2
<1> HIDE DEF v1, e1, F1, v2, e2, F2
<1>42. Replays(v1 \o v2, e1 \o e2, (F1 \cup F2)) BY <1>20, <1>21, ReplaysConcat
<1>60. LeafReplay(l) = v1 \o v2 /\ LeafEvents(sched, l) = e1 \o e2
  BY DEF LeafReplay, LeafEvents, v1, e1, v2, e2
<1>61. (F1 \cup F2) = Sites(Rounds(l, "Stage1", sched.levels[l].products + 1,
           sched.levels[l].rounds))
                 \cup Sites(At(l, "range_image"))
  BY DEF F1, F2
<1> QED BY <1>42, <1>60, <1>61

\* The messages of n product stages of m rounds.
ProductSources(l, m, n) ==
  {Site(l, "Stage1", j, r) : j \in 1 .. m, r \in 1 .. n}
      \cup {Site(l, "child_claims", j, 0) : j \in 1 .. m}

\* verify_product_prefix replays the product stages.
LEMMA ProductReplays ==
  ASSUME GivenOK, sched \in Schedules, NEW l \in 1 .. LevelCount(sched), NEW m, NEW n,
         m = sched.levels[l].products, n = sched.levels[l].rounds
  PROVE  Replays(ProductPrefix(l), ProductEvents(sched, l), ProductSources(l, m, n))
<1> DEFINE x(j) == HearsRounds(l, "Stage1", j, n)
                    \o Hears(<<Site(l, "child_claims", j, 0)>>)
                    \o Asks(<<Site(l, "Stage1InterstageBatch", j, 0)>>)
           y(j) == SaysRounds(l, "Stage1", j, n)
                    \o Says(<<Site(l, "child_claims", j, 0)>>)
                    \o Asks(<<Site(l, "Stage1InterstageBatch", j, 0)>>)
           z(j) == {Site(l, "Stage1", j, r) : r \in 1 .. n}
               \cup {Site(l, "child_claims", j, 0)}
           f == [j \in 1 .. m |-> x(j)]
           g == [j \in 1 .. m |-> y(j)]
           h == [j \in 1 .. m |-> z(j)]
<1>0. l \in Nat /\ m \in Nat /\ n \in Nat BY StageNumbers
<1>1. ASSUME NEW j \in Nat PROVE Replays(x(j), y(j), z(j))
  <2> DEFINE c == <<Site(l, "child_claims", j, 0)>>
             b == <<Site(l, "Stage1InterstageBatch", j, 0)>>
             p == Rounds(l, "Stage1", j, n)
  <2>1. Site(l, "child_claims", j, 0) \in Places
            /\ Site(l, "Stage1InterstageBatch", j, 0) \in Places
    BY <1>0, SiteType, NameFacts
  <2>2. c \in Seq(Places) /\ b \in Seq(Places)
    BY <2>1, Single
  <2>3. Sites(c) = {Site(l, "child_claims", j, 0)}
    <3>1. DOMAIN c = 1 .. 1 /\ c[1] = Site(l, "child_claims", j, 0) OBVIOUS
    <3>2. \A k : k \in 1 .. 1 <=> k = 1 OBVIOUS
    <3> QED BY <3>1, <3>2 DEF Sites
  <2>4. Sites(p) = {Site(l, "Stage1", j, r) : r \in 1 .. n}
    <3>1. DOMAIN p = 1 .. n BY DEF Rounds
    <3>2. \A r \in 1 .. n : p[r] = Site(l, "Stage1", j, r) BY DEF Rounds
    <3> QED BY <3>1, <3>2, Zenon DEF Sites
  <2>5. Replays(HearsRounds(l, "Stage1", j, n), SaysRounds(l, "Stage1", j, n), Sites(p))
    BY <1>0, RoundsReplays, NameFacts
  <2> HIDE DEF c, b, p
  <2>6. Replays(Hears(c), Says(c), Sites(c)) BY <2>2, HearsReplays
  <2>7. Replays(Asks(b), Asks(b), {}) BY <2>2, QuietReplays
  <2>8. Replays(HearsRounds(l, "Stage1", j, n) \o Hears(c), SaysRounds(l, "Stage1", j, n)
            \o Says(c),
                Sites(p) \cup Sites(c))
    BY <2>5, <2>6, ReplaysConcat
  <2>9. Replays(HearsRounds(l, "Stage1", j, n) \o Hears(c) \o Asks(b),
                SaysRounds(l, "Stage1", j, n) \o Says(c) \o Asks(b),
                    (Sites(p) \cup Sites(c)) \cup {})
    BY <2>7, <2>8, ReplaysConcat
  <2>10. (Sites(p) \cup Sites(c)) \cup {} = z(j) BY <2>3, <2>4
  <2> QED BY <2>9, <2>10 DEF c, b
<1>2. \A j \in Nat : x(j) \in Seq(EventSet) /\ y(j) \in Seq(EventSet)
  BY <1>1 DEF Replays, Echo, Same
<1>3. ProductPrefix(l) = FlattenSeq(f) /\ ProductEvents(sched, l) = FlattenSeq(g)
  BY DEF ProductPrefix, ProductEvents
<1>4. ASSUME NEW u PROVE u \in ProductSources(l, m, n) <=> \E j \in 1 .. m : u \in h[j]
  <2>1. \A j \in 1 .. m : h[j] = z(j) OBVIOUS
  <2>2. u \in ProductSources(l, m, n) <=> \E j \in 1 .. m : u \in z(j)
    <3>1. u \in ProductSources(l, m, n) <=>
            \/ \E j \in 1 .. m : \E r \in 1 .. n : u = Site(l, "Stage1", j, r)
            \/ \E j \in 1 .. m : u = Site(l, "child_claims", j, 0)
      BY DEF ProductSources
    <3>2. \A j : u \in z(j) <=>
            (\E r \in 1 .. n : u = Site(l, "Stage1", j, r))
                \/ u = Site(l, "child_claims", j, 0)
      OBVIOUS
    <3> HIDE DEF z
    <3> QED BY <3>1, <3>2, Zenon
  <2> HIDE DEF z, h
  <2> QED BY <2>1, <2>2
<1> HIDE DEF x, y, z
<1>5. \A j \in 1 .. m : j \in Nat BY <1>0
<1>6. /\ f \in [1 .. m -> Seq(EventSet)] /\ g \in [1 .. m -> Seq(EventSet)]
      /\ \A j \in 1 .. m : Replays(f[j], g[j], h[j])
  BY <1>1, <1>2, <1>5
<1> HIDE DEF f, g, h
<1>7. Replays(FlattenSeq(f), FlattenSeq(g), ProductSources(l, m, n))
  BY <1>0, <1>4, <1>6, FlattenReplays
<1> QED BY <1>3, <1>7

\* Stage 1 with what its route puts in place of the leaf.
LEMMA Stage1Replays ==
  ASSUME GivenOK, sched \in Schedules, NEW l \in 1 .. LevelCount(sched)
  PROVE  /\ sched.levels[l].route = "linf" =>
              Replays(ProductPrefix(l) \o LeafReplay(l), Stage1Events(sched, l),
                  Stage1Sources(sched, l))
         /\ sched.levels[l].route # "linf" =>
              Replays(ProductPrefix(l) \o NormReplay(l), Stage1Events(sched, l)
                  \o NormEvents(sched, l),
                      Stage1Sources(sched, l))
<1> DEFINE m == sched.levels[l].products
           n == sched.levels[l].rounds
           P == ProductSources(l, m, n)
           I == Sites(At(l, "range_image"))
<1>0. l \in Nat /\ m \in Nat /\ n \in Nat /\ m + 1 \in Nat BY StageNumbers
<1>1. Replays(ProductPrefix(l), ProductEvents(sched, l), P) BY ProductReplays
<1>2. CASE sched.levels[l].route = "linf"
  <2> DEFINE G == Sites(Rounds(l, "Stage1", m + 1, n))
  <2>1. Replays(LeafReplay(l), LeafEvents(sched, l), G \cup I) BY LeafReplays
  <2>2. Stage1Events(sched, l) = ProductEvents(sched, l) \o LeafEvents(sched, l)
    BY <1>2 DEF Stage1Events, When
  <2>3. Replays(ProductPrefix(l) \o LeafReplay(l), Stage1Events(sched, l), P \cup (G \cup I))
    <3> HIDE DEF P, G, I
    <3> QED BY <1>1, <2>1, <2>2, ReplaysConcat
  <2>4. G = {Site(l, "Stage1", m + 1, r) : r \in 1 .. n}
    <3> DEFINE p == Rounds(l, "Stage1", m + 1, n)
    <3>1. DOMAIN p = 1 .. n BY DEF Rounds
    <3>2. \A r \in 1 .. n : p[r] = Site(l, "Stage1", m + 1, r) BY DEF Rounds
    <3> QED BY <3>1, <3>2, Zenon DEF Sites
  <2>5. Stage1Polys(sched, l) = {Site(l, "Stage1", j, r) : j \in 1 .. m + 1, r \in 1 .. n}
    BY <1>2 DEF Stage1Polys
  <2>6. \A j : j \in 1 .. m + 1 <=> (j \in 1 .. m \/ j = m + 1) BY <1>0
  <2>7. Stage1Polys(sched, l) = {Site(l, "Stage1", j, r) : j \in 1 .. m, r \in 1 .. n} \cup G
    <3> HIDE DEF m, n, G
    <3>1. ASSUME NEW u
          PROVE  u \in Stage1Polys(sched, l)
                 <=> u \in {Site(l, "Stage1", j, r) : j \in 1 .. m, r \in 1 .. n} \cup G
      <4> DEFINE k == m + 1
      <4>1. \A j : j \in 1 .. k <=> (j \in 1 .. m \/ j = k) BY <2>6
      <4>2. G = {Site(l, "Stage1", k, r) : r \in 1 .. n} BY <2>4
      <4>3. Stage1Polys(sched, l) = {Site(l, "Stage1", j, r) : j \in 1 .. k, r \in 1 .. n}
        BY <2>5
      <4>4. u \in {Site(l, "Stage1", j, r) : j \in 1 .. m, r \in 1 .. n}
              <=> \E j \in 1 .. m : \E r \in 1 .. n : u = Site(l, "Stage1", j, r)
        OBVIOUS
      <4>5. u \in G <=> \E r \in 1 .. n : u = Site(l, "Stage1", k, r) BY <4>2
      <4>6. u \in Stage1Polys(sched, l)
                <=> \E j \in 1 .. k : \E r \in 1 .. n : u = Site(l, "Stage1", j, r)
        BY <4>3
      <4> HIDE DEF k
      <4>7. u \in Stage1Polys(sched, l)
            <=> u \in {Site(l, "Stage1", j, r) : j \in 1 .. m, r \in 1 .. n} \/ u \in G
        BY <4>1, <4>4, <4>5, <4>6
      <4> QED BY <4>7
    <3> QED BY <3>1
  <2>8. P \cup (G \cup I) = Stage1Sources(sched, l)
    <3> DEFINE A == {Site(l, "Stage1", j, r) : j \in 1 .. m, r \in 1 .. n}
               C == {Site(l, "child_claims", j, 0) : j \in 1 .. m}
    <3>1. P = A \cup C BY DEF ProductSources
    <3>2. Stage1Sources(sched, l) = ((Stage1Polys(sched, l) \cup C) \cup I) \cup {}
      BY <1>2 DEF Stage1Sources, Stage1Fields, ChildClaims
    <3> HIDE DEF A, C, P, G, I
    <3> QED BY <2>7, <3>1, <3>2 DEF A
  <2> QED BY <1>2, <2>3, <2>8
<1>3. CASE sched.levels[l].route # "linf"
  <2> DEFINE N == NormFields(sched, l)
  <2>1. Replays(NormReplay(l), NormEvents(sched, l), N \cup I) BY NormReplays
  <2>2. Stage1Events(sched, l) = ProductEvents(sched, l)
    <3>1. Stage1Events(sched, l) = ProductEvents(sched, l) \o <<>>
      BY <1>3 DEF Stage1Events, When
    <3>2. ProductEvents(sched, l) \in Seq(EventSet) BY <1>1 DEF Replays, Echo, Same
    <3> QED BY <3>1, <3>2, EmptyConcat
  <2>3. Replays(ProductPrefix(l) \o NormReplay(l), Stage1Events(sched, l)
            \o NormEvents(sched, l),
                P \cup (N \cup I))
    <3> HIDE DEF P, N, I
    <3> QED BY <1>1, <2>1, <2>2, ReplaysConcat
  <2>4. P \cup (N \cup I) = Stage1Sources(sched, l)
    <3>0. m + 0 = m BY <1>0
    <3> DEFINE A == {Site(l, "Stage1", j, r) : j \in 1 .. m, r \in 1 .. n}
               C == {Site(l, "child_claims", j, 0) : j \in 1 .. m}
    <3>1. P = A \cup C BY DEF ProductSources
    <3>2. Stage1Polys(sched, l) = A BY <1>3, <3>0 DEF Stage1Polys
    <3>3. Stage1Sources(sched, l) = ((Stage1Polys(sched, l) \cup C) \cup I) \cup N
      BY <1>3 DEF Stage1Sources, Stage1Fields, ChildClaims
    <3> HIDE DEF A, C, P, N, I
    <3> QED BY <3>1, <3>2, <3>3
  <2> QED BY <1>3, <2>3, <2>4
<1> QED BY <1>2, <1>3

\* The place of a message sent once per level, as a set.
LEMMA AtSites == ASSUME NEW l, NEW name PROVE Sites(At(l, name)) = {Site(l, name, 0, 0)}
<1>1. DOMAIN At(l, name) = 1 .. 1 /\ At(l, name)[1] = Site(l, name, 0, 0) BY DEF At
<1>2. \A k : k \in 1 .. 1 <=> k = 1 OBVIOUS
<1> QED BY <1>1, <1>2 DEF Sites

\* A level opens two claims exactly if its predecessor deferred its setup
\* contribution.
LEMMA DefersCount ==
  ASSUME NEW s \in Schedules, NEW l \in 2 .. Terminal(s)
  PROVE  /\ PolyCount(s, l) = IF Defers(s, l - 1) THEN 2 ELSE 1
         /\ l <= LevelCount(s) => (Defers(s, l - 1) <=> s.levels[l].prefix)
         /\ l = Terminal(s) => ~Defers(s, l - 1)
         /\ l - 1 \in 1 .. LevelCount(s) /\ l \in 1 .. Terminal(s) /\ l \in Nat
             /\ l - 1 \in Nat
         /\ l - 1 + 1 = l
<1>1. LevelCount(s) \in Nat /\ Terminal(s) = LevelCount(s) + 1 BY LevelFacts
<1>2. l - 1 \in 1 .. LevelCount(s) /\ l \in 1 .. Terminal(s) /\ l \in Nat /\ l - 1 \in Nat
          /\ l - 1 + 1 = l
  BY <1>1
<1>3. CASE l <= LevelCount(s)
  <2>1. l \in 2 .. LevelCount(s) /\ l - 1 < LevelCount(s) /\ l # Terminal(s) BY <1>1, <1>3
  <2>2. PolyCount(s, l) = IF s.levels[l].prefix THEN 2 ELSE 1 BY <2>1, ShapeFacts
  <2>3. Defers(s, l - 1) <=> s.levels[l].prefix BY <1>2, <2>1 DEF Defers
  <2> QED BY <1>2, <2>1, <2>2, <2>3
<1>4. CASE ~(l <= LevelCount(s))
  <2>1. l = Terminal(s) /\ ~(l - 1 < LevelCount(s)) BY <1>1, <1>4
  <2>2. PolyCount(s, l) = 1 BY <2>1, ShapeFacts
  <2>3. ~Defers(s, l - 1) BY <2>1 DEF Defers
  <2> QED BY <1>2, <1>4, <2>2, <2>3
<1> QED BY <1>3, <1>4

\* The claims a level opens are the evaluations its predecessor shipped, under
\* other names.
LEMMA IncomingReplays ==
  ASSUME GivenOK, sched \in Schedules, NEW l \in 2 .. Terminal(sched), NEW prefix,
         prefix <=> Defers(sched, l - 1)
  PROVE  Replays(IncomingValues(l, prefix), Says(ClaimSites(sched, l)),
                 Sites(At(l - 1, "next_w_eval"))
                 \cup (IF Defers(sched, l - 1) THEN Sites(At(l - 1, "setup_prefix_eval"))
                     ELSE {}))
<1> DEFINE a == Site(l - 1, "setup_prefix_eval", 0, 0)
           b == Site(l - 1, "next_w_eval", 0, 0)
           q == When(prefix, At(l - 1, "setup_prefix_eval")) \o At(l - 1, "next_w_eval")
           p == ClaimSites(sched, l)
           v == IncomingValues(l, prefix)
           F == Sites(At(l - 1, "next_w_eval"))
                 \cup (IF Defers(sched, l - 1) THEN Sites(At(l - 1, "setup_prefix_eval"))
                     ELSE {})
<1>1. l \in 1 .. Terminal(sched) /\ PolyCount(sched, l) = IF Defers(sched, l - 1) THEN 2 ELSE 1
  BY DefersCount
<1>2. /\ p \in Seq(Places) /\ Len(p) = PolyCount(sched, l) /\ DOMAIN p = 1 .. Len(p)
      /\ \A i \in 1 .. Len(p) : p[i] = Site(l, "values", i, 0)
  <2>1. p \in Seq(Places) /\ Len(p) = PolyCount(sched, l) BY <1>1, ClaimsType
  <2>2. p = [i \in 1 .. PolyCount(sched, l) |-> Site(l, "values", i, 0)] BY DEF ClaimSites
  <2> HIDE DEF p
  <2>3. DOMAIN p = 1 .. Len(p) BY <2>1
  <2> QED BY <2>1, <2>2, <2>3
<1>3. v = [i \in DOMAIN q |-> Event("absorb", Site(l, "values", i, 0), Val(q[i]))]
  BY DEF IncomingValues
<1>4. CASE Defers(sched, l - 1)
  <2>1. q = <<a>> \o <<b>> BY <1>4 DEF When, At
  <2>2. F = {a, b} BY <1>4, AtSites
  <2>3. Len(p) = 2 BY <1>1, <1>2, <1>4
  <2> HIDE DEF a, b, q, p, v, F
  <2>4. DOMAIN q = DOMAIN p /\ q[1] = a /\ q[2] = b
    <3>1. <<a>> \in Seq({a, b}) /\ <<b>> \in Seq({a, b}) /\ Len(<<a>>) = 1 /\ Len(<<b>>) = 1
          /\ <<a>>[1] = a /\ <<b>>[1] = b
      OBVIOUS
    <3> DEFINE c == <<a>>
               d == <<b>>
    <3>2. c \in Seq({a, b}) /\ d \in Seq({a, b}) /\ Len(c) = 1 /\ Len(d) = 1 /\ c[1] = a
              /\ d[1] = b
          /\ q = c \o d
      BY <2>1, <3>1
    <3> HIDE DEF c, d
    <3>3. DOMAIN (c \o d) = 1 .. 1 + 1 /\ (c \o d)[1] = c[1] /\ (c \o d)[1 + 1] = d[1]
      BY <3>2, ConcatFacts
    <3>4. 1 + 1 = 2 OBVIOUS
    <3> QED BY <1>2, <2>3, <3>2, <3>3, <3>4
  <2>5. v = [i \in DOMAIN p |-> Event("absorb", p[i], Val(q[i]))] BY <1>2, <1>3, <2>4, Zenon
  <2>6. Replays(v, Says(p), {q[i] : i \in 1 .. Len(p)}) BY <1>2, <2>5, HeardReplays
  <2>7. {q[i] : i \in 1 .. Len(p)} = F
    <3>1. \A i : i \in 1 .. Len(p) <=> (i = 1 \/ i = 2) BY <2>3
    <3> QED BY <2>2, <2>4, <3>1
  <2> QED BY <2>6, <2>7 DEF v, p, F
<1>5. CASE ~Defers(sched, l - 1)
  <2>1. q = <<>> \o <<b>> BY <1>5 DEF When, At
  <2>2. F = {b} BY <1>5, AtSites
  <2>3. Len(p) = 1 BY <1>1, <1>2, <1>5
  <2> HIDE DEF a, b, q, p, v, F
  <2>4. DOMAIN q = DOMAIN p /\ q[1] = b
    <3>1. q = <<b>>
      <4>1. <<b>> \in Seq({b}) OBVIOUS
      <4> QED BY <2>1, <4>1, EmptyConcat
    <3>2. DOMAIN <<b>> = 1 .. 1 /\ <<b>>[1] = b OBVIOUS
    <3> QED BY <1>2, <2>3, <3>1, <3>2
  <2>5. v = [i \in DOMAIN p |-> Event("absorb", p[i], Val(q[i]))] BY <1>2, <1>3, <2>4, Zenon
  <2>6. Replays(v, Says(p), {q[i] : i \in 1 .. Len(p)}) BY <1>2, <2>5, HeardReplays
  <2>7. {q[i] : i \in 1 .. Len(p)} = F
    <3>1. \A i : i \in 1 .. Len(p) <=> i = 1 BY <2>3
    <3> QED BY <2>2, <2>4, <3>1
  <2> QED BY <2>6, <2>7 DEF v, p, F
<1> QED BY <1>4, <1>5

\* A message absorbed a second time under another name.
LEMMA AsReplays ==
  ASSUME GivenOK, NEW l \in Nat, NEW name \in Names, NEW y
  PROVE  Replays(HearsAs(Site(l, name, 0, 0), y), Says(At(l, name)), {y})
<1>1. Site(l, name, 0, 0) \in Places BY SiteType
<1>2. At(l, name) = <<Site(l, name, 0, 0)>> BY DEF At
<1> QED BY <1>1, <1>2, HearsAsReplays

\* prepare_fold_replay rebinds the incoming witness and its claims.
LEMMA ClaimReplays ==
  ASSUME GivenOK, sched \in Schedules, NEW l \in 2 .. Terminal(sched), NEW prefix,
         prefix <=> Defers(sched, l - 1)
  PROVE  Replays(ClaimsReplay(l, NextWitness(sched, l - 1), prefix), ClaimEvents(sched, l),
                 ClaimSources(sched, l))
<1> DEFINE w == NextWitness(sched, l - 1)
           v1 == HearsAs(Site(l, "commitment", 0, 0), w)
           v2 == When(~Reduces(sched, l), Derives(At(l, "points")))
           v3 == IncomingValues(l, prefix)
           e1 == Says(At(l, "commitment"))
           e3 == Says(ClaimSites(sched, l))
           F3 == Sites(At(l - 1, "next_w_eval"))
                   \cup (IF Defers(sched, l - 1) THEN Sites(At(l - 1, "setup_prefix_eval"))
                       ELSE {})
<1>0. l \in Nat BY DefersCount
<1>1. Replays(v1, e1, {w}) BY <1>0, NameFacts, AsReplays
<1>2. Replays(v2, v2, {})
  <2>1. Replays(Derives(At(l, "points")), Derives(At(l, "points")), {})
    BY <1>0, NameFacts, AtReplays
  <2>2. Replays(v2, v2, IF ~Reduces(sched, l) THEN {} ELSE {}) BY <2>1, WhenReplays
  <2> HIDE DEF v2
  <2> QED BY <2>2
<1>3. Replays(v3, e3, F3) BY IncomingReplays
<1>4. /\ ClaimsReplay(l, NextWitness(sched, l - 1), prefix) = v1 \o v2 \o v3
      /\ ClaimEvents(sched, l) = e1 \o v2 \o e3
  BY DEF ClaimsReplay, ClaimEvents
<1>5. ClaimSources(sched, l) = ({w} \cup {}) \cup F3 BY DEF ClaimSources
<1> HIDE DEF v1, v2, v3, e1, e3, F3, w
<1>6. Replays(v1 \o v2, e1 \o v2, {w} \cup {}) BY <1>1, <1>2, ReplaysConcat
<1>7. Replays(v1 \o v2 \o v3, e1 \o v2 \o e3, ({w} \cup {}) \cup F3)
  BY <1>3, <1>6, ReplaysConcat
<1> QED BY <1>4, <1>5, <1>7 DEF w

\* The queries of e are numbered 1 to DrawCount(e) without a gap.
Numbered(e) ==
  /\ e \in Seq(EventSet)
  /\ \A k \in 1 .. DrawCount(e) : \E i \in 1 .. Len(e) : IsDraw(e[i])
      /\ DrawCount(SubSeq(e, 1, i)) = k
  /\ \A i \in 1 .. Len(e) : IsDraw(e[i]) => DrawCount(SubSeq(e, 1, i)) \in 1 .. DrawCount(e)

\* Numbering queries works on lists appended.
LEMMA NumberedConcat ==
  ASSUME NEW a, NEW b, Numbered(a), Numbered(b)
  PROVE  Numbered(a \o b)
<1> DEFINE c == a \o b
           A == DrawCount(a)
           B == DrawCount(b)
<1>1. a \in Seq(EventSet) /\ b \in Seq(EventSet) BY DEF Numbered
<1>2. /\ c \in Seq(EventSet) /\ Len(c) = Len(a) + Len(b) /\ Len(a) \in Nat /\ Len(b) \in Nat
      /\ \A i \in 1 .. Len(a) : c[i] = a[i]
      /\ \A i \in 1 .. Len(b) : c[Len(a) + i] = b[i]
  BY <1>1, ConcatFacts
<1>3. A \in Nat /\ B \in Nat /\ DrawCount(c) = A + B BY <1>1, DrawsFinite, CountConcat
<1>4. /\ \A i \in 1 .. Len(a) : DrawCount(SubSeq(c, 1, i)) = DrawCount(SubSeq(a, 1, i))
      /\ \A i \in 1 .. Len(b) : DrawCount(SubSeq(c, 1, Len(a) + i))
          = A + DrawCount(SubSeq(b, 1, i))
  BY <1>1, IndexConcat
<1>5. /\ \A k \in 1 .. A : \E i \in 1 .. Len(a) : IsDraw(a[i])
          /\ DrawCount(SubSeq(a, 1, i)) = k
      /\ \A i \in 1 .. Len(a) : IsDraw(a[i]) => DrawCount(SubSeq(a, 1, i)) \in 1 .. A
      /\ \A k \in 1 .. B : \E i \in 1 .. Len(b) : IsDraw(b[i])
          /\ DrawCount(SubSeq(b, 1, i)) = k
      /\ \A i \in 1 .. Len(b) : IsDraw(b[i]) => DrawCount(SubSeq(b, 1, i)) \in 1 .. B
  BY DEF Numbered
<1> HIDE DEF c, A, B
<1>6. ASSUME NEW k \in 1 .. DrawCount(c)
      PROVE  \E i \in 1 .. Len(c) : IsDraw(c[i]) /\ DrawCount(SubSeq(c, 1, i)) = k
  <2>1. CASE k <= A
    <3>1. k \in 1 .. A BY <1>3, <2>1
    <3>2. PICK i \in 1 .. Len(a) : IsDraw(a[i]) /\ DrawCount(SubSeq(a, 1, i)) = k BY <1>5, <3>1
    <3>3. i \in 1 .. Len(c) /\ c[i] = a[i] /\ DrawCount(SubSeq(c, 1, i)) = k
      BY <1>2, <1>4, <3>2
    <3> QED BY <3>2, <3>3
  <2>2. CASE k > A
    <3> DEFINE m == k - A
    <3>1. m \in 1 .. B /\ A + m = k BY <1>3, <2>2
    <3> HIDE DEF m
    <3>2. PICK i \in 1 .. Len(b) : IsDraw(b[i]) /\ DrawCount(SubSeq(b, 1, i)) = m BY <1>5, <3>1
    <3> DEFINE j == Len(a) + i
    <3>3. j \in 1 .. Len(c) /\ c[j] = b[i] /\ DrawCount(SubSeq(c, 1, j)) = A + m
      BY <1>2, <1>4, <3>2
    <3> HIDE DEF j
    <3> QED BY <3>1, <3>2, <3>3
  <2> QED BY <1>3, <2>1, <2>2
<1>7. ASSUME NEW i \in 1 .. Len(c), IsDraw(c[i])
      PROVE DrawCount(SubSeq(c, 1, i)) \in 1 .. DrawCount(c)
  <2>1. CASE i <= Len(a)
    <3>1. i \in 1 .. Len(a) BY <1>2, <2>1
    <3>2. DrawCount(SubSeq(a, 1, i)) \in 1 .. A BY <1>2, <1>5, <1>7, <3>1
    <3> QED BY <1>3, <1>4, <3>1, <3>2
  <2>2. CASE i > Len(a)
    <3> DEFINE m == i - Len(a)
    <3>1. m \in 1 .. Len(b) /\ Len(a) + m = i BY <1>2, <2>2
    <3> HIDE DEF m
    <3>2. DrawCount(SubSeq(b, 1, m)) \in 1 .. B BY <1>2, <1>5, <1>7, <3>1
    <3>3. DrawCount(SubSeq(c, 1, i)) = A + DrawCount(SubSeq(b, 1, m)) BY <1>4, <3>1
    <3> QED BY <1>3, <3>2, <3>3
  <2> QED BY <1>2, <2>1, <2>2
<1>8. c \in Seq(EventSet) BY <1>2
<1>9. Numbered(c) BY <1>6, <1>7, <1>8 DEF Numbered
<1> QED BY <1>9 DEF c

\* It works on one event.
LEMMA NumberedSingle ==
  ASSUME NEW x \in EventSet
  PROVE  Numbered(<<x>>)
<1> DEFINE e == <<x>>
<1>1. e \in Seq(EventSet) /\ Len(e) = 1 /\ e[1] = x BY Single
<1> HIDE DEF e
<1>2. SubSeq(e, 1, 1) = e
  <2>1. e = [i \in 1 .. 1 |-> e[i]] BY <1>1
  <2>2. SubSeq(e, 1, 1) = [i \in 1 .. 1 |-> e[i]] BY <1>1
  <2> QED BY <2>1, <2>2
<1>3. \A i : i \in 1 .. Len(e) <=> i = 1 BY <1>1
<1>4. CASE IsDraw(x)
  <2>1. \A i \in 1 .. Len(e) : e[i][1] = "draw" BY <1>1, <1>3, <1>4 DEF IsDraw
  <2>2. DrawCount(e) = 1 BY <1>1, <2>1, AllDraws
  <2>3. \A k : k \in 1 .. DrawCount(e) <=> k = 1 BY <2>2
  <2>4. \A k \in 1 .. DrawCount(e) : \E i \in 1 .. Len(e) : IsDraw(e[i])
            /\ DrawCount(SubSeq(e, 1, i)) = k
    BY <1>1, <1>2, <1>3, <1>4, <2>2, <2>3, Zenon
  <2>5. \A i \in 1 .. Len(e) : DrawCount(SubSeq(e, 1, i)) \in 1 .. DrawCount(e)
    BY <1>2, <1>3, <2>2, <2>3, Zenon
  <2> QED BY <1>1, <2>4, <2>5 DEF Numbered, e
<1>5. CASE ~IsDraw(x)
  <2>1. \A i \in 1 .. Len(e) : ~IsDraw(e[i]) BY <1>1, <1>3, <1>5
  <2>2. x[1] = "absorb" BY <1>5 DEF EventSet, IsDraw
  <2>3. \A i \in 1 .. Len(e) : e[i][1] = "absorb" BY <1>1, <1>3, <2>2
  <2>4. DrawCount(e) = 0
    <3>1. Covers(e, <<>>) BY <1>1, <2>3, QuietCovers
    <3>2. Len(<<>>) = 0 OBVIOUS
    <3> QED BY <3>1, <3>2 DEF Covers
  <2>5. \A k : k \notin 1 .. DrawCount(e) BY <2>4
  <2> QED BY <1>1, <2>1, <2>5 DEF Numbered, e
<1> QED BY <1>4, <1>5

\* The queries of a list are numbered from one without gaps.
LEMMA NumberedAll ==
  ASSUME NEW e \in Seq(EventSet)
  PROVE  Numbered(e)
<1> DEFINE T == {n \in Nat : \A a \in Seq(EventSet) : Len(a) = n => Numbered(a)}
<1>1. 0 \in T
  <2> SUFFICES ASSUME NEW a \in Seq(EventSet), Len(a) = 0 PROVE Numbered(a) OBVIOUS
  <2>1. \A i : i \notin 1 .. Len(a) OBVIOUS
  <2>2. \A i \in 1 .. Len(a) : a[i][1] = "absorb" BY <2>1
  <2>3. DrawCount(a) = 0
    <3>1. Covers(a, <<>>) BY <2>2, QuietCovers
    <3>2. Len(<<>>) = 0 OBVIOUS
    <3> QED BY <3>1, <3>2 DEF Covers
  <2>4. \A k : k \notin 1 .. DrawCount(a) BY <2>3
  <2> QED BY <2>1, <2>4 DEF Numbered
<1>2. ASSUME NEW n \in Nat, n \in T PROVE n + 1 \in T
  <2> SUFFICES ASSUME NEW a \in Seq(EventSet), Len(a) = n + 1 PROVE Numbered(a)
    <3>1. n + 1 \in Nat OBVIOUS
    <3> QED BY <3>1, Zenon
  <2> DEFINE h == [i \in 1 .. n |-> a[i]]
             x == a[n + 1]
  <2>1. a \in [1 .. n + 1 -> EventSet] /\ h \in [1 .. n -> EventSet] /\ x \in EventSet OBVIOUS
  <2>2. a = h \o <<x>> BY <2>1, MapSnoc
  <2>3. h \in Seq(EventSet) /\ Len(h) = n BY <2>1, MapSeq
  <2> HIDE DEF h, x
  <2>4. Numbered(h) BY <1>2, <2>3
  <2>5. Numbered(<<x>>) BY <2>1, NumberedSingle
  <2> QED BY <2>2, <2>4, <2>5, NumberedConcat
<1>3. Len(e) \in T
  <2>1. Len(e) \in Nat OBVIOUS
  <2> HIDE DEF T
  <2> QED BY <1>1, <1>2, <2>1, SetInduction
<1> QED BY <1>3

\* A replay with its nonces: the honest events but for bad messages and bad nonces.
Mirrors(u, e) ==
  /\ Same(u, e)
  /\ \A i \in 1 .. Len(e) : (u[i] = e[i] \/ u[i][3] = "bad") /\ e[i][3] # "bad"

\* A mirror of a list is the list unless something bad was read.
LEMMA MirrorsGood ==
  ASSUME NEW u, NEW e, Mirrors(u, e), ~Bad(u)
  PROVE  u = e
<1>1. u \in Seq(EventSet) /\ e \in Seq(EventSet) /\ Len(u) = Len(e) BY DEF Mirrors, Same
<1>2. \A i \in 1 .. Len(e) : u[i] = e[i] \/ u[i][3] = "bad" BY DEF Mirrors
<1>3. DOMAIN u = 1 .. Len(e) BY <1>1
<1>4. \A i \in 1 .. Len(e) : u[i][3] # "bad" BY <1>3 DEF Bad
<1>5. \A i \in 1 .. Len(e) : u[i] = e[i] BY <1>2, <1>4
<1> QED BY <1>1, <1>5

\* Reading a nonce per query mirrors the events: a bad nonce shows in the event
\* of its query, and only there.
LEMMA NoncesMirror ==
  ASSUME NEW v, NEW e, NEW F, Replays(v, e, F), vcur \in Nat, nonces \in Seq(Verdicts),
         vcur + DrawCount(e) <= Len(nonces)
  PROVE  /\ Mirrors(WithNonces(v), e)
         /\ Bad(WithNonces(v)) <=> \/ \E f \in F : Val(f) = "bad"
                                   \/ \E k \in vcur + 1 .. vcur + DrawCount(e) : nonces[k]
                                       = "bad"
<1> DEFINE u == WithNonces(v)
           n(i) == nonces[PlanIndex(vcur, v, i)]
<1>1. /\ v \in Seq(EventSet) /\ e \in Seq(EventSet) /\ Len(v) = Len(e)
      /\ \A i \in 1 .. Len(e) : v[i][1] = e[i][1] /\ v[i][2] = e[i][2]
      /\ \A i \in 1 .. Len(e) : /\ v[i] = e[i] \/ (v[i][3] = "bad" /\ ~IsDraw(e[i]))
                                /\ e[i][3] # "bad" /\ (IsDraw(e[i]) => e[i][3] = "good")
      /\ Bad(v) <=> \E f \in F : Val(f) = "bad"
  BY DEF Replays, Echo, Same
<1>2. Len(e) \in Nat /\ DOMAIN v = 1 .. Len(e) BY <1>1
<1>3. DrawCount(v) = DrawCount(e) /\ DrawCount(e) \in Nat /\ Numbered(v)
  <2>1. Same(v, e) BY DEF Replays, Echo
  <2> QED BY <1>1, <2>1, SameDraws, DrawsFinite, NumberedAll
<1>4. \A i \in 1 .. Len(e) : IsDraw(v[i])
          => PlanIndex(vcur, v, i) \in vcur + 1 .. vcur + DrawCount(e)
  <2>1. \A i \in 1 .. Len(e) : IsDraw(v[i]) => DrawCount(SubSeq(v, 1, i)) \in 1 .. DrawCount(e)
    BY <1>1, <1>3 DEF Numbered
  <2> QED BY <1>3, <2>1 DEF PlanIndex
<1>5. \A k \in vcur + 1 .. vcur + DrawCount(e) : \E i \in 1 .. Len(e) : IsDraw(v[i])
          /\ PlanIndex(vcur, v, i) = k
  <2> SUFFICES ASSUME NEW k \in vcur + 1 .. vcur + DrawCount(e)
               PROVE  \E i \in 1 .. Len(e) : IsDraw(v[i]) /\ PlanIndex(vcur, v, i) = k
    OBVIOUS
  <2> DEFINE m == k - vcur
  <2>1. m \in 1 .. DrawCount(v) /\ vcur + m = k BY <1>3
  <2> HIDE DEF m
  <2>2. PICK i \in 1 .. Len(v) : IsDraw(v[i]) /\ DrawCount(SubSeq(v, 1, i)) = m
    BY <1>3, <2>1 DEF Numbered
  <2> QED BY <1>1, <2>1, <2>2 DEF PlanIndex
<1>6. \A k \in vcur + 1 .. vcur + DrawCount(e) : nonces[k] \in Verdicts
  BY <1>3
<1>7. \A i \in 1 .. Len(e) : IsDraw(v[i]) => n(i) \in Verdicts BY <1>4, <1>6
<1>8. /\ DOMAIN u = 1 .. Len(e)
      /\ \A i \in 1 .. Len(e) : u[i] = IF IsDraw(v[i]) THEN <<"draw", v[i][2], n(i)>> ELSE v[i]
  BY <1>2, Zenon DEF WithNonces, Event
<1> HIDE DEF u, n
<1>9. \A x \in EventSet : x[2] \in Places /\ x = <<x[1], x[2], x[3]>> BY DEF EventSet
<1>10. \A x \in Places, y \in Verdicts : <<"draw", x, y>> \in EventSet
  BY DEF EventSet, Verdicts
<1>11. \A i \in 1 .. Len(e) : v[i] \in EventSet /\ e[i] \in EventSet BY <1>1
<1>12. ASSUME NEW i \in 1 .. Len(e), IsDraw(v[i])
       PROVE  /\ u[i] \in EventSet /\ u[i][1] = e[i][1] /\ u[i][2] = e[i][2] /\ u[i][3] = n(i)
              /\ u[i] = e[i] \/ u[i][3] = "bad"
  <2>1. u[i] = <<"draw", v[i][2], n(i)>> /\ n(i) \in Verdicts /\ v[i][2] = e[i][2]
            /\ e[i][1] = "draw"
    BY <1>1, <1>7, <1>8, <1>12 DEF IsDraw
  <2>2. u[i] \in EventSet BY <1>9, <1>10, <1>11, <2>1
  <2>3. u[i][1] = "draw" /\ u[i][2] = e[i][2] /\ u[i][3] = n(i) BY <2>1
  <2>4. e[i][3] = "good" BY <1>1, <2>1 DEF IsDraw
  <2>5. e[i] = <<"draw", e[i][2], "good">> BY <1>9, <1>11, <2>1, <2>4
  <2>6. n(i) = "good" \/ n(i) = "bad" BY <2>1 DEF Verdicts
  <2> QED BY <2>1, <2>2, <2>3, <2>5, <2>6
<1>13. ASSUME NEW i \in 1 .. Len(e), ~IsDraw(v[i])
       PROVE  u[i] = v[i] /\ u[i] \in EventSet /\ (u[i] = e[i] \/ u[i][3] = "bad")
  BY <1>1, <1>8, <1>11, <1>13
<1>14. u \in Seq(EventSet) /\ Len(u) = Len(e)
  <2>1. u = [i \in 1 .. Len(e) |-> u[i]] BY <1>2, Zenon DEF u, WithNonces
  <2>2. u \in [1 .. Len(e) -> EventSet] BY <2>1, <1>12, <1>13
  <2> QED BY <1>2, <2>2, MapSeq
<1>15. Mirrors(u, e)
  <2>1. \A i \in 1 .. Len(e) : u[i][1] = e[i][1] /\ u[i][2] = e[i][2] BY <1>1, <1>12, <1>13
  <2>2. Same(u, e) BY <1>1, <1>14, <2>1 DEF Same
  <2>3. \A i \in 1 .. Len(e) : u[i] = e[i] \/ u[i][3] = "bad" BY <1>12, <1>13
  <2> QED BY <1>1, <2>2, <2>3 DEF Mirrors
<1>16. ASSUME Bad(u) PROVE Bad(v)
           \/ \E k \in vcur + 1 .. vcur + DrawCount(e) : nonces[k] = "bad"
  <2>1. PICK i \in 1 .. Len(e) : u[i][3] = "bad" BY <1>8, <1>16 DEF Bad
  <2>2. CASE IsDraw(v[i])
    <3>1. nonces[PlanIndex(vcur, v, i)] = "bad" BY <1>12, <2>1, <2>2 DEF n
    <3> QED BY <1>4, <2>2, <3>1
  <2>3. CASE ~IsDraw(v[i])
    <3>1. v[i][3] = "bad" /\ i \in DOMAIN v BY <1>2, <1>13, <2>1, <2>3
    <3> QED BY <3>1 DEF Bad
  <2> QED BY <2>2, <2>3
<1>17. ASSUME Bad(v) PROVE Bad(u)
  <2>1. PICK i \in 1 .. Len(e) : v[i][3] = "bad" BY <1>2, <1>17 DEF Bad
  <2>2. ~IsDraw(v[i]) BY <1>1, <2>1 DEF IsDraw
  <2>3. u[i][3] = "bad" /\ i \in DOMAIN u BY <1>8, <1>13, <2>1, <2>2
  <2> QED BY <2>3 DEF Bad
<1>18. ASSUME NEW k \in vcur + 1 .. vcur + DrawCount(e), nonces[k] = "bad" PROVE Bad(u)
  <2>1. PICK i \in 1 .. Len(e) : IsDraw(v[i]) /\ PlanIndex(vcur, v, i) = k BY <1>5
  <2>2. u[i][3] = "bad" /\ i \in DOMAIN u BY <1>8, <1>12, <1>18, <2>1 DEF n
  <2> QED BY <2>2 DEF Bad
<1> QED BY <1>1, <1>15, <1>16, <1>17, <1>18 DEF u

-----------------------------------------------------------------------------
\* What the verifier absorbs.

\* Between two steps of a level nothing is heard but at the first of them.
Ensues(s, l, from, to) ==
  \A x \in HearSteps : Located(s, l, x) =>
    (Rank(x) < Rank(to) <=> (Rank(x) < Rank(from) \/ x = from))

\* Which steps absorb between one step and the next.
LEMMA HearOrder ==
  ASSUME NEW s \in Schedules
  PROVE  /\ Ensues(s, 1, "root", "payload")
         /\ \A l \in 2 .. Terminal(s) :
              Ensues(s, l, "claims", IF Reduces(s, l) THEN "eor" ELSE AfterClaims(s, l))
         /\ \A l \in 2 .. Terminal(s) : Ensues(s, l, "eor", AfterClaims(s, l))
         /\ \A l \in 1 .. LevelCount(s) :
              /\ Ensues(s, l, "payload", "fold")
              /\ Ensues(s, l, "fold", "bind")
              /\ Ensues(s, l, "bind", "switch")
              /\ Ensues(s, l, "switch", "stage1")
              /\ Ensues(s, l, "stage1", "stage2")
              /\ Ensues(s, l, "stage2", IF Defers(s, l) THEN "stage3" ELSE "advance")
              /\ Ensues(s, l, "stage3", "advance")
         /\ Ensues(s, Terminal(s), "ehat", "fold")
         /\ Ensues(s, Terminal(s), "fold", "response")
         /\ Ensues(s, Terminal(s), "response", "finish")
<1>0. LevelCount(s) \in Nat \ {0} /\ Terminal(s) = LevelCount(s) + 1 BY LevelFacts
<1>1. Ensues(s, 1, "root", "payload")
  <2>1. ~Reduces(s, 1) BY ShapeFacts
  <2> QED BY <1>0, <2>1, RankFacts DEF Ensues, HearSteps, Located
<1>2. ASSUME NEW l \in 2 .. Terminal(s)
      PROVE  /\ Ensues(s, l, "claims", IF Reduces(s, l) THEN "eor" ELSE AfterClaims(s, l))
             /\ Ensues(s, l, "eor", AfterClaims(s, l))
  BY <1>0, RankFacts DEF Ensues, HearSteps, Located, AfterClaims
<1>3. ASSUME NEW l \in 1 .. LevelCount(s)
      PROVE  /\ Ensues(s, l, "payload", "fold") /\ Ensues(s, l, "fold", "bind")
             /\ Ensues(s, l, "bind", "switch") /\ Ensues(s, l, "switch", "stage1")
  BY <1>0, RankFacts DEF Ensues, HearSteps, Located
<1>4. ASSUME NEW l \in 1 .. LevelCount(s)
      PROVE  /\ Ensues(s, l, "stage1", "stage2")
             /\ Ensues(s, l, "stage2", IF Defers(s, l) THEN "stage3" ELSE "advance")
             /\ Ensues(s, l, "stage3", "advance")
  BY <1>0, RankFacts DEF Ensues, HearSteps, Located
<1>5. /\ Ensues(s, Terminal(s), "ehat", "fold") /\ Ensues(s, Terminal(s), "fold", "response")
      /\ Ensues(s, Terminal(s), "response", "finish")
  BY <1>0, RankFacts DEF Ensues, HearSteps, Located
<1> QED BY <1>1, <1>2, <1>3, <1>4, <1>5

\* The steps of the verifier follow one another as the prover's do.
LEMMA VerifierMoves ==
  ASSUME NEW s \in Schedules
  PROVE  /\ \A l : Section(s, l, "fold") = Section(s, l, "grind")
         /\ \A l \in 1 .. LevelCount(s) :
              Section(s, l, "stage2") = Section(s, l, "stage1")
                \o (IF s.levels[l].route = "linf" THEN Stage1Events(s, l)
                    ELSE Stage1Events(s, l) \o NormEvents(s, l))
<1>1. \A l : Section(s, l, "fold") = Section(s, l, "grind") BY DEF Section
<1>2. ASSUME NEW l \in 1 .. LevelCount(s)
      PROVE  Section(s, l, "stage2") = Section(s, l, "stage1")
                \o (IF s.levels[l].route = "linf" THEN Stage1Events(s, l)
                    ELSE Stage1Events(s, l) \o NormEvents(s, l))
  <2>1. CASE s.levels[l].route = "linf"
    <3>1. Section(s, l, IF s.levels[l].route = "linf" THEN "stage2" ELSE "norm")
                 = Section(s, l, "stage1") \o Stage1Events(s, l)
      BY Moves
    <3> QED BY <2>1, <3>1
  <2>2. CASE s.levels[l].route # "linf"
    <3>1. Section(s, l, IF s.levels[l].route = "linf" THEN "stage2" ELSE "norm")
                 = Section(s, l, "stage1") \o Stage1Events(s, l)
      BY Moves
    <3>2. Section(s, l, "stage2") = Section(s, l, "norm") \o NormEvents(s, l) BY <2>2, Moves
    <3>3. Section(s, l, "stage1") = Switched(s, l) BY DEF Section
    <3> DEFINE a == Section(s, l, "stage1")
               b == Stage1Events(s, l)
               c == NormEvents(s, l)
    <3>4. a \in Seq(EventSet) /\ b \in Seq(EventSet) /\ c \in Seq(EventSet)
      BY <3>3, LevelCovers, StageTypes
    <3>5. Section(s, l, "stage2") = (a \o b) \o c BY <2>2, <3>1, <3>2
    <3> HIDE DEF a, b, c
    <3>6. (a \o b) \o c = a \o (b \o c) BY <3>4, ConcatAssoc
    <3> QED BY <2>2, <3>5, <3>6 DEF a, b, c
  <2> QED BY <2>1, <2>2
<1> QED BY <1>1, <1>2

\* What the verifier has absorbed: the sources of the steps that are due.
LEMMA HeardMembers ==
  ASSUME NEW s, NEW l, NEW pc, NEW f
  PROVE  f \in Heard(s, l, pc) <=>
           \/ f \in Sites(At(0, "descriptor"))
           \/ \E k \in 1 .. l, x \in HearSteps : Due(s, l, pc, k, x)
               /\ f \in SourcesAt(s, k, x)
<1>1. ASSUME f \in Heard(s, l, pc), f \notin Sites(At(0, "descriptor"))
      PROVE  \E k \in 1 .. l, x \in HearSteps : Due(s, l, pc, k, x) /\ f \in SourcesAt(s, k, x)
  <2>1. PICK z \in (1 .. l) \X HearSteps : Due(s, l, pc, z[1], z[2])
            /\ f \in SourcesAt(s, z[1], z[2])
    BY <1>1 DEF Heard
  <2>2. z[1] \in 1 .. l /\ z[2] \in HearSteps BY <2>1
  <2> QED BY <2>1, <2>2
<1>2. ASSUME NEW k \in 1 .. l,
          NEW x \in HearSteps, Due(s, l, pc, k, x), f \in SourcesAt(s, k, x)
      PROVE  f \in Heard(s, l, pc)
  <2> DEFINE z == <<k, x>>
  <2>1. z \in (1 .. l) \X HearSteps /\ z[1] = k /\ z[2] = x OBVIOUS
  <2> HIDE DEF z
  <2>2. Due(s, l, pc, z[1], z[2]) /\ f \in SourcesAt(s, z[1], z[2]) BY <1>2, <2>1
  <2> QED BY <2>1, <2>2 DEF Heard
<1>3. f \in Sites(At(0, "descriptor")) => f \in Heard(s, l, pc) BY DEF Heard
<1> QED BY <1>1, <1>2, <1>3

\* A step adds its sources.
LEMMA HeardStep ==
  ASSUME NEW s \in Schedules, NEW l \in 1 .. Terminal(s), NEW from, NEW to,
         from \in HearSteps \cup {"fold", "switch"}, Located(s, l, from),
             Ensues(s, l, from, to)
  PROVE  Heard(s, l, to) = Heard(s, l, from) \cup SourcesAt(s, l, from)
<1>0. from \notin HearSteps => SourcesAt(s, l, from) = {} BY DEF HearSteps, SourcesAt, FieldsAt
<1>1. ASSUME NEW f PROVE f \in Heard(s, l, to)
          <=> f \in Heard(s, l, from) \/ f \in SourcesAt(s, l, from)
  <2>0. l \in 1 .. l BY LevelFacts
  <2>4. f \in Sites(At(0, "descriptor")) => f \in Heard(s, l, to) /\ f \in Heard(s, l, from)
    BY HeardMembers
  <2>1. ASSUME f \in Heard(s, l, to), f \notin Sites(At(0, "descriptor"))
        PROVE f \in Heard(s, l, from) \/ f \in SourcesAt(s, l, from)
    <3>1. PICK k \in 1 .. l, x \in HearSteps : Due(s, l, to, k, x) /\ f \in SourcesAt(s, k, x)
      BY <2>1, HeardMembers
    <3>2. CASE k < l
      <4>0. Located(s, k, x) BY <3>1, Zenon DEF Due
      <4>1. Due(s, l, from, k, x) BY <3>2, <4>0 DEF Due
      <4> QED BY <3>1, <4>1, HeardMembers
    <3>3. CASE ~(k < l)
      <4>1. Located(s, k, x) /\ k = l /\ Rank(x) < Rank(to) BY <3>1, <3>3, Zenon DEF Due
      <4>2. Located(s, l, x) BY <4>1
      <4>3. Rank(x) < Rank(from) \/ x = from BY <4>1, <4>2, Zenon DEF Ensues
      <4>4. CASE x = from BY <3>1, <4>1, <4>4
      <4>5. CASE Rank(x) < Rank(from)
        <5>1. Due(s, l, from, k, x) BY <4>1, <4>5, Zenon DEF Due
        <5> QED BY <3>1, <5>1, HeardMembers
      <4> QED BY <4>3, <4>4, <4>5
    <3> QED BY <3>2, <3>3
  <2>2. ASSUME f \in Heard(s, l, from), f \notin Sites(At(0, "descriptor"))
        PROVE f \in Heard(s, l, to)
    <3>1. PICK k \in 1 .. l, x \in HearSteps : Due(s, l, from, k, x)
              /\ f \in SourcesAt(s, k, x)
      BY <2>2, HeardMembers
    <3>2. Due(s, l, to, k, x)
      <4>0. Located(s, k, x) BY <3>1, Zenon DEF Due
      <4>1. CASE k < l BY <4>0, <4>1 DEF Due
      <4>2. CASE ~(k < l)
        <5>1. Located(s, k, x) /\ k = l /\ Rank(x) < Rank(from) BY <3>1, <4>2, Zenon DEF Due
        <5>2. Located(s, l, x) BY <5>1
        <5>3. Rank(x) < Rank(to) BY <5>1, <5>2, Zenon DEF Ensues
        <5> QED BY <5>1, <5>3, Zenon DEF Due
      <4> QED BY <4>1, <4>2
    <3> QED BY <3>1, <3>2, HeardMembers
  <2>3. ASSUME f \in SourcesAt(s, l, from) PROVE f \in Heard(s, l, to)
    <3>1. from \in HearSteps BY <1>0, <2>3
    <3>2. Due(s, l, to, l, from) BY <3>1 DEF Due, Ensues
    <3> QED BY <2>0, <2>3, <3>1, <3>2, HeardMembers
  <2> QED BY <2>1, <2>2, <2>3, <2>4
<1> QED BY <1>1

\* Moving on to the next level absorbs nothing.
LEMMA HeardAdvance ==
  ASSUME NEW s \in Schedules, NEW l \in 1 .. LevelCount(s)
  PROVE  Heard(s, l + 1, "claims") = Heard(s, l, "advance")
<1>0. l \in Nat BY LevelFacts
<1>1. ASSUME NEW k, NEW x \in HearSteps
      PROVE  k \in 1 .. l + 1 /\ Due(s, l + 1, "claims", k, x)
             <=> k \in 1 .. l /\ Due(s, l, "advance", k, x)
  <2>1. Rank(x) \in 0 .. 9 BY RankFacts DEF HearSteps
  <2>2. Rank("claims") = 0 /\ Rank("advance") = 10 BY RankFacts
  <2>3. (k \in 1 .. l + 1 /\ (k < l + 1 \/ (k = l + 1 /\ Rank(x) < Rank("claims"))))
        <=> (k \in 1 .. l /\ (k < l \/ (k = l /\ Rank(x) < Rank("advance"))))
    <3> DEFINE r == Rank(x)
    <3>1. (r < 0) = FALSE /\ (r < 10) = TRUE BY <2>1
    <3>2. k \in 1 .. l + 1 => k \in Int OBVIOUS
    <3>3. k \in 1 .. l => k \in Int OBVIOUS
    <3> HIDE DEF r
    <3>4. CASE k \in Int BY <1>0, <2>2, <3>1, <3>4 DEF r
    <3> QED BY <3>2, <3>3, <3>4
  <2> QED BY <2>3, Zenon DEF Due
<1>2. ASSUME NEW f PROVE f \in Heard(s, l + 1, "claims") <=> f \in Heard(s, l, "advance")
  <2>1. f \in Heard(s, l + 1, "claims") <=>
          \/ f \in Sites(At(0, "descriptor"))
          \/ \E k \in 1 .. l + 1, x \in HearSteps : Due(s, l + 1, "claims", k, x)
              /\ f \in SourcesAt(s, k, x)
    BY HeardMembers
  <2>2. f \in Heard(s, l, "advance") <=>
          \/ f \in Sites(At(0, "descriptor"))
          \/ \E k \in 1 .. l, x \in HearSteps : Due(s, l, "advance", k, x)
              /\ f \in SourcesAt(s, k, x)
    BY HeardMembers
  <2> QED BY <1>1, <2>1, <2>2
<1> QED BY <1>2

-----------------------------------------------------------------------------
\* The verifier stays on the replay.

\* ReplayAt of a transcript tr with cur queries read.
Replayed(l, pc, tr, cur) ==
  /\ Located(sched, l, pc)
  /\ Same(tr, Reached(sched, l, pc))
  /\ cur = DrawCount(tr)
  /\ ~Bad(tr) => tr = Reached(sched, l, pc)
  /\ Bad(tr) <=> \/ \E f \in Heard(sched, l, pc) : Val(f) = "bad"
                 \/ \E k \in 1 .. cur : nonces[k] = "bad"

\* What the verifier works from once its nonce reader is open.
Ready ==
  /\ sched \in Schedules /\ plan = Plan(sched)
  /\ GivenOK /\ nonces \in Seq(Verdicts) /\ Len(nonces) = Len(plan)

\* The queries of a step do not run past the plan.
LEMMA StepCount ==
  ASSUME NEW F, NEW d \in Seq(EventSet),
         NEW e \in Seq(EventSet), Covers(F, plan), Begins(d \o e, F)
  PROVE  DrawCount(d) \in Nat /\ DrawCount(e) \in Nat
         /\ DrawCount(d) + DrawCount(e) <= Len(plan)
<1>1. PICK r \in Seq(EventSet) : F = (d \o e) \o r BY DEF Begins
<1>2. d \o e \in Seq(EventSet) BY ConcatFacts
<1>3. DrawCount(d) \in Nat /\ DrawCount(e) \in Nat /\ DrawCount(r) \in Nat BY DrawsFinite
<1>4. DrawCount(d \o e) = DrawCount(d) + DrawCount(e) BY CountConcat
<1>5. DrawCount(F) = DrawCount(d \o e) + DrawCount(r) BY <1>1, <1>2, CountConcat
<1>6. DrawCount(F) = Len(plan) BY DEF Covers
<1> QED BY <1>3, <1>4, <1>5, <1>6

\* A verifier step from one place of the run to the next is on plan, and either
\* continues the replay or rejects where it was.
LEMMA VerifierStep ==
  ASSUME Ready, NEW from \in HearSteps \cup {"fold", "switch"}, NEW to, NEW v, NEW e, NEW uses,
         Replayed(vlevel, from, vtr, vcur), Located(sched, vlevel, to),
         Ensues(sched, vlevel, from, to), e \in Seq(EventSet),
         Section(sched, vlevel, to) = Section(sched, vlevel, from) \o e,
         Replays(v, e, SourcesAt(sched, vlevel, from)), VStep(from, to, v, uses)
  PROVE  \/ vpc' = to /\ Replayed(vlevel, to, vtr', vcur')
         \/ vpc' = "rejected" /\ Replayed(vlevel, from, vtr', vcur')
<1> DEFINE d == Reached(sched, vlevel, from)
           u == WithNonces(v)
           n == DrawCount(e)
           F == Heard(sched, vlevel, from)
           G == SourcesAt(sched, vlevel, from)
<1>1. /\ sched \in Schedules /\ Located(sched, vlevel, from) /\ Same(vtr, d)
          /\ vcur = DrawCount(vtr)
      /\ ~Bad(vtr) => vtr = d
      /\ Bad(vtr) <=> \/ \E f \in F : Val(f) = "bad"
                      \/ \E k \in 1 .. vcur : nonces[k] = "bad"
  BY DEF Ready, Replayed
<1>2. /\ Reached(sched, vlevel, to) = d \o e /\ d \in Seq(EventSet)
          /\ Begins(d \o e, Full(sched))
      /\ vlevel \in 1 .. Terminal(sched)
  <2>1. /\ Reached(sched, vlevel, to) = Reached(sched, vlevel, from) \o e
        /\ Reached(sched, vlevel, from) \in Seq(EventSet)
        /\ DrawCount(Reached(sched, vlevel, to))
            = DrawCount(Reached(sched, vlevel, from)) + DrawCount(e)
        /\ Begins(Reached(sched, vlevel, from) \o e, Full(sched))
    <3>1. Section(sched, vlevel, to) = Section(sched, vlevel, from) \o e
              /\ Located(sched, vlevel, to)
          /\ e \in Seq(EventSet) /\ sched \in Schedules /\ Located(sched, vlevel, from)
      BY <1>1
    <3> QED BY <3>1, ReachedStep, Zenon
  <2>2. vlevel \in 1 .. Terminal(sched) BY <1>1, ReachedBegins
  <2> QED BY <2>1, <2>2
<1>3. vcur = DrawCount(d) BY <1>1, SameDraws
<1>4. Covers(Full(sched), plan) BY FullCovers DEF Ready
<1>5. Same(v, e) BY DEF Replays, Echo
<1> HIDE DEF d
<1>6. OnPlan(vcur, v) BY <1>2, <1>3, <1>4, <1>5, AheadOnPlan
<1>7. vcur \in Nat /\ n \in Nat /\ vcur + n <= Len(plan) BY <1>2, <1>3, <1>4, StepCount
<1>8. /\ Mirrors(u, e)
      /\ Bad(u) <=> \/ \E f \in G : Val(f) = "bad"
                    \/ \E k \in vcur + 1 .. vcur + n : nonces[k] = "bad"
  <2>1. nonces \in Seq(Verdicts) /\ vcur + DrawCount(e) <= Len(nonces) BY <1>7 DEF Ready
  <2> QED BY <1>7, <2>1, NoncesMirror
<1>9. DrawCount(v) = n BY <1>5, SameDraws
<1>10. \/ vpc' = to /\ vtr' = vtr \o u /\ vcur' = vcur + n
       \/ vpc' = "rejected" /\ vtr' = vtr /\ vcur' = vcur
  BY <1>6, <1>9 DEF VStep
<1>11. Heard(sched, vlevel, to) = F \cup G BY <1>1, <1>2, HeardStep
<1> HIDE DEF u, n, F, G
<1>12. /\ Same(vtr \o u, d \o e) /\ vcur + n = DrawCount(vtr \o u)
       /\ ~Bad(vtr \o u) => vtr \o u = d \o e
       /\ Bad(vtr \o u)
           <=> (\E f \in F \cup G : Val(f) = "bad")
           \/ \E k \in 1 .. vcur + n : nonces[k] = "bad"
  <2>1. n = DrawCount(e) BY DEF n
  <2>2. vtr \in Seq(EventSet) /\ u \in Seq(EventSet) /\ Same(u, e)
    BY <1>1, <1>8 DEF Mirrors, Same
  <2>3. Same(vtr \o u, d \o e) BY <1>1, <2>2, SameConcat
  <2>4. DrawCount(u) = DrawCount(e) BY <2>2, SameDraws
  <2>5. vcur + n = DrawCount(vtr \o u) BY <1>1, <2>1, <2>2, <2>4, CountConcat
  <2>6. Bad(vtr \o u) <=> Bad(vtr) \/ Bad(u) BY <2>2, BadConcat
  <2>7. ~Bad(u) => u = e BY <1>8, MirrorsGood
  <2>8. (\E k \in 1 .. vcur + n : nonces[k] = "bad") <=>
          (\E k \in 1 .. vcur : nonces[k] = "bad")
              \/ \E k \in vcur + 1 .. vcur + n : nonces[k] = "bad"
    <3>1. \A k : k \in 1 .. vcur + n <=> (k \in 1 .. vcur \/ k \in vcur + 1 .. vcur + n)
      BY <1>7
    <3> QED BY <3>1
  <2>9. (\E f \in F \cup G : Val(f) = "bad") <=>
          (\E f \in F : Val(f) = "bad") \/ \E f \in G : Val(f) = "bad"
    OBVIOUS
  <2>10. Bad(vtr \o u) <=> (\E f \in F \cup G : Val(f) = "bad")
             \/ \E k \in 1 .. vcur + n : nonces[k] = "bad"
    BY <1>1, <1>8, <2>6, <2>8, <2>9, Zenon
  <2> QED BY <1>1, <2>3, <2>5, <2>6, <2>7, <2>10
<1>13. Replayed(vlevel, to, vtr \o u, vcur + n)
  BY <1>2, <1>11, <1>12 DEF Replayed
<1> QED BY <1>10, <1>13

\* What a verifier that has opened its nonce stream may rely on.
LEMMA VerifierReady ==
  ASSUME IInv, Started
  PROVE  /\ Ready /\ Replayed(vlevel, vpc, vtr, vcur) /\ Located(sched, vlevel, vpc)
         /\ sched \in Schedules /\ vlevel \in 1 .. Terminal(sched) /\ vlevel \in Nat
         /\ LevelCount(sched) \in Nat \ {0} /\ Terminal(sched) = LevelCount(sched) + 1
         /\ binding = HonestBinding /\ GivenOK
<1>1. sched \in Schedules /\ plan = Plan(sched) BY DEF IInv, ProverAt
<1>2. GivenOK /\ nonces \in Seq(Verdicts) BY DEF IInv, WireInv, Started, GivenOK
<1>3. Len(nonces) = Len(plan) /\ binding = HonestBinding BY DEF IInv, CheckedInv, PlanLen
<1>4. ReplayAt(vlevel, vpc) BY DEF IInv, VerifierAt, Started
<1>5. Replayed(vlevel, vpc, vtr, vcur) BY <1>4 DEF ReplayAt, Replayed
<1>6. Located(sched, vlevel, vpc) BY <1>4 DEF ReplayAt
<1>7. vlevel \in 1 .. Terminal(sched) BY <1>1, <1>6, ReachedBegins
<1>8. LevelCount(sched) \in Nat \ {0} /\ Terminal(sched) = LevelCount(sched) + 1
  BY <1>1, LevelFacts
<1>9. Ready BY <1>1, <1>2, <1>3 DEF Ready
<1>10. vlevel \in Nat BY <1>7, <1>8
<1> QED BY <1>1, <1>2, <1>3, <1>5, <1>6, <1>7, <1>8, <1>9, <1>10

\* Such a step keeps the verifier on a replay.
LEMMA StepKept ==
  ASSUME NEW from \in HearSteps \cup {"fold", "switch"},
         NEW to, vlevel \in 1 .. Terminal(sched),
         \/ vpc' = to /\ Replayed(vlevel, to, vtr', vcur')
         \/ vpc' = "rejected" /\ Replayed(vlevel, from, vtr', vcur'),
         UNCHANGED <<sched, given, nonces, vlevel>>
  PROVE  VerifierAt'
<1>1. CASE vpc' = to /\ Replayed(vlevel, to, vtr', vcur')
  <2>1. ReplayAt(vlevel, vpc)' BY <1>1 DEF ReplayAt, Replayed, Val, Has
  <2> QED BY <2>1 DEF VerifierAt
<1>2. CASE vpc' = "rejected" /\ Replayed(vlevel, from, vtr', vcur')
  <2>1. ReplayAt(vlevel, from)' BY <1>2 DEF ReplayAt, Replayed, Val, Has
  <2>2. vlevel' \in 1 .. Terminal(sched') OBVIOUS
  <2> QED BY <1>2, <2>1, <2>2 DEF VerifierAt
<1> QED BY <1>1, <1>2

\* And keeps what has been checked, given the checks of its own.
LEMMA CheckedStep ==
  ASSUME CheckedInv, Started, vlevel \in Nat, sched \in Schedules,
         UNCHANGED <<sched, plan, wire, vlevel>>, NEW to, vpc' = to,
         to \notin {"wait", "shape", "stream", "root", "claims"},
         vpc \in {"root", "claims"} =>
           /\ HasEor(vlevel) = Reduces(sched, vlevel)
           /\ vlevel <= LevelCount(sched) => HasStage3(vlevel) = Defers(sched, vlevel),
         Rank(to) > 7 /\ vlevel <= LevelCount(sched) =>
           Rank(vpc) > 7 \/ HasNorm(vlevel) = (sched.levels[vlevel].route # "linf"),
         to = "advance" => vprefix' = Defers(sched, vlevel)
  PROVE  CheckedInv'
<1>1. folds' = LevelCount(sched') /\ binding' = HonestBinding'
  BY DEF CheckedInv, wire, HonestBinding, ScheduledBinding
<1>2. Len(nonces') = PlanLen' BY DEF CheckedInv, wire, PlanLen
<1>3. ASSUME NEW k \in 1 .. Terminal(sched'), ClaimsPast(k)'
      PROVE  /\ HasEor(k)' = Reduces(sched', k)
             /\ k <= LevelCount(sched') => HasStage3(k)' = Defers(sched', k)
  <2>1. CASE ClaimsPast(k)
    <3>1. HasEor(k) = Reduces(sched, k)
              /\ (k <= LevelCount(sched) => HasStage3(k) = Defers(sched, k))
      BY <2>1 DEF CheckedInv
    <3> QED BY <3>1 DEF HasEor, HasStage3, Has, wire
  <2>2. CASE ~ClaimsPast(k)
    <3>1. k = vlevel /\ vpc \in {"root", "claims"} BY <1>3, <2>2 DEF ClaimsPast
    <3>2. HasEor(k) = Reduces(sched, k)
              /\ (k <= LevelCount(sched) => HasStage3(k) = Defers(sched, k))
      BY <3>1
    <3> QED BY <3>2 DEF HasEor, HasStage3, Has, wire
  <2> QED BY <2>1, <2>2
<1>4. ASSUME NEW k \in 1 .. LevelCount(sched'), RangePast(k)'
      PROVE  HasNorm(k)' = (sched'.levels[k].route # "linf")
  <2>1. HasNorm(k) = (sched.levels[k].route # "linf")
    <3>1. CASE RangePast(k) BY <3>1 DEF CheckedInv
    <3>2. CASE ~RangePast(k)
      <4>1. k = vlevel /\ Rank(to) > 7 /\ ~(Rank(vpc) > 7) BY <1>4, <3>2 DEF RangePast
      <4>2. k <= LevelCount(sched) BY LevelFacts
      <4> QED BY <4>1, <4>2
    <3> QED BY <3>1, <3>2
  <2> QED BY <2>1 DEF HasNorm, Has, wire
<1>5. vpc' # "claims" OBVIOUS
<1>6. vpc' = "advance" => vprefix' = Defers(sched', vlevel') OBVIOUS
<1> QED BY <1>1, <1>2, <1>3, <1>4, <1>5, <1>6 DEF CheckedInv, Started

\* Rejecting keeps both.
LEMMA RejectKept ==
  ASSUME IInv, UNCHANGED <<sched, given, nonces>>, Reject,
         vpc \in {"shape", "stream"} \/ vpc \in HearSteps \cup {"fold", "switch"}
  PROVE  VerifierAt' /\ CheckedInv'
<1>1. CheckedInv' BY DEF Reject, CheckedInv, Started
<1>2. CASE vpc \in {"shape", "stream"}
  <2>1. vtr = <<>>
    <3>1. ~Located(sched, vlevel, vpc) BY <1>2 DEF Located
    <3> QED BY <1>2, <3>1 DEF IInv, VerifierAt, ReplayAt
  <2> QED BY <1>1, <2>1 DEF Reject, VerifierAt
<1>3. CASE vpc \in HearSteps \cup {"fold", "switch"}
  <2>1. vpc \notin {"wait", "shape", "stream", "rejected"} BY <1>3 DEF HearSteps
  <2>2. Started BY <2>1 DEF Started
  <2>3. Replayed(vlevel, vpc, vtr, vcur) /\ vlevel \in 1 .. Terminal(sched)
    BY <2>2, VerifierReady
  <2>4. vpc' = "rejected" /\ Replayed(vlevel, vpc, vtr', vcur') /\ vlevel' = vlevel
    BY <2>3 DEF Reject
  <2>5. VerifierAt' BY <1>3, <2>3, <2>4, StepKept
  <2> QED BY <1>1, <2>5
<1> QED BY <1>2, <1>3

\* A verifier step in full: replay, sources and checks.
LEMMA VerifierActs ==
  ASSUME IInv, NEW from \in HearSteps \cup {"fold", "switch"}, NEW to, NEW v, NEW e, NEW uses,
         Located(sched, vlevel, to), Ensues(sched, vlevel, from, to), e \in Seq(EventSet),
         Section(sched, vlevel, to) = Section(sched, vlevel, from) \o e,
         Replays(v, e, SourcesAt(sched, vlevel, from)), VStep(from, to, v, uses),
         UNCHANGED <<sched, plan, wire, vlevel>>,
         to \notin {"wait", "shape", "stream", "root", "claims"},
         from \in {"root", "claims"} =>
           /\ HasEor(vlevel) = Reduces(sched, vlevel)
           /\ vlevel <= LevelCount(sched) => HasStage3(vlevel) = Defers(sched, vlevel),
         Rank(to) > 7 /\ vlevel <= LevelCount(sched) =>
           Rank(from) > 7 \/ HasNorm(vlevel) = (sched.levels[vlevel].route # "linf"),
         to = "advance" => vprefix' = Defers(sched, vlevel)
  PROVE  VerifierAt' /\ CheckedInv'
<1>1. vpc = from BY DEF VStep
<1>2. Started
  <2>1. vpc \notin {"wait", "shape", "stream", "rejected"} BY <1>1 DEF HearSteps
  <2> QED BY <2>1 DEF Started
<1>3. /\ Ready /\ Replayed(vlevel, from, vtr, vcur) /\ vlevel \in 1 .. Terminal(sched)
          /\ vlevel \in Nat
      /\ sched \in Schedules
  BY <1>1, <1>2, VerifierReady
<1>4. \/ vpc' = to /\ Replayed(vlevel, to, vtr', vcur')
      \/ vpc' = "rejected" /\ Replayed(vlevel, from, vtr', vcur')
  BY <1>3, VerifierStep
<1>5. UNCHANGED <<sched, given, nonces, vlevel>> BY DEF wire
<1>6. VerifierAt' BY <1>3, <1>4, <1>5, StepKept
<1>7. CASE vpc' = to
  <2>1. CheckedInv BY DEF IInv
  <2>2. vpc \in {"root", "claims"} =>
           /\ HasEor(vlevel) = Reduces(sched, vlevel)
           /\ vlevel <= LevelCount(sched) => HasStage3(vlevel) = Defers(sched, vlevel)
    BY <1>1
  <2>3. Rank(to) > 7 /\ vlevel <= LevelCount(sched) =>
           Rank(vpc) > 7 \/ HasNorm(vlevel) = (sched.levels[vlevel].route # "linf")
    BY <1>1
  <2>4. CheckedInv' BY <1>2, <1>3, <1>7, <2>1, <2>2, <2>3, CheckedStep
  <2> QED BY <1>6, <2>4
<1>8. CASE vpc' = "rejected"
  <2>1. CheckedInv' BY <1>8 DEF CheckedInv, Started
  <2> QED BY <1>6, <2>1
<1> QED BY <1>4, <1>7, <1>8

\* The sources of the steps that absorb what they ship.
LEMMA SourceFacts ==
  ASSUME NEW s, NEW l
  PROVE  /\ SourcesAt(s, l, "root") = RootSources(s)
            /\ SourcesAt(s, l, "claims") = ClaimSources(s, l)
         /\ SourcesAt(s, l, "eor") = EorFields(s, l)
         /\ SourcesAt(s, l, "payload") = Sites(At(l, "payload"))
         /\ SourcesAt(s, l, "ehat") = Sites(At(l, "e_hat"))
         /\ SourcesAt(s, l, "fold") = {} /\ SourcesAt(s, l, "switch") = {}
         /\ SourcesAt(s, l, "bind") = {NextWitness(s, l)}
         /\ SourcesAt(s, l, "stage1") = Stage1Sources(s, l)
         /\ SourcesAt(s, l, "stage2") = Stage2Fields(s, l)
         /\ SourcesAt(s, l, "stage3") = Stage3Sources(s, l)
         /\ SourcesAt(s, l, "response") = Sites(At(l, "w_remainder"))
<1>1. SourcesAt(s, l, "root") = RootSources(s)
          /\ SourcesAt(s, l, "claims") = ClaimSources(s, l)
  BY DEF SourcesAt
<1>2. SourcesAt(s, l, "eor") = EorFields(s, l)
          /\ SourcesAt(s, l, "payload") = Sites(At(l, "payload"))
      /\ SourcesAt(s, l, "ehat") = Sites(At(l, "e_hat"))
  BY DEF SourcesAt, FieldsAt
<1>3. SourcesAt(s, l, "fold") = {} /\ SourcesAt(s, l, "switch") = {}
      /\ SourcesAt(s, l, "bind") = {NextWitness(s, l)}
  BY DEF SourcesAt, FieldsAt
<1>4. SourcesAt(s, l, "stage1") = Stage1Sources(s, l)
          /\ SourcesAt(s, l, "stage3") = Stage3Sources(s, l)
  BY DEF SourcesAt
<1>5. SourcesAt(s, l, "stage2") = Stage2Fields(s, l)
      /\ SourcesAt(s, l, "response") = Sites(At(l, "w_remainder"))
  BY DEF SourcesAt, FieldsAt
<1> QED BY <1>1, <1>2, <1>3, <1>4, <1>5

\* verify_root keeps the verifier on the replay.
LEMMA RootVerified ==
  ASSUME IInv, VerifyRoot, UNCHANGED <<sched, plan, wire>>
  PROVE  VerifierAt' /\ CheckedInv'
<1>0. vpc = "root" /\ Started /\ UNCHANGED <<sched, given, nonces>>
  BY DEF VerifyRoot, Started, wire
<1>1. CASE Stage3Scheduled(1) /\ NextWitnessScheduled(1) /\ ~HasEor(1)
  <2>1. VStep("root", "payload", RootReplay, {}) /\ UNCHANGED <<sched, plan, wire, vlevel>>
    BY <1>1 DEF VerifyRoot
  <2>2. /\ sched \in Schedules /\ Located(sched, vlevel, "root") /\ GivenOK
            /\ LevelCount(sched) \in Nat \ {0}
    BY <1>0, VerifierReady
  <2>3. vlevel = 1 /\ Located(sched, vlevel, "payload") BY <2>2 DEF Located
  <2>4. Ensues(sched, vlevel, "root", "payload") BY <2>2, <2>3, HearOrder
  <2>5. Section(sched, vlevel, "payload") = Section(sched, vlevel, "root") \o RootEvents(sched)
    BY <2>2, <2>3, Moves
  <2>6. RootEvents(sched) \in Seq(EventSet) BY <2>2, EventTypes
  <2>7. Replays(RootReplay, RootEvents(sched), SourcesAt(sched, vlevel, "root"))
    BY <2>2, RootReplays, SourceFacts
  <2>8. HasEor(vlevel) = Reduces(sched, vlevel) /\ HasStage3(vlevel) = Defers(sched, vlevel)
    <3>1. ~Reduces(sched, 1) BY <2>2, ShapeFacts
    <3> QED BY <1>1, <2>3, <3>1 DEF Stage3Scheduled, HasEor, Has, Reduces
  <2>9. ~(Rank("payload") > 7) BY RankFacts
  <2>10. "root" \in HearSteps BY DEF HearSteps
  <2> QED BY <2>1, <2>3, <2>4, <2>5, <2>6, <2>7, <2>8, <2>9, <2>10, VerifierActs
<1>2. CASE ~(Stage3Scheduled(1) /\ NextWitnessScheduled(1) /\ ~HasEor(1))
  <2>1. Reject BY <1>2 DEF VerifyRoot
  <2>2. vpc \in HearSteps BY <1>0 DEF HearSteps
  <2> QED BY <1>0, <2>1, <2>2, RejectKept
<1> QED BY <1>1, <1>2

\* verify_eor_sumcheck keeps it.
LEMMA EorVerified ==
  ASSUME IInv, VerifyEor, UNCHANGED <<sched, plan, wire>>
  PROVE  VerifierAt' /\ CheckedInv'
<1> DEFINE to == AfterClaims(sched, vlevel)
           v == EorReplay(vlevel)
           e == EorEvents(sched, vlevel)
           u == {}
<1>1. VStep("eor", to, v, u) /\ UNCHANGED <<sched, plan, wire, vlevel>> BY DEF VerifyEor
<1>2. vpc = "eor" /\ Started BY <1>1 DEF VStep, Started
<1>3. /\ sched \in Schedules /\ Located(sched, vlevel, "eor") /\ GivenOK
      /\ vlevel \in 1 .. Terminal(sched) /\ vlevel \in Nat
      /\ LevelCount(sched) \in Nat \ {0} /\ Terminal(sched) = LevelCount(sched) + 1
      /\ binding = HonestBinding
  BY <1>2, VerifierReady
<1>4. vlevel \in 2 .. Terminal(sched) /\ Reduces(sched, vlevel) /\ Located(sched, vlevel, to)
  BY <1>3 DEF Located, AfterClaims
<1>5. Ensues(sched, vlevel, "eor", to) BY <1>3, <1>4, HearOrder
<1>6. Section(sched, vlevel, to) = Section(sched, vlevel, "eor") \o e BY <1>3, <1>4, Moves
<1>7. e \in Seq(EventSet) BY <1>3, <1>4, PieceTypes
<1>8. Replays(v, e, SourcesAt(sched, vlevel, "eor")) BY <1>3, <1>4, EorReplays, SourceFacts
<1>9. to \notin {"wait", "shape", "stream", "root", "claims"} BY DEF AfterClaims
<1>10. Rank(to) > 7 /\ vlevel <= LevelCount(sched) =>
         Rank("eor") > 7 \/ HasNorm(vlevel) = (sched.levels[vlevel].route # "linf")
  BY RankFacts DEF AfterClaims
<1>11. to = "advance" => vprefix' = Defers(sched, vlevel) BY DEF AfterClaims
<1>12. "eor" \in HearSteps \cup {"fold", "switch"} BY DEF HearSteps
<1> HIDE DEF to, v, e, u
<1> QED BY <1>1, <1>3, <1>4, <1>5, <1>6, <1>7, <1>8, <1>9, <1>10, <1>11, <1>12, VerifierActs

\* bind_opening_payload_and_finalize_claims keeps it.
LEMMA PayloadVerified ==
  ASSUME IInv, VerifyPayload, UNCHANGED <<sched, plan, wire>>
  PROVE  VerifierAt' /\ CheckedInv'
<1> DEFINE to == "fold"
           v == Hears(At(vlevel, "payload"))
               \o When(RowBatch(sched, vlevel), Asks(At(vlevel, "EvaluationBatch")))
           e == PayloadEvents(sched, vlevel)
           u == {}
<1>1. VStep("payload", to, v, u) /\ UNCHANGED <<sched, plan, wire, vlevel>>
  BY DEF VerifyPayload
<1>2. vpc = "payload" /\ Started BY <1>1 DEF VStep, Started
<1>3. /\ sched \in Schedules /\ Located(sched, vlevel, "payload") /\ GivenOK
      /\ vlevel \in 1 .. Terminal(sched) /\ vlevel \in Nat
      /\ LevelCount(sched) \in Nat \ {0} /\ Terminal(sched) = LevelCount(sched) + 1
      /\ binding = HonestBinding
  BY <1>2, VerifierReady
<1>4. vlevel \in 1 .. LevelCount(sched) /\ Located(sched, vlevel, to) BY <1>3 DEF Located
<1>5. Ensues(sched, vlevel, "payload", to) BY <1>3, <1>4, HearOrder
<1>6. Section(sched, vlevel, to) = Section(sched, vlevel, "payload") \o e
  BY <1>3, <1>4, Moves, VerifierMoves
<1>7. e \in Seq(EventSet) BY <1>3, PieceTypes
<1>8. Replays(v, e, SourcesAt(sched, vlevel, "payload")) BY <1>3, PayloadReplays, SourceFacts
<1>9. to \notin {"wait", "shape", "stream", "root", "claims"} OBVIOUS
<1>10. Rank(to) > 7 /\ vlevel <= LevelCount(sched) =>
         Rank("payload") > 7 \/ HasNorm(vlevel) = (sched.levels[vlevel].route # "linf")
  BY RankFacts
<1>11. to = "advance" => vprefix' = Defers(sched, vlevel) OBVIOUS
<1>12. "payload" \in HearSteps \cup {"fold", "switch"} BY DEF HearSteps
<1> HIDE DEF to, v, e, u
<1> QED BY <1>1, <1>3, <1>4, <1>5, <1>6, <1>7, <1>8, <1>9, <1>10, <1>11, <1>12, VerifierActs

\* prepare_terminal_witness_replay keeps it.
LEMMA EHatVerified ==
  ASSUME IInv, VerifyTerminalEHat, UNCHANGED <<sched, plan, wire>>
  PROVE  VerifierAt' /\ CheckedInv'
<1> DEFINE to == "fold"
           v == Hears(At(vlevel, "e_hat"))
           e == Says(At(vlevel, "e_hat"))
           u == {}
<1>1. VStep("ehat", to, v, u) /\ UNCHANGED <<sched, plan, wire, vlevel>>
  BY DEF VerifyTerminalEHat
<1>2. vpc = "ehat" /\ Started BY <1>1 DEF VStep, Started
<1>3. /\ sched \in Schedules /\ Located(sched, vlevel, "ehat") /\ GivenOK
      /\ vlevel \in 1 .. Terminal(sched) /\ vlevel \in Nat
      /\ LevelCount(sched) \in Nat \ {0} /\ Terminal(sched) = LevelCount(sched) + 1
      /\ binding = HonestBinding
  BY <1>2, VerifierReady
<1>4. vlevel = Terminal(sched) /\ Located(sched, vlevel, to) BY <1>3 DEF Located
<1>5. Ensues(sched, vlevel, "ehat", to) BY <1>3, <1>4, HearOrder
<1>6. Section(sched, vlevel, to) = Section(sched, vlevel, "ehat") \o e
  BY <1>3, <1>4, Moves, VerifierMoves
<1>7. e \in Seq(EventSet) BY <1>3, NameFacts, PieceTypes
<1>8. Replays(v, e, SourcesAt(sched, vlevel, "ehat"))
  BY <1>3, NameFacts, AtReplays, SourceFacts
<1>9. to \notin {"wait", "shape", "stream", "root", "claims"} OBVIOUS
<1>10. Rank(to) > 7 /\ vlevel <= LevelCount(sched) =>
         Rank("ehat") > 7 \/ HasNorm(vlevel) = (sched.levels[vlevel].route # "linf")
  BY RankFacts
<1>11. to = "advance" => vprefix' = Defers(sched, vlevel) OBVIOUS
<1>12. "ehat" \in HearSteps \cup {"fold", "switch"} BY DEF HearSteps
<1> HIDE DEF to, v, e, u
<1> QED BY <1>1, <1>3, <1>4, <1>5, <1>6, <1>7, <1>8, <1>9, <1>10, <1>11, <1>12, VerifierActs

\* read_fold_response and the fold challenges keep it.
LEMMA FoldVerified ==
  ASSUME IInv, DrawFoldChallenges, UNCHANGED <<sched, plan, wire>>
  PROVE  VerifierAt' /\ CheckedInv'
<1> DEFINE to == IF vlevel = Terminal(sched) THEN "response" ELSE "bind"
           v == Asks(At(vlevel, "FoldResponse")) \o Asks(FoldGroups(sched, vlevel))
           e == FoldEvents(sched, vlevel)
           u == {}
<1>1. VStep("fold", to, v, u) /\ UNCHANGED <<sched, plan, wire, vlevel>>
  BY DEF DrawFoldChallenges
<1>2. vpc = "fold" /\ Started BY <1>1 DEF VStep, Started
<1>3. /\ sched \in Schedules /\ Located(sched, vlevel, "fold") /\ GivenOK
      /\ vlevel \in 1 .. Terminal(sched) /\ vlevel \in Nat
      /\ LevelCount(sched) \in Nat \ {0} /\ Terminal(sched) = LevelCount(sched) + 1
      /\ binding = HonestBinding
  BY <1>2, VerifierReady
<1>4. (vlevel # Terminal(sched) => vlevel \in 1 .. LevelCount(sched))
          /\ Located(sched, vlevel, to)
  BY <1>3 DEF Located
<1>5. Ensues(sched, vlevel, "fold", to) BY <1>3, <1>4, HearOrder
<1>6. Section(sched, vlevel, to) = Section(sched, vlevel, "fold") \o e
  <2>1. CASE vlevel = Terminal(sched)
    <3>1. Section(sched, vlevel, "response")
              = Section(sched, vlevel, "fold") \o FoldEvents(sched, vlevel)
      BY <1>3, <2>1, Moves, VerifierMoves
    <3> QED BY <2>1, <3>1
  <2>2. CASE vlevel # Terminal(sched)
    <3>1. Section(sched, vlevel, "bind")
              = Section(sched, vlevel, "fold") \o FoldEvents(sched, vlevel)
      <4>1. vlevel \in 1 .. LevelCount(sched) BY <1>4, <2>2
      <4>2. Section(sched, vlevel, "bind")
                = Section(sched, vlevel, "grind") \o FoldEvents(sched, vlevel)
        BY <1>3, <4>1, Moves
      <4>3. Section(sched, vlevel, "fold") = Section(sched, vlevel, "grind")
        BY <1>3, VerifierMoves
      <4> QED BY <4>2, <4>3
    <3> QED BY <2>2, <3>1
  <2> QED BY <2>1, <2>2
<1>7. e \in Seq(EventSet) BY <1>3, PieceTypes
<1>8. Replays(v, e, SourcesAt(sched, vlevel, "fold")) BY <1>3, FoldReplays, SourceFacts
<1>9. to \notin {"wait", "shape", "stream", "root", "claims"} OBVIOUS
<1>10. Rank(to) > 7 /\ vlevel <= LevelCount(sched) =>
         Rank("fold") > 7 \/ HasNorm(vlevel) = (sched.levels[vlevel].route # "linf")
  BY RankFacts
<1>11. to = "advance" => vprefix' = Defers(sched, vlevel) OBVIOUS
<1>12. "fold" \in HearSteps \cup {"fold", "switch"} BY DEF HearSteps
<1> HIDE DEF to, v, e, u
<1> QED BY <1>1, <1>3, <1>4, <1>5, <1>6, <1>7, <1>8, <1>9, <1>10, <1>11, <1>12, VerifierActs

\* Absorbing the next witness keeps it: the kind of binding was checked, so the
\* message absorbed is the one the prover shipped.
LEMMA WitnessVerified ==
  ASSUME IInv, VerifyNextWitness, UNCHANGED <<sched, plan, wire>>
  PROVE  VerifierAt' /\ CheckedInv'
<1> DEFINE to == "switch"
           v == HearsAs(Site(vlevel, "next_binding", 0, 0),
                   IF binding[vlevel] = "outer"
                     THEN Site(vlevel, "next_payload", 0, 0)
                     ELSE Site(Terminal(sched), "t_fields", 0, 0))
           e == Says(At(vlevel, "next_binding"))
           u == {}
<1>1. VStep("bind", to, v, u) /\ UNCHANGED <<sched, plan, wire, vlevel>>
  BY DEF VerifyNextWitness
<1>2. vpc = "bind" /\ Started BY <1>1 DEF VStep, Started
<1>3. /\ sched \in Schedules /\ Located(sched, vlevel, "bind") /\ GivenOK
      /\ vlevel \in 1 .. Terminal(sched) /\ vlevel \in Nat
      /\ LevelCount(sched) \in Nat \ {0} /\ Terminal(sched) = LevelCount(sched) + 1
      /\ binding = HonestBinding
  BY <1>2, VerifierReady
<1>4. vlevel \in 1 .. LevelCount(sched) /\ Located(sched, vlevel, to) BY <1>3 DEF Located
<1>5. Ensues(sched, vlevel, "bind", to) BY <1>3, <1>4, HearOrder
<1>6. Section(sched, vlevel, to) = Section(sched, vlevel, "bind") \o e BY <1>3, <1>4, Moves
<1>7. e \in Seq(EventSet) BY <1>3, NameFacts, PieceTypes
<1>8. Replays(v, e, SourcesAt(sched, vlevel, "bind"))
  <2> DEFINE y == IF binding[vlevel] = "outer" THEN Site(vlevel, "next_payload", 0, 0)
                  ELSE Site(Terminal(sched), "t_fields", 0, 0)
  <2>1. binding[vlevel] = IF vlevel < LevelCount(sched) THEN "outer" ELSE "terminal"
    BY <1>3, <1>4 DEF HonestBinding, ScheduledBinding
  <2>2. y = NextWitness(sched, vlevel) BY <2>1 DEF NextWitness
  <2>3. v = HearsAs(Site(vlevel, "next_binding", 0, 0), y) OBVIOUS
  <2> HIDE DEF y, v
  <2>4. Replays(v, e, {y}) BY <1>3, <2>3, NameFacts, AsReplays
  <2>5. SourcesAt(sched, vlevel, "bind") = {y} BY <2>2, SourceFacts
  <2> QED BY <2>4, <2>5
<1>9. to \notin {"wait", "shape", "stream", "root", "claims"} OBVIOUS
<1>10. Rank(to) > 7 /\ vlevel <= LevelCount(sched) =>
         Rank("bind") > 7 \/ HasNorm(vlevel) = (sched.levels[vlevel].route # "linf")
  BY RankFacts
<1>11. to = "advance" => vprefix' = Defers(sched, vlevel) OBVIOUS
<1>12. "bind" \in HearSteps \cup {"fold", "switch"} BY DEF HearSteps
<1> HIDE DEF to, v, e, u
<1> QED BY <1>1, <1>3, <1>4, <1>5, <1>6, <1>7, <1>8, <1>9, <1>10, <1>11, <1>12, VerifierActs

\* ring_switch_verifier keeps it.
LEMMA SwitchVerified ==
  ASSUME IInv, VerifyRingSwitch, UNCHANGED <<sched, plan, wire>>
  PROVE  VerifierAt' /\ CheckedInv'
<1> DEFINE to == "stage1"
           v == Asks(At(vlevel, "RingSwitchAlpha")) \o Asks(At(vlevel, "Tau0Point"))
                \o Asks(At(vlevel, "Tau1Point"))
           e == SwitchEvents(vlevel)
           u == {}
<1>1. VStep("switch", to, v, u) /\ UNCHANGED <<sched, plan, wire, vlevel>>
  BY DEF VerifyRingSwitch
<1>2. vpc = "switch" /\ Started BY <1>1 DEF VStep, Started
<1>3. /\ sched \in Schedules /\ Located(sched, vlevel, "switch") /\ GivenOK
      /\ vlevel \in 1 .. Terminal(sched) /\ vlevel \in Nat
      /\ LevelCount(sched) \in Nat \ {0} /\ Terminal(sched) = LevelCount(sched) + 1
      /\ binding = HonestBinding
  BY <1>2, VerifierReady
<1>4. vlevel \in 1 .. LevelCount(sched) /\ Located(sched, vlevel, to) BY <1>3 DEF Located
<1>5. Ensues(sched, vlevel, "switch", to) BY <1>3, <1>4, HearOrder
<1>6. Section(sched, vlevel, to) = Section(sched, vlevel, "switch") \o e BY <1>3, <1>4, Moves
<1>7. e \in Seq(EventSet) BY <1>3, PieceTypes
<1>8. Replays(v, e, SourcesAt(sched, vlevel, "switch")) BY <1>3, SwitchReplays, SourceFacts
<1>9. to \notin {"wait", "shape", "stream", "root", "claims"} OBVIOUS
<1>10. Rank(to) > 7 /\ vlevel <= LevelCount(sched) =>
         Rank("switch") > 7 \/ HasNorm(vlevel) = (sched.levels[vlevel].route # "linf")
  BY RankFacts
<1>11. to = "advance" => vprefix' = Defers(sched, vlevel) OBVIOUS
<1>12. "switch" \in HearSteps \cup {"fold", "switch"} BY DEF HearSteps
<1> HIDE DEF to, v, e, u
<1> QED BY <1>1, <1>3, <1>4, <1>5, <1>6, <1>7, <1>8, <1>9, <1>10, <1>11, <1>12, VerifierActs

\* The terminal response keeps it.
LEMMA ResponseVerified ==
  ASSUME IInv, VerifyTerminalResponse, UNCHANGED <<sched, plan, wire>>
  PROVE  VerifierAt' /\ CheckedInv'
<1> DEFINE to == "finish"
           v == Hears(At(vlevel, "w_remainder"))
           e == Says(At(vlevel, "w_remainder"))
           u == Sites(At(vlevel, "t_fields")) \cup Sites(At(vlevel, "e_hat"))
<1>1. VStep("response", to, v, u) /\ UNCHANGED <<sched, plan, wire, vlevel>>
  BY DEF VerifyTerminalResponse
<1>2. vpc = "response" /\ Started BY <1>1 DEF VStep, Started
<1>3. /\ sched \in Schedules /\ Located(sched, vlevel, "response") /\ GivenOK
      /\ vlevel \in 1 .. Terminal(sched) /\ vlevel \in Nat
      /\ LevelCount(sched) \in Nat \ {0} /\ Terminal(sched) = LevelCount(sched) + 1
      /\ binding = HonestBinding
  BY <1>2, VerifierReady
<1>4. vlevel = Terminal(sched) /\ Located(sched, vlevel, to) BY <1>3 DEF Located
<1>5. Ensues(sched, vlevel, "response", to) BY <1>3, <1>4, HearOrder
<1>6. Section(sched, vlevel, to) = Section(sched, vlevel, "response") \o e BY <1>3, <1>4, Moves
<1>7. e \in Seq(EventSet) BY <1>3, NameFacts, PieceTypes
<1>8. Replays(v, e, SourcesAt(sched, vlevel, "response"))
  BY <1>3, NameFacts, AtReplays, SourceFacts
<1>9. to \notin {"wait", "shape", "stream", "root", "claims"} OBVIOUS
<1>10. Rank(to) > 7 /\ vlevel <= LevelCount(sched) =>
         Rank("response") > 7 \/ HasNorm(vlevel) = (sched.levels[vlevel].route # "linf")
  BY <1>3, <1>4
<1>11. to = "advance" => vprefix' = Defers(sched, vlevel) OBVIOUS
<1>12. "response" \in HearSteps \cup {"fold", "switch"} BY DEF HearSteps
<1> HIDE DEF to, v, e, u
<1> QED BY <1>1, <1>3, <1>4, <1>5, <1>6, <1>7, <1>8, <1>9, <1>10, <1>11, <1>12, VerifierActs

\* verify_stage2 keeps it: a setup sumcheck follows exactly if one was
\* scheduled.
LEMMA RelationVerified ==
  ASSUME IInv, VerifyStage2, UNCHANGED <<sched, plan, wire>>
  PROVE  VerifierAt' /\ CheckedInv'
<1> DEFINE to == IF HasStage3(vlevel) THEN "stage3" ELSE "advance"
           v == Stage2Replay(vlevel)
           e == Stage2Events(sched, vlevel)
           u == IF HasStage3(vlevel) THEN Sites(At(vlevel, "setup_claim")) ELSE {}
<1>1. VStep("stage2", to, v, u) /\ UNCHANGED <<sched, plan, wire, vlevel>> BY DEF VerifyStage2
<1>2. vpc = "stage2" /\ Started BY <1>1 DEF VStep, Started
<1>3. /\ sched \in Schedules /\ Located(sched, vlevel, "stage2") /\ GivenOK
      /\ vlevel \in 1 .. Terminal(sched) /\ vlevel \in Nat
      /\ LevelCount(sched) \in Nat \ {0} /\ Terminal(sched) = LevelCount(sched) + 1
      /\ binding = HonestBinding
  BY <1>2, VerifierReady
<1>22. (HasStage3(vlevel) <=> Defers(sched, vlevel)) /\ vprefix' = FALSE
        /\ (~Defers(sched, vlevel) => Defers(sched, vlevel) = FALSE)
  <2>1. ClaimsPast(vlevel) BY <1>2 DEF ClaimsPast
  <2>2. vlevel <= LevelCount(sched) BY <1>3 DEF Located
  <2>3. HasStage3(vlevel) = Defers(sched, vlevel)
    BY <1>2, <1>3, <2>1, <2>2 DEF IInv, CheckedInv
  <2>4. vprefix' = FALSE BY DEF VerifyStage2
  <2>5. ~Defers(sched, vlevel) => Defers(sched, vlevel) = FALSE BY DEF Defers
  <2> QED BY <2>3, <2>4, <2>5
<1>4. vlevel \in 1 .. LevelCount(sched) /\ Located(sched, vlevel, to)
  BY <1>3, <1>22 DEF Located
<1>5. Ensues(sched, vlevel, "stage2", to)
  <2>1. Ensues(sched, vlevel, "stage2", IF Defers(sched, vlevel) THEN "stage3" ELSE "advance")
    BY <1>3, <1>4, HearOrder
  <2> QED BY <1>22, <2>1
<1>6. Section(sched, vlevel, to) = Section(sched, vlevel, "stage2") \o e
  <2>1. Section(sched, vlevel, IF Defers(sched, vlevel) THEN "stage3" ELSE "advance")
        = Section(sched, vlevel, "stage2") \o Stage2Events(sched, vlevel)
    BY <1>3, <1>4, Moves
  <2> QED BY <1>22, <2>1
<1>7. e \in Seq(EventSet) BY <1>3, <1>4, StageTypes
<1>8. Replays(v, e, SourcesAt(sched, vlevel, "stage2"))
  BY <1>3, <1>4, Stage2Replays, SourceFacts
<1>9. to \notin {"wait", "shape", "stream", "root", "claims"} OBVIOUS
<1>10. Rank(to) > 7 /\ vlevel <= LevelCount(sched) =>
         Rank("stage2") > 7 \/ HasNorm(vlevel) = (sched.levels[vlevel].route # "linf")
  BY RankFacts
<1>11. to = "advance" => vprefix' = Defers(sched, vlevel) BY <1>22
<1>12. "stage2" \in HearSteps \cup {"fold", "switch"} BY DEF HearSteps
<1> HIDE DEF to, v, e, u
<1> QED BY <1>1, <1>3, <1>4, <1>5, <1>6, <1>7, <1>8, <1>9, <1>10, <1>11, <1>12, VerifierActs

\* verify_stage3 keeps it.
LEMMA SetupVerified ==
  ASSUME IInv, VerifyStage3, UNCHANGED <<sched, plan, wire>>
  PROVE  VerifierAt' /\ CheckedInv'
<1> DEFINE to == "advance"
           v == Stage3Replay(vlevel)
           e == Stage3Events(sched, vlevel)
           u == Sites(At(vlevel, "setup_prefix_eval"))
<1>1. VStep("stage3", to, v, u) /\ UNCHANGED <<sched, plan, wire, vlevel>> BY DEF VerifyStage3
<1>2. vpc = "stage3" /\ Started BY <1>1 DEF VStep, Started
<1>3. /\ sched \in Schedules /\ Located(sched, vlevel, "stage3") /\ GivenOK
      /\ vlevel \in 1 .. Terminal(sched) /\ vlevel \in Nat
      /\ LevelCount(sched) \in Nat \ {0} /\ Terminal(sched) = LevelCount(sched) + 1
      /\ binding = HonestBinding
  BY <1>2, VerifierReady
<1>4. vlevel \in 1 .. LevelCount(sched) /\ Defers(sched, vlevel) /\ Located(sched, vlevel, to)
  BY <1>3 DEF Located
<1>5. Ensues(sched, vlevel, "stage3", to) BY <1>3, <1>4, HearOrder
<1>6. Section(sched, vlevel, to) = Section(sched, vlevel, "stage3") \o e BY <1>3, <1>4, Moves
<1>7. e \in Seq(EventSet) BY <1>3, <1>4, StageTypes
<1>8. Replays(v, e, SourcesAt(sched, vlevel, "stage3"))
  BY <1>3, <1>4, Stage3Replays, SourceFacts
<1>9. to \notin {"wait", "shape", "stream", "root", "claims"} OBVIOUS
<1>10. Rank(to) > 7 /\ vlevel <= LevelCount(sched) =>
         Rank("stage3") > 7 \/ HasNorm(vlevel) = (sched.levels[vlevel].route # "linf")
  BY RankFacts
<1>11. to = "advance" => vprefix' = Defers(sched, vlevel)
  <2>1. Defers(sched, vlevel) BY <1>4
  <2>2. Defers(sched, vlevel) \in BOOLEAN
    <3>1. vlevel < LevelCount(sched) => sched.levels[vlevel + 1].prefix \in BOOLEAN
      BY <1>3, LevelFacts
    <3> QED BY <3>1 DEF Defers
  <2>3. vprefix' = TRUE BY DEF VerifyStage3
  <2> QED BY <2>1, <2>2, <2>3
<1>12. "stage3" \in HearSteps \cup {"fold", "switch"} BY DEF HearSteps
<1> HIDE DEF to, v, e, u
<1> QED BY <1>1, <1>3, <1>4, <1>5, <1>6, <1>7, <1>8, <1>9, <1>10, <1>11, <1>12, VerifierActs

\* verify_suffix keeps it: the presence checks pass only for the scheduled
\* parts.
LEMMA ClaimsVerified ==
  ASSUME IInv, VerifyClaims, UNCHANGED <<sched, plan, wire>>
  PROVE  VerifierAt' /\ CheckedInv'
<1> DEFINE ok == /\ vwitness = "outer"
                 /\ Stage3Scheduled(vlevel) /\ NextWitnessScheduled(vlevel)
                 /\ vprefix = sched.levels[vlevel].prefix
                 /\ HasEor(vlevel) = Reduces(sched, vlevel)
<1>0. vpc = "claims" /\ vlevel < Terminal(sched) /\ Started
          /\ UNCHANGED <<sched, given, nonces>>
  BY DEF VerifyClaims, Started, wire
<1>1. /\ sched \in Schedules /\ Located(sched, vlevel, "claims") /\ GivenOK
      /\ LevelCount(sched) \in Nat \ {0} /\ Terminal(sched) = LevelCount(sched) + 1
  BY <1>0, VerifierReady
<1>2. vlevel \in 2 .. Terminal(sched) BY <1>1 DEF Located
<1>3. CASE ok
  <2> DEFINE to == IF Reduces(sched, vlevel) THEN "eor" ELSE "payload"
             w == Site(vlevel - 1, "next_payload", 0, 0)
             v == ClaimsReplay(vlevel, w, vprefix)
             e == ClaimEvents(sched, vlevel)
  <2>1. VStep("claims", to, v, {}) /\ UNCHANGED <<sched, plan, wire, vlevel>>
    BY <1>3 DEF VerifyClaims
  <2>2. to = IF Reduces(sched, vlevel) THEN "eor" ELSE AfterClaims(sched, vlevel)
    BY <1>0, <1>1 DEF AfterClaims
  <2>3. Located(sched, vlevel, to) BY <1>0, <1>1, <1>2 DEF Located
  <2>4. Ensues(sched, vlevel, "claims", to)
    <3>1. Ensues(sched, vlevel, "claims", IF Reduces(sched, vlevel) THEN "eor"
              ELSE AfterClaims(sched, vlevel))
      BY <1>1, <1>2, HearOrder
    <3> HIDE DEF to
    <3> QED BY <2>2, <3>1
  <2>5. Section(sched, vlevel, to) = Section(sched, vlevel, "claims") \o e
    <3>1. Section(sched, vlevel, IF Reduces(sched, vlevel) THEN "eor"
              ELSE AfterClaims(sched, vlevel))
          = Section(sched, vlevel, "claims") \o ClaimEvents(sched, vlevel)
      BY <1>1, <1>2, Moves
    <3> HIDE DEF to
    <3> QED BY <2>2, <3>1
  <2>6. e \in Seq(EventSet) BY <1>1, <1>2, EventTypes
  <2>7. Replays(v, e, SourcesAt(sched, vlevel, "claims"))
    <3>1. w = NextWitness(sched, vlevel - 1) BY <1>0, <1>1, <1>2 DEF NextWitness
    <3>2. vprefix <=> Defers(sched, vlevel - 1)
      BY <1>0 DEF IInv, CheckedInv
    <3>3. SourcesAt(sched, vlevel, "claims") = ClaimSources(sched, vlevel) BY SourceFacts
    <3>4. Replays(ClaimsReplay(vlevel, NextWitness(sched, vlevel - 1), vprefix),
              ClaimEvents(sched, vlevel),
                  ClaimSources(sched, vlevel))
      BY <1>1, <1>2, <3>2, ClaimReplays
    <3> QED BY <3>1, <3>3, <3>4
  <2>8. /\ HasEor(vlevel) = Reduces(sched, vlevel)
        /\ vlevel <= LevelCount(sched) => HasStage3(vlevel) = Defers(sched, vlevel)
    BY <1>0, <1>1, <1>2, <1>3 DEF Stage3Scheduled
  <2>9. to \notin {"wait", "shape", "stream", "root", "claims"} /\ to # "advance" OBVIOUS
  <2>10. ~(Rank(to) > 7) BY RankFacts
  <2>11. "claims" \in HearSteps BY DEF HearSteps
  <2> HIDE DEF to, v, e
  <2> QED BY <2>1, <2>3, <2>4, <2>5, <2>6, <2>7, <2>8, <2>9, <2>10, <2>11, VerifierActs
<1>4. CASE ~ok
  <2>1. Reject BY <1>4 DEF VerifyClaims
  <2>2. vpc \in HearSteps BY <1>0 DEF HearSteps
  <2> QED BY <1>0, <2>1, <2>2, RejectKept
<1> QED BY <1>3, <1>4

\* verify_terminal_suffix keeps it.
LEMMA TerminalClaimsVerified ==
  ASSUME IInv, VerifyTerminalClaims, UNCHANGED <<sched, plan, wire>>
  PROVE  VerifierAt' /\ CheckedInv'
<1> DEFINE ok == vwitness = "terminal" /\ ~vprefix /\ HasEor(vlevel) = Reduces(sched, vlevel)
<1>0. vpc = "claims" /\ vlevel = Terminal(sched) /\ Started
          /\ UNCHANGED <<sched, given, nonces>>
  BY DEF VerifyTerminalClaims, Started, wire
<1>1. /\ sched \in Schedules /\ Located(sched, vlevel, "claims") /\ GivenOK
      /\ LevelCount(sched) \in Nat \ {0} /\ Terminal(sched) = LevelCount(sched) + 1
  BY <1>0, VerifierReady
<1>2. vlevel \in 2 .. Terminal(sched) BY <1>1 DEF Located
<1>3. CASE ok
  <2> DEFINE to == IF Reduces(sched, vlevel) THEN "eor" ELSE "ehat"
             w == Site(vlevel, "t_fields", 0, 0)
             v == ClaimsReplay(vlevel, w, FALSE)
             e == ClaimEvents(sched, vlevel)
  <2>1. VStep("claims", to, v, {}) /\ UNCHANGED <<sched, plan, wire, vlevel>>
    BY <1>3 DEF VerifyTerminalClaims
  <2>2. to = IF Reduces(sched, vlevel) THEN "eor" ELSE AfterClaims(sched, vlevel)
    BY <1>0, <1>1 DEF AfterClaims
  <2>3. Located(sched, vlevel, to) BY <1>0, <1>1, <1>2 DEF Located
  <2>4. Ensues(sched, vlevel, "claims", to)
    <3>1. Ensues(sched, vlevel, "claims", IF Reduces(sched, vlevel) THEN "eor"
              ELSE AfterClaims(sched, vlevel))
      BY <1>1, <1>2, HearOrder
    <3> HIDE DEF to
    <3> QED BY <2>2, <3>1
  <2>5. Section(sched, vlevel, to) = Section(sched, vlevel, "claims") \o e
    <3>1. Section(sched, vlevel, IF Reduces(sched, vlevel) THEN "eor"
              ELSE AfterClaims(sched, vlevel))
          = Section(sched, vlevel, "claims") \o ClaimEvents(sched, vlevel)
      BY <1>1, <1>2, Moves
    <3> HIDE DEF to
    <3> QED BY <2>2, <3>1
  <2>6. e \in Seq(EventSet) BY <1>1, <1>2, EventTypes
  <2>7. Replays(v, e, SourcesAt(sched, vlevel, "claims"))
    <3>1. w = NextWitness(sched, vlevel - 1) BY <1>0, <1>1, <1>2 DEF NextWitness
    <3>2. FALSE <=> Defers(sched, vlevel - 1)
      BY <1>0, <1>1, <1>2, DefersCount
    <3>3. SourcesAt(sched, vlevel, "claims") = ClaimSources(sched, vlevel) BY SourceFacts
    <3>4. Replays(ClaimsReplay(vlevel, NextWitness(sched, vlevel - 1), FALSE),
              ClaimEvents(sched, vlevel),
                  ClaimSources(sched, vlevel))
      BY <1>1, <1>2, <3>2, ClaimReplays
    <3> QED BY <3>1, <3>3, <3>4
  <2>8. /\ HasEor(vlevel) = Reduces(sched, vlevel)
        /\ vlevel <= LevelCount(sched) => HasStage3(vlevel) = Defers(sched, vlevel)
    BY <1>0, <1>1, <1>2, <1>3 DEF Stage3Scheduled
  <2>9. to \notin {"wait", "shape", "stream", "root", "claims"} /\ to # "advance" OBVIOUS
  <2>10. ~(Rank(to) > 7) BY RankFacts
  <2>11. "claims" \in HearSteps BY DEF HearSteps
  <2> HIDE DEF to, v, e
  <2> QED BY <2>1, <2>3, <2>4, <2>5, <2>6, <2>7, <2>8, <2>9, <2>10, <2>11, VerifierActs
<1>4. CASE ~ok
  <2>1. Reject BY <1>4 DEF VerifyTerminalClaims
  <2>2. vpc \in HearSteps BY <1>0 DEF HearSteps
  <2> QED BY <1>0, <2>1, <2>2, RejectKept
<1> QED BY <1>3, <1>4

\* verify_stage1 on the L-infinity route keeps it.
LEMMA Stage1Verified ==
  ASSUME IInv, VerifyStage1, UNCHANGED <<sched, plan, wire>>
  PROVE  VerifierAt' /\ CheckedInv'
<1>0. vpc = "stage1" /\ sched.levels[vlevel].route = "linf" /\ Started
      /\ UNCHANGED <<sched, given, nonces>>
  BY DEF VerifyStage1, Started, wire, VLevel
<1>1. /\ sched \in Schedules /\ Located(sched, vlevel, "stage1") /\ GivenOK
      /\ LevelCount(sched) \in Nat \ {0} /\ Terminal(sched) = LevelCount(sched) + 1
  BY <1>0, VerifierReady
<1>2. vlevel \in 1 .. LevelCount(sched) BY <1>1 DEF Located
<1>3. CASE ~HasNorm(vlevel)
  <2> DEFINE v == ProductPrefix(vlevel) \o LeafReplay(vlevel)
             e == Stage1Events(sched, vlevel)
  <2>1. VStep("stage1", "stage2", v, {}) /\ UNCHANGED <<sched, plan, wire, vlevel>>
    BY <1>3 DEF VerifyStage1
  <2>2. Located(sched, vlevel, "stage2") BY <1>2 DEF Located
  <2>3. Ensues(sched, vlevel, "stage1", "stage2") BY <1>1, <1>2, HearOrder
  <2>4. Section(sched, vlevel, "stage2") = Section(sched, vlevel, "stage1") \o e
    BY <1>0, <1>1, <1>2, VerifierMoves
  <2>5. e \in Seq(EventSet) BY <1>1, <1>2, StageTypes
  <2>6. Replays(v, e, SourcesAt(sched, vlevel, "stage1"))
    BY <1>0, <1>1, <1>2, Stage1Replays, SourceFacts
  <2>7. HasNorm(vlevel) = (sched.levels[vlevel].route # "linf") BY <1>0, <1>3 DEF HasNorm, Has
  <2>8. "stage1" \in HearSteps BY DEF HearSteps
  <2> HIDE DEF v, e
  <2> QED BY <2>1, <2>2, <2>3, <2>4, <2>5, <2>6, <2>7, <2>8, VerifierActs
<1>4. CASE ~(~HasNorm(vlevel))
  <2>1. Reject BY <1>4 DEF VerifyStage1
  <2>2. vpc \in HearSteps BY <1>0 DEF HearSteps
  <2> QED BY <1>0, <2>1, <2>2, RejectKept
<1> QED BY <1>3, <1>4

\* verify_stage1 on the L2 route keeps it.
LEMMA NormVerified ==
  ASSUME IInv, VerifyNormStage1, UNCHANGED <<sched, plan, wire>>
  PROVE  VerifierAt' /\ CheckedInv'
<1>0. vpc = "stage1" /\ sched.levels[vlevel].route # "linf" /\ Started
      /\ UNCHANGED <<sched, given, nonces>>
  BY DEF VerifyNormStage1, Started, wire, VLevel
<1>1. /\ sched \in Schedules /\ Located(sched, vlevel, "stage1") /\ GivenOK
      /\ LevelCount(sched) \in Nat \ {0} /\ Terminal(sched) = LevelCount(sched) + 1
  BY <1>0, VerifierReady
<1>2. vlevel \in 1 .. LevelCount(sched) BY <1>1 DEF Located
<1>3. CASE HasNorm(vlevel)
  <2> DEFINE v == ProductPrefix(vlevel) \o NormReplay(vlevel)
             e == Stage1Events(sched, vlevel) \o NormEvents(sched, vlevel)
  <2>1. VStep("stage1", "stage2", v, {}) /\ UNCHANGED <<sched, plan, wire, vlevel>>
    BY <1>3 DEF VerifyNormStage1
  <2>2. Located(sched, vlevel, "stage2") BY <1>2 DEF Located
  <2>3. Ensues(sched, vlevel, "stage1", "stage2") BY <1>1, <1>2, HearOrder
  <2>4. Section(sched, vlevel, "stage2") = Section(sched, vlevel, "stage1") \o e
    BY <1>0, <1>1, <1>2, VerifierMoves
  <2>5. e \in Seq(EventSet) BY <1>1, <1>2, StageTypes, ConcatFacts
  <2>6. Replays(v, e, SourcesAt(sched, vlevel, "stage1"))
    BY <1>0, <1>1, <1>2, Stage1Replays, SourceFacts
  <2>7. HasNorm(vlevel) = (sched.levels[vlevel].route # "linf") BY <1>0, <1>3 DEF HasNorm, Has
  <2>8. "stage1" \in HearSteps BY DEF HearSteps
  <2> HIDE DEF v, e
  <2> QED BY <2>1, <2>2, <2>3, <2>4, <2>5, <2>6, <2>7, <2>8, VerifierActs
<1>4. CASE ~(HasNorm(vlevel))
  <2>1. Reject BY <1>4 DEF VerifyNormStage1
  <2>2. vpc \in HearSteps BY <1>0 DEF HearSteps
  <2> QED BY <1>0, <2>1, <2>2, RejectKept
<1> QED BY <1>3, <1>4

\* validate_proof_against_schedule lets only the scheduled levels and bindings
\* through.
LEMMA ShapeVerified ==
  ASSUME IInv, VerifyShape, UNCHANGED <<sched, plan, wire>>
  PROVE  VerifierAt' /\ CheckedInv'
<1>0. vpc = "shape" /\ UNCHANGED <<sched, given, nonces, folds, binding>>
  BY DEF VerifyShape, wire
<1>1. vlevel = 1 /\ vtr = <<>> /\ vcur = 0
  <2>1. ~Located(sched, vlevel, vpc) BY <1>0 DEF Located
  <2> QED BY <1>0, <2>1 DEF IInv, VerifierAt, ReplayAt
<1>2. CASE Reject BY <1>0, <1>2, RejectKept
<1>3. CASE ~Reject
  <2>1. /\ folds = LevelCount(sched) /\ \A l \in 1 .. folds : binding[l] = ScheduledBinding(l)
        /\ vpc' = "stream" /\ UNCHANGED <<vlevel, vtr, vcur>>
    BY <1>3 DEF VerifyShape
  <2>2. binding \in [1 .. folds -> Bindings] BY <1>0 DEF IInv, WireInv
  <2>3. binding = HonestBinding BY <2>1, <2>2 DEF HonestBinding
  <2>4. HonestBinding' = HonestBinding BY <1>0 DEF HonestBinding, ScheduledBinding
  <2>5. CheckedInv' BY <1>0, <2>1, <2>3, <2>4 DEF CheckedInv, Started
  <2>6. VerifierAt' BY <1>1, <2>1 DEF VerifierAt
  <2> QED BY <2>5, <2>6
<1> QED BY <1>2, <1>3

\* The nonce reader opens only on a stream of the planned length.
LEMMA StreamOpened ==
  ASSUME IInv, OpenNonceStream, UNCHANGED <<sched, plan, wire>>
  PROVE  VerifierAt' /\ CheckedInv'
<1>0. vpc = "stream" /\ UNCHANGED <<sched, given, nonces, folds, binding>>
  BY DEF OpenNonceStream, wire
<1>1. vlevel = 1 /\ vtr = <<>> /\ vcur = 0
  <2>1. ~Located(sched, vlevel, vpc) BY <1>0 DEF Located
  <2> QED BY <1>0, <2>1 DEF IInv, VerifierAt, ReplayAt
<1>2. CASE Reject BY <1>0, <1>2, RejectKept
<1>3. CASE ~Reject
  <2> DEFINE t == Hears(At(0, "descriptor"))
             d == Says(At(0, "descriptor"))
             F == Sites(At(0, "descriptor"))
  <2>1. /\ Len(nonces) = Len(plan) /\ vpc' = "root" /\ vtr' = t
        /\ UNCHANGED <<vlevel, vcur>>
    BY <1>3 DEF OpenNonceStream
  <2>2. sched \in Schedules /\ GivenOK BY <1>0 DEF IInv, ProverAt, WireInv, GivenOK
  <2>3. Replays(t, d, F)
    <3>1. 0 \in Nat OBVIOUS
    <3> QED BY <2>2, <3>1, NameFacts, AtReplays
  <2>4. Located(sched, 1, "root") BY DEF Located
  <2>5. Reached(sched, 1, "root") = d
    <3>1. [k \in 1 .. 1 - 1 |-> LevelEvents(sched, k)] = <<>> OBVIOUS
    <3>2. Before(sched, 1) = d \o <<>> BY <3>1, FlattenEmpty DEF Before
    <3>3. Section(sched, 1, "root") = <<>> BY DEF Section
    <3>4. d \in Seq(EventSet) BY <2>2, EventTypes
    <3> HIDE DEF d
    <3> QED BY <3>2, <3>3, <3>4, EmptyConcat DEF Reached
  <2>6. DrawCount(d) = 0
    <3>1. 0 \in Nat OBVIOUS
    <3>2. Covers(d, <<>>) BY <3>1, AtCovers, NameFacts
    <3> QED BY <3>2 DEF Covers
  <2>7. Heard(sched, 1, "root") = F
    <3>1. \A k \in 1 .. 1, x \in HearSteps : ~Due(sched, 1, "root", k, x)
      BY RankFacts DEF Due, HearSteps
    <3>2. \A f : f \in Heard(sched, 1, "root") <=> f \in F BY <3>1, HeardMembers, Zenon
    <3> QED BY <3>2
  <2> HIDE DEF t, d, F
  <2>8. Same(t, d) /\ (Bad(t) <=> \E f \in F : Val(f) = "bad") /\ Mirrors(t, d)
    BY <2>3 DEF Replays, Echo, Mirrors
  <2>9. ~Bad(t) => t = d BY <2>8, MirrorsGood
  <2>10. DrawCount(t) = 0 BY <2>6, <2>8, SameDraws
  <2>11. Bad(t) <=> (\E f \in Heard(sched, 1, "root") : Val(f) = "bad")
             \/ \E k \in 1 .. vcur : nonces[k] = "bad"
    <3>1. \A k : k \notin 1 .. vcur BY <1>1
    <3> QED BY <2>7, <2>8, <3>1
  <2>12. Replayed(vlevel, "root", vtr', vcur')
    BY <1>1, <2>1, <2>4, <2>5, <2>8, <2>9, <2>10, <2>11 DEF Replayed
  <2>13. ReplayAt(vlevel, vpc)' BY <1>0, <2>1, <2>12 DEF ReplayAt, Replayed, Val, Has
  <2>14. VerifierAt' BY <2>13 DEF VerifierAt
  <2>15. folds' = LevelCount(sched') /\ binding' = HonestBinding'
    BY <1>0 DEF IInv, CheckedInv, HonestBinding, ScheduledBinding
  <2>16. Len(nonces') = PlanLen' BY <1>0, <2>1 DEF PlanLen
  <2>17. \A k \in 1 .. Terminal(sched') : ~ClaimsPast(k)' /\ ~RangePast(k)'
    <3>1. ~(Rank("root") > 7) BY RankFacts
    <3> QED BY <1>1, <2>1, <3>1 DEF ClaimsPast, RangePast
  <2>18. \A k \in 1 .. LevelCount(sched') : k \in 1 .. Terminal(sched')
    <3>1. sched' \in Schedules BY <1>0, <2>2
    <3> QED BY <3>1, LevelFacts
  <2>19. CheckedInv' BY <2>1, <2>15, <2>16, <2>17, <2>18 DEF CheckedInv
  <2> QED BY <2>14, <2>19
<1> QED BY <1>2, <1>3

\* The next SuffixVerifierState is the one the schedule expects.
LEMMA VerifierAdvanced ==
  ASSUME IInv, AdvanceVerifier, UNCHANGED <<sched, plan, wire>>
  PROVE  VerifierAt' /\ CheckedInv'
<1>0. /\ vpc = "advance" /\ vpc' = "claims" /\ Started /\ vlevel' = vlevel + 1
      /\ UNCHANGED <<sched, given, nonces, folds, binding, vtr, vcur, vprefix>>
          /\ vwitness' = binding[vlevel]
  BY DEF AdvanceVerifier, Started, wire
<1>1. /\ sched \in Schedules /\ Located(sched, vlevel, "advance")
          /\ Replayed(vlevel, "advance", vtr, vcur)
      /\ LevelCount(sched) \in Nat \ {0} /\ Terminal(sched) = LevelCount(sched) + 1
      /\ binding = HonestBinding
  BY <1>0, VerifierReady
<1>2. vlevel \in 1 .. LevelCount(sched) BY <1>1 DEF Located
<1>3. Located(sched, vlevel + 1, "claims") BY <1>1, <1>2 DEF Located
<1>4. Reached(sched, vlevel + 1, "claims") = Reached(sched, vlevel, "advance")
  <2>1. Section(sched, vlevel + 1, "claims") = <<>>
            /\ Section(sched, vlevel, "advance") = LevelEvents(sched, vlevel)
    BY DEF Section
  <2>2. Before(sched, vlevel + 1) = Before(sched, vlevel) \o LevelEvents(sched, vlevel)
    BY <1>1, <1>2, BeforeStep
  <2>3. Before(sched, vlevel + 1) \in Seq(EventSet)
    <3>1. vlevel + 1 \in 1 .. Terminal(sched) BY <1>1, <1>2
    <3> QED BY <1>1, <3>1, BeforeType
  <2> QED BY <2>1, <2>2, <2>3, EmptyConcat DEF Reached
<1>5. Heard(sched, vlevel + 1, "claims") = Heard(sched, vlevel, "advance")
  BY <1>1, <1>2, HeardAdvance
<1>6. Replayed(vlevel + 1, "claims", vtr', vcur') BY <1>0, <1>1, <1>3, <1>4, <1>5 DEF Replayed
<1>7. ReplayAt(vlevel, vpc)' BY <1>0, <1>6 DEF ReplayAt, Replayed, Val, Has
<1>8. VerifierAt' BY <1>7 DEF VerifierAt
<1>9. folds' = LevelCount(sched') /\ binding' = HonestBinding' /\ Len(nonces') = PlanLen'
  BY <1>0 DEF IInv, CheckedInv, HonestBinding, ScheduledBinding, PlanLen
<1>10. ASSUME NEW k \in 1 .. Terminal(sched'), ClaimsPast(k)'
      PROVE  /\ HasEor(k)' = Reduces(sched', k)
             /\ k <= LevelCount(sched') => HasStage3(k)' = Defers(sched', k)
  <2>1. k < vlevel + 1 BY <1>0, <1>10 DEF ClaimsPast
  <2>2. ClaimsPast(k) BY <1>0, <1>1, <1>2, <2>1 DEF ClaimsPast
  <2>3. HasEor(k) = Reduces(sched, k)
            /\ (k <= LevelCount(sched) => HasStage3(k) = Defers(sched, k))
    BY <1>0, <2>2 DEF IInv, CheckedInv
  <2> QED BY <1>0, <2>3 DEF HasEor, HasStage3, Has
<1>11. ASSUME NEW k \in 1 .. LevelCount(sched'), RangePast(k)'
      PROVE  HasNorm(k)' = (sched'.levels[k].route # "linf")
  <2>1. k < vlevel + 1
    <3>1. Rank("claims") = 0 BY RankFacts
    <3> QED BY <1>0, <1>11, <3>1 DEF RangePast
  <2>2. RangePast(k)
    <3>1. Rank("advance") = 10 BY RankFacts
    <3> QED BY <1>0, <1>1, <1>2, <2>1, <3>1 DEF RangePast
  <2>3. HasNorm(k) = (sched.levels[k].route # "linf") BY <1>0, <2>2 DEF IInv, CheckedInv
  <2> QED BY <1>0, <2>3 DEF HasNorm, Has
<1>12. vprefix' = Defers(sched', vlevel' - 1) /\ vwitness' = ScheduledBinding(vlevel - 1)'
  <2>1. vprefix = Defers(sched, vlevel) BY <1>0 DEF IInv, CheckedInv
  <2>2. vlevel' - 1 = vlevel BY <1>0, <1>2
  <2>3. vwitness' = IF vlevel < LevelCount(sched) THEN "outer" ELSE "terminal"
    BY <1>0, <1>1, <1>2 DEF HonestBinding, ScheduledBinding
  <2>4. ScheduledBinding(vlevel - 1)' = IF vlevel' - 1 < LevelCount(sched') THEN "outer"
            ELSE "terminal"
    BY DEF ScheduledBinding
  <2> QED BY <1>0, <2>1, <2>2, <2>3, <2>4
<1>13. CheckedInv' BY <1>0, <1>9, <1>10, <1>11, <1>12 DEF CheckedInv
<1> QED BY <1>8, <1>13

\* The verifier ends at the end of the plan.
LEMMA VerifierFinished ==
  ASSUME IInv, FinishVerification, UNCHANGED <<sched, plan, wire>>
  PROVE  VerifierAt' /\ CheckedInv'
<1>0. /\ vpc = "finish" /\ vpc' = (IF vcur = Len(plan) THEN "accepted" ELSE "off_plan")
          /\ Started
      /\ UNCHANGED <<sched, plan, wire, given, nonces, vlevel, vtr, vcur>>
  BY DEF FinishVerification, Started, wire
<1>1. /\ sched \in Schedules /\ Located(sched, vlevel, "finish")
          /\ Replayed(vlevel, "finish", vtr, vcur) /\ Ready
      /\ LevelCount(sched) \in Nat \ {0} /\ Terminal(sched) = LevelCount(sched) + 1
          /\ vlevel \in Nat
  BY <1>0, VerifierReady
<1>2. vlevel = Terminal(sched) BY <1>1 DEF Located
<1>3. Reached(sched, vlevel, "finish") = Full(sched) BY <1>2 DEF Reached, Section, Full
<1>4. Covers(Full(sched), plan) BY <1>1, FullCovers DEF Ready
<1>5. vcur = Len(plan)
  <2>1. Same(vtr, Full(sched)) /\ vcur = DrawCount(vtr) BY <1>1, <1>3 DEF Replayed
  <2>2. DrawCount(vtr) = DrawCount(Full(sched)) BY <2>1, SameDraws
  <2> QED BY <1>4, <2>1, <2>2 DEF Covers
<1>6. Located(sched, vlevel, "accepted") BY <1>2 DEF Located
<1>7. Reached(sched, vlevel, "accepted") = Reached(sched, vlevel, "finish")
  BY DEF Reached, Section
<1>8. Heard(sched, vlevel, "accepted") = Heard(sched, vlevel, "finish")
  <2>1. Rank("accepted") = Rank("finish") BY RankFacts
  <2>2. \A k, x : Due(sched, vlevel, "accepted", k, x) <=> Due(sched, vlevel, "finish", k, x)
    BY <2>1 DEF Due
  <2>3. \A f : f \in Heard(sched, vlevel, "accepted") <=> f \in Heard(sched, vlevel, "finish")
    BY <2>2, HeardMembers, Zenon
  <2> QED BY <2>3
<1>9. Replayed(vlevel, "accepted", vtr', vcur') BY <1>0, <1>1, <1>6, <1>7, <1>8 DEF Replayed
<1>10. ReplayAt(vlevel, vpc)' BY <1>0, <1>5, <1>9 DEF ReplayAt, Replayed, Val, Has
<1>11. VerifierAt' BY <1>10 DEF VerifierAt
<1>12. CheckedInv'
  <2>1. CheckedInv BY DEF IInv
  <2>2. vpc' = "accepted" BY <1>0, <1>5
  <2>3. ~(vlevel <= LevelCount(sched)) BY <1>1, <1>2
  <2> QED BY <1>0, <1>1, <2>1, <2>2, <2>3, CheckedStep
<1> QED BY <1>11, <1>12

-----------------------------------------------------------------------------
\* The inductive invariant.

\* Every verifier step keeps the replay and what was checked.
LEMMA VerifierKept ==
  ASSUME IInv, VerifierNext, UNCHANGED <<sched, plan, wire>>
  PROVE  VerifierAt' /\ CheckedInv'
<1>1. CASE VerifyShape \/ OpenNonceStream \/ VerifyRoot \/ VerifyClaims \/ VerifyTerminalClaims
  BY <1>1, ShapeVerified, StreamOpened, RootVerified, ClaimsVerified, TerminalClaimsVerified
<1>2. CASE VerifyEor \/ VerifyPayload \/ VerifyTerminalEHat \/ DrawFoldChallenges
          \/ VerifyNextWitness
  BY <1>2, EorVerified, PayloadVerified, EHatVerified, FoldVerified, WitnessVerified
<1>3. CASE VerifyRingSwitch \/ VerifyStage1 \/ VerifyNormStage1 \/ VerifyStage2 \/ VerifyStage3
  BY <1>3, SwitchVerified, Stage1Verified, NormVerified, RelationVerified, SetupVerified
<1>4. CASE AdvanceVerifier \/ VerifyTerminalResponse \/ FinishVerification
  BY <1>4, VerifierAdvanced, ResponseVerified, VerifierFinished
<1> QED BY <1>1, <1>2, <1>3, <1>4 DEF VerifierNext

\* The verifier does nothing before a proof is delivered.
LEMMA VerifierRuns ==
  ASSUME VerifierNext
  PROVE  vpc # "wait"
<1>1. CASE VerifyShape \/ OpenNonceStream \/ VerifyRoot \/ VerifyClaims \/ VerifyTerminalClaims
  BY <1>1 DEF VerifyShape, OpenNonceStream, VerifyRoot, VerifyClaims, VerifyTerminalClaims
<1>2. CASE VerifyEor \/ VerifyPayload \/ VerifyTerminalEHat \/ DrawFoldChallenges
          \/ VerifyNextWitness
  BY <1>2 DEF VerifyEor, VerifyPayload, VerifyTerminalEHat, DrawFoldChallenges,
    VerifyNextWitness, VStep
<1>3. CASE VerifyRingSwitch \/ VerifyStage1 \/ VerifyNormStage1 \/ VerifyStage2 \/ VerifyStage3
  BY <1>3 DEF VerifyRingSwitch, VerifyStage1, VerifyNormStage1, VerifyStage2, VerifyStage3,
    VStep
<1>4. CASE AdvanceVerifier \/ VerifyTerminalResponse \/ FinishVerification
  BY <1>4 DEF AdvanceVerifier, VerifyTerminalResponse, FinishVerification, VStep
<1> QED BY <1>1, <1>2, <1>3, <1>4 DEF VerifierNext

\* The prover does nothing after its proof.
LEMMA ProverRuns ==
  ASSUME ProverNext
  PROVE  ppc # "proved"
<1>1. CASE ProveRoot \/ ProveClaims \/ ProveEor \/ BindPayload \/ BindTerminalEHat
  BY <1>1 DEF ProveRoot, ProveClaims, ProveEor, BindPayload, BindTerminalEHat, PStep
<1>2. CASE RejectNonce \/ CommitNonce \/ BindNextWitness \/ SwitchRing
  BY <1>2 DEF RejectNonce, CommitNonce, BindNextWitness, SwitchRing, PStep
<1>3. CASE ProveStage1 \/ ProveNorm \/ ProveStage2 \/ ProveStage3 \/ AdvanceProver
  BY <1>3 DEF ProveStage1, ProveNorm, ProveStage2, ProveStage3, AdvanceProver, PStep
<1>4. CASE RespondTerminal \/ FinishProof
  BY <1>4 DEF RespondTerminal, FinishProof, PStep
<1> QED BY <1>1, <1>2, <1>3, <1>4 DEF ProverNext

\* What was delivered stays as it was.
LEMMA WireKept ==
  ASSUME WireInv, UNCHANGED <<pvars, wire, tamper>>, vpc # "wait", vpc' # "wait"
  PROVE  WireInv'
<1>1. UNCHANGED <<sched, plan, ppc, proof, given, nonces, folds, binding, tamper>>
  BY DEF pvars, wire
<1>2. Honest' = Honest BY <1>1 DEF Honest, Statement
<1>3. \A part, l : Toggled(part, l)' = Toggled(part, l) BY <1>1, <1>2 DEF Toggled
<1>4. PlanLen' = PlanLen BY <1>1 DEF PlanLen
<1> QED BY <1>1, <1>2, <1>3, <1>4 DEF WireInv

\* Steps of the verifier keep the inductive invariant.
LEMMA VerifyKept ==
  ASSUME IInv, Verify
  PROVE  IInv'
<1>1. VerifierNext /\ UNCHANGED <<pvars, wire, tamper>> /\ UNCHANGED <<sched, plan, wire>>
  BY DEF Verify, pvars
<1>2. VerifierAt' /\ CheckedInv' BY <1>1, VerifierKept
<1>3. ProverAt' BY <1>1, ProverKept DEF IInv
<1>4. vpc # "wait" BY <1>1, VerifierRuns
<1>5. vpc' # "wait"
  <2>1. CASE VerifyShape \/ OpenNonceStream \/ VerifyRoot \/ VerifyClaims
            \/ VerifyTerminalClaims
    BY <2>1 DEF VerifyShape, OpenNonceStream, VerifyRoot, VerifyClaims,
      VerifyTerminalClaims, Reject, VStep
  <2>2. CASE VerifyEor \/ VerifyPayload \/ VerifyTerminalEHat \/ DrawFoldChallenges
            \/ VerifyNextWitness
    BY <2>2 DEF VerifyEor, VerifyPayload, VerifyTerminalEHat, DrawFoldChallenges,
      VerifyNextWitness, VStep, AfterClaims
  <2>3. CASE VerifyRingSwitch \/ VerifyStage1 \/ VerifyNormStage1 \/ VerifyStage2
            \/ VerifyStage3
    BY <2>3 DEF VerifyRingSwitch, VerifyStage1, VerifyNormStage1, VerifyStage2,
      VerifyStage3, VStep, Reject
  <2>4. CASE AdvanceVerifier \/ VerifyTerminalResponse \/ FinishVerification
    BY <2>4 DEF AdvanceVerifier, VerifyTerminalResponse, FinishVerification, VStep
  <2> QED BY <1>1, <2>1, <2>2, <2>3, <2>4 DEF VerifierNext
<1>6. WireInv' BY <1>1, <1>4, <1>5, WireKept DEF IInv
<1> QED BY <1>2, <1>3, <1>6 DEF IInv

\* Steps of the prover keep it.
LEMMA ProveKept ==
  ASSUME IInv, Prove
  PROVE  IInv'
<1>1. ProverNext /\ UNCHANGED <<wire, vvars, tamper>> BY DEF Prove
<1>2. ProverAt' BY <1>1, ProverKept DEF IInv
<1>3. vpc = "wait" /\ tamper = "none" BY <1>1, ProverRuns DEF IInv, WireInv
<1>4. UNCHANGED <<vpc, vlevel, vtr, vcur, tamper>> BY <1>1 DEF vvars
<1>5. vlevel = 1 /\ vtr = <<>> /\ vcur = 0
  <2>1. ~Located(sched, vlevel, vpc) BY <1>3 DEF Located
  <2> QED BY <1>3, <2>1 DEF IInv, VerifierAt, ReplayAt
<1>6. WireInv' BY <1>3, <1>4 DEF WireInv, Tampers
<1>7. VerifierAt' BY <1>3, <1>4, <1>5 DEF VerifierAt
<1>8. CheckedInv' BY <1>3, <1>4 DEF CheckedInv, Started
<1> QED BY <1>2, <1>6, <1>7, <1>8 DEF IInv

\* So does doing nothing.
LEMMA StutterKept ==
  ASSUME IInv, UNCHANGED vars
  PROVE  IInv'
<1>1. UNCHANGED <<pvars, wire, vvars, tamper>> BY DEF vars
<1>2. ProverAt' BY <1>1, ProverKept DEF IInv
<1>3. UNCHANGED <<sched, plan, given, nonces, folds, binding, vpc, vlevel, vtr, vcur,
          vwitness, vprefix, tamper>>
  BY <1>1 DEF pvars, wire, vvars
<1>4. WireInv'
  <2>1. CASE vpc = "wait" BY <1>3, <2>1 DEF IInv, WireInv
  <2>2. CASE vpc # "wait" BY <1>1, <1>3, <2>2, WireKept DEF IInv
  <2> QED BY <2>1, <2>2
<1>5. VerifierAt' BY <1>3 DEF IInv, VerifierAt, ReplayAt, Val, Has
<1>6. CheckedInv'
  BY <1>3 DEF IInv, CheckedInv, Started, ClaimsPast, RangePast, HasEor, HasStage3, HasNorm,
    Has,
              HonestBinding, ScheduledBinding, PlanLen
<1> QED BY <1>2, <1>4, <1>5, <1>6 DEF IInv

\* The plan has a length, and the schedule a terminal.
LEMMA PlanLenNat ==
  ASSUME ProverAt
  PROVE  PlanLen \in Nat /\ LevelCount(sched) \in Nat \ {0}
         /\ Terminal(sched) = LevelCount(sched) + 1
<1>1. sched \in Schedules /\ plan = Plan(sched) BY DEF ProverAt
<1>2. Covers(Full(sched), Plan(sched)) BY <1>1, FullCovers
<1>3. plan \in Seq(Places) BY <1>1, <1>2 DEF Covers
<1> QED BY <1>1, <1>3, LevelFacts DEF PlanLen

\* The nonce streams of the channel.
LEMMA StreamType ==
  ASSUME NEW n \in Int, NEW bad
  PROVE  Stream(n, bad) \in Seq(Verdicts) /\ DOMAIN Stream(n, bad) = 1 .. n
         /\ (n \in Nat => Len(Stream(n, bad)) = n)
         /\ \A k \in 1 .. n : Stream(n, bad)[k] = IF k \in bad THEN "bad" ELSE "good"
<1>1. Stream(n, bad) \in [1 .. n -> Verdicts] BY DEF Stream, Verdicts
<1>2. DOMAIN Stream(n, bad) = 1 .. n
          /\ \A k \in 1 .. n : Stream(n, bad)[k] = IF k \in bad THEN "bad" ELSE "good"
  BY DEF Stream
<1> DEFINE s == Stream(n, bad)
<1>3. s \in [1 .. n -> Verdicts] BY <1>1
<1> HIDE DEF s
<1>4. CASE n \in Nat
  BY <1>2, <1>3, <1>4 DEF s
<1>5. CASE n \notin Nat
  <2>1. 1 .. n = 1 .. 0 BY <1>5
  <2> QED BY <1>2, <1>3, <1>5, <2>1 DEF s
<1> QED BY <1>4, <1>5

\* A delivery within what the channel may do keeps the invariant.
LEMMA DeliverKept ==
  ASSUME IInv, NEW kind \in Tampers, NEW values, NEW stream \in Seq(Verdicts), NEW n,
         NEW kinds \in [1 .. n -> Bindings],
         Deliver(kind, values, stream, n, kinds),
         values \in [DOMAIN values -> Verdicts],
         kind # "part" => DOMAIN values = Honest,
         kind = "part" => \E part \in Parts, l \in 1 .. Terminal(sched) :
            (l = Terminal(sched) => part = "eor") /\ DOMAIN values = Toggled(part, l),
         kind # "stream" => Len(stream) = PlanLen,
         kind = "none" =>
            (\A f \in Honest : values[f] = "good")
                /\ (\A k \in DOMAIN stream : stream[k] = "good"),
         kind = "message" => \E f \in Honest : values[f] = "bad",
         kind = "nonce" => \E k \in 1 .. PlanLen : stream[k] = "bad"
  PROVE  IInv'
<1>1. /\ ppc = "proved" /\ vpc = "wait" /\ tamper' = kind /\ vpc' = "shape"
      /\ given' = values /\ nonces' = stream /\ folds' = n /\ binding' = kinds
      /\ UNCHANGED <<pvars, vlevel, vtr, vcur>>
  BY DEF Deliver
<1>2. ProverAt' BY <1>1, ProverKept DEF IInv
<1>3. UNCHANGED <<sched, plan, ppc, proof>> BY <1>1 DEF pvars
<1>4. Honest' = Honest BY <1>3 DEF Honest, Statement
<1>5. \A part, l : Toggled(part, l)' = Toggled(part, l) BY <1>3, <1>4 DEF Toggled
<1>6. PlanLen' = PlanLen BY <1>3 DEF PlanLen
<1>7. WireInv' BY <1>1, <1>3, <1>4, <1>5, <1>6 DEF WireInv
<1>8. VerifierAt'
  <2>1. ~Located(sched, vlevel, vpc) BY <1>1 DEF Located
  <2> QED BY <1>1, <2>1 DEF IInv, VerifierAt, ReplayAt
<1>9. CheckedInv' BY <1>1 DEF CheckedInv, Started
<1> QED BY <1>2, <1>7, <1>8, <1>9 DEF IInv

\* The messages of the channel.
LEMMA ValuesType ==
  ASSUME NEW bad
  PROVE  /\ Values(bad) \in [DOMAIN Values(bad) -> Verdicts] /\ DOMAIN Values(bad) = Honest
         /\ \A f \in Honest : Values(bad)[f] = IF f \in bad THEN "bad" ELSE "good"
BY DEF Values, Verdicts

\* The bindings of the channel.
LEMMA BindingType ==
  ASSUME NEW n
  PROVE  HonestBinding \in [1 .. LevelCount(sched) -> Bindings]
         /\ ResizedBinding(n) \in [1 .. n -> Bindings]
BY DEF HonestBinding, ResizedBinding, ScheduledBinding, Bindings

\* Everything the channel does is within what it may do.
LEMMA ChannelKept ==
  ASSUME IInv, Ship \/ AlterMessage \/ AlterNonce \/ TogglePart \/ SwapBinding
         \/ ResizeStream \/ ResizeFolds
  PROVE  IInv'
<1> DEFINE L == LevelCount(sched)
<1>1. PlanLen \in Nat /\ L \in Nat BY PlanLenNat DEF IInv
<1>2. HonestBinding \in [1 .. L -> Bindings] BY BindingType
<1>3. \A n \in Int : \A bad :
        /\ Stream(n, bad) \in Seq(Verdicts) /\ DOMAIN Stream(n, bad) = 1 .. n
        /\ n \in Nat => Len(Stream(n, bad)) = n
        /\ \A k \in 1 .. n : Stream(n, bad)[k] = IF k \in bad THEN "bad" ELSE "good"
  BY StreamType
<1>4. \A bad : /\ Values(bad) \in [DOMAIN Values(bad) -> Verdicts]
                  /\ DOMAIN Values(bad) = Honest
               /\ \A f \in Honest : Values(bad)[f] = IF f \in bad THEN "bad" ELSE "good"
  BY ValuesType
<1> DEFINE N == PlanLen
           st == Stream(N, {})
           vs == Values({})
<1>5. st \in Seq(Verdicts) /\ Len(st) = N /\ \A k \in DOMAIN st : st[k] = "good" BY <1>1, <1>3
<1>6. vs \in [DOMAIN vs -> Verdicts] /\ DOMAIN vs = Honest /\ \A f \in Honest : vs[f] = "good"
  BY <1>4
<1> HIDE DEF N, st, vs, L
<1>7. CASE Ship
  <2>1. Deliver("none", vs, st, L, HonestBinding) BY <1>7 DEF Ship, N, st, vs, L
  <2> QED BY <1>2, <1>5, <1>6, <2>1, DeliverKept DEF Tampers, N
<1>8. CASE AlterMessage
  <2>1. PICK f \in Honest : Deliver("message", Values({f}), st, L, HonestBinding)
    BY <1>8 DEF AlterMessage, N, st, L
  <2> DEFINE w == Values({f})
  <2>2. w \in [DOMAIN w -> Verdicts] /\ DOMAIN w = Honest /\ w[f] = "bad" BY <1>4
  <2>3. Deliver("message", w, st, L, HonestBinding) BY <2>1
  <2> HIDE DEF w
  <2> QED BY <1>2, <1>5, <2>2, <2>3, DeliverKept DEF Tampers, N
<1>9. CASE AlterNonce
  <2>1. PICK k \in 1 .. N : Deliver("nonce", vs, Stream(N, {k}), L, HonestBinding)
    BY <1>9 DEF AlterNonce, N, vs, L
  <2> DEFINE w == Stream(N, {k})
  <2>2. w \in Seq(Verdicts) /\ Len(w) = N /\ w[k] = "bad" BY <1>1, <1>3 DEF N
  <2>3. Deliver("nonce", vs, w, L, HonestBinding) BY <2>1
  <2> HIDE DEF w
  <2> QED BY <1>2, <1>6, <2>2, <2>3, DeliverKept DEF Tampers, N
<1>10. CASE TogglePart
  <2>1. PICK part \in Parts, l \in 1 .. Terminal(sched) :
          /\ l = Terminal(sched) => part = "eor"
          /\ Deliver("part", [f \in Toggled(part, l) |-> "good"], st, L, HonestBinding)
    BY <1>10 DEF TogglePart, N, st, L
  <2> DEFINE w == [f \in Toggled(part, l) |-> "good"]
  <2>2. w \in [DOMAIN w -> Verdicts] /\ DOMAIN w = Toggled(part, l) BY DEF Verdicts
  <2>3. Deliver("part", w, st, L, HonestBinding) BY <2>1
  <2> HIDE DEF w
  <2> QED BY <1>2, <1>5, <2>1, <2>2, <2>3, DeliverKept DEF Tampers, N
<1>11. CASE SwapBinding
  <2>1. PICK l \in 1 .. L :
            Deliver("binding", vs, st, L, [HonestBinding EXCEPT ![l] = OtherBinding(@)])
    BY <1>11 DEF SwapBinding, N, st, vs, L
  <2> DEFINE w == [HonestBinding EXCEPT ![l] = OtherBinding(@)]
  <2>2. w \in [1 .. L -> Bindings] BY <1>2 DEF OtherBinding, Bindings
  <2>3. Deliver("binding", vs, st, L, w) BY <2>1
  <2> HIDE DEF w
  <2> QED BY <1>5, <1>6, <2>2, <2>3, DeliverKept DEF Tampers, N
<1>12. CASE ResizeStream
  <2>1. PICK n \in {N - 1, N + 1} : Deliver("stream", vs, Stream(n, {}), L, HonestBinding)
    BY <1>12 DEF ResizeStream, N, vs, L
  <2> DEFINE w == Stream(n, {})
  <2>2. w \in Seq(Verdicts) BY <1>1, <1>3 DEF N
  <2>3. Deliver("stream", vs, w, L, HonestBinding) BY <2>1
  <2> HIDE DEF w
  <2> QED BY <1>2, <1>6, <2>2, <2>3, DeliverKept DEF Tampers, N
<1>13. CASE ResizeFolds
  <2>1. PICK n \in {L - 1, L + 1} : Deliver("folds", vs, st, n, ResizedBinding(n))
    BY <1>13 DEF ResizeFolds, N, vs, st, L
  <2> DEFINE w == ResizedBinding(n)
  <2>2. w \in [1 .. n -> Bindings] BY BindingType
  <2>3. Deliver("folds", vs, st, n, w) BY <2>1
  <2> HIDE DEF w
  <2> QED BY <1>5, <1>6, <2>2, <2>3, DeliverKept DEF Tampers, N
<1> QED BY <1>7, <1>8, <1>9, <1>10, <1>11, <1>12, <1>13

\* The inductive invariant: for every schedule, every step of the prover and of
\* the verifier is at a place of the one honest run, the prover having written
\* exactly its transcript and shipped exactly its messages, the verifier having
\* replayed it up to what it was given, and having let past only scheduled
\* parts.
THEOREM FoldInduction == Spec => []IInv
<1>1. ASSUME Init PROVE IInv
  <2>1. ProverAt BY <1>1, ProverStarts DEF Init
  <2>2. vpc = "wait" /\ tamper = "none" /\ vlevel = 1 /\ vtr = <<>> /\ vcur = 0
    BY <1>1 DEF Init, VInit
  <2>3. WireInv BY <2>2 DEF WireInv, Tampers
  <2>4. VerifierAt BY <2>2 DEF VerifierAt
  <2>5. CheckedInv BY <2>2 DEF CheckedInv, Started
  <2> QED BY <2>1, <2>3, <2>4, <2>5 DEF IInv
<1>2. ASSUME IInv, [Next]_vars PROVE IInv'
  <2>1. CASE Next BY <1>2, <2>1, ProveKept, VerifyKept, ChannelKept DEF Next
  <2>2. CASE UNCHANGED vars BY <1>2, <2>2, StutterKept
  <2> QED BY <1>2, <2>1, <2>2
<1> QED BY <1>1, <1>2, PTL DEF Spec

\* Neither side ever leaves the derived grinding plan, whatever the schedule
\* and whatever the channel did to the proof: GrindingPlanCursor never reports
\* a mismatch, and both sides end at the end of the plan.
THEOREM PlanIsFollowed == Spec => []NeverOffPlan
<1>1. ASSUME IInv PROVE NeverOffPlan
  <2>1. ppc # "off_plan" BY <1>1 DEF IInv, ProverAt, Located
  <2>2. vpc # "off_plan" BY <1>1 DEF IInv, VerifierAt, ReplayAt, Located
  <2> QED BY <2>1, <2>2 DEF NeverOffPlan
<1> QED BY <1>1, FoldInduction, PTL

-----------------------------------------------------------------------------
\* What it implies.

\* For every schedule the state a verified level hands to its successor
\* (SuffixVerifierState) is the one the successor's checks expect.
THEOREM HandoverIsExpected == Spec => []HandoverFits
<1>1. ASSUME IInv PROVE HandoverFits
  <2> SUFFICES ASSUME vpc = "claims"
               PROVE  /\ vprefix = (vlevel < Terminal(sched) /\ sched.levels[vlevel].prefix)
                      /\ vwitness = ScheduledBinding(vlevel - 1)
    BY DEF HandoverFits
  <2>1. Started BY DEF Started
  <2>2. vlevel \in Nat /\ LevelCount(sched) \in Nat /\ Terminal(sched) = LevelCount(sched) + 1
    BY <1>1, <2>1, VerifierReady
  <2>3. vprefix = Defers(sched, vlevel - 1) /\ vwitness = ScheduledBinding(vlevel - 1)
    BY <1>1, <2>1 DEF IInv, CheckedInv
  <2>4. (vlevel - 1) + 1 = vlevel
            /\ (vlevel - 1 < LevelCount(sched) <=> vlevel < Terminal(sched))
    BY <2>2
  <2> QED BY <2>3, <2>4 DEF Defers
<1> QED BY <1>1, FoldInduction, PTL

\* What a scheduled step ships is in the finished proof.
LEMMA ShippedInFull ==
  ASSUME ProverAt, ppc = "proved", NEW k, NEW x \in ShipSteps, Located(sched, k, x),
         NEW f \in FieldsAt(sched, k, x)
  PROVE  f \in Honest
<1>1. sched \in Schedules /\ plevel = Terminal(sched)
          /\ proof = Sent(sched, Terminal(sched), "proved")
  BY DEF ProverAt, Located
<1>2. k \in 1 .. Terminal(sched) BY <1>1, ReachedBegins
<1>3. Terminal(sched) \in Nat BY <1>1, LevelFacts
<1>4. Rank(x) < Rank("proved") BY RankFacts DEF ShipSteps
<1>5. Due(sched, Terminal(sched), "proved", k, x) BY <1>2, <1>3, <1>4 DEF Due
<1>6. f \in Sent(sched, Terminal(sched), "proved") BY <1>2, <1>5, SentMembers
<1> QED BY <1>1, <1>6 DEF Honest

\* What a scheduled step absorbs has been absorbed on acceptance.
LEMMA HeardInFull ==
  ASSUME NEW s \in Schedules, NEW k, NEW x \in HearSteps, Located(s, k, x),
         NEW f \in SourcesAt(s, k, x)
  PROVE  f \in Heard(s, Terminal(s), "accepted")
<1>1. k \in 1 .. Terminal(s) /\ Terminal(s) \in Nat BY ReachedBegins, LevelFacts
<1>2. Rank(x) < Rank("accepted") BY RankFacts DEF HearSteps
<1>3. Due(s, Terminal(s), "accepted", k, x) BY <1>1, <1>2 DEF Due
<1> QED BY <1>1, <1>3, HeardMembers

\* The verifier only ever absorbs items of the statement and messages of the
\* proof: it never waits for something the prover does not ship.
LEMMA HeardIsHonest ==
  ASSUME ProverAt, ppc = "proved", NEW l, NEW pc, NEW f \in Heard(sched, l, pc)
  PROVE  f \in Honest
<1> DEFINE s == sched
<1>1. s \in Schedules BY DEF ProverAt
<1>2. LevelCount(s) \in Nat \ {0} /\ Terminal(s) = LevelCount(s) + 1 BY <1>1, LevelFacts
<1>3. CASE f \in Sites(At(0, "descriptor")) BY <1>3 DEF Honest, Statement
<1>4. CASE \E k \in 1 .. l, x \in HearSteps : Due(s, l, pc, k, x) /\ f \in SourcesAt(s, k, x)
  <2>1. PICK k \in 1 .. l, x \in HearSteps : Due(s, l, pc, k, x) /\ f \in SourcesAt(s, k, x)
    BY <1>4
  <2>2. Located(s, k, x) BY <2>1 DEF Due
  <2>3. k \in 1 .. Terminal(s) BY <1>1, <2>2, ReachedBegins
  <2>4. CASE x = "root"
    <3>1. f \in RootSources(s) BY <2>1, <2>4 DEF SourcesAt
    <3> QED BY <3>1 DEF RootSources, Honest, Statement
  <2>5. CASE x = "claims"
    <3>1. f \in ClaimSources(s, k) BY <2>1, <2>5 DEF SourcesAt
    <3>2. k - 1 \in 1 .. LevelCount(s) BY <1>2, <2>2, <2>5 DEF Located
    <3>3. CASE f = NextWitness(s, k - 1)
      <4>1. Located(s, k - 1, "bind") /\ f \in FieldsAt(s, k - 1, "bind")
        BY <3>2, <3>3 DEF Located, FieldsAt
      <4> QED BY <4>1, ShippedInFull DEF ShipSteps
    <3>4. CASE f \in Sites(At(k - 1, "next_w_eval"))
      <4>1. Located(s, k - 1, "stage2") /\ f \in FieldsAt(s, k - 1, "stage2")
        BY <3>2, <3>4 DEF Located, FieldsAt, Stage2Fields
      <4> QED BY <4>1, ShippedInFull DEF ShipSteps
    <3>5. CASE Defers(s, k - 1) /\ f \in Sites(At(k - 1, "setup_prefix_eval"))
      <4>1. Located(s, k - 1, "stage3") /\ f \in FieldsAt(s, k - 1, "stage3")
        BY <3>2, <3>5 DEF Located, FieldsAt, SetupFields
      <4> QED BY <4>1, ShippedInFull DEF ShipSteps
    <3> QED BY <3>1, <3>3, <3>4, <3>5 DEF ClaimSources
  <2>6. CASE x = "stage1"
    <3>1. f \in Stage1Sources(s, k) BY <2>1, <2>6 DEF SourcesAt
    <3>2. k \in 1 .. LevelCount(s) BY <2>2, <2>6 DEF Located
    <3>3. CASE f \in Stage1Fields(s, k)
      <4>1. f \in FieldsAt(s, k, "stage1") BY <3>3 DEF FieldsAt
      <4> QED BY <2>2, <2>6, <4>1, ShippedInFull DEF ShipSteps
    <3>4. CASE s.levels[k].route # "linf" /\ f \in NormFields(s, k)
      <4>1. Located(s, k, "norm") /\ f \in FieldsAt(s, k, "norm")
        BY <3>2, <3>4 DEF Located, FieldsAt
      <4> QED BY <4>1, ShippedInFull DEF ShipSteps
    <3> QED BY <3>1, <3>3, <3>4 DEF Stage1Sources
  <2>7. CASE x = "stage3"
    <3>1. f \in Stage3Sources(s, k) BY <2>1, <2>7 DEF SourcesAt
    <3>2. k \in 1 .. LevelCount(s) /\ Defers(s, k) BY <2>2, <2>7 DEF Located
    <3>3. CASE f \in Sites(At(k, "prefix_slot"))
      <4>1. f = Site(k, "prefix_slot", 0, 0) BY <3>3, AtSites
      <4> QED BY <3>2, <4>1 DEF Honest, Statement
    <3>4. CASE f \notin Sites(At(k, "prefix_slot"))
      <4>1. f \in FieldsAt(s, k, "stage3")
        BY <3>1, <3>4 DEF Stage3Sources, FieldsAt, SetupFields
      <4> QED BY <2>2, <2>7, <4>1, ShippedInFull DEF ShipSteps
    <3> QED BY <3>3, <3>4
  <2>8. CASE x \in {"eor", "payload", "ehat", "bind", "stage2", "response"}
    <3>1. f \in FieldsAt(s, k, x) /\ x \in ShipSteps BY <2>1, <2>8 DEF SourcesAt, ShipSteps
    <3> QED BY <2>2, <3>1, ShippedInFull
  <2> QED BY <2>1, <2>4, <2>5, <2>6, <2>7, <2>8 DEF HearSteps
<1> QED BY <1>3, <1>4, HeardMembers

\* On acceptance the verifier has absorbed every item of the statement and
\* every message of the proof: nothing the prover ships stays outside the
\* transcript.
LEMMA HonestIsHeard ==
  ASSUME ProverAt, ppc = "proved", NEW f \in Honest
  PROVE  f \in Heard(sched, Terminal(sched), "accepted")
<1> DEFINE s == sched
<1>1. s \in Schedules /\ plevel = Terminal(s) /\ proof = Sent(s, Terminal(s), "proved")
  BY DEF ProverAt, Located
<1>2. LevelCount(s) \in Nat \ {0} /\ Terminal(s) = LevelCount(s) + 1 BY <1>1, LevelFacts
<1>3. CASE f \in Sites(At(0, "descriptor")) BY <1>3, HeardMembers
<1>4. CASE f \in RootSources(s)
  <2>1. Located(s, 1, "root") /\ f \in SourcesAt(s, 1, "root") BY <1>4 DEF Located, SourcesAt
  <2> QED BY <1>1, <2>1, HeardInFull DEF HearSteps
<1>5. CASE \E l \in 1 .. LevelCount(s) : Defers(s, l) /\ f = Site(l, "prefix_slot", 0, 0)
  <2>1. PICK l \in 1 .. LevelCount(s) : Defers(s, l) /\ f = Site(l, "prefix_slot", 0, 0)
    BY <1>5
  <2>2. Located(s, l, "stage3") BY <2>1 DEF Located
  <2>3. f \in Sites(At(l, "prefix_slot")) BY <2>1, AtSites
  <2>4. f \in SourcesAt(s, l, "stage3") BY <2>3 DEF SourcesAt, Stage3Sources
  <2> QED BY <1>1, <2>2, <2>4, HeardInFull DEF HearSteps
<1>6. CASE f \in proof
  <2>1. PICK k \in 1 .. Terminal(s), x \in ShipSteps :
          Due(s, Terminal(s), "proved", k, x) /\ f \in FieldsAt(s, k, x)
    BY <1>1, <1>6, SentMembers
  <2>2. Located(s, k, x) BY <2>1 DEF Due
  <2>3. CASE x \in {"eor", "payload", "ehat", "bind", "stage2", "response"}
    <3>1. f \in SourcesAt(s, k, x) /\ x \in HearSteps BY <2>1, <2>3 DEF SourcesAt, HearSteps
    <3> QED BY <1>1, <2>2, <3>1, HeardInFull
  <2>4. CASE x = "stage1"
    <3>1. f \in SourcesAt(s, k, "stage1") BY <2>1, <2>4 DEF SourcesAt, Stage1Sources, FieldsAt
    <3> QED BY <1>1, <2>2, <2>4, <3>1, HeardInFull DEF HearSteps
  <2>5. CASE x = "norm"
    <3>1. k \in 1 .. LevelCount(s) /\ s.levels[k].route # "linf" BY <2>2, <2>5 DEF Located
    <3>2. Located(s, k, "stage1") BY <3>1 DEF Located
    <3>3. f \in SourcesAt(s, k, "stage1")
      BY <2>1, <2>5, <3>1 DEF SourcesAt, Stage1Sources, FieldsAt
    <3> QED BY <1>1, <3>2, <3>3, HeardInFull DEF HearSteps
  <2>6. CASE x = "stage3"
    <3>1. k \in 1 .. LevelCount(s) /\ Defers(s, k) BY <2>2, <2>6 DEF Located
    <3>2. CASE f \in Sites(At(k, "setup_prefix_eval"))
      <4> DEFINE n == k + 1
      <4>1. n \in 2 .. Terminal(s) /\ n - 1 = k BY <1>2, <3>1
      <4>2. Located(s, n, "claims") BY <4>1 DEF Located
      <4>3. f \in SourcesAt(s, n, "claims") BY <3>1, <3>2, <4>1 DEF SourcesAt, ClaimSources
      <4> QED BY <1>1, <4>2, <4>3, HeardInFull DEF HearSteps
    <3>3. CASE f \notin Sites(At(k, "setup_prefix_eval"))
      <4>1. f \in SetupFields(s, k) BY <2>1, <2>6 DEF FieldsAt
      <4>2. f \in SourcesAt(s, k, "stage3")
        BY <3>3, <4>1 DEF SourcesAt, Stage3Sources, SetupFields
      <4> QED BY <1>1, <2>2, <2>6, <4>2, HeardInFull DEF HearSteps
    <3> QED BY <3>2, <3>3
  <2> QED BY <2>1, <2>3, <2>4, <2>5, <2>6 DEF ShipSteps
<1> QED BY <1>3, <1>4, <1>5, <1>6 DEF Honest, Statement, RootSources

\* The finished transcripts are the whole run's.
LEMMA FullReached ==
  ASSUME NEW s \in Schedules
  PROVE  /\ Reached(s, Terminal(s), "proved") = Full(s)
            /\ Reached(s, Terminal(s), "accepted") = Full(s)
         /\ Full(s) \in Seq(EventSet) /\ DrawCount(Full(s)) = Len(Plan(s))
             /\ Len(Plan(s)) \in Nat
<1>1. Section(s, Terminal(s), "proved") = Ended(s)
          /\ Section(s, Terminal(s), "accepted") = Ended(s)
  BY DEF Section
<1>2. Covers(Full(s), Plan(s)) BY FullCovers
<1> QED BY <1>1, <1>2 DEF Reached, Full, Covers

\* The verifier's cursor stays within the plan.
LEMMA ReplayCount ==
  ASSUME ProverAt, NEW l, NEW pc, ReplayAt(l, pc)
  PROVE  vcur \in 0 .. PlanLen
<1>1. sched \in Schedules /\ plan = Plan(sched) BY DEF ProverAt
<1>2. Begins(Reached(sched, l, pc), Full(sched)) BY <1>1, ReachedBegins DEF ReplayAt
<1>3. PICK r \in Seq(EventSet) : Full(sched) = Reached(sched, l, pc) \o r BY <1>2 DEF Begins
<1>4. Reached(sched, l, pc) \in Seq(EventSet) BY <1>2 DEF Begins
<1>5. DrawCount(Full(sched)) = DrawCount(Reached(sched, l, pc)) + DrawCount(r)
  BY <1>3, <1>4, CountConcat
<1>6. vcur = DrawCount(Reached(sched, l, pc)) BY SameDraws DEF ReplayAt
<1>7. DrawCount(r) \in Nat /\ DrawCount(Reached(sched, l, pc)) \in Nat BY <1>4, DrawsFinite
<1> QED BY <1>1, <1>5, <1>6, <1>7, FullReached DEF PlanLen

\* A front is a prefix.
LEMMA PrefixOf ==
  ASSUME NEW a, NEW b, Begins(a, b)
  PROVE  IsPrefix(a, b) /\ IsPrefix(<<>>, b)
<1>1. PICK r \in Seq(EventSet) : b = a \o r BY DEF Begins
<1>2. a \in Seq(EventSet) BY DEF Begins
<1>3. b \in Seq(EventSet) /\ Len(b) = Len(a) + Len(r) /\ Len(a) \in Nat /\ Len(r) \in Nat
      /\ \A i \in 1 .. Len(a) : b[i] = a[i]
  BY <1>1, <1>2, ConcatFacts
<1>4. SubSeq(a, 1, Len(a)) = SubSeq(b, 1, Len(a)) BY <1>2, <1>3
<1>5. SubSeq(<<>>, 1, 0) = SubSeq(b, 1, 0) BY <1>3
<1> QED BY <1>3, <1>4, <1>5 DEF IsPrefix

\* On an unchanged proof of any schedule the verifier's transcript is always a
\* prefix of the prover's, and equals it, with the same cursor, on acceptance:
\* both derive the same challenges.
THEOREM SidesStayInLockstep == Spec => []Lockstep
<1>1. ASSUME IInv PROVE Lockstep
  <2> SUFFICES ASSUME tamper = "none"
               PROVE  /\ IsPrefix(vtr, ptr)
                      /\ vpc = "accepted" => vtr = ptr /\ vcur = pcur
    BY DEF Lockstep
  <2> USE <1>1
  <2>1. sched \in Schedules /\ Located(sched, plevel, ppc)
            /\ ptr = Reached(sched, plevel, ppc) /\ ProverAt
    BY DEF IInv, ProverAt
  <2>2. ASSUME vtr = <<>> PROVE IsPrefix(vtr, ptr)
    <3>1. Begins(ptr, Full(sched)) BY <2>1, ReachedBegins
    <3>2. Begins(ptr, ptr) BY <3>1, EmptyBegins DEF Begins
    <3> QED BY <2>2, <3>2, PrefixOf
  <2>3. ASSUME NEW l, NEW pc, ReplayAt(l, pc), vpc # "wait"
        PROVE  /\ IsPrefix(vtr, ptr) /\ ptr = Full(sched) /\ vtr = Reached(sched, l, pc)
    <3>1. ppc = "proved" /\ DOMAIN given = Honest /\ Len(nonces) = PlanLen
              /\ nonces \in Seq(Verdicts)
          /\ (\A f \in Honest : given[f] = "good")
              /\ (\A k \in DOMAIN nonces : nonces[k] = "good")
      BY <2>3 DEF IInv, WireInv
    <3>2. ~\E f \in Heard(sched, l, pc) : Val(f) = "bad"
      <4> SUFFICES ASSUME NEW f \in Heard(sched, l, pc) PROVE Val(f) = "good" OBVIOUS
      <4>1. f \in Honest BY <2>1, <3>1, HeardIsHonest
      <4> QED BY <3>1, <4>1 DEF Val, Has
    <3>3. ~\E k \in 1 .. vcur : nonces[k] = "bad"
      <4> SUFFICES ASSUME NEW k \in 1 .. vcur PROVE nonces[k] = "good" OBVIOUS
      <4>1. vcur \in 0 .. PlanLen /\ PlanLen \in Nat BY <2>1, <2>3, ReplayCount, PlanLenNat
      <4>2. k \in DOMAIN nonces BY <3>1, <4>1
      <4> QED BY <3>1, <4>2
    <3>4. vtr = Reached(sched, l, pc) /\ Located(sched, l, pc) BY <2>3, <3>2, <3>3 DEF ReplayAt
    <3>5. Begins(vtr, Full(sched)) BY <2>1, <3>4, ReachedBegins
    <3>6. ptr = Full(sched)
      <4>1. plevel = Terminal(sched) BY <2>1, <3>1 DEF Located
      <4> QED BY <2>1, <3>1, <4>1, FullReached
    <3> QED BY <3>4, <3>5, <3>6, PrefixOf
  <2>4. IsPrefix(vtr, ptr)
    <3>1. CASE vpc \in {"wait", "shape", "stream"}
      <4>1. ~Located(sched, vlevel, vpc) BY <3>1 DEF Located
      <4>2. vtr = <<>> BY <3>1, <4>1 DEF IInv, VerifierAt, ReplayAt
      <4> QED BY <2>2, <4>2
    <3>2. CASE vpc = "rejected"
      <4>1. ~Located(sched, vlevel, vpc) BY <3>2 DEF Located
      <4>2. \/ vtr = <<>>
            \/ \E l \in 1 .. Terminal(sched), pc \in HearSteps \cup {"fold", "switch"} :
                ReplayAt(l, pc)
        BY <3>2, <4>1 DEF IInv, VerifierAt, ReplayAt
      <4> QED BY <2>2, <2>3, <3>2, <4>2
    <3>3. CASE Started
      <4>1. ReplayAt(vlevel, vpc) BY <3>3 DEF IInv, VerifierAt, Started
      <4> QED BY <2>3, <3>3, <4>1 DEF Started
    <3> QED BY <3>1, <3>2, <3>3 DEF Started
  <2>5. ASSUME vpc = "accepted" PROVE vtr = ptr /\ vcur = pcur
    <3>1. ReplayAt(vlevel, vpc) BY <2>5 DEF IInv, VerifierAt
    <3>2. vlevel = Terminal(sched) BY <2>5, <3>1 DEF ReplayAt, Located
    <3>3. vtr = Reached(sched, Terminal(sched), "accepted") /\ ptr = Full(sched)
      BY <2>3, <2>5, <3>1, <3>2
    <3>4. vtr = ptr BY <2>1, <3>3, FullReached
    <3> QED BY <3>1, <3>4 DEF ReplayAt, IInv, ProverAt
  <2> QED BY <2>4, <2>5
<1> QED BY <1>1, FoldInduction, PTL

\* A run ends with the fold challenges of the terminal and the clear response.
LEMMA FullEnds ==
  ASSUME NEW s \in Schedules
  PROVE  /\ Len(Full(s)) \in Nat /\ Len(Full(s)) > 1
         /\ IsDraw(Full(s)[Len(Full(s)) - 1]) /\ Full(s)[Len(Full(s))][2][2] = "w_remainder"
<1> DEFINE l == Terminal(s)
           a == Before(s, l)
           b == Bound(s, l)
           c == Asks(At(l, "FoldResponse"))
           d == Asks(FoldGroups(s, l))
           e == Says(At(l, "w_remainder"))
<1>1. l \in 1 .. Terminal(s) /\ l \in Nat BY LevelFacts
<1>2. a \in Seq(EventSet) BY FullCovers
<1>3. Bound(s, l) \in Seq(EventSet) /\ Folded(s, l) \in Seq(EventSet)
  BY <1>1, FoldedBegins, StageTypes DEF Begins
<1>4. FoldGroups(s, l) \in Seq(Places) /\ Len(FoldGroups(s, l)) > 0
  <2>1. OpenedGroups(s, l) \in Seq(Groups) /\ Len(OpenedGroups(s, l)) > 0 BY <1>1, GroupFacts
  <2>2. DOMAIN FoldGroups(s, l) = DOMAIN OpenedGroups(s, l) BY DEF FoldGroups
  <2>3. FoldGroups(s, l) \in Seq(Places) BY <1>1, FoldGroupsType
  <2> QED BY <2>1, <2>2, <2>3
<1>5. At(l, "FoldResponse") \in Seq(Places) /\ At(l, "w_remainder") \in Seq(Places)
      /\ Len(At(l, "w_remainder")) = 1 /\ At(l, "w_remainder")[1][2] = "w_remainder"
  BY <1>1, AtType, NameFacts DEF At, Site
<1>6. /\ c \in Seq(EventSet) /\ d \in Seq(EventSet) /\ e \in Seq(EventSet)
      /\ Len(d) \in Nat /\ Len(d) > 0 /\ \A i \in 1 .. Len(d) : IsDraw(d[i])
      /\ Len(e) = 1 /\ e[1][2][2] = "w_remainder"
  <2> DEFINE p == FoldGroups(s, l)
             q == At(l, "w_remainder")
  <2>1. c \in Seq(EventSet) BY <1>5, SaysType
  <2>2. p \in Seq(Places) /\ Len(p) > 0 /\ q \in Seq(Places) /\ Len(q) = 1
            /\ q[1][2] = "w_remainder"
    BY <1>4, <1>5
  <2>3. d = Asks(p) /\ e = Says(q) OBVIOUS
  <2> HIDE DEF p, q, c, d, e
  <2>4. d \in Seq(EventSet) /\ Len(d) = Len(p)
            /\ \A i \in 1 .. Len(p) : d[i] = <<"draw", p[i], "good">>
    BY <2>2, <2>3, SaysType
  <2>5. e \in Seq(EventSet) /\ Len(e) = Len(q)
            /\ \A i \in 1 .. Len(q) : e[i] = <<"absorb", q[i], "good">>
    BY <2>2, <2>3, SaysType
  <2>6. e[1] = <<"absorb", q[1], "good">> BY <2>2, <2>5
  <2> QED BY <2>1, <2>2, <2>4, <2>5, <2>6 DEF IsDraw
<1>7. Full(s) = a \o ((b \o (c \o d)) \o e) BY DEF Full, Ended, Folded, FoldEvents
<1> HIDE DEF a, b, c, d, e
<1>8. b \in Seq(EventSet) BY <1>3 DEF b
<1> DEFINE g == a \o (b \o c)
<1>9. g \in Seq(EventSet) /\ Len(g) \in Nat BY <1>2, <1>6, <1>8
<1>10. Full(s) = (g \o d) \o e
  <2>0. ASSUME NEW p \in Seq(EventSet), NEW q \in Seq(EventSet), NEW r \in Seq(EventSet)
        PROVE  p \o (q \o r) = (p \o q) \o r
    BY ONLY ConcatAssoc
  <2>1. b \o (c \o d) = (b \o c) \o d BY <1>6, <1>8, ConcatAssoc, SMTT(30)
  <2>2. b \o c \in Seq(EventSet) BY <1>6, <1>8, ConcatFacts
  <2>3. (b \o c) \o d \in Seq(EventSet) BY <1>6, <2>2, ConcatFacts
  <2> DEFINE x == b \o c
             y == x \o d
  <2>4. x \in Seq(EventSet) /\ y \in Seq(EventSet) BY <2>2, <2>3
  <2> HIDE DEF y
  <2>5. d \in Seq(EventSet) /\ e \in Seq(EventSet) BY <1>6
  <2>6. a \o (y \o e) = (a \o y) \o e BY ONLY <1>2, <2>4, <2>5, <2>0, Zenon
  <2> USE DEF y
  <2> HIDE DEF x
  <2>7. a \o (x \o d) = (a \o x) \o d BY ONLY <1>2, <2>4, <2>5, <2>0, Zenon
  <2> USE DEF x
  <2> QED BY <1>7, <2>1, <2>6, <2>7
<1> HIDE DEF g
<1>11. /\ g \o d \in Seq(EventSet) /\ Len(g \o d) = Len(g) + Len(d)
       /\ \A i \in 1 .. Len(d) : (g \o d)[Len(g) + i] = d[i]
  BY <1>6, <1>9, ConcatFacts
<1> DEFINE h == g \o d
           n == Len(h)
<1>12. /\ n = Len(g) + Len(d) /\ n \in Nat /\ n > 0 /\ h[n] = d[Len(d)] BY <1>6, <1>9, <1>11
<1>13. /\ Len(h \o e) = n + 1 /\ (h \o e)[n + 1] = e[1] /\ (h \o e)[n] = h[n]
  <2> HIDE DEF h
  <2>1. h \in Seq(EventSet) BY <1>11 DEF h
  <2>2. 1 \in 1 .. Len(e) /\ n \in 1 .. Len(h) BY <1>6, <1>12
  <2>3. e \in Seq(EventSet) BY <1>6
  <2>4. /\ Len(h \o e) = Len(h) + Len(e)
        /\ \A i \in 1 .. Len(h) : (h \o e)[i] = h[i]
        /\ \A i \in 1 .. Len(e) : (h \o e)[Len(h) + i] = e[i]
    BY <2>1, <2>3, ConcatFacts
  <2> QED BY <1>6, <2>2, <2>4
<1>14. IsDraw(h[n]) BY <1>6, <1>12
<1>15. Full(s) = h \o e BY <1>10
<1> HIDE DEF h
<1>16. Len(Full(s)) = n + 1 /\ (n + 1) - 1 = n BY <1>12, <1>13, <1>15
<1> HIDE DEF n
<1> DEFINE F == Full(s)
<1>17. F = h \o e /\ Len(F) = n + 1 BY <1>15, <1>16
<1> HIDE DEF F
<1>18. IsDraw(F[n]) /\ F[n + 1] = e[1] BY <1>13, <1>14, <1>17
<1>19. Len(F) - 1 = n /\ Len(F) \in Nat /\ Len(F) > 1 BY <1>12, <1>17
<1>20. IsDraw(F[Len(F) - 1]) /\ F[Len(F)][2][2] = "w_remainder" BY <1>6, <1>17, <1>18, <1>19
<1> QED BY <1>19, <1>20 DEF F

\* An accepting verifier has replayed the whole run.
LEMMA AcceptedAt ==
  ASSUME IInv, vpc = "accepted"
  PROVE  /\ sched \in Schedules /\ ProverAt /\ ppc = "proved"
         /\ ReplayAt(Terminal(sched), "accepted") /\ vlevel = Terminal(sched)
         /\ Same(vtr, Full(sched)) /\ vcur = PlanLen
<1>1. sched \in Schedules /\ ProverAt /\ plan = Plan(sched) BY DEF IInv, ProverAt
<1>2. ReplayAt(vlevel, vpc) /\ ppc = "proved" BY DEF IInv, VerifierAt, WireInv
<1>3. vlevel = Terminal(sched) BY <1>2 DEF ReplayAt, Located
<1>4. ReplayAt(Terminal(sched), "accepted") BY <1>2, <1>3
<1>5. Same(vtr, Full(sched)) /\ vcur = DrawCount(vtr) BY <1>1, <1>4, FullReached DEF ReplayAt
<1>6. vcur = PlanLen BY <1>1, <1>5, SameDraws, FullReached DEF PlanLen
<1> QED BY <1>1, <1>2, <1>3, <1>4, <1>5, <1>6

\* For every schedule, a changed message, statement item or nonce of an
\* accepted proof is in the verifier's transcript before a later challenge, or
\* is the clear terminal response, which has none after it.
THEOREM ChangesAreBound == Spec => []ChangeIsBound
<1>1. ASSUME IInv PROVE ChangeIsBound
  <2> SUFFICES ASSUME vpc = "accepted", tamper \in {"message", "nonce"}
               PROVE  \E i \in DOMAIN vtr :
                        /\ vtr[i][3] = "bad"
                        /\ \/ \E j \in i .. Len(vtr) : IsDraw(vtr[j])
                           \/ vtr[i][2][2] = "w_remainder"
    BY DEF ChangeIsBound
  <2>1. /\ sched \in Schedules /\ ProverAt /\ ppc = "proved"
        /\ ReplayAt(Terminal(sched), "accepted")
        /\ Same(vtr, Full(sched)) /\ vcur = PlanLen
    BY <1>1, AcceptedAt
  <2>2. Bad(vtr)
    <3>1. CASE tamper = "message"
      <4>1. PICK f \in Honest : given[f] = "bad" BY <1>1, <3>1 DEF IInv, WireInv
      <4>2. DOMAIN given = Honest BY <1>1, <3>1 DEF IInv, WireInv
      <4>3. Val(f) = "bad" BY <4>1, <4>2 DEF Val, Has
      <4>4. f \in Heard(sched, Terminal(sched), "accepted") BY <2>1, HonestIsHeard
      <4> QED BY <2>1, <4>3, <4>4 DEF ReplayAt
    <3>2. CASE tamper = "nonce"
      <4>1. PICK k \in 1 .. PlanLen : nonces[k] = "bad" BY <1>1, <3>2 DEF IInv, WireInv
      <4> QED BY <2>1, <4>1 DEF ReplayAt
    <3> QED BY <3>1, <3>2
  <2> DEFINE F == Full(sched)
             n == Len(F)
  <2>3. n \in Nat /\ n > 1 /\ IsDraw(F[n - 1]) /\ F[n][2][2] = "w_remainder" BY <2>1, FullEnds
  <2> HIDE DEF F
  <2>4. /\ vtr \in Seq(EventSet) /\ Len(vtr) = n
        /\ \A i \in 1 .. n : vtr[i][1] = F[i][1] /\ vtr[i][2] = F[i][2]
    BY <2>1 DEF Same, F
  <2>5. DOMAIN vtr = 1 .. n BY <2>4
  <2>6. PICK i \in DOMAIN vtr : vtr[i][3] = "bad" BY <2>2 DEF Bad
  <2>7. IsDraw(vtr[n - 1]) /\ vtr[n][2][2] = "w_remainder" BY <2>3, <2>4 DEF IsDraw
  <2>8. i = n \/ n - 1 \in i .. Len(vtr) BY <2>3, <2>4, <2>5
  <2> QED BY <2>6, <2>7, <2>8
<1> QED BY <1>1, FoldInduction, PTL

\* The names under which a step ships.
StepNames(x) ==
  CASE x = "eor" -> {"eor_partials", "Eor", "eor_final"}
    [] x = "payload" -> {"payload"}
    [] x = "ehat" -> {"e_hat"}
    [] x = "bind" -> {"next_payload", "t_fields"}
    [] x = "stage1" -> {"Stage1", "child_claims", "range_image"}
    [] x = "norm" -> {"norm_integer", "norm_subclaims", "PhysicalL2", "norm_virtual"}
    [] x = "stage2" -> {"Stage2", "next_w_eval"}
    [] x = "stage3" -> {"setup_claim", "Stage3", "setup_prefix_eval"}
    [] OTHER -> {"w_remainder"}

\* The names and the level of what a step ships.
LEMMA FieldNames ==
  ASSUME NEW s, NEW k, NEW x \in ShipSteps, NEW f \in FieldsAt(s, k, x)
  PROVE  f[2] \in StepNames(x) /\ (x # "bind" => f[1] = k)
<1>1. ASSUME NEW name, f \in Sites(At(k, name)) PROVE f[1] = k /\ f[2] = name
  <2>1. f = Site(k, name, 0, 0) BY <1>1, AtSites
  <2> QED BY <2>1 DEF Site
<1>2. ASSUME NEW name, NEW i, NEW n, f \in Sites(Rounds(k, name, i, n))
      PROVE f[1] = k /\ f[2] = name
  <2>1. PICK r \in 1 .. n : f = Site(k, name, i, r) BY <1>2 DEF Sites, Rounds
  <2> QED BY <2>1 DEF Site
<1>3. CASE x = "eor"
  <2>1. f \in EorFields(s, k) BY <1>3 DEF FieldsAt
  <2>2. ASSUME f \in Sites(FinalClaims(s, k)) PROVE f[1] = k /\ f[2] = "eor_final"
    <3>1. PICK i \in 1 .. PolyCount(s, k) : f = Site(k, "eor_final", i, 0)
      BY <2>2 DEF Sites, FinalClaims
    <3> QED BY <3>1 DEF Site
  <2> QED BY <1>1, <1>2, <1>3, <2>1, <2>2 DEF EorFields, StepNames
<1>4. CASE x \in {"payload", "ehat", "response"}
  BY <1>1, <1>4 DEF FieldsAt, StepNames
<1>5. CASE x = "bind"
  <2>1. f = NextWitness(s, k) BY <1>5 DEF FieldsAt
  <2> QED BY <1>5, <2>1 DEF NextWitness, Site, StepNames
<1>6. CASE x = "stage1"
  <2>1. f \in Stage1Fields(s, k) BY <1>6 DEF FieldsAt
  <2>2. ASSUME f \in Stage1Polys(s, k) PROVE f[1] = k /\ f[2] = "Stage1"
    <3>1. \E j, r : f = Site(k, "Stage1", j, r) BY <2>2 DEF Stage1Polys
    <3> QED BY <3>1 DEF Site
  <2>3. ASSUME f \in ChildClaims(s, k) PROVE f[1] = k /\ f[2] = "child_claims"
    <3>1. \E j : f = Site(k, "child_claims", j, 0) BY <2>3 DEF ChildClaims
    <3> QED BY <3>1 DEF Site
  <2> QED BY <1>1, <1>6, <2>1, <2>2, <2>3 DEF Stage1Fields, StepNames
<1>7. CASE x = "norm"
  <2>1. f \in NormFields(s, k) BY <1>7 DEF FieldsAt
  <2> QED BY <1>1, <1>2, <1>7, <2>1 DEF NormFields, StepNames
<1>8. CASE x = "stage2"
  <2>1. f \in Stage2Fields(s, k) BY <1>8 DEF FieldsAt
  <2> QED BY <1>1, <1>2, <1>8, <2>1 DEF Stage2Fields, StepNames
<1>9. CASE x = "stage3"
  <2>1. f \in SetupFields(s, k) BY <1>9 DEF FieldsAt
  <2> QED BY <1>1, <1>2, <1>9, <2>1 DEF SetupFields, StepNames
<1> QED BY <1>3, <1>4, <1>5, <1>6, <1>7, <1>8, <1>9 DEF ShipSteps

\* The names of the statement.
LEMMA StatementNames ==
  ASSUME NEW f \in Statement
  PROVE  f[2] \in {"descriptor", "shape", "points", "values", "commitment", "prefix_slot"}
<1>1. ASSUME NEW l, NEW name, f \in Sites(At(l, name)) PROVE f[2] = name
  <2>1. f = Site(l, name, 0, 0) BY <1>1, AtSites
  <2> QED BY <2>1 DEF Site
<1>2. ASSUME f \in Sites(ClaimSites(sched, 1)) PROVE f[2] = "values"
  <2>1. \E i : f = Site(1, "values", i, 0) BY <1>2 DEF Sites, ClaimSites
  <2> QED BY <2>1 DEF Site
<1>3. ASSUME f \in Sites(RootCommitments(sched)) PROVE f[2] = "commitment"
  <2>1. \E g : f = Site(1, "commitment", g, 0) BY <1>3 DEF Sites, RootCommitments
  <2> QED BY <2>1 DEF Site
<1>4. ASSUME NEW l, f = Site(l, "prefix_slot", 0, 0) PROVE f[2] = "prefix_slot"
  BY <1>4 DEF Site
<1> QED BY <1>1, <1>2, <1>3, <1>4 DEF Statement

\* The parts of a level the schedule calls for.
Scheduled(s, part, l) ==
  CASE part = "eor" -> Reduces(s, l)
    [] part = "norm" -> s.levels[l].route # "linf"
    [] OTHER -> Defers(s, l)

\* An honest proof has an optional part exactly if the schedule calls for it.
LEMMA MarkerShipped ==
  ASSUME ProverAt, ppc = "proved", NEW part \in Parts, NEW l \in 1 .. Terminal(sched),
         l = Terminal(sched) => part = "eor"
  PROVE  Marker(part, l) \in Honest <=> Scheduled(sched, part, l)
<1> DEFINE m == Marker(part, l)
<1>1. sched \in Schedules /\ plevel = Terminal(sched)
          /\ proof = Sent(sched, Terminal(sched), "proved")
  BY DEF ProverAt, Located
<1>2. LevelCount(sched) \in Nat \ {0} /\ Terminal(sched) = LevelCount(sched) + 1
  BY <1>1, LevelFacts
<1>3. part # "eor" => l \in 1 .. LevelCount(sched) BY <1>2
<1>4. ~Reduces(sched, 1) BY <1>1, ShapeFacts
<1>5. m[1] = l /\ m[2] \in {"eor_partials", "norm_integer", "setup_claim"}
      /\ (m[2] = "eor_partials" <=> part = "eor") /\ (m[2] = "norm_integer" <=> part = "norm")
  BY DEF Marker, Site, Parts
<1>6. ASSUME Scheduled(sched, part, l) PROVE m \in Honest
  <2>1. CASE part = "eor"
    <3>1. Reduces(sched, l) /\ l \in 2 .. Terminal(sched)
      BY <1>2, <1>4, <1>6, <2>1 DEF Scheduled
    <3>2. Located(sched, l, "eor") BY <3>1 DEF Located
    <3>3. m \in Sites(At(l, "eor_partials")) BY <2>1, AtSites DEF Marker
    <3>4. m \in FieldsAt(sched, l, "eor") BY <3>3 DEF FieldsAt, EorFields
    <3> QED BY <3>2, <3>4, ShippedInFull DEF ShipSteps
  <2>2. CASE part = "norm"
    <3>1. Located(sched, l, "norm") BY <1>3, <1>6, <2>2 DEF Located, Scheduled
    <3>2. m \in Sites(At(l, "norm_integer")) BY <2>2, AtSites DEF Marker
    <3>3. m \in FieldsAt(sched, l, "norm") BY <3>2 DEF FieldsAt, NormFields
    <3> QED BY <3>1, <3>3, ShippedInFull DEF ShipSteps
  <2>3. CASE part = "stage3"
    <3>1. Located(sched, l, "stage3") BY <1>3, <1>6, <2>3 DEF Located, Scheduled
    <3>2. m \in Sites(At(l, "setup_claim")) BY <2>3, AtSites DEF Marker
    <3>3. m \in FieldsAt(sched, l, "stage3") BY <3>2 DEF FieldsAt, SetupFields
    <3> QED BY <3>1, <3>3, ShippedInFull DEF ShipSteps
  <2> QED BY <2>1, <2>2, <2>3 DEF Parts
<1>7. ASSUME m \in Honest PROVE Scheduled(sched, part, l)
  <2> HIDE DEF m
  <2>1. m \notin Statement BY <1>5, StatementNames
  <2>2. m \in Sent(sched, Terminal(sched), "proved") BY <1>1, <1>7, <2>1 DEF Honest
  <2>3. PICK k \in 1 .. Terminal(sched), x \in ShipSteps :
          Due(sched, Terminal(sched), "proved", k, x) /\ m \in FieldsAt(sched, k, x)
    BY <2>2, SentMembers
  <2>4. m[2] \in StepNames(x) /\ (x # "bind" => m[1] = k) BY <2>3, FieldNames
  <2>5. x = CASE part = "eor" -> "eor" [] part = "norm" -> "norm" [] OTHER -> "stage3"
    BY <1>5, <2>3, <2>4 DEF StepNames, ShipSteps, Parts
  <2>6. k = l /\ Located(sched, l, x) BY <1>5, <2>3, <2>4, <2>5 DEF Due, Parts
  <2> QED BY <2>5, <2>6 DEF Located, Scheduled, Parts
<1> QED BY <1>6, <1>7

\* For every schedule, an accepted proof has exactly the scheduled parts,
\* bindings and nonces: dropping or adding a reduction, a norm proof or a setup
\* sumcheck at any level is refused.
THEOREM AcceptedProofsAreWhole == Spec => []AcceptedShape
<1>1. ASSUME IInv PROVE AcceptedShape
  <2> SUFFICES ASSUME vpc = "accepted"
               PROVE  DOMAIN given = Honest /\ binding = HonestBinding /\ Len(nonces) = PlanLen
    BY DEF AcceptedShape
  <2>1. /\ sched \in Schedules /\ ProverAt /\ ppc = "proved" /\ vlevel = Terminal(sched)
    BY <1>1, AcceptedAt
  <2>2. LevelCount(sched) \in Nat \ {0} /\ Terminal(sched) = LevelCount(sched) + 1
    BY <2>1, LevelFacts
  <2>3. binding = HonestBinding /\ Len(nonces) = PlanLen BY <1>1 DEF IInv, CheckedInv, Started
  <2>4. ASSUME tamper = "part" PROVE FALSE
    <3>1. PICK part \in Parts, l \in 1 .. Terminal(sched) :
            (l = Terminal(sched) => part = "eor") /\ DOMAIN given = Toggled(part, l)
      BY <1>1, <2>4 DEF IInv, WireInv
    <3>2. Marker(part, l) \in Honest <=> Scheduled(sched, part, l) BY <2>1, <3>1, MarkerShipped
    <3>3. Marker(part, l)[1] = l /\ Marker(part, l)[2] \in PartNames(part)
      BY DEF Marker, Site, PartNames, Parts
    <3>4. Marker(part, l) \in DOMAIN given <=> Marker(part, l) \notin Honest
      BY <3>1, <3>3 DEF Toggled
    <3>5. ClaimsPast(l) BY <2>1, <2>2 DEF ClaimsPast
    <3>6. l \in 1 .. LevelCount(sched) => RangePast(l) BY <2>1, <2>2 DEF RangePast
    <3>7. part # "eor" => l \in 1 .. LevelCount(sched) BY <2>2, <3>1
    <3>8. /\ HasEor(l) = Reduces(sched, l)
          /\ l <= LevelCount(sched) => HasStage3(l) = Defers(sched, l)
          /\ l \in 1 .. LevelCount(sched) => HasNorm(l) = (sched.levels[l].route # "linf")
      BY <1>1, <3>5, <3>6 DEF IInv, CheckedInv, Started
    <3>9. Marker(part, l) \in DOMAIN given <=> Scheduled(sched, part, l)
      <4>1. CASE part = "eor" BY <3>8, <4>1 DEF Marker, Scheduled, HasEor, Has
      <4>2. CASE part = "norm" BY <3>7, <3>8, <4>2 DEF Marker, Scheduled, HasNorm, Has
      <4>3. CASE part = "stage3"
        <5>1. l <= LevelCount(sched) BY <2>2, <3>7, <4>3
        <5>2. Marker(part, l) = Site(l, "setup_claim", 0, 0) BY <4>3 DEF Marker
        <5>3. HasStage3(l) <=> Defers(sched, l) BY <3>8, <5>1
        <5>4. Scheduled(sched, part, l) <=> Defers(sched, l) BY <4>3 DEF Scheduled
        <5> QED BY <5>2, <5>3, <5>4 DEF HasStage3, Has
      <4> QED BY <4>1, <4>2, <4>3 DEF Parts
    <3> QED BY <3>2, <3>4, <3>9
  <2>5. DOMAIN given = Honest BY <1>1, <2>4 DEF IInv, WireInv
  <2> QED BY <2>3, <2>5
<1> QED BY <1>1, FoldInduction, PTL

-----------------------------------------------------------------------------
\* The order of messages and challenges.

\* Events of one level that absorb under the names A and draw under the names D.
LevelSet(l, A, D) ==
  {x \in EventSet : /\ x[2][1] = l
                    /\ (x[1] = "absorb" /\ x[2][2] \in A) \/ (x[1] = "draw" /\ x[2][2] \in D)}

\* No draw of a comes before an absorbed message of b that it should test.
Tests(x, y) == x[1] = "absorb" /\ y[1] = "draw" /\ Answers(x[2], y[2])
Apart(a, b) == \A i \in 1 .. Len(a), j \in 1 .. Len(b) : ~Tests(b[j], a[i])
InOrder(a) == \A i, j \in 1 .. Len(a) : Tests(a[i], a[j]) => i < j
Orderly(a, l, A, D) == a \in Seq(LevelSet(l, A, D)) /\ InOrder(a)

\* Names absorbed that no draw under one of the other names tests.
Untested(B, D) ==
  \A m \in B, q \in D :
    <<m, q>> \notin MustPrecede /\ m # q
        /\ ~(m = "child_claims" /\ q = "Stage1InterstageBatch")

\* Two lists free of late messages for a third, appended.
LEMMA ApartConcat ==
  ASSUME NEW a \in Seq(EventSet), NEW b \in Seq(EventSet),
         NEW c \in Seq(EventSet), Apart(a, c), Apart(b, c)
  PROVE  Apart(a \o b, c)
<1>1. /\ Len(a \o b) = Len(a) + Len(b) /\ Len(a) \in Nat /\ Len(b) \in Nat
      /\ \A i \in 1 .. Len(a) : (a \o b)[i] = a[i]
      /\ \A i \in 1 .. Len(b) : (a \o b)[Len(a) + i] = b[i]
  BY ConcatFacts
<1> SUFFICES ASSUME NEW i \in 1 .. Len(a \o b), NEW j \in 1 .. Len(c)
    PROVE ~Tests(c[j], (a \o b)[i])
  BY DEF Apart
<1>2. CASE i <= Len(a) BY <1>1, <1>2 DEF Apart
<1>3. CASE i > Len(a)
  <2> DEFINE k == i - Len(a)
  <2>1. k \in 1 .. Len(b) /\ i = Len(a) + k BY <1>1, <1>3
  <2> HIDE DEF k
  <2>2. (a \o b)[i] = b[k] BY <1>1, <2>1
  <2> QED BY <2>1, <2>2 DEF Apart
<1> QED BY <1>1, <1>2, <1>3

\* Lists in order appended are in order if the second has no message for a
\* query of the first.
LEMMA InOrderConcat ==
  ASSUME NEW a \in Seq(EventSet), NEW b \in Seq(EventSet), InOrder(a), InOrder(b), Apart(a, b)
  PROVE  InOrder(a \o b)
<1>1. /\ Len(a \o b) = Len(a) + Len(b) /\ Len(a) \in Nat /\ Len(b) \in Nat
      /\ \A i \in 1 .. Len(a) : (a \o b)[i] = a[i]
      /\ \A i \in 1 .. Len(b) : (a \o b)[Len(a) + i] = b[i]
  BY ConcatFacts
<1> SUFFICES ASSUME NEW i \in 1 .. Len(a \o b),
        NEW j \in 1 .. Len(a \o b), Tests((a \o b)[i], (a \o b)[j]), ~(i < j)
             PROVE  FALSE
  BY DEF InOrder
<1>2. CASE i <= Len(a)
  <2>1. j <= Len(a) /\ j \in 1 .. Len(a) /\ i \in 1 .. Len(a) BY <1>1, <1>2
  <2> QED BY <1>1, <2>1 DEF InOrder
<1>3. CASE i > Len(a)
  <2> DEFINE k == i - Len(a)
  <2>1. k \in 1 .. Len(b) /\ i = Len(a) + k BY <1>1, <1>3
  <2> HIDE DEF k
  <2>2. (a \o b)[i] = b[k] BY <1>1, <2>1
  <2>3. CASE j <= Len(a)
    <3>1. (a \o b)[j] = a[j] /\ j \in 1 .. Len(a) BY <1>1, <2>3
    <3> QED BY <2>1, <2>2, <3>1 DEF Apart
  <2>4. CASE j > Len(a)
    <3> DEFINE h == j - Len(a)
    <3>1. h \in 1 .. Len(b) /\ j = Len(a) + h BY <1>1, <2>4
    <3> HIDE DEF h
    <3>2. (a \o b)[j] = b[h] BY <1>1, <3>1
    <3>3. k < h BY <2>1, <2>2, <3>1, <3>2 DEF InOrder
    <3> QED BY <1>1, <2>1, <3>1, <3>3
  <2> QED BY <1>1, <2>3, <2>4
<1> QED BY <1>1, <1>2, <1>3

\* Events of one level under given names.
LEMMA LevelSetFacts ==
  ASSUME NEW l, NEW A, NEW D, NEW a \in Seq(LevelSet(l, A, D))
  PROVE  /\ a \in Seq(EventSet) /\ Len(a) \in Nat
         /\ \A i \in 1 .. Len(a) : /\ a[i][2][1] = l
                                   /\ a[i][1] = "absorb" => a[i][2][2] \in A
                                   /\ a[i][1] = "draw" => a[i][2][2] \in D
<1>1. LevelSet(l, A, D) \subseteq EventSet BY DEF LevelSet
<1>2. Len(a) \in Nat /\ \A i \in 1 .. Len(a) : a[i] \in LevelSet(l, A, D) OBVIOUS
<1>3. a \in Seq(EventSet) BY <1>1, <1>2
<1> QED BY <1>2, <1>3 DEF LevelSet

\* Names suffice to tell that no message comes late.
LEMMA NamesApart ==
  ASSUME NEW l, NEW A, NEW D, NEW B, NEW E, NEW a \in Seq(LevelSet(l, A, D)),
         NEW b \in Seq(LevelSet(l, B, E)),
         Untested(B, D)
  PROVE  Apart(a, b)
<1>1. \A i \in 1 .. Len(a) : a[i][1] = "draw" => a[i][2][2] \in D BY LevelSetFacts
<1>2. \A i \in 1 .. Len(b) : b[i][1] = "absorb" => b[i][2][2] \in B BY LevelSetFacts
<1> SUFFICES ASSUME NEW i \in 1 .. Len(a), NEW j \in 1 .. Len(b), Tests(b[j], a[i]) PROVE FALSE
  BY DEF Apart
<1> DEFINE x == b[j][2]
           y == a[i][2]
<1>3. x[2] \in B /\ y[2] \in D /\ Answers(x, y) BY <1>1, <1>2 DEF Tests
<1> HIDE DEF x, y
<1>4. <<x[2], y[2]>> \notin MustPrecede /\ x[2] # y[2]
          /\ ~(x[2] = "child_claims" /\ y[2] = "Stage1InterstageBatch")
  BY <1>3 DEF Untested
<1> QED BY <1>3, <1>4, Zenon DEF Answers

\* Two parts of a level in order, the second absorbing nothing the first has
\* queried for.
LEMMA OrderlyConcat ==
  ASSUME NEW l, NEW A, NEW D, NEW B, NEW E, NEW X, NEW Y, NEW a,
         NEW b, Orderly(a, l, A, D), Orderly(b, l, B, E),
         Untested(B, D), A \subseteq X, B \subseteq X, D \subseteq Y, E \subseteq Y
  PROVE  Orderly(a \o b, l, X, Y)
<1>1. a \in Seq(LevelSet(l, A, D)) /\ b \in Seq(LevelSet(l, B, E)) /\ InOrder(a) /\ InOrder(b)
  BY DEF Orderly
<1>2. Apart(a, b) BY <1>1, NamesApart
<1>3. a \in Seq(EventSet) /\ b \in Seq(EventSet) BY <1>1, LevelSetFacts
<1>4. InOrder(a \o b) BY <1>1, <1>2, <1>3, InOrderConcat
<1>5. LevelSet(l, A, D) \subseteq LevelSet(l, X, Y)
          /\ LevelSet(l, B, E) \subseteq LevelSet(l, X, Y)
  BY DEF LevelSet
<1> DEFINE S == LevelSet(l, X, Y)
<1>6. a \in Seq(S) /\ b \in Seq(S) BY <1>1, <1>5
<1> HIDE DEF S
<1>7. a \o b \in Seq(S) BY <1>6, ConcatFacts
<1> QED BY <1>4, <1>7 DEF Orderly, S

\* An optional part.
LEMMA OrderlyWhen ==
  ASSUME NEW l, NEW A, NEW D, NEW c, NEW a, c => Orderly(a, l, A, D)
  PROVE  Orderly(When(c, a), l, A, D)
<1>1. Orderly(<<>>, l, A, D) BY DEF Orderly, InOrder
<1> QED BY <1>1 DEF When

\* Messages alone, or queries alone, are in order.
LEMMA OrderlySays ==
  ASSUME NEW l, NEW A, NEW p \in Seq(Places), \A i \in 1 .. Len(p) : p[i][1] = l
         /\ p[i][2] \in A
  PROVE  Orderly(Says(p), l, A, {}) /\ Orderly(Derives(p), l, A, {})
         /\ Orderly(Asks(p), l, {}, A)
<1>1. /\ Says(p) \in Seq(EventSet) /\ Derives(p) \in Seq(EventSet) /\ Asks(p) \in Seq(EventSet)
      /\ Len(Says(p)) = Len(p) /\ Len(Derives(p)) = Len(p) /\ Len(Asks(p)) = Len(p)
      /\ \A i \in 1 .. Len(p) : /\ Says(p)[i] = <<"absorb", p[i], "good">>
                                /\ Derives(p)[i] = <<"absorb", p[i], "drawn">>
                                /\ Asks(p)[i] = <<"draw", p[i], "good">>
  BY SaysType
<1> DEFINE a == Says(p)
           b == Derives(p)
           c == Asks(p)
<1>2. /\ a \in Seq(EventSet) /\ b \in Seq(EventSet) /\ c \in Seq(EventSet) /\ Len(p) \in Nat
      /\ Len(a) = Len(p) /\ Len(b) = Len(p) /\ Len(c) = Len(p)
      /\ \A i \in 1 .. Len(p) : /\ a[i] = <<"absorb", p[i], "good">>
                                /\ b[i] = <<"absorb", p[i], "drawn">>
                                /\ c[i] = <<"draw", p[i], "good">>
  BY <1>1
<1> HIDE DEF a, b, c
<1>3. \A i \in 1 .. Len(p) : /\ a[i] \in LevelSet(l, A, {}) /\ b[i] \in LevelSet(l, A, {})
                             /\ c[i] \in LevelSet(l, {}, A)
  BY <1>2 DEF LevelSet
<1>4. a \in Seq(LevelSet(l, A, {})) /\ b \in Seq(LevelSet(l, A, {}))
          /\ c \in Seq(LevelSet(l, {}, A))
  <2> DEFINE S == LevelSet(l, A, {})
             U == LevelSet(l, {}, A)
  <2>1. \A i \in 1 .. Len(p) : a[i] \in S /\ b[i] \in S /\ c[i] \in U BY <1>3
  <2> HIDE DEF S, U
  <2>2. a \in Seq(S) BY <1>2, <2>1
  <2>3. b \in Seq(S) BY <1>2, <2>1
  <2>4. c \in Seq(U) BY <1>2, <2>1
  <2> QED BY <2>2, <2>3, <2>4 DEF S, U
<1>5. InOrder(a) /\ InOrder(b) /\ InOrder(c) BY <1>2 DEF InOrder, Tests
<1> QED BY <1>4, <1>5 DEF Orderly, a, b, c

\* A message or a query made once per level.
LEMMA OrderlyAt ==
  ASSUME NEW l \in Nat, NEW name \in Names
  PROVE  /\ Orderly(Says(At(l, name)), l, {name}, {})
            /\ Orderly(Derives(At(l, name)), l, {name}, {})
         /\ Orderly(Asks(At(l, name)), l, {}, {name})
<1> DEFINE p == At(l, name)
           A == {name}
<1>1. p \in Seq(Places) /\ Len(p) = 1 BY AtType
<1>2. p[1][1] = l /\ p[1][2] = name BY DEF At, Site
<1> HIDE DEF p
<1>3. \A i \in 1 .. Len(p) : p[i][1] = l /\ p[i][2] \in A BY <1>1, <1>2
<1> HIDE DEF A
<1>4. Orderly(Says(p), l, A, {}) /\ Orderly(Derives(p), l, A, {}) /\ Orderly(Asks(p), l, {}, A)
  BY <1>1, <1>3, OrderlySays
<1> QED BY <1>4 DEF p, A

\* Stages in order, pairwise free of late messages, are in order altogether.
LEMMA FlattenInOrder ==
  ASSUME NEW m \in Nat, NEW f \in [1 .. m -> Seq(EventSet)], NEW z \in Seq(EventSet),
         \A i \in 1 .. m : InOrder(f[i]) /\ Apart(f[i], z),
         \A i, j \in 1 .. m : i < j => Apart(f[i], f[j])
  PROVE  InOrder(FlattenSeq(f)) /\ Apart(FlattenSeq(f), z)
<1> DEFINE Fit(n, a, c) == /\ \A i \in 1 .. n : InOrder(a[i]) /\ Apart(a[i], c)
                           /\ \A i, j \in 1 .. n : i < j => Apart(a[i], a[j])
           T == {n \in Nat : \A a \in [1 .. n -> Seq(EventSet)], c \in Seq(EventSet) :
                   Fit(n, a, c) => InOrder(FlattenSeq(a)) /\ Apart(FlattenSeq(a), c)}
<1>1. 0 \in T
  <2> SUFFICES ASSUME NEW a \in [1 .. 0 -> Seq(EventSet)], NEW c \in Seq(EventSet)
               PROVE  InOrder(FlattenSeq(a)) /\ Apart(FlattenSeq(a), c)
    OBVIOUS
  <2>1. a = <<>> OBVIOUS
  <2>2. InOrder(<<>>) /\ Apart(<<>>, c) BY DEF InOrder, Apart
  <2> QED BY <2>1, <2>2, FlattenEmpty
<1>2. ASSUME NEW n \in Nat, n \in T PROVE n + 1 \in T
  <2> SUFFICES ASSUME NEW a \in [1 .. n + 1 -> Seq(EventSet)],
          NEW c \in Seq(EventSet), Fit(n + 1, a, c)
               PROVE  InOrder(FlattenSeq(a)) /\ Apart(FlattenSeq(a), c)
    <3>1. n + 1 \in Nat OBVIOUS
    <3> HIDE DEF Fit
    <3> QED BY <3>1, Zenon
  <2> DEFINE d == [i \in 1 .. n |-> a[i]]
             y == a[n + 1]
  <2>1. d \in [1 .. n -> Seq(EventSet)] /\ \A i \in 1 .. n : d[i] = a[i] OBVIOUS
  <2>2. FlattenSeq(a) = FlattenSeq(d) \o y BY FlattenSnoc
  <2>3. FlattenSeq(d) \in Seq(EventSet) BY <2>1, FlattenType
  <2>4. y \in Seq(EventSet) /\ InOrder(y) /\ Apart(y, c) OBVIOUS
  <2> HIDE DEF d
  <2>5. Fit(n, d, y) /\ Fit(n, d, c)
    <3>1. \A i \in 1 .. n : i \in 1 .. n + 1 /\ i < n + 1 /\ n + 1 \in 1 .. n + 1 OBVIOUS
    <3> QED BY <2>1, <3>1
  <2> HIDE DEF y, Fit
  <2>6. InOrder(FlattenSeq(d)) /\ Apart(FlattenSeq(d), y) /\ Apart(FlattenSeq(d), c)
    BY <1>2, <2>1, <2>4, <2>5
  <2>7. InOrder(FlattenSeq(d) \o y) BY <2>3, <2>4, <2>6, InOrderConcat
  <2>8. Apart(FlattenSeq(d) \o y, c) BY <2>3, <2>4, <2>6, ApartConcat
  <2> QED BY <2>2, <2>7, <2>8
<1>3. m \in T
  <2> HIDE DEF T
  <2> QED BY <1>1, <1>2, SetInduction
<1>4. Fit(m, f, z) OBVIOUS
<1> HIDE DEF Fit
<1> QED BY <1>3, <1>4

\* Events under one name and index of a level.
IndexSet(l, N, i) == {x \in EventSet : x[2][1] = l /\ x[2][2] \in N /\ x[2][3] = i}
\* The sumchecks.
RoundNames == {"Eor", "Stage1", "PhysicalL2", "Stage2", "Stage3"}

\* The parts of an event.
LEMMA EventFacts ==
  ASSUME NEW x \in EventSet
  PROVE  /\ x[1] \in {"absorb", "draw"} /\ x[2] \in Places
         /\ x[2] = <<x[2][1], x[2][2], x[2][3], x[2][4]>>
BY DEF EventSet, Places

\* One sumcheck round: its polynomial, then its challenge.
LEMMA RoundPiece ==
  ASSUME NEW l \in Nat, NEW name \in Names, NEW i \in Nat, NEW r \in Nat
  PROVE  LET a == Says(<<Site(l, name, i, r)>>) \o Asks(<<Site(l, name, i, r)>>)
         IN  /\ a \in Seq(IndexSet(l, {name}, i)) /\ Len(a) = 2
             /\ a[1] = <<"absorb", <<l, name, i, r>>, "good">>
                 /\ a[2] = <<"draw", <<l, name, i, r>>, "good">>
<1> DEFINE p == <<l, name, i, r>>
           x == <<"absorb", p, "good">>
           y == <<"draw", p, "good">>
           S == IndexSet(l, {name}, i)
<1>1. p \in Places /\ Site(l, name, i, r) = p BY SiteType DEF Site
<1>2. x \in S /\ y \in S BY <1>1 DEF IndexSet, EventSet
<1>3. Says(<<Site(l, name, i, r)>>) = <<x>> /\ Asks(<<Site(l, name, i, r)>>) = <<y>>
  BY <1>1 DEF Says, Asks, Event
<1> HIDE DEF x, y, S
<1>4. <<x>> \o <<y>> \in Seq(S) /\ Len(<<x>> \o <<y>>) = 2
      /\ (<<x>> \o <<y>>)[1] = x /\ (<<x>> \o <<y>>)[2] = y
  BY <1>2
<1> QED BY <1>3, <1>4 DEF S, x, y

\* In a sumcheck every polynomial precedes its challenge.
LEMMA RoundsInOrder ==
  ASSUME NEW l \in Nat, NEW name \in RoundNames, NEW i \in Nat, NEW n \in Nat
  PROVE  SaysRounds(l, name, i, n) \in Seq(IndexSet(l, {name}, i))
         /\ InOrder(SaysRounds(l, name, i, n))
<1> DEFINE S == IndexSet(l, {name}, i)
           piece(r) == Says(<<Site(l, name, i, r)>>) \o Asks(<<Site(l, name, i, r)>>)
           f == [r \in 1 .. n |-> piece(r)]
           z == <<>>
<1>0. name \in Names BY DEF RoundNames, Names
<1>1. \A r \in Nat : /\ piece(r) \in Seq(S) /\ Len(piece(r)) = 2
                     /\ piece(r)[1] = <<"absorb", <<l, name, i, r>>, "good">>
                     /\ piece(r)[2] = <<"draw", <<l, name, i, r>>, "good">>
  BY <1>0, RoundPiece
<1>2. SaysRounds(l, name, i, n) = FlattenSeq(f) BY DEF SaysRounds
<1>3. S \subseteq EventSet BY DEF IndexSet
<1> HIDE DEF S, piece
<1>4. f \in [1 .. n -> Seq(S)] BY <1>1
<1>5. f \in [1 .. n -> Seq(EventSet)] BY <1>3, <1>4
<1>6. \A r \in Nat : InOrder(piece(r))
  <2> SUFFICES ASSUME NEW r \in Nat PROVE InOrder(piece(r)) OBVIOUS
  <2>1. Len(piece(r)) = 2 /\ piece(r)[1][1] = "absorb" /\ piece(r)[2][1] = "draw" BY <1>1
  <2> QED BY <2>1 DEF InOrder, Tests
<1>7. ASSUME NEW r \in Nat, NEW t \in Nat, r < t PROVE Apart(piece(r), piece(t))
  <2>1. /\ Len(piece(r)) = 2 /\ Len(piece(t)) = 2
        /\ piece(r)[1][1] = "absorb" /\ piece(r)[2][2] = <<l, name, i, r>>
        /\ piece(t)[1][2] = <<l, name, i, t>> /\ piece(t)[2][1] = "draw"
    BY <1>1
  <2>2. ~Answers(<<l, name, i, t>>, <<l, name, i, r>>)
    BY <1>7 DEF Answers, MustPrecede, RoundNames
  <2> QED BY <2>1, <2>2 DEF Apart, Tests
<1>8. z \in Seq(EventSet) /\ \A r \in Nat : Apart(piece(r), z) BY DEF Apart
<1>9. /\ \A r \in 1 .. n : InOrder(f[r]) /\ Apart(f[r], z)
      /\ \A r, t \in 1 .. n : r < t => Apart(f[r], f[t])
  BY <1>6, <1>7, <1>8
<1> HIDE DEF f, z
<1>10. InOrder(FlattenSeq(f)) BY <1>5, <1>8, <1>9, FlattenInOrder
<1>11. FlattenSeq(f) \in Seq(S) BY <1>4, FlattenType
<1> QED BY <1>2, <1>10, <1>11 DEF S

\* A sumcheck is in order.
LEMMA OrderlyRounds ==
  ASSUME NEW l \in Nat, NEW name \in RoundNames, NEW i \in Nat, NEW n \in Nat
  PROVE  Orderly(SaysRounds(l, name, i, n), l, {name}, {name})
<1> DEFINE S == IndexSet(l, {name}, i)
           T == LevelSet(l, {name}, {name})
           a == SaysRounds(l, name, i, n)
<1>1. a \in Seq(S) /\ InOrder(a) BY RoundsInOrder
<1>2. S \subseteq T BY EventFacts DEF IndexSet, LevelSet
<1> HIDE DEF S, T, a
<1>3. a \in Seq(T) BY <1>1, <1>2
<1> QED BY <1>1, <1>3 DEF Orderly, a, T

\* The two lists at different indices of the product tree.
LEMMA IndexApart ==
  ASSUME NEW l, NEW i, NEW j, i # j, NEW M, NEW N,
         NEW a \in Seq(IndexSet(l, M, i)), NEW b \in Seq(IndexSet(l, N, j)),
         \A m \in N, q \in M : <<m, q>> \notin MustPrecede
  PROVE  Apart(a, b)
<1>1. \A k \in 1 .. Len(a) : a[k][2][2] \in M /\ a[k][2][3] = i BY DEF IndexSet
<1>2. \A k \in 1 .. Len(b) : b[k][2][2] \in N /\ b[k][2][3] = j BY DEF IndexSet
<1> SUFFICES ASSUME NEW k \in 1 .. Len(a), NEW h \in 1 .. Len(b), Tests(b[h], a[k]) PROVE FALSE
  BY DEF Apart
<1> DEFINE x == b[h][2]
           y == a[k][2]
<1>3. x[2] \in N /\ x[3] = j /\ y[2] \in M /\ y[3] = i /\ Answers(x, y) BY <1>1, <1>2 DEF Tests
<1> HIDE DEF x, y
<1>4. <<x[2], y[2]>> \notin MustPrecede BY <1>3
<1>5. x[3] # y[3] BY <1>3
<1> QED BY <1>3, <1>4, <1>5, Zenon DEF Answers

\* The names of the indexed messages.
LEMMA SiteNames ==
  ASSUME NEW s \in Schedules, NEW l \in 1 .. Terminal(s)
  PROVE  /\ \A i \in 1 .. Len(ClaimSites(s, l)) : ClaimSites(s, l)[i][1] = l
            /\ ClaimSites(s, l)[i][2] = "values"
         /\ \A i \in 1 .. Len(FinalClaims(s, l)) :
              FinalClaims(s, l)[i][1] = l /\ FinalClaims(s, l)[i][2] = "eor_final"
         /\ \A i \in 1 .. Len(FoldGroups(s, l)) :
              FoldGroups(s, l)[i][1] = l /\ FoldGroups(s, l)[i][2] = "FoldChallengeGroup"
         /\ \A i \in 1 .. Len(RootCommitments(s)) :
              RootCommitments(s)[i][1] = 1 /\ RootCommitments(s)[i][2] = "commitment"
<1>1. \A p \in Seq(Places) : DOMAIN p = 1 .. Len(p) OBVIOUS
<1>2. /\ ClaimSites(s, l) \in Seq(Places) /\ FinalClaims(s, l) \in Seq(Places)
          /\ FoldGroups(s, l) \in Seq(Places)
      /\ RootCommitments(s) \in Seq(Places)
  BY ClaimsType, FoldGroupsType, RootCommitmentsType
<1>3. \A i \in DOMAIN ClaimSites(s, l) : ClaimSites(s, l)[i] = Site(l, "values", i, 0)
  BY DEF ClaimSites
<1>4. \A i \in DOMAIN FinalClaims(s, l) : FinalClaims(s, l)[i] = Site(l, "eor_final", i, 0)
  BY DEF FinalClaims
<1>5. \A i \in DOMAIN FoldGroups(s, l) : \E r : FoldGroups(s, l)[i]
          = Site(l, "FoldChallengeGroup", i, r)
  BY DEF FoldGroups
<1>6. \A i \in DOMAIN RootCommitments(s) : RootCommitments(s)[i] = Site(1, "commitment", i, 0)
  BY DEF RootCommitments
<1>7. \A k, name, i, r : Site(k, name, i, r)[1] = k /\ Site(k, name, i, r)[2] = name
  BY DEF Site
<1> QED BY <1>1, <1>2, <1>3, <1>4, <1>5, <1>6, <1>7

\* The reduction is in order: the partials precede its challenges.
LEMMA EorOrderly ==
  ASSUME NEW s \in Schedules, NEW l \in 1 .. Terminal(s), Reduces(s, l)
  PROVE  Orderly(EorEvents(s, l), l, {"eor_partials", "Eor", "eor_final", "points"},
                 {"ExtensionOpeningPoint", "ExtensionOpeningClaimBatch", "Eor"})
<1> DEFINE a == Says(At(l, "eor_partials"))
           b == Asks(At(l, "ExtensionOpeningPoint"))
           c == When(RowBatch(s, l), Asks(At(l, "ExtensionOpeningClaimBatch")))
           d == SaysRounds(l, "Eor", 0, EorRounds(s, l))
           e == Says(FinalClaims(s, l))
           f == Derives(At(l, "points"))
<1>1. l \in Nat /\ EorRounds(s, l) \in Nat /\ PolyCount(s, l) \in Nat /\ 0 \in Nat
  BY LevelFacts, GroupFacts
<1>2. EorEvents(s, l) = a \o b \o c \o d \o e \o f BY DEF EorEvents
<1>3. Orderly(a, l, {"eor_partials"}, {}) /\ Orderly(b, l, {}, {"ExtensionOpeningPoint"})
      /\ Orderly(f, l, {"points"}, {})
  BY <1>1, OrderlyAt, NameFacts
<1>4. Orderly(c, l, {}, {"ExtensionOpeningClaimBatch"})
  <2>1. Orderly(Asks(At(l, "ExtensionOpeningClaimBatch")), l, {},
            {"ExtensionOpeningClaimBatch"})
    BY <1>1, OrderlyAt, NameFacts
  <2> QED BY <2>1, OrderlyWhen
<1>5. Orderly(d, l, {"Eor"}, {"Eor"}) BY <1>1, OrderlyRounds DEF RoundNames
<1>6. Orderly(e, l, {"eor_final"}, {})
  <2> DEFINE p == FinalClaims(s, l)
             A == {"eor_final"}
  <2>1. p \in Seq(Places) BY <1>1, ClaimsType
  <2>2. \A i \in 1 .. Len(p) : p[i][1] = l /\ p[i][2] \in A BY SiteNames
  <2> HIDE DEF p, A
  <2>3. Orderly(Says(p), l, A, {}) BY <2>1, <2>2, OrderlySays
  <2> QED BY <2>3 DEF p, A
<1> HIDE DEF a, b, c, d, e, f
<1>7. Orderly(a \o b, l, {"eor_partials"}, {"ExtensionOpeningPoint"})
  BY <1>3, OrderlyConcat DEF Untested
<1>8. Orderly(a \o b \o c, l, {"eor_partials"},
          {"ExtensionOpeningPoint", "ExtensionOpeningClaimBatch"})
  BY <1>4, <1>7, OrderlyConcat DEF Untested
<1>9. Orderly(a \o b \o c \o d, l, {"eor_partials", "Eor"},
              {"ExtensionOpeningPoint", "ExtensionOpeningClaimBatch", "Eor"})
  BY <1>5, <1>8, OrderlyConcat DEF Untested, MustPrecede
<1>10. Orderly(a \o b \o c \o d \o e, l, {"eor_partials", "Eor", "eor_final"},
               {"ExtensionOpeningPoint", "ExtensionOpeningClaimBatch", "Eor"})
  BY <1>6, <1>9, OrderlyConcat DEF Untested, MustPrecede
<1>11. Orderly(a \o b \o c \o d \o e \o f, l, {"eor_partials", "Eor", "eor_final", "points"},
               {"ExtensionOpeningPoint", "ExtensionOpeningClaimBatch", "Eor"})
  BY <1>3, <1>10, OrderlyConcat DEF Untested, MustPrecede
<1> QED BY <1>2, <1>11

\* Claims are absorbed before any query of the level.
LEMMA StartOrderly ==
  ASSUME NEW s \in Schedules, NEW l \in 1 .. Terminal(s)
  PROVE  Orderly(LevelStart(s, l), l, {"shape", "commitment", "points", "values"}, {})
<1> DEFINE X == {"shape", "commitment", "points", "values"}
           v == Says(ClaimSites(s, l))
<1>1. l \in Nat /\ 1 \in Nat BY LevelFacts
<1>2. Orderly(v, l, {"values"}, {})
  <2> DEFINE p == ClaimSites(s, l)
             A == {"values"}
  <2>1. p \in Seq(Places) BY ClaimsType
  <2>2. \A i \in 1 .. Len(p) : p[i][1] = l /\ p[i][2] \in A BY SiteNames
  <2> HIDE DEF p, A
  <2>3. Orderly(Says(p), l, A, {}) BY <2>1, <2>2, OrderlySays
  <2> QED BY <2>3 DEF p, A
<1>3. CASE l = 1
  <2> DEFINE a == Says(At(1, "shape"))
             b == Says(RootCommitments(s))
             c == Says(At(1, "points"))
  <2>1. LevelStart(s, l) = a \o b \o c \o v BY <1>3 DEF LevelStart, RootEvents
  <2>2. Orderly(a, l, {"shape"}, {}) /\ Orderly(c, l, {"points"}, {})
    BY <1>1, <1>3, OrderlyAt, NameFacts
  <2>3. Orderly(b, l, {"commitment"}, {})
    <3> DEFINE p == RootCommitments(s)
               A == {"commitment"}
    <3>1. p \in Seq(Places) BY RootCommitmentsType
    <3>2. \A i \in 1 .. Len(p) : p[i][1] = l /\ p[i][2] \in A BY <1>3, SiteNames
    <3> HIDE DEF p, A
    <3>3. Orderly(Says(p), l, A, {}) BY <3>1, <3>2, OrderlySays
    <3> QED BY <3>3 DEF p, A
  <2> HIDE DEF a, b, c, v
  <2>4. Orderly(a \o b, l, X, {}) BY <2>2, <2>3, OrderlyConcat DEF Untested
  <2>5. Orderly(a \o b \o c, l, X, {}) BY <2>2, <2>4, OrderlyConcat DEF Untested
  <2>6. Orderly(a \o b \o c \o v, l, X, {}) BY <1>2, <2>5, OrderlyConcat DEF Untested
  <2> QED BY <2>1, <2>6
<1>4. CASE l # 1
  <2> DEFINE a == Says(At(l, "commitment"))
             b == When(~Reduces(s, l), Derives(At(l, "points")))
  <2>1. LevelStart(s, l) = a \o b \o v BY <1>4 DEF LevelStart, ClaimEvents
  <2>2. Orderly(a, l, {"commitment"}, {})
            /\ Orderly(Derives(At(l, "points")), l, {"points"}, {})
    BY <1>1, OrderlyAt, NameFacts
  <2>3. Orderly(b, l, {"points"}, {}) BY <2>2, OrderlyWhen
  <2> HIDE DEF a, b, v
  <2>4. Orderly(a \o b, l, X, {}) BY <2>2, <2>3, OrderlyConcat DEF Untested
  <2>5. Orderly(a \o b \o v, l, X, {}) BY <1>2, <2>4, OrderlyConcat DEF Untested
  <2> QED BY <2>1, <2>5
<1> QED BY <1>3, <1>4

\* The fold only queries.
LEMMA FoldOrderly ==
  ASSUME NEW s \in Schedules, NEW l \in 1 .. Terminal(s)
  PROVE  Orderly(FoldEvents(s, l), l, {}, {"FoldResponse", "FoldChallengeGroup"})
<1> DEFINE a == Asks(At(l, "FoldResponse"))
           b == Asks(FoldGroups(s, l))
<1>1. l \in Nat BY LevelFacts
<1>2. Orderly(a, l, {}, {"FoldResponse"}) BY <1>1, OrderlyAt, NameFacts
<1>3. Orderly(b, l, {}, {"FoldChallengeGroup"})
  <2> DEFINE p == FoldGroups(s, l)
             A == {"FoldChallengeGroup"}
  <2>1. p \in Seq(Places) BY FoldGroupsType
  <2>2. \A i \in 1 .. Len(p) : p[i][1] = l /\ p[i][2] \in A BY SiteNames
  <2> HIDE DEF p, A
  <2>3. Orderly(Asks(p), l, {}, A) BY <2>1, <2>2, OrderlySays
  <2> QED BY <2>3 DEF p, A
<1> HIDE DEF a, b
<1>4. Orderly(a \o b, l, {}, {"FoldResponse", "FoldChallengeGroup"})
  BY <1>2, <1>3, OrderlyConcat DEF Untested
<1> QED BY <1>4 DEF FoldEvents, a, b

\* So does the ring switch.
LEMMA SwitchOrderly ==
  ASSUME NEW l \in Nat
  PROVE  Orderly(SwitchEvents(l), l, {}, {"RingSwitchAlpha", "Tau0Point", "Tau1Point"})
<1> DEFINE a == Asks(At(l, "RingSwitchAlpha"))
           b == Asks(At(l, "Tau0Point"))
           c == Asks(At(l, "Tau1Point"))
<1>1. Orderly(a, l, {}, {"RingSwitchAlpha"}) /\ Orderly(b, l, {}, {"Tau0Point"})
          /\ Orderly(c, l, {}, {"Tau1Point"})
  BY OrderlyAt, NameFacts
<1>2. SwitchEvents(l) = a \o b \o c BY DEF SwitchEvents
<1> HIDE DEF a, b, c
<1>3. Orderly(a \o b, l, {}, {"RingSwitchAlpha", "Tau0Point"})
  BY <1>1, OrderlyConcat DEF Untested
<1>4. Orderly(a \o b \o c, l, {}, {"RingSwitchAlpha", "Tau0Point", "Tau1Point"})
  BY <1>1, <1>3, OrderlyConcat DEF Untested
<1> QED BY <1>2, <1>4

\* The norm proof is in order: the integer norm, the subclaims and the virtual
\* evaluation each precede the challenge that batches them.
LEMMA NormOrderly ==
  ASSUME NEW s \in Schedules, NEW l \in 1 .. LevelCount(s)
  PROVE  Orderly(NormEvents(s, l), l,
                 {"norm_integer", "norm_subclaims", "PhysicalL2", "norm_virtual",
                     "range_image"},
                 {"L2SubclaimBatch", "L2NormMerge", "PhysicalL2", "L2VirtualBatch"})
<1> DEFINE n == s.levels[l].rounds
           a == Says(At(l, "norm_integer"))
           b == When(s.levels[l].route = "l2gram",
                     Says(At(l, "norm_subclaims")) \o Asks(At(l, "L2SubclaimBatch")))
           c == Asks(At(l, "L2NormMerge"))
           d == SaysRounds(l, "PhysicalL2", 0, n)
           e == Says(At(l, "norm_virtual"))
           f == Says(At(l, "range_image"))
           h == Asks(At(l, "L2VirtualBatch"))
           X == {"norm_integer", "norm_subclaims", "PhysicalL2", "norm_virtual", "range_image"}
           Y == {"L2SubclaimBatch", "L2NormMerge", "PhysicalL2"}
<1>1. l \in Nat /\ n \in Nat /\ 0 \in Nat BY LevelFacts, ScheduleAssumption
<1>2. NormEvents(s, l) = a \o b \o c \o d \o e \o f \o h BY DEF NormEvents
<1>3. /\ Orderly(a, l, {"norm_integer"}, {}) /\ Orderly(c, l, {}, {"L2NormMerge"})
      /\ Orderly(e, l, {"norm_virtual"}, {}) /\ Orderly(f, l, {"range_image"}, {})
      /\ Orderly(h, l, {}, {"L2VirtualBatch"})
  BY <1>1, OrderlyAt, NameFacts
<1>4. Orderly(b, l, {"norm_subclaims"}, {"L2SubclaimBatch"})
  <2> DEFINE u == Says(At(l, "norm_subclaims"))
             w == Asks(At(l, "L2SubclaimBatch"))
  <2>1. Orderly(u, l, {"norm_subclaims"}, {}) /\ Orderly(w, l, {}, {"L2SubclaimBatch"})
    BY <1>1, OrderlyAt, NameFacts
  <2> HIDE DEF u, w
  <2>2. Orderly(u \o w, l, {"norm_subclaims"}, {"L2SubclaimBatch"})
    BY <2>1, OrderlyConcat DEF Untested
  <2> QED BY <2>2, OrderlyWhen DEF u, w
<1>5. Orderly(d, l, {"PhysicalL2"}, {"PhysicalL2"}) BY <1>1, OrderlyRounds DEF RoundNames
<1> HIDE DEF a, b, c, d, e, f, h
<1>6. Orderly(a \o b, l, X, {"L2SubclaimBatch"}) BY <1>3, <1>4, OrderlyConcat DEF Untested
<1>7. Orderly(a \o b \o c, l, X, {"L2SubclaimBatch", "L2NormMerge"})
  BY <1>3, <1>6, OrderlyConcat DEF Untested
<1>8. Orderly(a \o b \o c \o d, l, X, Y) BY <1>5, <1>7, OrderlyConcat DEF Untested, MustPrecede
<1>9. Orderly(a \o b \o c \o d \o e, l, X, Y)
  BY <1>3, <1>8, OrderlyConcat DEF Untested, MustPrecede
<1>10. Orderly(a \o b \o c \o d \o e \o f, l, X, Y)
  BY <1>3, <1>9, OrderlyConcat DEF Untested, MustPrecede
<1>11. Orderly(a \o b \o c \o d \o e \o f \o h, l, X,
           {"L2SubclaimBatch", "L2NormMerge", "PhysicalL2", "L2VirtualBatch"})
  BY <1>3, <1>10, OrderlyConcat DEF Untested
<1> QED BY <1>2, <1>11

\* Stage 2 is in order.
LEMMA Stage2Orderly ==
  ASSUME NEW s \in Schedules, NEW l \in 1 .. LevelCount(s)
  PROVE  Orderly(Stage2Events(s, l), l, {"Stage2", "next_w_eval"},
         {"CompressionBinary", "Stage2Batch", "Stage2"})
<1> DEFINE n == s.levels[l].rounds
           a == When(s.levels[l].compressed, Asks(At(l, "CompressionBinary")))
           b == Asks(At(l, "Stage2Batch"))
           c == SaysRounds(l, "Stage2", 0, n)
           d == Says(At(l, "next_w_eval"))
           Y == {"CompressionBinary", "Stage2Batch", "Stage2"}
<1>1. l \in Nat /\ n \in Nat /\ 0 \in Nat BY LevelFacts, ScheduleAssumption
<1>2. Stage2Events(s, l) = a \o b \o c \o d BY DEF Stage2Events
<1>3. /\ Orderly(Asks(At(l, "CompressionBinary")), l, {}, {"CompressionBinary"})
      /\ Orderly(b, l, {}, {"Stage2Batch"}) /\ Orderly(d, l, {"next_w_eval"}, {})
  BY <1>1, OrderlyAt, NameFacts
<1>4. Orderly(a, l, {}, {"CompressionBinary"}) BY <1>3, OrderlyWhen
<1>5. Orderly(c, l, {"Stage2"}, {"Stage2"}) BY <1>1, OrderlyRounds DEF RoundNames
<1> HIDE DEF a, b, c, d
<1>6. Orderly(a \o b, l, {}, {"CompressionBinary", "Stage2Batch"})
  BY <1>3, <1>4, OrderlyConcat DEF Untested
<1>7. Orderly(a \o b \o c, l, {"Stage2"}, Y)
  BY <1>5, <1>6, OrderlyConcat DEF Untested, MustPrecede
<1>8. Orderly(a \o b \o c \o d, l, {"Stage2", "next_w_eval"}, Y)
  BY <1>3, <1>7, OrderlyConcat DEF Untested, MustPrecede
<1> QED BY <1>2, <1>8

\* Stage 3 is in order: the setup claim precedes its sumcheck.
LEMMA Stage3Orderly ==
  ASSUME NEW s \in Schedules, NEW l \in 1 .. LevelCount(s), Defers(s, l)
  PROVE  Orderly(Stage3Events(s, l), l, {"prefix_slot", "setup_claim", "Stage3"}, {"Stage3"})
<1> DEFINE n == PrefixVars(s, l)
           a == Says(At(l, "prefix_slot"))
           b == Says(At(l, "setup_claim"))
           c == SaysRounds(l, "Stage3", 0, n)
<1>1. l \in Nat /\ n \in Nat /\ 0 \in Nat BY LevelFacts, ShapeFacts
<1>2. Stage3Events(s, l) = a \o b \o c BY DEF Stage3Events
<1>3. Orderly(a, l, {"prefix_slot"}, {}) /\ Orderly(b, l, {"setup_claim"}, {})
  BY <1>1, OrderlyAt, NameFacts
<1>4. Orderly(c, l, {"Stage3"}, {"Stage3"}) BY <1>1, OrderlyRounds DEF RoundNames
<1> HIDE DEF a, b, c
<1>5. Orderly(a \o b, l, {"prefix_slot", "setup_claim"}, {})
  BY <1>3, OrderlyConcat DEF Untested
<1>6. Orderly(a \o b \o c, l, {"prefix_slot", "setup_claim", "Stage3"}, {"Stage3"})
  BY <1>4, <1>5, OrderlyConcat DEF Untested
<1> QED BY <1>2, <1>6

\* A product stage binds its child claims before they are batched.
LEMMA ProductPiece ==
  ASSUME NEW l \in Nat, NEW j \in Nat, NEW n \in Nat
  PROVE  LET a == SaysRounds(l, "Stage1", j, n) \o Says(<<Site(l, "child_claims", j, 0)>>)
                  \o Asks(<<Site(l, "Stage1InterstageBatch", j, 0)>>)
         IN  /\ Orderly(a, l, {"Stage1", "child_claims"}, {"Stage1", "Stage1InterstageBatch"})
             /\ a \in Seq(IndexSet(l, {"Stage1", "child_claims", "Stage1InterstageBatch"}, j))
<1> DEFINE u == Site(l, "child_claims", j, 0)
           v == Site(l, "Stage1InterstageBatch", j, 0)
           b == SaysRounds(l, "Stage1", j, n)
           c == Says(<<u>>)
           d == Asks(<<v>>)
           N == {"Stage1", "child_claims", "Stage1InterstageBatch"}
           S == IndexSet(l, N, j)
<1>1. u \in Places /\ v \in Places BY SiteType, NameFacts
<1>2. u[1] = l /\ u[2] = "child_claims" /\ u[3] = j /\ v[1] = l
          /\ v[2] = "Stage1InterstageBatch" /\ v[3] = j
  BY DEF Site
<1>3. b \in Seq(IndexSet(l, {"Stage1"}, j)) /\ Orderly(b, l, {"Stage1"}, {"Stage1"})
  BY RoundsInOrder, OrderlyRounds DEF RoundNames
<1> HIDE DEF u, v, b
<1>4. c = <<<<"absorb", u, "good">>>> /\ d = <<<<"draw", v, "good">>>> BY DEF Says, Asks, Event
<1>5. <<"absorb", u, "good">> \in S /\ <<"draw", v, "good">> \in S
  BY <1>1, <1>2 DEF IndexSet, EventSet
<1>6. IndexSet(l, {"Stage1"}, j) \subseteq S BY DEF IndexSet
<1>7. Orderly(c, l, {"child_claims"}, {}) /\ Orderly(d, l, {}, {"Stage1InterstageBatch"})
  <2> DEFINE A == {"child_claims"}
             B == {"Stage1InterstageBatch"}
             p == <<u>>
             q == <<v>>
  <2>1. p \in Seq(Places) /\ Len(p) = 1 /\ p[1] = u /\ q \in Seq(Places) /\ Len(q) = 1
            /\ q[1] = v
    BY <1>1
  <2> HIDE DEF p, q
  <2>2. (\A i \in 1 .. Len(p) : p[i][1] = l /\ p[i][2] \in A)
            /\ (\A i \in 1 .. Len(q) : q[i][1] = l /\ q[i][2] \in B)
    BY <1>2, <2>1
  <2> HIDE DEF A, B
  <2>3. Orderly(Says(p), l, A, {}) BY <2>1, <2>2, OrderlySays
  <2>4. Orderly(Asks(q), l, {}, B) BY <2>1, <2>2, OrderlySays
  <2> QED BY <2>3, <2>4 DEF p, q, A, B
<1> HIDE DEF S
<1>8. b \in Seq(S) /\ c \in Seq(S) /\ d \in Seq(S)
  <2> DEFINE T == IndexSet(l, {"Stage1"}, j)
             x == <<"absorb", u, "good">>
             y == <<"draw", v, "good">>
  <2>1. T \subseteq S /\ b \in Seq(T) /\ x \in S /\ y \in S /\ c = <<x>> /\ d = <<y>>
    BY <1>3, <1>4, <1>5, <1>6
  <2> HIDE DEF T, x, y, c, d
  <2>2. b \in Seq(S) BY <2>1
  <2> QED BY <2>1, <2>2, Single
<1> HIDE DEF c, d
<1>9. b \o c \in Seq(S) BY <1>8, ConcatFacts
<1>10. b \o c \o d \in Seq(S) BY <1>8, <1>9, ConcatFacts
<1>11. Orderly(b \o c, l, {"Stage1", "child_claims"}, {"Stage1"})
  BY <1>3, <1>7, OrderlyConcat DEF Untested, MustPrecede
<1>12. Orderly(b \o c \o d, l, {"Stage1", "child_claims"}, {"Stage1", "Stage1InterstageBatch"})
  BY <1>7, <1>11, OrderlyConcat DEF Untested
<1> QED BY <1>10, <1>12 DEF b, c, d, u, v, S

\* The range proof is in order, each stage on its own index.
LEMMA Stage1Orderly ==
  ASSUME NEW s \in Schedules, NEW l \in 1 .. LevelCount(s)
  PROVE  Orderly(Stage1Events(s, l), l, {"Stage1", "child_claims", "range_image"},
                 {"Stage1", "Stage1InterstageBatch"})
<1> DEFINE m == s.levels[l].products
           n == s.levels[l].rounds
           piece(j) == SaysRounds(l, "Stage1", j, n) \o Says(<<Site(l, "child_claims", j, 0)>>)
                       \o Asks(<<Site(l, "Stage1InterstageBatch", j, 0)>>)
           f == [j \in 1 .. m |-> piece(j)]
           a == FlattenSeq(f)
           b == SaysRounds(l, "Stage1", m + 1, n)
           c == Says(At(l, "range_image"))
           N == {"Stage1", "child_claims", "Stage1InterstageBatch"}
           A == {"Stage1", "child_claims"}
           D == {"Stage1", "Stage1InterstageBatch"}
           S == LevelSet(l, A, D)
<1>1. l \in Nat /\ m \in Nat /\ m + 1 \in Nat /\ n \in Nat BY LevelFacts, ScheduleAssumption, SMTT(30)
<1>2. ProductEvents(s, l) = a /\ LeafEvents(s, l) = b \o c BY DEF ProductEvents, LeafEvents
<1>3. \A j \in Nat : Orderly(piece(j), l, A, D) /\ piece(j) \in Seq(IndexSet(l, N, j))
  BY <1>1, ProductPiece
<1>4. /\ b \in Seq(IndexSet(l, {"Stage1"}, m + 1)) /\ Orderly(b, l, {"Stage1"}, {"Stage1"})
      /\ Orderly(c, l, {"range_image"}, {})
  BY <1>1, RoundsInOrder, OrderlyRounds, OrderlyAt, NameFacts DEF RoundNames
<1>5. b \in Seq(EventSet) BY <1>4, LevelSetFacts DEF Orderly
<1>6. \A h, q \in N : <<h, q>> \notin MustPrecede BY DEF MustPrecede
<1> HIDE DEF piece, b, c, m, n
<1>7. \A j \in Nat : piece(j) \in Seq(S) /\ InOrder(piece(j)) BY <1>3 DEF Orderly
<1>8. S \subseteq EventSet BY DEF LevelSet
<1> HIDE DEF S, A, D
<1>9. f \in [1 .. m -> Seq(S)] BY <1>7
<1>10. f \in [1 .. m -> Seq(EventSet)] BY <1>8, <1>9
<1>11. ASSUME NEW i \in Nat, NEW j \in Nat, i # j PROVE Apart(piece(i), piece(j))
  <2>1. piece(i) \in Seq(IndexSet(l, N, i)) /\ piece(j) \in Seq(IndexSet(l, N, j)) BY <1>3
  <2> HIDE DEF N
  <2> QED BY <1>6, <1>11, <2>1, IndexApart
<1>12. ASSUME NEW i \in 1 .. m PROVE Apart(piece(i), b)
  <2> DEFINE M == {"Stage1"}
             k == m + 1
  <2>1. i # k /\ i \in Nat BY <1>1
  <2>2. \A h \in M, q \in N : <<h, q>> \notin MustPrecede BY <1>6
  <2>3. piece(i) \in Seq(IndexSet(l, N, i)) /\ b \in Seq(IndexSet(l, M, k)) BY <1>3, <1>4, <2>1
  <2> HIDE DEF M, N, k
  <2> QED BY <2>1, <2>2, <2>3, IndexApart
<1>13. /\ \A i \in 1 .. m : InOrder(f[i]) /\ Apart(f[i], b)
       /\ \A i, j \in 1 .. m : i < j => Apart(f[i], f[j])
  BY <1>1, <1>7, <1>11, <1>12
<1> HIDE DEF f
<1>14. InOrder(a) /\ Apart(a, b) BY <1>1, <1>5, <1>10, <1>13, FlattenInOrder
<1>15. a \in Seq(S) BY <1>1, <1>9, FlattenType
<1>16. a \in Seq(EventSet) BY <1>8, <1>15
<1> HIDE DEF a
<1>17. Orderly(a, l, A, D) BY <1>14, <1>15 DEF Orderly, S
<1>18. Orderly(a \o b, l, A, D)
  <2>1. InOrder(a \o b) BY <1>4, <1>5, <1>14, <1>16, InOrderConcat DEF Orderly
  <2>2. LevelSet(l, {"Stage1"}, {"Stage1"}) \subseteq S BY DEF LevelSet, S, A, D
  <2>3. b \in Seq(S) BY <1>4, <2>2 DEF Orderly
  <2>4. a \o b \in Seq(S) BY <1>15, <2>3, ConcatFacts
  <2> QED BY <2>1, <2>4 DEF Orderly, S
<1> DEFINE X == {"Stage1", "child_claims", "range_image"}
<1>19. Orderly((a \o b) \o c, l, X, D)
  <2>1. Untested({"range_image"}, D) BY DEF Untested, MustPrecede, D
  <2>2. A \subseteq X /\ {"range_image"} \subseteq X /\ D \subseteq D /\ {} \subseteq D
    BY DEF A
  <2> DEFINE R == {"range_image"}
  <2>3. Orderly(c, l, R, {}) /\ Untested(R, D) /\ R \subseteq X BY <1>4, <2>1, <2>2
  <2> HIDE DEF R, X
  <2> QED BY <1>18, <2>2, <2>3, OrderlyConcat
<1>20. CASE s.levels[l].route = "linf"
  <2>1. Stage1Events(s, l) = a \o (b \o c) BY <1>2, <1>20 DEF Stage1Events, When
  <2>2. c \in Seq(EventSet) BY <1>4, LevelSetFacts DEF Orderly
  <2>3. (a \o b) \o c = a \o (b \o c) BY <1>5, <1>16, <2>2, ConcatAssoc
  <2> QED BY <1>19, <2>1, <2>3 DEF D
<1>21. CASE s.levels[l].route # "linf"
  <2>1. Stage1Events(s, l) = a \o <<>> BY <1>2, <1>21 DEF Stage1Events, When
  <2>2. a \o <<>> = a BY <1>16, EmptyConcat
  <2>3. LevelSet(l, A, D) \subseteq LevelSet(l, X, D) BY DEF LevelSet, A
  <2>4. a \in Seq(LevelSet(l, X, D)) BY <1>15, <2>3 DEF S
  <2>5. Orderly(a, l, X, D) BY <1>14, <2>4 DEF Orderly
  <2> QED BY <2>1, <2>2, <2>5 DEF D
<1> QED BY <1>20, <1>21

\* What a level draws up to its fold, its ring switch, its range proof, its norm
\* proof and its relation.
FoldDraws ==
  {"ExtensionOpeningPoint", "ExtensionOpeningClaimBatch", "Eor", "EvaluationBatch",
   "FoldResponse", "FoldChallengeGroup"}
SwitchDraws == FoldDraws \cup {"RingSwitchAlpha", "Tau0Point", "Tau1Point"}
RangeDraws == SwitchDraws \cup {"Stage1", "Stage1InterstageBatch"}
NormDraws == RangeDraws \cup {"L2SubclaimBatch", "L2NormMerge", "PhysicalL2", "L2VirtualBatch"}
RelationDraws == NormDraws \cup {"CompressionBinary", "Stage2Batch", "Stage2"}

\* One more part of a level.
LEMMA Extend ==
  ASSUME NEW l, NEW D, NEW B, NEW E, NEW Y, NEW a,
         NEW b, Orderly(a, l, Names, D), Orderly(b, l, B, E),
         Untested(B, D), B \subseteq Names, D \subseteq Y, E \subseteq Y
  PROVE  Orderly(a \o b, l, Names, Y)
BY OrderlyConcat

\* A level is in order up to its fold: claims, partials and payload precede the
\* fold challenges.
LEMMA FoldedOrderly ==
  ASSUME NEW s \in Schedules, NEW l \in 1 .. Terminal(s)
  PROVE  Orderly(Folded(s, l), l, Names, FoldDraws)
<1> DEFINE a == LevelStart(s, l)
           b == When(Reduces(s, l), EorEvents(s, l))
           c == IF l = Terminal(s) THEN Says(At(l, "e_hat")) ELSE PayloadEvents(s, l)
           d == FoldEvents(s, l)
           A == {"shape", "commitment", "points", "values"}
           B == {"eor_partials", "Eor", "eor_final", "points"}
           C == {"payload", "e_hat"}
           Y == {"ExtensionOpeningPoint", "ExtensionOpeningClaimBatch", "Eor"}
           Z == {"ExtensionOpeningPoint", "ExtensionOpeningClaimBatch", "Eor",
               "EvaluationBatch"}
           U == {"FoldResponse", "FoldChallengeGroup"}
           V == {"EvaluationBatch"}
<1>1. l \in Nat BY LevelFacts
<1>2. Folded(s, l) = a \o b \o c \o d BY DEF Folded, Bound, Opened
<1>3. Orderly(a, l, A, {}) BY StartOrderly
<1>4. Orderly(b, l, B, Y) BY EorOrderly, OrderlyWhen
<1>5. Orderly(c, l, C, V)
  <2> DEFINE x == Says(At(l, "payload"))
             y == Asks(At(l, "EvaluationBatch"))
             w == When(RowBatch(s, l), y)
             e == Says(At(l, "e_hat"))
             o == <<>>
  <2>1. Orderly(x, l, {"payload"}, {}) /\ Orderly(y, l, {}, V) /\ Orderly(e, l, {"e_hat"}, {})
    BY <1>1, OrderlyAt, NameFacts
  <2>2. Orderly(w, l, {}, V) BY <2>1, OrderlyWhen
  <2>3. PayloadEvents(s, l) = x \o w BY DEF PayloadEvents
  <2>4. Orderly(o, l, {}, {}) BY DEF Orderly, InOrder
  <2>5. e \o o = e
    <3>1. e \in Seq(EventSet) BY <2>1, LevelSetFacts DEF Orderly
    <3> HIDE DEF e
    <3> QED BY <3>1, EmptyConcat
  <2> HIDE DEF x, w, e, o
  <2>6. Orderly(x \o w, l, C, V) BY <2>1, <2>2, OrderlyConcat DEF Untested
  <2>7. Orderly(e \o o, l, C, V) BY <2>1, <2>4, OrderlyConcat DEF Untested
  <2> QED BY <2>3, <2>5, <2>6, <2>7 DEF e
<1>6. Orderly(d, l, {}, U) BY FoldOrderly
<1> HIDE DEF a, b, c, d
<1>7. Untested(B, {}) /\ A \subseteq Names /\ B \subseteq Names /\ {} \subseteq Y
          /\ Y \subseteq Y
  BY DEF Untested, Names
<1>8. Untested(C, Y) /\ C \subseteq Names /\ Y \subseteq Z /\ V \subseteq Z
  BY DEF Untested, MustPrecede, Names
<1>9. Untested({}, Z) /\ {} \subseteq Names /\ Z \subseteq FoldDraws /\ U \subseteq FoldDraws
  BY DEF Untested, FoldDraws
<1> HIDE DEF A, B, C, Y, Z, U, V
<1>10. Orderly(a \o b, l, Names, Y) BY <1>3, <1>4, <1>7, OrderlyConcat
<1>11. Orderly(a \o b \o c, l, Names, Z) BY <1>5, <1>8, <1>10, Extend
<1>12. Orderly(a \o b \o c \o d, l, Names, FoldDraws) BY <1>6, <1>9, <1>11, Extend
<1> QED BY <1>2, <1>12

\* A whole level is in order.
LEMMA LevelOrderly ==
  ASSUME NEW s \in Schedules, NEW l \in 1 .. LevelCount(s)
  PROVE  Orderly(LevelEvents(s, l), l, Names, Names)
<1> DEFINE a == Folded(s, l)
           b == Says(At(l, "next_binding"))
           c == SwitchEvents(l)
           d == Stage1Events(s, l)
           e == When(s.levels[l].route # "linf", NormEvents(s, l))
           f == Stage2Events(s, l)
           g == When(Defers(s, l), Stage3Events(s, l))
           B == {"next_binding"}
           D == {"Stage1", "child_claims", "range_image"}
           E == {"norm_integer", "norm_subclaims", "PhysicalL2", "norm_virtual", "range_image"}
           F == {"Stage2", "next_w_eval"}
           G == {"prefix_slot", "setup_claim", "Stage3"}
           W == {"RingSwitchAlpha", "Tau0Point", "Tau1Point"}
           X == {"Stage1", "Stage1InterstageBatch"}
           Y == {"L2SubclaimBatch", "L2NormMerge", "PhysicalL2", "L2VirtualBatch"}
           Z == {"CompressionBinary", "Stage2Batch", "Stage2"}
           V == {"Stage3"}
<1>1. l \in Nat /\ l \in 1 .. Terminal(s) BY LevelFacts
<1>2. LevelEvents(s, l) = a \o b \o c \o d \o e \o f \o g
  BY DEF LevelEvents, Related, Normed, Ranged, Switched, Rebound
<1>3. Orderly(a, l, Names, FoldDraws) BY <1>1, FoldedOrderly
<1>4. Orderly(b, l, B, {}) BY <1>1, OrderlyAt, NameFacts
<1>5. Orderly(c, l, {}, W) BY <1>1, SwitchOrderly
<1>6. Orderly(d, l, D, X) BY Stage1Orderly
<1>7. Orderly(e, l, E, Y) BY NormOrderly, OrderlyWhen
<1>8. Orderly(f, l, F, Z) BY Stage2Orderly
<1>9. Orderly(g, l, G, V)
  <2>1. Defers(s, l) => Orderly(Stage3Events(s, l), l, G, V) BY Stage3Orderly
  <2> QED BY <2>1, OrderlyWhen
<1> HIDE DEF a, b, c, d, e, f, g
<1>10. Untested(B, FoldDraws) /\ B \subseteq Names /\ FoldDraws \subseteq FoldDraws
           /\ {} \subseteq FoldDraws
  BY DEF Untested, MustPrecede, FoldDraws, Names
<1>11. Untested({}, FoldDraws) /\ {} \subseteq Names /\ FoldDraws \subseteq SwitchDraws
           /\ W \subseteq SwitchDraws
  BY DEF Untested, SwitchDraws
<1>12. Untested(D, SwitchDraws) /\ D \subseteq Names /\ SwitchDraws \subseteq RangeDraws
           /\ X \subseteq RangeDraws
  BY DEF Untested, MustPrecede, FoldDraws, SwitchDraws, RangeDraws, Names
<1>13. Untested(E, RangeDraws) /\ E \subseteq Names /\ RangeDraws \subseteq NormDraws
           /\ Y \subseteq NormDraws
  BY DEF Untested, MustPrecede, FoldDraws, SwitchDraws, RangeDraws, NormDraws, Names
<1>14. Untested(F, NormDraws) /\ F \subseteq Names /\ NormDraws \subseteq RelationDraws
           /\ Z \subseteq RelationDraws
  BY DEF Untested, MustPrecede, FoldDraws, SwitchDraws, RangeDraws, NormDraws,
    RelationDraws, Names
<1>15. Untested(G, RelationDraws) /\ G \subseteq Names /\ RelationDraws \subseteq Names
           /\ V \subseteq Names
  BY DEF Untested, MustPrecede, FoldDraws, SwitchDraws, RangeDraws, NormDraws,
    RelationDraws, Names
<1> HIDE DEF B, D, E, F, G, W, X, Y, Z, V
<1>16. Orderly(a \o b, l, Names, FoldDraws) BY <1>3, <1>4, <1>10, Extend
<1>17. Orderly(a \o b \o c, l, Names, SwitchDraws) BY <1>5, <1>11, <1>16, Extend
<1>18. Orderly(a \o b \o c \o d, l, Names, RangeDraws) BY <1>6, <1>12, <1>17, Extend
<1>19. Orderly(a \o b \o c \o d \o e, l, Names, NormDraws) BY <1>7, <1>13, <1>18, Extend
<1>20. Orderly(a \o b \o c \o d \o e \o f, l, Names, RelationDraws)
  BY <1>8, <1>14, <1>19, Extend
<1>21. Orderly(a \o b \o c \o d \o e \o f \o g, l, Names, Names) BY <1>9, <1>15, <1>20, Extend
<1> QED BY <1>2, <1>21

\* So is the terminal.
LEMMA EndedOrderly ==
  ASSUME NEW s \in Schedules
  PROVE  Orderly(Ended(s), Terminal(s), Names, FoldDraws)
<1> DEFINE l == Terminal(s)
           a == Folded(s, l)
           b == Says(At(l, "w_remainder"))
           B == {"w_remainder"}
<1>1. l \in Nat /\ l \in 1 .. Terminal(s) BY LevelFacts
<1>2. Orderly(a, l, Names, FoldDraws) BY <1>1, FoldedOrderly
<1>3. Orderly(b, l, B, {}) BY <1>1, OrderlyAt, NameFacts
<1>4. Untested(B, FoldDraws) /\ B \subseteq Names /\ FoldDraws \subseteq FoldDraws
          /\ {} \subseteq FoldDraws
  BY DEF Untested, MustPrecede, FoldDraws, Names
<1>5. Ended(s) = a \o b BY DEF Ended
<1> HIDE DEF a, b, B, l
<1>6. Orderly(a \o b, l, Names, FoldDraws) BY <1>2, <1>3, <1>4, Extend
<1> QED BY <1>5, <1>6 DEF l

\* Queries test messages of their own level only.
LEMMA LevelsApart ==
  ASSUME NEW k, NEW l, k # l, NEW A, NEW D, NEW B, NEW E, NEW a,
         NEW b, Orderly(a, k, A, D), Orderly(b, l, B, E)
  PROVE  Apart(a, b)
<1>1. \A i \in 1 .. Len(a) : a[i][2][1] = k BY LevelSetFacts DEF Orderly
<1>2. \A i \in 1 .. Len(b) : b[i][2][1] = l BY LevelSetFacts DEF Orderly
<1>3. \A x, y : Answers(x, y) => x[1] = y[1] BY DEF Answers
<1> QED BY <1>1, <1>2, <1>3 DEF Apart, Tests

\* The whole run is in order.
LEMMA FullInOrder ==
  ASSUME NEW s \in Schedules
  PROVE  InOrder(Full(s))
<1> DEFINE n == LevelCount(s)
           t == Terminal(s)
           f == [k \in 1 .. n |-> LevelEvents(s, k)]
           z == Ended(s)
           d == Says(At(0, "descriptor"))
           e == FlattenSeq(f)
<1>1. n \in Nat /\ t = n + 1 /\ t - 1 = n /\ 0 \in Nat BY LevelFacts
<1>2. Full(s) = (d \o e) \o z BY <1>1 DEF Full, Before
<1>3. \A k \in 1 .. n : Orderly(LevelEvents(s, k), k, Names, Names) BY LevelOrderly
<1>4. Orderly(z, t, Names, FoldDraws) BY EndedOrderly
<1>5. z \in Seq(EventSet) /\ InOrder(z) BY <1>4, LevelSetFacts DEF Orderly
<1>6. \A k \in 1 .. n : f[k] = LevelEvents(s, k) OBVIOUS
<1>7. \A k \in 1 .. n : f[k] \in Seq(EventSet) /\ InOrder(f[k])
  BY <1>3, <1>6, LevelSetFacts DEF Orderly
<1>8. f \in [1 .. n -> Seq(EventSet)] BY <1>7
<1>9. Orderly(d, 0, {"descriptor"}, {}) BY <1>1, OrderlyAt, NameFacts
<1> HIDE DEF f, z, d, n, t
<1>10. \A k \in 1 .. n : Apart(f[k], z)
  <2> SUFFICES ASSUME NEW k \in 1 .. n PROVE Apart(f[k], z) OBVIOUS
  <2>1. k # t /\ Orderly(f[k], k, Names, Names) BY <1>1, <1>3, <1>6
  <2> QED BY <1>4, <2>1, LevelsApart
<1>11. \A j, k \in 1 .. n : j < k => Apart(f[j], f[k])
  <2> SUFFICES ASSUME NEW j \in 1 .. n, NEW k \in 1 .. n, j < k PROVE Apart(f[j], f[k]) OBVIOUS
  <2>1. j # k /\ Orderly(f[j], j, Names, Names) /\ Orderly(f[k], k, Names, Names)
    BY <1>1, <1>3, <1>6
  <2> QED BY <2>1, LevelsApart
<1>12. InOrder(e) /\ Apart(e, z) BY <1>1, <1>5, <1>7, <1>8, <1>10, <1>11, FlattenInOrder
<1>13. e \in Seq(EventSet) BY <1>1, <1>8, FlattenType
<1>14. d \in Seq(EventSet) /\ InOrder(d) /\ \A i \in 1 .. Len(d) : d[i][1] # "draw"
  BY <1>9, LevelSetFacts DEF Orderly
<1> HIDE DEF e
<1>15. Apart(d, e) /\ Apart(d, z) BY <1>14 DEF Apart, Tests
<1>16. InOrder(d \o e) BY <1>12, <1>13, <1>14, <1>15, InOrderConcat
<1>17. Apart(d \o e, z) BY <1>5, <1>12, <1>13, <1>14, <1>15, ApartConcat
<1>18. d \o e \in Seq(EventSet) BY <1>13, <1>14, ConcatFacts
<1>19. InOrder((d \o e) \o z) BY <1>5, <1>16, <1>17, <1>18, InOrderConcat
<1> QED BY <1>2, <1>19

\* For every schedule, each challenge of an accepted transcript comes after the
\* messages of its level that it tests.
THEOREM ChallengesFollowMessages == Spec => []BoundBeforeDrawn
<1>1. ASSUME IInv PROVE BoundBeforeDrawn
  <2> SUFFICES ASSUME vpc = "accepted", NEW i \in DOMAIN vtr, NEW j \in DOMAIN vtr,
                      vtr[i][1] = "absorb", vtr[j][1] = "draw", Answers(vtr[i][2], vtr[j][2])
               PROVE  i < j
    BY DEF BoundBeforeDrawn
  <2>1. sched \in Schedules /\ Same(vtr, Full(sched)) BY <1>1, AcceptedAt
  <2> DEFINE F == Full(sched)
  <2>2. InOrder(F) BY <2>1, FullInOrder
  <2>3. /\ vtr \in Seq(EventSet) /\ Len(vtr) = Len(F)
        /\ \A k \in 1 .. Len(F) : vtr[k][1] = F[k][1] /\ vtr[k][2] = F[k][2]
    BY <2>1 DEF Same
  <2> HIDE DEF F
  <2>4. i \in 1 .. Len(F) /\ j \in 1 .. Len(F) BY <2>3
  <2>5. Tests(F[i], F[j]) BY <2>3, <2>4 DEF Tests
  <2> QED BY <2>2, <2>4, <2>5 DEF InOrder
<1> QED BY <1>1, FoldInduction, PTL

-----------------------------------------------------------------------------
\* Types.

\* The variables the inductive invariant says nothing of, and where the
\* verifier stopped.
RestOK ==
  /\ ptries \in 0 .. MaxTries
  /\ vwitness \in Bindings \cup {"none"} /\ vprefix \in BOOLEAN /\ vtaint \in BOOLEAN
  /\ vpc = "rejected" => vlevel \in 1 .. Terminal(sched) /\ vcur \in 0 .. PlanLen

\* Where the verifier is, wherever it stopped.
LEMMA VerifierPlace ==
  ASSUME IInv, RestOK
  PROVE  vlevel \in 1 .. Terminal(sched) /\ vcur \in 0 .. PlanLen
<1>1. ProverAt /\ sched \in Schedules BY DEF IInv, ProverAt
<1>2. PlanLen \in Nat /\ LevelCount(sched) \in Nat \ {0}
          /\ Terminal(sched) = LevelCount(sched) + 1
  BY <1>1, PlanLenNat
<1>3. CASE vpc = "rejected" BY <1>3 DEF RestOK
<1>4. CASE vlevel = 1 /\ vcur = 0 BY <1>2, <1>4
<1>5. CASE ReplayAt(vlevel, vpc)
  <2>1. vcur \in 0 .. PlanLen BY <1>1, <1>5, ReplayCount
  <2>2. vlevel \in 1 .. Terminal(sched) BY <1>1, <1>5, ReachedBegins DEF ReplayAt
  <2> QED BY <2>1, <2>2
<1> QED BY <1>3, <1>4, <1>5 DEF IInv, VerifierAt

\* The inductive invariant and the remaining types give the type invariant.
LEMMA TypesHold ==
  ASSUME IInv, RestOK
  PROVE  TypeOK
<1>1. ProverAt /\ sched \in Schedules /\ plan = Plan(sched) /\ Located(sched, plevel, ppc)
      /\ ptr = Reached(sched, plevel, ppc) /\ pcur = DrawCount(ptr)
  BY DEF IInv, ProverAt
<1>2. Legal(sched) /\ sched.levels \in Seq(Levels) BY <1>1, ScheduleAssumption
<1>3. \A l \in 1 .. LevelCount(sched) : sched.levels[l] \in Levels BY <1>2 DEF LevelCount
<1>4. plevel \in 1 .. Terminal(sched) /\ Begins(ptr, Full(sched)) BY <1>1, ReachedBegins
<1>5. pcur \in 0 .. PlanLen
  <2>1. PICK r \in Seq(EventSet) : Full(sched) = ptr \o r BY <1>4 DEF Begins
  <2>2. ptr \in Seq(EventSet) BY <1>4 DEF Begins
  <2>3. DrawCount(Full(sched)) = pcur + DrawCount(r) BY <1>1, <2>1, <2>2, CountConcat
  <2>4. DrawCount(r) \in Nat /\ pcur \in Nat BY <1>1, <2>2, DrawsFinite
  <2> QED BY <1>1, <2>3, <2>4, FullReached DEF PlanLen
<1>6. tamper \in Tampers BY DEF IInv, WireInv
<1> QED BY <1>2, <1>3, <1>4, <1>5, <1>6, VerifierPlace DEF TypeOK, RestOK

\* The remaining types are kept.
LEMMA RestKept ==
  ASSUME IInv, RestOK, [Next]_vars
  PROVE  RestOK'
<1>1. vlevel \in 1 .. Terminal(sched) /\ vcur \in 0 .. PlanLen BY VerifierPlace
<1>2. MaxTries \in Nat \ {0} BY TriesAssumption
<1>3. CASE Prove
  <2>1. UNCHANGED vvars /\ ProverNext BY <1>3 DEF Prove
  <2>2. vpc = "wait" BY <2>1, ProverRuns DEF IInv, WireInv
  <2>3. UNCHANGED <<vpc, vwitness, vprefix, vtaint>> BY <2>1 DEF vvars
  <2>4. ptries' \in 0 .. MaxTries
    <3>1. CASE ProveRoot \/ ProveClaims \/ ProveEor \/ BindPayload \/ BindTerminalEHat
      BY <3>1 DEF RestOK, ProveRoot, ProveClaims, ProveEor, BindPayload, BindTerminalEHat
    <3>2. CASE RejectNonce \/ CommitNonce
      BY <1>2, <3>2 DEF RestOK, RejectNonce, CommitNonce
    <3>3. CASE BindNextWitness \/ SwitchRing \/ ProveStage1 \/ ProveNorm \/ ProveStage2
              \/ ProveStage3
      BY <3>3 DEF RestOK, BindNextWitness, SwitchRing, ProveStage1, ProveNorm, ProveStage2,
        ProveStage3
    <3>4. CASE AdvanceProver \/ RespondTerminal \/ FinishProof
      BY <3>4 DEF RestOK, AdvanceProver, RespondTerminal, FinishProof
    <3> QED BY <2>1, <3>1, <3>2, <3>3, <3>4 DEF ProverNext
  <2> QED BY <2>2, <2>3, <2>4 DEF RestOK
<1>4. CASE Verify
  <2>1. VerifierNext /\ UNCHANGED <<sched, plan, ptries>> BY <1>4 DEF Verify, pvars
  <2>2. PlanLen' = PlanLen BY <2>1 DEF PlanLen
  <2> DEFINE Kept == /\ vwitness' \in Bindings \cup {"none"} /\ vprefix' \in BOOLEAN
                        /\ vtaint' \in BOOLEAN
                     /\ vpc' = "rejected" => vlevel' = vlevel /\ vcur' = vcur
  <2>3. Kept
    <3> USE DEF RestOK
    <3>1. CASE VerifyShape \/ OpenNonceStream
      BY <3>1 DEF VerifyShape, OpenNonceStream, Reject
    <3>2. CASE VerifyRoot \/ VerifyClaims \/ VerifyTerminalClaims
      BY <3>2 DEF VerifyRoot, VerifyClaims, VerifyTerminalClaims, VStep, Reject
    <3>3. CASE VerifyEor \/ VerifyPayload \/ VerifyTerminalEHat \/ DrawFoldChallenges
              \/ VerifyNextWitness
      BY <3>3 DEF VerifyEor, VerifyPayload, VerifyTerminalEHat, DrawFoldChallenges,
        VerifyNextWitness, VStep,
                  AfterClaims
    <3>4. CASE VerifyRingSwitch \/ VerifyStage1 \/ VerifyNormStage1
      BY <3>4 DEF VerifyRingSwitch, VerifyStage1, VerifyNormStage1, VStep, Reject
    <3>5. CASE VerifyStage2 \/ VerifyStage3 \/ VerifyTerminalResponse \/ FinishVerification
      BY <3>5 DEF VerifyStage2, VerifyStage3, VerifyTerminalResponse, FinishVerification, VStep
    <3>6. CASE AdvanceVerifier
      <4>1. vpc = "advance" /\ vwitness' = binding[vlevel] /\ vpc' = "claims"
                /\ UNCHANGED <<vprefix, vtaint>>
        BY <3>6 DEF AdvanceVerifier
      <4>2. Started BY <4>1 DEF Started
      <4>3. Located(sched, vlevel, vpc) /\ binding = HonestBinding BY <4>2, VerifierReady
      <4>4. vlevel \in 1 .. LevelCount(sched) BY <4>1, <4>3 DEF Located
      <4>5. binding \in [1 .. LevelCount(sched) -> Bindings] BY <4>3, BindingType
      <4> QED BY <4>1, <4>4, <4>5
    <3> QED BY <2>1, <3>1, <3>2, <3>3, <3>4, <3>5, <3>6 DEF VerifierNext
  <2> QED BY <1>1, <2>1, <2>2, <2>3 DEF RestOK
<1>5. CASE Ship \/ AlterMessage \/ AlterNonce \/ TogglePart \/ SwapBinding \/ ResizeStream
          \/ ResizeFolds
  <2>1. \E kind, values, stream, n, kinds : Deliver(kind, values, stream, n, kinds)
    BY <1>5, Zenon
    DEF Ship, AlterMessage, AlterNonce, TogglePart, SwapBinding, ResizeStream, ResizeFolds
  <2>2. vpc' = "shape" /\ UNCHANGED <<pvars, vwitness, vprefix, vtaint>> BY <2>1 DEF Deliver
  <2> QED BY <2>2 DEF RestOK, pvars
<1>6. CASE UNCHANGED vars
  BY <1>6 DEF vars, pvars, vvars, RestOK, PlanLen
<1> QED BY <1>3, <1>4, <1>5, <1>6 DEF Next

\* The type invariant holds of every behaviour: in particular no level and no
\* plan index is ever out of range.
THEOREM TypesAreKept == Spec => []TypeOK
<1>1. ASSUME Init PROVE RestOK
  <2>1. ptries = 0 /\ vpc = "wait" /\ vwitness = "none" /\ vprefix = FALSE /\ vtaint = FALSE
    BY <1>1 DEF Init, PInit, VInit
  <2>2. 0 \in 0 .. MaxTries BY TriesAssumption
  <2>3. vprefix \in BOOLEAN /\ vtaint \in BOOLEAN BY <2>1
  <2> QED BY <2>1, <2>2, <2>3 DEF RestOK
<1>2. IInv /\ RestOK /\ [Next]_vars => RestOK' BY RestKept
<1>3. IInv /\ RestOK => TypeOK BY TypesHold
<1> QED BY <1>1, <1>2, <1>3, FoldInduction, PTL DEF Spec
=============================================================================
