--------------------------- MODULE AlgorithmProofs ---------------------------
(***************************************************************************)
(* Proofs about the sequential algorithms, for every value of the          *)
(* constants their modules assume something of.                            *)
(*                                                                         *)
(* The fold of digit planes by sparse challenges (DecomposeFold): first    *)
(* what a finite sum is, then what each kernel adds to an accumulator,     *)
(* then the invariant of a tile, which says that the 32-bit and the 16-bit *)
(* accumulators together hold the sum over the blocks done and that the    *)
(* tile's bound bounds what the 16-bit ones hold.                          *)
(*                                                                         *)
(* The packed witness (PackedDigits): powers of two and bits, then what a  *)
(* writer holds after any number of turns of its loop, then what the       *)
(* readers return of it.                                                   *)
(*                                                                         *)
(* The terminal response (TailCodec): where a code lies in a payload, what *)
(* the two loops of the decoder return for every payload, then the three   *)
(* stages of a response, and the planner's bound by the energy cap.        *)
(***************************************************************************)
EXTENDS DecomposeFold, PackedDigits, TailCodec, WellFoundedInduction, FiniteSetTheorems, TLAPS

-----------------------------------------------------------------------------
\* Naturals.

\* Every nonempty set of naturals has a least element.
LEMMA LeastNumber ==
  ASSUME NEW T \in SUBSET Nat, T # {}
  PROVE  \E m \in T : \A k \in T : m <= k
<1>1. \E m \in T : \A k \in T : ~(<<k, m>> \in OpToRel(<, Nat))
  BY NatLessThanWellFounded, WFMin
<1>2. OpToRel(<, Nat) = {ss \in Nat \X Nat : ss[1] < ss[2]}
  BY Zenon DEF OpToRel
<1>3. PICK m \in T : \A k \in T : ~(<<k, m>> \in {ss \in Nat \X Nat : ss[1] < ss[2]})
  BY <1>1, <1>2, Zenon
<1>4. ASSUME NEW k \in T PROVE m <= k
  <2>1. <<k, m>> \in Nat \X Nat /\ <<k, m>>[1] = k /\ <<k, m>>[2] = m OBVIOUS
  <2>2. ~(<<k, m>>[1] < <<k, m>>[2]) BY <1>3, <2>1, Zenon
  <2> QED BY <2>1, <2>2
<1> QED BY <1>4

\* Induction up to a bound, stated for a set: this is how the loops of the
\* kernels are reasoned about.
LEMMA UpTo ==
  ASSUME NEW n \in Nat, NEW T, 0 \in T, \A i \in 0 .. n - 1 : i \in T => i + 1 \in T
  PROVE  \A i \in 0 .. n : i \in T
<1> SUFFICES ASSUME NEW j \in 0 .. n, j \notin T PROVE FALSE OBVIOUS
<1> DEFINE U == {i \in 0 .. n : i \notin T}
<1>1. U \in SUBSET Nat /\ U # {} OBVIOUS
<1>2. PICK m \in U : \A k \in U : m <= k BY <1>1, LeastNumber
<1>3. m # 0 /\ m - 1 \in 0 .. n - 1 /\ m - 1 \notin U BY <1>2
<1>4. m - 1 \in T BY <1>3
<1> QED BY <1>2, <1>3, <1>4

\* g[i] is the value of a loop after i of its n passes.
Loop(n, init, step, g) == g[0] = init /\ \A i \in 1 .. n : g[i] = step[<<g[i - 1], i>>]

\* A loop that stays in a set has a value after every pass.
LEMMA LoopExists ==
  ASSUME NEW n \in Nat, NEW S, NEW init \in S, NEW step \in [S \X (1 .. n) -> S]
  PROVE  \E g \in [0 .. n -> S] : Loop(n, init, step, g)
<1> DEFINE Upto(m, g) == /\ g \in [0 .. m -> S] /\ g[0] = init
                         /\ \A i \in 1 .. m : g[i] = step[<<g[i - 1], i>>]
           T == {m \in 0 .. n : \E g : Upto(m, g)}
<1>1. 0 \in T
  <2>1. Upto(0, [i \in 0 .. 0 |-> init]) OBVIOUS
  <2>2. 0 \in 0 .. n OBVIOUS
  <2> HIDE DEF Upto
  <2> QED BY <2>1, <2>2
<1>2. ASSUME NEW m \in 0 .. n - 1, m \in T PROVE m + 1 \in T
  <2>1. PICK g : Upto(m, g) BY <1>2
  <2> DEFINE last == step[<<g[m], m + 1>>]
             h == [i \in 0 .. m + 1 |-> IF i <= m THEN g[i] ELSE last]
  <2>2. g[m] \in S /\ m + 1 \in 1 .. n BY <2>1
  <2>3. last \in S BY <2>2
  <2>4. h \in [0 .. m + 1 -> S] BY <2>1, <2>3
  <2>5. ASSUME NEW i \in 1 .. m + 1 PROVE h[i] = step[<<h[i - 1], i>>]
    <3>1. CASE i <= m
      <4>1. h[i] = g[i] /\ h[i - 1] = g[i - 1] BY <3>1
      <4> QED BY <2>1, <3>1, <4>1
    <3>2. CASE i = m + 1
      <4>1. h[i] = last /\ h[i - 1] = g[m] BY <3>2
      <4> QED BY <3>2, <4>1
    <3> QED BY <3>1, <3>2
  <2>6. h[0] = init BY <2>1
  <2>7. Upto(m + 1, h) BY <2>4, <2>5, <2>6
  <2>8. m + 1 \in 0 .. n OBVIOUS
  <2> HIDE DEF Upto, h
  <2> QED BY <2>7, <2>8
<1>3. n \in T
  <2> HIDE DEF T
  <2>1. n \in 0 .. n OBVIOUS
  <2> QED BY <1>1, <1>2, <2>1, UpTo
<1> QED BY <1>3 DEF Loop

-----------------------------------------------------------------------------
\* Finite sums.

\* g is the list of the partial sums of s.
PartialSums(n, s, g) ==
  /\ g \in [0 .. n -> Int] /\ g[0] = 0
  /\ \A i \in 1 .. n : g[i] = g[i - 1] + s[i]

\* A sum is the last of its partial sums.
LEMMA SumIsPartial ==
  ASSUME NEW n \in Nat, NEW s \in [1 .. n -> Int]
  PROVE  \E g : PartialSums(n, s, g) /\ Sum(s) = g[n]
<1> DEFINE Rec(g) == g = [i \in 0 .. Len(s) |-> IF i = 0 THEN 0 ELSE g[i - 1] + s[i]]
           c == CHOOSE g : Rec(g)
           step == [p \in Int \X (1 .. n) |-> p[1] + s[p[2]]]
<1>1. Len(s) = n OBVIOUS
<1>2. Sum(s) = c[Len(s)] BY Zenon DEF Sum
<1>3. step \in [Int \X (1 .. n) -> Int] OBVIOUS
<1>4. PICK g \in [0 .. n -> Int] : Loop(n, 0, step, g)
  <2>1. PICK S : S = Int OBVIOUS
  <2>2. 0 \in S /\ step \in [S \X (1 .. n) -> S] BY <1>3, <2>1
  <2> HIDE DEF step
  <2>3. \E g \in [0 .. n -> S] : Loop(n, 0, step, g) BY <2>2, LoopExists
  <2> QED BY <2>1, <2>3
<1>5. \A i \in 1 .. n : g[i] = g[i - 1] + s[i]
  <2> SUFFICES ASSUME NEW i \in 1 .. n PROVE g[i] = g[i - 1] + s[i] OBVIOUS
  <2>1. <<g[i - 1], i>> \in Int \X (1 .. n) BY <1>4
  <2> QED BY <1>4, <2>1 DEF Loop
<1>6. Rec(g) BY <1>1, <1>4, <1>5 DEF Loop
<1>7. Rec(c)
  <2> HIDE DEF Rec
  <2> QED BY <1>6
<1> HIDE DEF c
<1>8. \A i \in 0 .. n : c[i] = g[i]
  <2> DEFINE T == {i \in 0 .. n : c[i] = g[i]}
  <2>1. 0 \in T BY <1>1, <1>4, <1>7 DEF Loop
  <2>2. ASSUME NEW i \in 0 .. n - 1, i \in T PROVE i + 1 \in T
    <3>1. i + 1 \in 0 .. n /\ i + 1 \in 1 .. n /\ (i + 1) - 1 = i /\ i + 1 # 0 OBVIOUS
    <3>2. c[i + 1] = c[i] + s[i + 1] BY <1>1, <1>7, <3>1
    <3>3. g[i + 1] = g[i] + s[i + 1] BY <1>5, <3>1
    <3> QED BY <2>2, <3>1, <3>2, <3>3
  <2>3. \A i \in 0 .. n : i \in T
    <3> HIDE DEF T
    <3> QED BY <2>1, <2>2, UpTo
  <2> QED BY <2>3
<1>9. PartialSums(n, s, g) BY <1>4, <1>5 DEF PartialSums, Loop
<1> QED BY <1>1, <1>2, <1>8, <1>9

\* There is only one list of partial sums.
LEMMA PartialUnique ==
  ASSUME NEW n \in Nat, NEW s \in [1 .. n -> Int], NEW g, NEW h,
         PartialSums(n, s, g), PartialSums(n, s, h)
  PROVE  \A i \in 0 .. n : g[i] = h[i]
<1> DEFINE T == {i \in 0 .. n : g[i] = h[i]}
<1>1. 0 \in T BY DEF PartialSums
<1>2. ASSUME NEW i \in 0 .. n - 1, i \in T PROVE i + 1 \in T
  <2>1. i + 1 \in 1 .. n /\ (i + 1) - 1 = i OBVIOUS
  <2>2. g[i + 1] = g[i] + s[i + 1] /\ h[i + 1] = h[i] + s[i + 1] BY <2>1 DEF PartialSums
  <2> QED BY <1>2, <2>1, <2>2
<1>3. \A i \in 0 .. n : i \in T
  <2> HIDE DEF T
  <2> QED BY <1>1, <1>2, UpTo
<1> QED BY <1>3

\* Whatever has the partial sums' recurrence ends in the sum.
LEMMA SumBy ==
  ASSUME NEW n \in Nat, NEW s \in [1 .. n -> Int], NEW g, PartialSums(n, s, g)
  PROVE  Sum(s) = g[n]
<1>1. PICK h : PartialSums(n, s, h) /\ Sum(s) = h[n] BY SumIsPartial
<1> QED BY <1>1, PartialUnique

\* A sum of integers is an integer.
LEMMA SumInt ==
  ASSUME NEW n \in Nat, NEW s \in [1 .. n -> Int]
  PROVE  Sum(s) \in Int
<1>1. PICK h : PartialSums(n, s, h) /\ Sum(s) = h[n] BY SumIsPartial
<1> QED BY <1>1 DEF PartialSums

\* The sum of the first m entries.
SumTo(s, m) == Sum([i \in 1 .. m |-> s[i]])

\* The sums of the first entries are the partial sums.
LEMMA SumToSums ==
  ASSUME NEW n \in Nat, NEW s \in [1 .. n -> Int]
  PROVE  /\ \A m \in 0 .. n : SumTo(s, m) \in Int
         /\ SumTo(s, 0) = 0 /\ SumTo(s, n) = Sum(s)
         /\ \A m \in 1 .. n : SumTo(s, m) = SumTo(s, m - 1) + s[m]
<1>1. PICK h : PartialSums(n, s, h) /\ Sum(s) = h[n] BY SumIsPartial
<1>2. ASSUME NEW m \in 0 .. n PROVE SumTo(s, m) = h[m]
  <2> DEFINE r == [i \in 1 .. m |-> s[i]]
             g == [i \in 0 .. m |-> h[i]]
  <2>1. r \in [1 .. m -> Int] OBVIOUS
  <2>2. PartialSums(m, r, g) BY <1>1 DEF PartialSums
  <2> HIDE DEF r
  <2>3. Sum(r) = g[m] BY <2>1, <2>2, SumBy
  <2> QED BY <2>3 DEF SumTo, r
<1>3. n \in 0 .. n /\ 0 \in 0 .. n OBVIOUS
<1>4. \A m \in 1 .. n : m \in 0 .. n /\ m - 1 \in 0 .. n OBVIOUS
<1> QED BY <1>1, <1>2, <1>3, <1>4 DEF PartialSums

\* The sum of one entry more.
LEMMA SumSnoc ==
  ASSUME NEW n \in Nat, NEW s \in [1 .. n + 1 -> Int]
  PROVE  Sum(s) = Sum([i \in 1 .. n |-> s[i]]) + s[n + 1]
<1>1. n + 1 \in 1 .. n + 1 /\ (n + 1) - 1 = n /\ n + 1 \in Nat OBVIOUS
<1>2. SumTo(s, n + 1) = Sum(s) /\ SumTo(s, n + 1) = SumTo(s, n) + s[n + 1] BY <1>1, SumToSums
<1> QED BY <1>2 DEF SumTo

\* The sum of two lists entry by entry.
LEMMA SumAdd ==
  ASSUME NEW n \in Nat, NEW s \in [1 .. n -> Int], NEW r \in [1 .. n -> Int],
         NEW u \in [1 .. n -> Int], \A i \in 1 .. n : u[i] = s[i] + r[i]
  PROVE  Sum(u) = Sum(s) + Sum(r)
<1>1. PICK g : PartialSums(n, s, g) /\ Sum(s) = g[n] BY SumIsPartial
<1>2. PICK h : PartialSums(n, r, h) /\ Sum(r) = h[n] BY SumIsPartial
<1> DEFINE f == [i \in 0 .. n |-> g[i] + h[i]]
<1>3. PartialSums(n, u, f) BY <1>1, <1>2 DEF PartialSums
<1>4. Sum(u) = f[n] BY <1>3, SumBy
<1> QED BY <1>1, <1>2, <1>4

\* A list with at most one entry that is not zero.
LEMMA SumSingle ==
  ASSUME NEW n \in Nat, NEW s \in [1 .. n -> Int], NEW j \in 1 .. n,
         \A i \in 1 .. n : i # j => s[i] = 0
  PROVE  Sum(s) = s[j]
<1> DEFINE g == [i \in 0 .. n |-> IF i < j THEN 0 ELSE s[j]]
<1>1. PartialSums(n, s, g) BY DEF PartialSums
<1>2. Sum(s) = g[n] BY <1>1, SumBy
<1> QED BY <1>2

\* A list of zeros.
LEMMA SumZero ==
  ASSUME NEW n \in Nat, NEW s \in [1 .. n -> Int], \A i \in 1 .. n : s[i] = 0
  PROVE  Sum(s) = 0
<1> DEFINE g == [i \in 0 .. n |-> 0]
<1>1. PartialSums(n, s, g) BY DEF PartialSums
<1>2. Sum(s) = g[n] BY <1>1, SumBy
<1> QED BY <1>2

\* The sums of the first entries of a list without negative ones grow.
LEMMA SumToGrows ==
  ASSUME NEW n \in Nat, NEW s \in [1 .. n -> Nat], NEW m \in 0 .. n
  PROVE  \A i \in m .. n : SumTo(s, i) \in Nat /\ SumTo(s, m) <= SumTo(s, i) /\ SumTo(s, m) \in Nat
<1>1. s \in [1 .. n -> Int] OBVIOUS
<1>2. /\ \A i \in 0 .. n : SumTo(s, i) \in Int
      /\ SumTo(s, 0) = 0 /\ \A i \in 1 .. n : SumTo(s, i) = SumTo(s, i - 1) + s[i]
  BY <1>1, SumToSums
<1> DEFINE T == {i \in 0 .. n : SumTo(s, i) >= 0 /\ (i >= m => SumTo(s, m) <= SumTo(s, i))}
<1>3. 0 \in T BY <1>2
<1>4. ASSUME NEW i \in 0 .. n - 1, i \in T PROVE i + 1 \in T
  <2>1. i + 1 \in 1 .. n /\ i + 1 \in 0 .. n /\ (i + 1) - 1 = i OBVIOUS
  <2>2. SumTo(s, i + 1) = SumTo(s, i) + s[i + 1] /\ s[i + 1] \in Nat BY <1>2, <2>1
  <2>3. SumTo(s, i) \in Int /\ SumTo(s, m) \in Int /\ SumTo(s, i + 1) \in Int BY <1>2, <2>1
  <2>4. CASE i >= m BY <1>4, <2>1, <2>2, <2>3, <2>4
  <2>5. CASE i + 1 <= m
    <3>1. i + 1 >= m => i + 1 = m BY <2>5
    <3> QED BY <1>4, <2>1, <2>2, <2>3, <3>1
  <2> QED BY <2>4, <2>5
<1>5. \A i \in 0 .. n : i \in T
  <2> HIDE DEF T
  <2> QED BY <1>3, <1>4, UpTo
<1> QED BY <1>2, <1>5

-----------------------------------------------------------------------------
\* Integers.

\* Multiplication by a natural is monotone.
LEMMA TimesGrows ==
  ASSUME NEW b \in Nat, NEW x \in Int, NEW y \in Int, x <= y
  PROVE  b * x <= b * y
<1>1. b * (y - x) >= 0
  <2>1. y - x \in Nat OBVIOUS
  <2>2. \A u, v \in Nat : u * v \in Nat OBVIOUS
  <2> QED BY <2>1, <2>2
<1>2. b * (y - x) = b * y - b * x OBVIOUS
<1> QED BY <1>1, <1>2

\* The size of a product and of a sum.
LEMMA AbsFacts ==
  ASSUME NEW x \in Int, NEW y \in Int
  PROVE  /\ Abs(x) \in Nat /\ Abs(-x) = Abs(x) /\ Abs(0) = 0
         /\ Abs(x + y) <= Abs(x) + Abs(y)
         /\ Abs(x * y) = Abs(x) * Abs(y)
<1>1. Abs(x) \in Nat /\ Abs(-x) = Abs(x) /\ Abs(x + y) <= Abs(x) + Abs(y) /\ Abs(0) = 0 BY DEF Abs
<1>2. Abs(x * y) = Abs(x) * Abs(y)
  <2>1. CASE x >= 0 /\ y >= 0
    <3>1. x * y >= 0 BY <2>1
    <3> QED BY <2>1, <3>1 DEF Abs
  <2>2. CASE x < 0 /\ y < 0
    <3>1. (-x) * (-y) = x * y /\ (-x) * (-y) >= 0 BY <2>2
    <3> QED BY <2>2, <3>1 DEF Abs
  <2>3. CASE x >= 0 /\ y < 0
    <3>1. x * (-y) = -(x * y) /\ x * (-y) >= 0 BY <2>3
    <3> QED BY <2>3, <3>1 DEF Abs
  <2>4. CASE x < 0 /\ y >= 0
    <3>1. (-x) * y = -(x * y) /\ (-x) * y >= 0 BY <2>4
    <3> QED BY <2>4, <3>1 DEF Abs
  <2> QED BY <2>1, <2>2, <2>3, <2>4
<1> QED BY <1>1, <1>2

\* The quotient of a division, multiplied back.
LEMMA DivBack ==
  ASSUME NEW n \in Nat, NEW b \in Nat \ {0}
  PROVE  /\ n \div b \in Nat /\ b * (n \div b) <= n /\ n < b * (n \div b) + b
         /\ n % b = 0 => b * (n \div b) = n
<1>1. n \div b \in Int /\ n % b \in 0 .. b - 1 /\ n = b * (n \div b) + (n % b) OBVIOUS
<1>2. n \div b >= 0
  <2> SUFFICES ASSUME n \div b <= -1 PROVE FALSE BY <1>1
  <2>1. b * (n \div b) <= b * (-1) BY <1>1, TimesGrows
  <2> QED BY <1>1, <2>1
<1> QED BY <1>1, <1>2

\* A number in the range of 16 bits is not changed by the conversion to them.
LEMMA NarrowKeeps ==
  ASSUME NEW x \in Int, Abs(x) <= NarrowMax
  PROVE  Narrow(x) = x
<1> DEFINE m == 2 * (NarrowMax + 1)
           y == x + NarrowMax + 1
<1>1. NarrowMax \in Nat BY FoldAssumption
<1>2. m \in Nat \ {0} /\ y \in Nat /\ y < m BY <1>1 DEF Abs
<1>3. \A u \in Nat, v \in Nat \ {0} : u < v => u % v = u OBVIOUS
<1> HIDE DEF m, y
<1>4. y % m = y BY <1>2, <1>3
<1> QED BY <1>1, <1>4 DEF Narrow, m, y

-----------------------------------------------------------------------------
\* What the kernels add.

Term == [pos : 0 .. RingDim - 1, coeff : Int]

\* What each term of a challenge adds to coefficient k of a ring, and how much
\* it weighs.
Added(plane, terms, k) == [t \in DOMAIN terms |-> terms[t].coeff * Rotate(plane, terms[t].pos, k - 1)]
Weights(terms) == [t \in DOMAIN terms |-> Abs(terms[t].coeff)]

Within(plane, bound) == \A k \in 1 .. RingDim : Abs(plane[k]) <= bound

\* A rotation moves coefficients and changes their signs.
LEMMA RotateFacts ==
  ASSUME NEW plane \in Rings, NEW pos \in 0 .. RingDim - 1, NEW k \in 1 .. RingDim,
         NEW bound \in Nat, Within(plane, bound)
  PROVE  Rotate(plane, pos, k - 1) \in Int /\ Abs(Rotate(plane, pos, k - 1)) <= bound
<1>0. RingDim \in Nat BY FoldAssumption
<1>1. CASE k - 1 >= pos
  <2>1. k - 1 - pos + 1 \in 1 .. RingDim BY <1>0, <1>1
  <2>2. plane[k - 1 - pos + 1] \in Int BY <2>1 DEF Rings
  <2>3. Rotate(plane, pos, k - 1) = plane[k - 1 - pos + 1] BY <1>1 DEF Rotate
  <2> QED BY <2>1, <2>2, <2>3 DEF Within
<1>2. CASE ~(k - 1 >= pos)
  <2>1. RingDim - pos + (k - 1) + 1 \in 1 .. RingDim BY <1>0, <1>2
  <2>2. plane[RingDim - pos + (k - 1) + 1] \in Int BY <2>1 DEF Rings
  <2>3. Rotate(plane, pos, k - 1) = -plane[RingDim - pos + (k - 1) + 1] BY <1>2 DEF Rotate
  <2>4. Abs(-plane[RingDim - pos + (k - 1) + 1]) = Abs(plane[RingDim - pos + (k - 1) + 1])
    BY <2>2, AbsFacts
  <2>5. Abs(plane[RingDim - pos + (k - 1) + 1]) <= bound BY <2>1 DEF Within
  <2> QED BY <2>2, <2>3, <2>4, <2>5
<1> QED BY <1>1, <1>2

\* The same without a bound.
LEMMA RotateInt ==
  ASSUME NEW plane \in Rings, NEW pos \in 0 .. RingDim - 1, NEW k \in 1 .. RingDim
  PROVE  Rotate(plane, pos, k - 1) \in Int
<1>0. RingDim \in Nat BY FoldAssumption
<1>1. CASE k - 1 >= pos
  <2>1. k - 1 - pos + 1 \in 1 .. RingDim BY <1>0, <1>1
  <2> QED BY <1>1, <2>1 DEF Rotate, Rings
<1>2. CASE ~(k - 1 >= pos)
  <2>1. RingDim - pos + (k - 1) + 1 \in 1 .. RingDim BY <1>0, <1>2
  <2> QED BY <1>2, <2>1 DEF Rotate, Rings
<1> QED BY <1>1, <1>2

\* The added numbers and the weights of a challenge.
LEMMA AddedFacts ==
  ASSUME NEW plane \in Rings, NEW terms \in Seq(Term), NEW k \in 1 .. RingDim
  PROVE  /\ Len(terms) \in Nat /\ DOMAIN terms = 1 .. Len(terms)
         /\ Added(plane, terms, k) \in [1 .. Len(terms) -> Int]
         /\ \A t \in 1 .. Len(terms) :
               /\ terms[t].coeff \in Int /\ terms[t].pos \in 0 .. RingDim - 1
               /\ Added(plane, terms, k)[t] = terms[t].coeff * Rotate(plane, terms[t].pos, k - 1)
<1>1. Len(terms) \in Nat /\ DOMAIN terms = 1 .. Len(terms) OBVIOUS
<1>2. ASSUME NEW t \in 1 .. Len(terms)
      PROVE  terms[t].coeff \in Int /\ terms[t].pos \in 0 .. RingDim - 1
  <2>1. terms[t] \in Term OBVIOUS
  <2> QED BY <2>1 DEF Term
<1>3. ASSUME NEW t \in 1 .. Len(terms)
      PROVE  terms[t].coeff * Rotate(plane, terms[t].pos, k - 1) \in Int
  <2>1. Rotate(plane, terms[t].pos, k - 1) \in Int BY <1>2, RotateInt
  <2> QED BY <1>2, <2>1
<1> QED BY <1>1, <1>2, <1>3 DEF Added

\* The weights of a challenge.
LEMMA WeightFacts ==
  ASSUME NEW terms \in Seq(Term)
  PROVE  /\ Len(terms) \in Nat /\ Weights(terms) \in [1 .. Len(terms) -> Nat]
         /\ \A t \in 1 .. Len(terms) : Weights(terms)[t] = Abs(terms[t].coeff)
         /\ Mass(terms) = SumTo(Weights(terms), Len(terms)) /\ Mass(terms) \in Nat
<1>1. Len(terms) \in Nat /\ DOMAIN terms = 1 .. Len(terms) OBVIOUS
<1>2. ASSUME NEW t \in 1 .. Len(terms) PROVE Abs(terms[t].coeff) \in Nat
  <2>1. terms[t] \in Term OBVIOUS
  <2>2. terms[t].coeff \in Int BY <2>1 DEF Term
  <2> QED BY <2>2 DEF Abs
<1>3. /\ Weights(terms) \in [1 .. Len(terms) -> Nat]
      /\ \A t \in 1 .. Len(terms) : Weights(terms)[t] = Abs(terms[t].coeff)
  BY <1>1, <1>2 DEF Weights
<1>4. Weights(terms) \in [1 .. Len(terms) -> Int] BY <1>3
<1>5. Mass(terms) = SumTo(Weights(terms), Len(terms))
  <2>1. Mass(terms) = Sum(Weights(terms)) BY Zenon DEF Mass, Weights
  <2> QED BY <1>1, <1>4, <2>1, SumToSums
<1>6. 0 \in 0 .. Len(terms) /\ Len(terms) \in 0 .. Len(terms) BY <1>1
<1>7. SumTo(Weights(terms), Len(terms)) \in Nat BY <1>1, <1>3, <1>6, SumToGrows
<1> QED BY <1>1, <1>3, <1>5, <1>7

\* The first terms add at most the bound of the plane times their mass.
LEMMA AddedBound ==
  ASSUME NEW plane \in Rings, NEW bound \in Nat, Within(plane, bound),
         NEW terms \in Seq(Term), NEW k \in 1 .. RingDim, NEW m \in 0 .. Len(terms)
  PROVE  /\ SumTo(Added(plane, terms, k), m) \in Int
         /\ Abs(SumTo(Added(plane, terms, k), m)) <= bound * SumTo(Weights(terms), m)
<1> DEFINE n == Len(terms)
           v == Added(plane, terms, k)
           w == Weights(terms)
           T == {i \in 0 .. n : Abs(SumTo(v, i)) <= bound * SumTo(w, i)}
<1>1. n \in Nat /\ v \in [1 .. n -> Int] /\ w \in [1 .. n -> Nat] /\ w \in [1 .. n -> Int]
  <2>1. n \in Nat /\ v \in [1 .. n -> Int] BY AddedFacts
  <2>2. w \in [1 .. n -> Nat] BY WeightFacts
  <2> QED BY <2>1, <2>2
<1>2. ASSUME NEW t \in 1 .. n PROVE Abs(v[t]) <= bound * w[t] /\ v[t] \in Int /\ w[t] \in Nat
  <2> DEFINE c == terms[t].coeff
             r == Rotate(plane, terms[t].pos, k - 1)
  <2>1. v[t] = c * r /\ c \in Int /\ terms[t].pos \in 0 .. RingDim - 1 BY AddedFacts
  <2>2. r \in Int /\ Abs(r) <= bound BY <2>1, RotateFacts
  <2>3. w[t] = Abs(c) BY WeightFacts
  <2> HIDE DEF c, r
  <2>4. Abs(c * r) = Abs(c) * Abs(r) /\ Abs(c) \in Nat /\ Abs(r) \in Nat BY <2>1, <2>2, AbsFacts
  <2>5. Abs(c) * Abs(r) <= Abs(c) * bound BY <2>2, <2>4, TimesGrows
  <2>6. Abs(c) * bound = bound * Abs(c) BY <2>4
  <2> HIDE DEF v, w
  <2>7. c * r \in Int BY <2>1, <2>2
  <2> QED BY <2>1, <2>3, <2>4, <2>5, <2>6, <2>7
<1> HIDE DEF n, v, w
<1>3. /\ \A i \in 0 .. n : SumTo(v, i) \in Int
      /\ SumTo(v, 0) = 0 /\ \A i \in 1 .. n : SumTo(v, i) = SumTo(v, i - 1) + v[i]
  BY <1>1, SumToSums
<1>4. /\ \A i \in 0 .. n : SumTo(w, i) \in Int
      /\ SumTo(w, 0) = 0 /\ \A i \in 1 .. n : SumTo(w, i) = SumTo(w, i - 1) + w[i]
  BY <1>1, SumToSums
<1>5. 0 \in T
  <2>1. bound * SumTo(w, 0) = 0 /\ 0 \in 0 .. n BY <1>1, <1>4
  <2>2. Abs(SumTo(v, 0)) = 0 BY <1>3 DEF Abs
  <2> QED BY <2>1, <2>2
<1>6. ASSUME NEW i \in 0 .. n - 1, i \in T PROVE i + 1 \in T
  <2>1. i + 1 \in 1 .. n /\ i + 1 \in 0 .. n /\ (i + 1) - 1 = i /\ i \in 0 .. n BY <1>1
  <2> DEFINE p == SumTo(v, i)
             q == SumTo(w, i)
             x == v[i + 1]
             y == w[i + 1]
  <2>2. SumTo(v, i + 1) = p + x /\ SumTo(w, i + 1) = q + y BY <1>3, <1>4, <2>1
  <2>3. p \in Int /\ q \in Int /\ x \in Int /\ y \in Int /\ Abs(x) <= bound * y
    BY <1>2, <1>3, <1>4, <2>1
  <2>4. Abs(p) <= bound * q BY <1>6
  <2> HIDE DEF p, q, x, y
  <2>5. Abs(p + x) <= Abs(p) + Abs(x) /\ Abs(p) \in Int /\ Abs(x) \in Int /\ Abs(p + x) \in Int
    BY <2>3 DEF Abs
  <2>6. bound * (q + y) = bound * q + bound * y /\ bound * q \in Int /\ bound * y \in Int BY <2>3
  <2>7. Abs(p + x) <= bound * (q + y) BY <2>3, <2>4, <2>5, <2>6
  <2> QED BY <2>1, <2>2, <2>7
<1>7. \A i \in 0 .. n : i \in T
  <2> HIDE DEF T
  <2> QED BY <1>1, <1>5, <1>6, UpTo
<1>8. m \in 0 .. n BY DEF n
<1> QED BY <1>3, <1>7, <1>8 DEF v, w

\* A part of a list: the sum up to its end less the sum up to its start.
LEMMA SumSlice ==
  ASSUME NEW n \in Nat, NEW s \in [1 .. n -> Int], NEW x \in 1 .. n + 1, NEW y \in x - 1 .. n,
         NEW r \in [1 .. y - x + 1 -> Int], \A i \in 1 .. y - x + 1 : r[i] = s[x + i - 1]
  PROVE  Sum(r) = SumTo(s, y) - SumTo(s, x - 1)
<1> DEFINE m == y - x + 1
           g == [i \in 0 .. m |-> SumTo(s, x + i - 1) - SumTo(s, x - 1)]
<1>1. m \in Nat OBVIOUS
<1>2. /\ \A i \in 0 .. n : SumTo(s, i) \in Int
      /\ \A i \in 1 .. n : SumTo(s, i) = SumTo(s, i - 1) + s[i]
  BY SumToSums
<1>3. x - 1 \in 0 .. n /\ \A i \in 0 .. m : x + i - 1 \in 0 .. n OBVIOUS
<1>4. g \in [0 .. m -> Int]
  <2>1. ASSUME NEW i \in 0 .. m PROVE SumTo(s, x + i - 1) - SumTo(s, x - 1) \in Int
    <3>1. SumTo(s, x + i - 1) \in Int /\ SumTo(s, x - 1) \in Int BY <1>2, <1>3
    <3> QED BY <3>1
  <2> HIDE DEF m
  <2> QED BY <2>1, Zenon
<1>5. g[0] = 0 BY <1>1, <1>2, <1>3
<1>6. ASSUME NEW i \in 1 .. m PROVE g[i] = g[i - 1] + r[i]
  <2>1. /\ x + i - 1 \in 1 .. n /\ (x + i - 1) - 1 = x + (i - 1) - 1 /\ x + (i - 1) - 1 \in 0 .. n
        /\ i - 1 \in 0 .. m /\ i \in 0 .. m
    OBVIOUS
  <2>2. SumTo(s, x + i - 1) = SumTo(s, x + (i - 1) - 1) + s[x + i - 1] BY <1>2, <2>1
  <2>3. r[i] = s[x + i - 1] /\ r[i] \in Int OBVIOUS
  <2>4. /\ g[i] = SumTo(s, x + i - 1) - SumTo(s, x - 1)
        /\ g[i - 1] = SumTo(s, x + (i - 1) - 1) - SumTo(s, x - 1)
    BY <2>1
  <2>5. SumTo(s, x - 1) \in Int /\ SumTo(s, x + (i - 1) - 1) \in Int BY <1>2, <1>3, <2>1
  <2> HIDE DEF g
  <2> QED BY <2>2, <2>3, <2>4, <2>5
<1>7. PartialSums(m, r, g) BY <1>4, <1>5, <1>6 DEF PartialSums
<1>8. Sum(r) = g[m] BY <1>1, <1>7, SumBy
<1>9. g[m] = SumTo(s, y) - SumTo(s, x - 1)
  <2>1. m \in 0 .. m /\ x + m - 1 = y OBVIOUS
  <2> QED BY <2>1
<1> QED BY <1>8, <1>9

\* The 16-bit kernel adds what the 32-bit one does as long as what it starts
\* from and the bound of the plane times the challenge's mass fit together:
\* no step of it wraps.
LEMMA NarrowExact ==
  ASSUME NEW plane \in Rings, NEW bound \in Nat, Within(plane, bound), NEW terms \in Seq(Term),
         NEW acc \in Rings, NEW start \in Nat, Within(acc, start),
         start + bound * Mass(terms) <= NarrowMax
  PROVE  /\ NarrowMulAcc(plane, terms, acc)
              = [k \in 1 .. RingDim |-> acc[k] + Sum(Added(plane, terms, k))]
         /\ \A k \in 1 .. RingDim :
               /\ Sum(Added(plane, terms, k)) \in Int
               /\ Abs(acc[k] + Sum(Added(plane, terms, k))) <= start + bound * Mass(terms)
<1> DEFINE n == Len(terms)
           v(k) == Added(plane, terms, k)
           w == Weights(terms)
           One(r, t) == [k \in 1 .. RingDim |->
                           Narrow(r[k] + Narrow(terms[t].coeff * Rotate(plane, terms[t].pos, k - 1)))]
           Rec(g) == g = [t \in 0 .. Len(terms) |-> IF t = 0 THEN acc ELSE One(g[t - 1], t)]
           c == CHOOSE g : Rec(g)
           h == [t \in 0 .. n |-> [k \in 1 .. RingDim |-> acc[k] + SumTo(v(k), t)]]
<1>1. NarrowMulAcc(plane, terms, acc) = c[Len(terms)] BY Zenon DEF NarrowMulAcc
<1>2. n \in Nat /\ NarrowMax \in Nat /\ Mass(terms) \in Nat BY WeightFacts, FoldAssumption
<1>3. ASSUME NEW k \in 1 .. RingDim
      PROVE  /\ acc[k] \in Int /\ Abs(acc[k]) <= start
             /\ \A t \in 0 .. n : SumTo(v(k), t) \in Int
             /\ SumTo(v(k), 0) = 0 /\ SumTo(v(k), n) = Sum(v(k))
             /\ \A t \in 1 .. n : /\ SumTo(v(k), t) = SumTo(v(k), t - 1) + v(k)[t]
                                  /\ v(k)[t] = terms[t].coeff * Rotate(plane, terms[t].pos, k - 1)
                                  /\ v(k)[t] \in Int
  <2>1. v(k) \in [1 .. n -> Int] BY AddedFacts
  <2>2. \A t \in 1 .. n : v(k)[t] = terms[t].coeff * Rotate(plane, terms[t].pos, k - 1)
    BY AddedFacts
  <2> HIDE DEF v, n
  <2>3. acc[k] \in Int /\ Abs(acc[k]) <= start BY DEF Rings, Within
  <2> QED BY <1>2, <2>1, <2>2, <2>3, SumToSums
<1>4. ASSUME NEW k \in 1 .. RingDim, NEW t \in 0 .. n
      PROVE  /\ SumTo(v(k), t) \in Int
             /\ Abs(SumTo(v(k), t)) <= bound * Mass(terms)
             /\ Abs(acc[k] + SumTo(v(k), t)) <= start + bound * Mass(terms)
  <2>1. SumTo(v(k), t) \in Int /\ Abs(SumTo(v(k), t)) <= bound * SumTo(w, t) BY AddedBound
  <2>2. w \in [1 .. n -> Nat] /\ Mass(terms) = SumTo(w, n) BY WeightFacts
  <2> HIDE DEF v, w, n
  <2>3. SumTo(w, t) \in Nat /\ SumTo(w, t) <= SumTo(w, n)
    <3>1. n \in t .. n BY <1>2
    <3> QED BY <1>2, <2>2, <3>1, SumToGrows
  <2>4. bound * SumTo(w, t) <= bound * Mass(terms) BY <1>2, <2>2, <2>3, TimesGrows
  <2>5. acc[k] \in Int /\ Abs(acc[k]) <= start BY <1>3
  <2>6. bound * SumTo(w, t) \in Int /\ bound * Mass(terms) \in Int BY <1>2, <2>3
  <2> DEFINE x == SumTo(v(k), t)
  <2>7. x \in Int /\ Abs(x) <= bound * SumTo(w, t) BY <2>1
  <2> HIDE DEF x
  <2>8. Abs(acc[k] + x) <= Abs(acc[k]) + Abs(x) /\ Abs(acc[k] + x) \in Int
        /\ Abs(acc[k]) \in Int /\ Abs(x) \in Int
    BY <2>5, <2>7, SMTT(30) DEF Abs
  <2>9. Abs(x) <= bound * Mass(terms) BY <2>4, <2>6, <2>7, <2>8
  <2>10. Abs(acc[k] + x) <= start + bound * Mass(terms) BY <2>5, <2>6, <2>8, <2>9
  <2> QED BY <2>7, <2>9, <2>10 DEF x
<1>5. ASSUME NEW k \in 1 .. RingDim, NEW t \in 1 .. n
      PROVE  Abs(v(k)[t]) <= NarrowMax
  <2>1. Abs(v(k)[t]) <= bound * Mass(terms)
    <3> DEFINE co == terms[t].coeff
               ro == Rotate(plane, terms[t].pos, k - 1)
    <3>1. co \in Int /\ terms[t].pos \in 0 .. RingDim - 1 BY AddedFacts
    <3>2. ro \in Int /\ Abs(ro) <= bound BY <3>1, RotateFacts
    <3>3. w[t] = Abs(co) /\ w \in [1 .. n -> Nat] /\ Mass(terms) = SumTo(w, n) BY WeightFacts
    <3>4. v(k)[t] = co * ro BY <1>3
    <3> HIDE DEF co, ro, v, w, n
    <3>5. SumTo(w, t) <= SumTo(w, n) /\ SumTo(w, t) \in Nat /\ SumTo(w, n) \in Nat
      <4>1. n \in t .. n /\ t \in 0 .. n BY <1>2
      <4> QED BY <1>2, <3>3, <4>1, SumToGrows
    <3>6. SumTo(w, t - 1) \in Nat /\ SumTo(w, t) = SumTo(w, t - 1) + w[t]
      <4>1. t - 1 \in 0 .. n /\ t \in t - 1 .. n BY <1>2
      <4>2. w \in [1 .. n -> Int] BY <3>3
      <4> QED BY <1>2, <3>3, <4>1, <4>2, SumToGrows, SumToSums
    <3>a. Abs(co) \in Nat BY <3>1 DEF Abs
    <3>7. Abs(co) <= Mass(terms) /\ Abs(co) \in Nat BY <3>a, <3>3, <3>5, <3>6
    <3>8. Abs(co * ro) = Abs(co) * Abs(ro) /\ Abs(ro) \in Nat BY <3>1, <3>2, AbsFacts
    <3>9. Abs(co) * Abs(ro) <= Abs(co) * bound BY <3>2, <3>7, <3>8, TimesGrows
    <3>10. bound * Abs(co) <= bound * Mass(terms) BY <1>2, <3>7, TimesGrows
    <3>11. Abs(co) * bound = bound * Abs(co) BY <3>7
    <3>12. Abs(co) * Abs(ro) \in Int /\ bound * Mass(terms) \in Int /\ bound * Abs(co) \in Int
      BY <1>2, <3>7, <3>8
    <3> QED BY <3>4, <3>8, <3>9, <3>10, <3>11, <3>12
  <2>2. Abs(v(k)[t]) \in Int /\ bound * Mass(terms) \in Int
    <3>1. v(k)[t] \in Int BY <1>3
    <3> HIDE DEF v
    <3> QED BY <1>2, <3>1 DEF Abs
  <2> HIDE DEF v
  <2> QED BY <1>2, <2>1, <2>2
<1>6. ASSUME NEW t \in 1 .. n PROVE h[t] = One(h[t - 1], t)
  <2>1. t \in 0 .. n /\ t - 1 \in 0 .. n BY <1>2
  <2>2. ASSUME NEW k \in 1 .. RingDim
        PROVE  h[t][k] = Narrow(h[t - 1][k]
                                + Narrow(terms[t].coeff * Rotate(plane, terms[t].pos, k - 1)))
    <3>1. /\ h[t][k] = acc[k] + SumTo(v(k), t) /\ h[t - 1][k] = acc[k] + SumTo(v(k), t - 1)
      BY <2>1
    <3>2. SumTo(v(k), t) = SumTo(v(k), t - 1) + v(k)[t] BY <1>3
    <3>3. Narrow(v(k)[t]) = v(k)[t] BY <1>3, <1>5, NarrowKeeps
    <3>4. /\ acc[k] \in Int /\ SumTo(v(k), t) \in Int /\ SumTo(v(k), t - 1) \in Int
          /\ v(k)[t] \in Int
      BY <1>3, <2>1
    <3>5. Narrow(acc[k] + SumTo(v(k), t)) = acc[k] + SumTo(v(k), t)
      <4> DEFINE x == acc[k] + SumTo(v(k), t)
      <4>1. x \in Int BY <3>4
      <4>2. Abs(x) <= start + bound * Mass(terms) BY <1>4, <2>1
      <4> HIDE DEF x
      <4>3. Abs(x) \in Int BY <4>1 DEF Abs
      <4>4. bound * Mass(terms) \in Int BY <1>2
      <4>5. Abs(x) <= NarrowMax BY <1>2, <4>2, <4>3, <4>4
      <4>6. Narrow(x) = x BY <4>1, <4>5, NarrowKeeps
      <4> QED BY <4>6 DEF x
    <3>6. v(k)[t] = terms[t].coeff * Rotate(plane, terms[t].pos, k - 1) BY <1>3
    <3> HIDE DEF v, h
    <3>7. acc[k] + SumTo(v(k), t - 1) + v(k)[t] = acc[k] + SumTo(v(k), t) BY <3>2, <3>4
    <3> QED BY <3>1, <3>3, <3>5, <3>6, <3>7
  <2>3. h[t] = [k \in 1 .. RingDim |-> h[t][k]] BY <2>1
  <2> HIDE DEF h
  <2> QED BY <2>2, <2>3
<1>7. h[0] = acc
  <2>1. 0 \in 0 .. n BY <1>2
  <2>2. h[0] = [k \in 1 .. RingDim |-> acc[k] + SumTo(v(k), 0)] BY <2>1
  <2>3. \A k \in 1 .. RingDim : acc[k] + SumTo(v(k), 0) = acc[k] BY <1>3
  <2> HIDE DEF h, v
  <2> QED BY <2>2, <2>3 DEF Rings
<1>8. Rec(h)
  <2>1. h = [t \in 0 .. n |-> h[t]] OBVIOUS
  <2>2. ASSUME NEW t \in 0 .. n PROVE h[t] = IF t = 0 THEN acc ELSE One(h[t - 1], t)
    <3>1. t # 0 => t \in 1 .. n BY <1>2
    <3> HIDE DEF h, One
    <3> QED BY <1>6, <1>7, <3>1
  <2> HIDE DEF h, One
  <2> QED BY <2>1, <2>2
<1>9. Rec(c)
  <2> HIDE DEF Rec, h
  <2> QED BY <1>8
<1> HIDE DEF c, h
<1>10. \A t \in 0 .. n : c[t] = h[t]
  <2> DEFINE T == {t \in 0 .. n : c[t] = h[t]}
  <2>1. 0 \in T
    <3>1. 0 \in 0 .. n BY <1>2
    <3> HIDE DEF One
    <3> QED BY <1>7, <1>9, <3>1
  <2>2. ASSUME NEW t \in 0 .. n - 1, t \in T PROVE t + 1 \in T
    <3>1. t + 1 \in 0 .. n /\ t + 1 \in 1 .. n /\ (t + 1) - 1 = t /\ t + 1 # 0 BY <1>2
    <3>2. c[t + 1] = One(c[t], t + 1)
      <4> HIDE DEF One
      <4> QED BY <1>9, <3>1
    <3>3. h[t + 1] = One(h[t], t + 1)
      <4> HIDE DEF One
      <4> QED BY <1>6, <3>1
    <3> HIDE DEF One
    <3> QED BY <2>2, <3>1, <3>2, <3>3
  <2>3. \A t \in 0 .. n : t \in T
    <3> HIDE DEF T, n
    <3> QED BY <1>2, <2>1, <2>2, UpTo
  <2> QED BY <2>3
<1>11. n \in 0 .. n BY <1>2
<1>12. NarrowMulAcc(plane, terms, acc) = h[n] BY <1>1, <1>10, <1>11
<1>13. h[n] = [k \in 1 .. RingDim |-> acc[k] + SumTo(v(k), n)] BY <1>11 DEF h
<1>14. \A k \in 1 .. RingDim : SumTo(v(k), n) = Sum(v(k)) BY <1>3
<1>15. ASSUME NEW k \in 1 .. RingDim
       PROVE  /\ Sum(v(k)) \in Int
              /\ Abs(acc[k] + Sum(v(k))) <= start + bound * Mass(terms)
  BY <1>4, <1>11, <1>14
<1> QED BY <1>12, <1>13, <1>14, <1>15

-----------------------------------------------------------------------------
\* Chunks.

\* ranges cuts 1 .. end into consecutive ranges whose weights sum to at most
\* mass each.
Cuts(n, w, mass, ranges, end) ==
  /\ ranges \in Seq(Int \X Int)
  /\ \A i \in 1 .. Len(ranges) :
        /\ ranges[i][1] = (IF i = 1 THEN 1 ELSE ranges[i - 1][2] + 1)
        /\ ranges[i][1] \in 1 .. n + 1 /\ ranges[i][2] \in ranges[i][1] - 1 .. n
        /\ SumTo(w, ranges[i][2]) - SumTo(w, ranges[i][1] - 1) <= mass
  /\ end = (IF Len(ranges) = 0 THEN 0 ELSE ranges[Len(ranges)][2])

\* One range more.
LEMMA CutsAppend ==
  ASSUME NEW n \in Nat, NEW w, NEW mass \in Nat, NEW ranges, NEW end \in 0 .. n, NEW y \in end .. n,
         Cuts(n, w, mass, ranges, end), SumTo(w, y) - SumTo(w, end) <= mass
  PROVE  Cuts(n, w, mass, Append(ranges, <<end + 1, y>>), y)
<1> DEFINE r == Append(ranges, <<end + 1, y>>)
           m == Len(ranges)
<1>1. ranges \in Seq(Int \X Int) /\ m \in Nat BY DEF Cuts
<1>2. r \in Seq(Int \X Int) /\ Len(r) = m + 1 /\ r[m + 1] = <<end + 1, y>>
      /\ \A i \in 1 .. m : r[i] = ranges[i]
  BY <1>1
<1>3. ASSUME NEW i \in 1 .. m + 1
      PROVE  /\ r[i][1] = (IF i = 1 THEN 1 ELSE r[i - 1][2] + 1)
             /\ r[i][1] \in 1 .. n + 1 /\ r[i][2] \in r[i][1] - 1 .. n
             /\ SumTo(w, r[i][2]) - SumTo(w, r[i][1] - 1) <= mass
  <2> HIDE DEF r
  <2>1. CASE i \in 1 .. m
    <3>1. r[i] = ranges[i] /\ (i # 1 => r[i - 1] = ranges[i - 1])
      <4>1. i # 1 => i - 1 \in 1 .. m BY <1>1, <2>1
      <4> QED BY <1>2, <2>1, <4>1
    <3>2. /\ ranges[i][1] = (IF i = 1 THEN 1 ELSE ranges[i - 1][2] + 1)
          /\ ranges[i][1] \in 1 .. n + 1 /\ ranges[i][2] \in ranges[i][1] - 1 .. n
          /\ SumTo(w, ranges[i][2]) - SumTo(w, ranges[i][1] - 1) <= mass
      BY <2>1 DEF Cuts
    <3> QED BY <3>1, <3>2
  <2>2. CASE i = m + 1
    <3>1. r[i] = <<end + 1, y>> BY <1>2, <2>2
    <3>2. r[i][1] = end + 1 /\ r[i][2] = y BY <3>1
    <3>3. end + 1 = (IF i = 1 THEN 1 ELSE r[i - 1][2] + 1)
      <4>1. CASE m = 0
        <5>1. end = 0 BY <4>1 DEF Cuts
        <5> QED BY <2>2, <4>1, <5>1
      <4>2. CASE m # 0
        <5>1. end = ranges[m][2] BY <4>2 DEF Cuts
        <5>2. i - 1 = m /\ i # 1 /\ m \in 1 .. m BY <1>1, <2>2, <4>2
        <5>3. r[i - 1] = ranges[m] BY <1>2, <5>2
        <5> QED BY <5>1, <5>2, <5>3
      <4> QED BY <4>1, <4>2
    <3>4. (end + 1) - 1 = end /\ end + 1 \in 1 .. n + 1 OBVIOUS
    <3> QED BY <3>2, <3>3, <3>4
  <2> QED BY <1>1, <2>1, <2>2
<1>4. y = (IF Len(r) = 0 THEN 0 ELSE r[Len(r)][2])
  <2>1. Len(r) # 0 /\ r[Len(r)] = <<end + 1, y>> BY <1>1, <1>2
  <2> HIDE DEF r
  <2> QED BY <2>1
<1> HIDE DEF r, m
<1> QED BY <1>2, <1>3, <1>4 DEF Cuts, r

\* The chunks of a challenge none of whose terms is heavier than a chunk may
\* be cut it whole, into chunks that are not too heavy.
LEMMA ChunksCut ==
  ASSUME NEW terms \in Seq(Term), NEW mass \in Nat,
         \A t \in 1 .. Len(terms) : Abs(terms[t].coeff) <= mass
  PROVE  Cuts(Len(terms), Weights(terms), mass, ChunkRanges(terms, mass), Len(terms))
<1> DEFINE n == Len(terms)
           w == Weights(terms)
           State == [mass : Int, first : Int, ranges : Seq(Int \X Int)]
           init == [mass |-> 0, first |-> 1, ranges |-> <<>>]
           Take(acc, t) ==
               IF acc.mass + Abs(terms[t].coeff) > mass
               THEN [mass |-> Abs(terms[t].coeff), first |-> t,
                     ranges |-> Append(acc.ranges, <<acc.first, t - 1>>)]
               ELSE [acc EXCEPT !.mass = @ + Abs(terms[t].coeff)]
           Rec(g) == g = [t \in 0 .. Len(terms) |-> IF t = 0 THEN init ELSE Take(g[t - 1], t)]
           c == CHOOSE g : Rec(g)
           done == c[Len(terms)]
           step == [p \in State \X (1 .. n) |-> Take(p[1], p[2])]
<1>1. ChunkRanges(terms, mass) =
        (IF done.first <= Len(terms) THEN Append(done.ranges, <<done.first, Len(terms)>>)
         ELSE done.ranges)
  BY Zenon DEF ChunkRanges
<1>2. /\ n \in Nat /\ w \in [1 .. n -> Nat] /\ w \in [1 .. n -> Int]
      /\ \A t \in 1 .. n : w[t] = Abs(terms[t].coeff) /\ Abs(terms[t].coeff) \in Nat
  <2>1. /\ n \in Nat /\ w \in [1 .. n -> Nat]
        /\ \A t \in 1 .. n : w[t] = Abs(terms[t].coeff)
    BY WeightFacts
  <2> HIDE DEF w, n
  <2>2. \A t \in 1 .. n : w[t] \in Nat BY <2>1
  <2> QED BY <2>1, <2>2
<1>3. ASSUME NEW s \in State, NEW t \in 1 .. n PROVE Take(s, t) \in State
  <2>1. Abs(terms[t].coeff) \in Nat BY <1>2
  <2>2. s.mass \in Int /\ s.first \in Int /\ s.ranges \in Seq(Int \X Int) OBVIOUS
  <2>3. Append(s.ranges, <<s.first, t - 1>>) \in Seq(Int \X Int)
    <3>1. <<s.first, t - 1>> \in Int \X Int BY <1>2, <2>2
    <3> QED BY <2>2, <3>1
  <2>4. t \in Int /\ s.mass + Abs(terms[t].coeff) \in Int BY <1>2, <2>1, <2>2
  <2>5. CASE s.mass + Abs(terms[t].coeff) > mass
    <3>1. Take(s, t) = [mass |-> Abs(terms[t].coeff), first |-> t,
                        ranges |-> Append(s.ranges, <<s.first, t - 1>>)]
      BY <2>5, Zenon
    <3> HIDE DEF Take
    <3>2. Abs(terms[t].coeff) \in Int BY <2>1
    <3> QED BY <2>3, <2>4, <3>1, <3>2
  <2>6. CASE ~(s.mass + Abs(terms[t].coeff) > mass)
    <3>1. Take(s, t) = [s EXCEPT !.mass = @ + Abs(terms[t].coeff)] BY <2>6, Zenon
    <3> HIDE DEF Take
    <3> QED BY <2>4, <3>1
  <2> QED BY <2>5, <2>6
<1>4. init \in State
  <2>1. <<>> \in Seq(Int \X Int) OBVIOUS
  <2> QED BY <2>1
<1>5. PICK g \in [0 .. n -> State] : Loop(n, init, step, g)
  <2> HIDE DEF State, Take, init, n
  <2>1. step \in [State \X (1 .. n) -> State]
    <3>1. \A p \in State \X (1 .. n) : p[1] \in State /\ p[2] \in 1 .. n OBVIOUS
    <3>2. \A p \in State \X (1 .. n) : Take(p[1], p[2]) \in State BY <1>3, <3>1
    <3> QED BY <3>2
  <2> HIDE DEF step
  <2> QED BY <1>2, <1>4, <2>1, LoopExists
<1> HIDE DEF State
<1>6. Rec(g)
  <2> HIDE DEF Take, init, n
  <2>1. ASSUME NEW t \in 1 .. n PROVE g[t] = Take(g[t - 1], t)
    <3>1. <<g[t - 1], t>> \in State \X (1 .. n) BY <1>2, <1>5
    <3>2. g[t] = step[<<g[t - 1], t>>] BY <1>5 DEF Loop
    <3> QED BY <3>1, <3>2
  <2>2. g[0] = init BY <1>5 DEF Loop
  <2>3. ASSUME NEW t \in 0 .. n PROVE g[t] = IF t = 0 THEN init ELSE Take(g[t - 1], t)
    <3>1. t # 0 => t \in 1 .. n BY <1>2
    <3> QED BY <2>1, <2>2, <3>1
  <2>4. g = [t \in 0 .. n |-> g[t]] BY <1>5
  <2>5. g = [t \in 0 .. n |-> IF t = 0 THEN init ELSE Take(g[t - 1], t)] BY <2>3, <2>4
  <2> QED BY <2>5 DEF n
<1>7. Rec(c)
  <2> HIDE DEF Rec
  <2> QED BY <1>6
<1> HIDE DEF c
<1>8. c[0] = init /\ \A t \in 1 .. n : c[t] = Take(c[t - 1], t)
  <2> HIDE DEF Take, init
  <2>1. 0 \in 0 .. n /\ \A t \in 1 .. n : t \in 0 .. n /\ t # 0 BY <1>2
  <2> QED BY <1>7, <2>1
<1> HIDE DEF n, w
<1>9. /\ \A i \in 0 .. n : SumTo(w, i) \in Int
      /\ SumTo(w, 0) = 0 /\ \A i \in 1 .. n : SumTo(w, i) = SumTo(w, i - 1) + w[i]
  BY <1>2, SumToSums
<1> DEFINE J(t, s) == /\ s.first \in 1 .. t + 1
                      /\ s.mass = SumTo(w, t) - SumTo(w, s.first - 1) /\ s.mass <= mass
                      /\ Cuts(n, w, mass, s.ranges, s.first - 1)
           T == {t \in 0 .. n : J(t, c[t])}
<1>10. 0 \in T
  <2>1. Cuts(n, w, mass, <<>>, 0) BY DEF Cuts
  <2>2. c[0].first = 1 /\ c[0].mass = 0 /\ c[0].ranges = <<>> BY <1>8
  <2>3. 0 \in 0 .. n /\ 1 - 1 = 0 /\ 1 \in 1 .. 0 + 1 BY <1>2
  <2>4. 0 = SumTo(w, 0) - SumTo(w, 0) /\ 0 <= mass BY <1>9
  <2> QED BY <2>1, <2>2, <2>3, <2>4
<1>11. ASSUME NEW i \in 0 .. n - 1, i \in T PROVE i + 1 \in T
  <2> DEFINE t == i + 1
             s == c[i]
             co == Abs(terms[t].coeff)
  <2>1. t \in 1 .. n /\ t \in 0 .. n /\ t - 1 = i /\ i \in 0 .. n BY <1>2
  <2>2. c[t] = Take(s, t) BY <1>8, <2>1
  <2>3. J(i, s) BY <1>11
  <2>4. w[t] = co /\ co \in Nat /\ co <= mass
    <3>1. w[t] = co /\ co \in Nat BY <1>2, <2>1
    <3>2. co <= mass BY <2>1 DEF n
    <3> QED BY <3>1, <3>2
  <2>5. SumTo(w, t) = SumTo(w, i) + co BY <1>9, <2>1, <2>4
  <2>6. s.first - 1 \in 0 .. n /\ s.first - 1 \in 0 .. i /\ s.first \in Int BY <1>2, <2>3, SMTT(30)
  <2>7. SumTo(w, i) \in Int /\ SumTo(w, s.first - 1) \in Int /\ SumTo(w, t) \in Int
    BY <1>9, <2>1, <2>6
  <2>8. CASE s.mass + co > mass
    <3>1. /\ c[t].mass = co /\ c[t].first = t
          /\ c[t].ranges = Append(s.ranges, <<s.first, t - 1>>)
      <4>1. c[t] = [mass |-> co, first |-> t, ranges |-> Append(s.ranges, <<s.first, t - 1>>)]
        BY <2>2, <2>8, Zenon
      <4> HIDE DEF co, s, t
      <4> QED BY <4>1
    <3>2. Cuts(n, w, mass, Append(s.ranges, <<(s.first - 1) + 1, i>>), i)
      <4>1. i \in s.first - 1 .. n BY <1>2, <2>6
      <4>2. SumTo(w, i) - SumTo(w, s.first - 1) <= mass BY <2>3
      <4> HIDE DEF s
      <4> QED BY <1>2, <2>3, <2>6, <4>1, <4>2, CutsAppend
    <3>3. (s.first - 1) + 1 = s.first BY <2>6
    <3>4. Cuts(n, w, mass, c[t].ranges, t - 1) BY <2>1, <3>1, <3>2, <3>3
    <3>5. co = SumTo(w, t) - SumTo(w, t - 1) BY <2>1, <2>4, <2>5, <2>7
    <3>6. t \in 1 .. t + 1 BY <2>1
    <3> HIDE DEF t, co
    <3> QED BY <2>1, <2>4, <3>1, <3>4, <3>5, <3>6 DEF t
  <2>9. CASE ~(s.mass + co > mass)
    <3>1. c[t] = [s EXCEPT !.mass = @ + co] BY <2>2, <2>9, Zenon
    <3>2. s \in State
      <4>1. s \in State
        <5> DEFINE U == {j \in 0 .. n : c[j] \in State}
        <5>1. 0 \in U BY <1>2, <1>4, <1>8
        <5>2. ASSUME NEW j \in 0 .. n - 1, j \in U PROVE j + 1 \in U
          <6>1. j + 1 \in 1 .. n /\ (j + 1) - 1 = j /\ j + 1 \in 0 .. n BY <1>2
          <6>2. c[j + 1] = Take(c[j], j + 1) BY <1>8, <6>1
          <6> HIDE DEF Take
          <6> QED BY <1>3, <5>2, <6>1, <6>2
        <5>3. \A j \in 0 .. n : j \in U
          <6> HIDE DEF U
          <6> QED BY <1>2, <5>1, <5>2, UpTo
        <5> QED BY <2>1, <5>3
      <4> QED BY <4>1
    <3>3. c[t].mass = s.mass + co /\ c[t].first = s.first /\ c[t].ranges = s.ranges
      <4> HIDE DEF s, co, t
      <4> QED BY <3>1, <3>2 DEF State
    <3>4. s.first \in 1 .. t + 1 BY <2>1, <2>3
    <3>5. s.mass + co = SumTo(w, t) - SumTo(w, s.first - 1)
      <4>1. s.mass = SumTo(w, i) - SumTo(w, s.first - 1) BY <2>3
      <4> HIDE DEF s, co, t
      <4> QED BY <2>4, <2>5, <2>7, <4>1
    <3>6. s.mass + co <= mass
      <4>1. s.mass = SumTo(w, i) - SumTo(w, s.first - 1) BY <2>3
      <4> HIDE DEF s, co, t
      <4> QED BY <2>4, <2>7, <2>9, <4>1
    <3>7. Cuts(n, w, mass, s.ranges, s.first - 1) BY <2>3
    <3> HIDE DEF s, co, t
    <3> QED BY <2>1, <3>3, <3>4, <3>5, <3>6, <3>7 DEF t
  <2> QED BY <2>8, <2>9
<1>12. J(n, c[n])
  <2>1. \A t \in 0 .. n : t \in T
    <3> HIDE DEF T
    <3> QED BY <1>2, <1>10, <1>11, UpTo
  <2>2. n \in 0 .. n BY <1>2
  <2> QED BY <2>1, <2>2
<1>13. done = c[n] BY DEF n
<1>14. done.first \in 1 .. n + 1 BY <1>12, <1>13
<1>15. CASE done.first <= n
  <2>1. ChunkRanges(terms, mass) = Append(done.ranges, <<done.first, n>>) BY <1>1, <1>15 DEF n
  <2>2. Cuts(n, w, mass, Append(done.ranges, <<(done.first - 1) + 1, n>>), n)
    <3>1. done.first - 1 \in 0 .. n /\ n \in done.first - 1 .. n BY <1>2, <1>14
    <3>2. SumTo(w, n) - SumTo(w, done.first - 1) <= mass BY <1>12, <1>13
    <3>3. Cuts(n, w, mass, done.ranges, done.first - 1) BY <1>12, <1>13
    <3> HIDE DEF done
    <3> QED BY <1>2, <3>1, <3>2, <3>3, CutsAppend
  <2>3. (done.first - 1) + 1 = done.first BY <1>14
  <2> QED BY <2>1, <2>2, <2>3 DEF n, w
<1>16. CASE ~(done.first <= n)
  <2>1. ChunkRanges(terms, mass) = done.ranges BY <1>1, <1>16 DEF n
  <2>2. done.first - 1 = n
    <3>1. \A f \in 1 .. n + 1 : ~(f <= n) => f - 1 = n BY <1>2
    <3> QED BY <1>14, <1>16, <3>1
  <2>3. Cuts(n, w, mass, done.ranges, done.first - 1) BY <1>12, <1>13
  <2> QED BY <2>1, <2>2, <2>3 DEF n, w
<1> QED BY <1>15, <1>16

\* A part of a challenge: its mass and what it adds.
LEMMA PartOfTerms ==
  ASSUME NEW plane \in Rings, NEW terms \in Seq(Term),
         NEW x \in 1 .. Len(terms) + 1, NEW y \in x - 1 .. Len(terms)
  PROVE  /\ SubSeq(terms, x, y) \in Seq(Term)
         /\ Mass(SubSeq(terms, x, y)) = SumTo(Weights(terms), y) - SumTo(Weights(terms), x - 1)
         /\ \A k \in 1 .. RingDim :
               Sum(Added(plane, SubSeq(terms, x, y), k))
                 = SumTo(Added(plane, terms, k), y) - SumTo(Added(plane, terms, k), x - 1)
<1> DEFINE sub == SubSeq(terms, x, y)
           n == Len(terms)
           m == y - x + 1
<1>1. n \in Nat /\ m \in Nat OBVIOUS
<1>2. sub \in Seq(Term) /\ Len(sub) = m /\ \A i \in 1 .. m : sub[i] = terms[x + i - 1] OBVIOUS
<1>3. \A i \in 1 .. m : x + i - 1 \in 1 .. n OBVIOUS
<1> HIDE DEF sub
<1>4. Mass(sub) = SumTo(Weights(terms), y) - SumTo(Weights(terms), x - 1)
  <2> DEFINE r == Weights(sub)
             w == Weights(terms)
  <2>1. r \in [1 .. m -> Nat] /\ \A i \in 1 .. m : r[i] = Abs(sub[i].coeff)
    BY <1>2, WeightFacts
  <2>2. w \in [1 .. n -> Nat] /\ \A i \in 1 .. n : w[i] = Abs(terms[i].coeff) BY WeightFacts
  <2>3. Mass(sub) = Sum(r) BY Zenon DEF Mass, Weights
  <2> HIDE DEF r, w
  <2>4. r \in [1 .. m -> Int] /\ w \in [1 .. n -> Int] BY <2>1, <2>2
  <2>5. \A i \in 1 .. m : r[i] = w[x + i - 1] BY <1>2, <1>3, <2>1, <2>2
  <2>6. Sum(r) = SumTo(w, y) - SumTo(w, x - 1) BY <1>1, <2>4, <2>5, SumSlice
  <2> QED BY <2>3, <2>6 DEF w
<1>5. ASSUME NEW k \in 1 .. RingDim
      PROVE  Sum(Added(plane, sub, k))
               = SumTo(Added(plane, terms, k), y) - SumTo(Added(plane, terms, k), x - 1)
  <2> DEFINE r == Added(plane, sub, k)
             v == Added(plane, terms, k)
  <2>1. /\ r \in [1 .. m -> Int]
        /\ \A i \in 1 .. m : r[i] = sub[i].coeff * Rotate(plane, sub[i].pos, k - 1)
    BY <1>2, AddedFacts
  <2>2. /\ v \in [1 .. n -> Int]
        /\ \A i \in 1 .. n : v[i] = terms[i].coeff * Rotate(plane, terms[i].pos, k - 1)
    BY AddedFacts
  <2> HIDE DEF r, v
  <2>3. \A i \in 1 .. m : r[i] = v[x + i - 1] BY <1>2, <1>3, <2>1, <2>2
  <2>4. Sum(r) = SumTo(v, y) - SumTo(v, x - 1) BY <1>1, <2>1, <2>2, <2>3, SumSlice
  <2> QED BY <2>4 DEF r, v
<1> QED BY <1>2, <1>4, <1>5 DEF sub

\* The chunked kernel adds what the 32-bit one does: every chunk fits into
\* the 16 bits, and the chunks leave out no term and take none twice.
LEMMA ChunkedExact ==
  ASSUME NEW plane \in Rings, NEW bound \in Nat, Within(plane, bound), NEW terms \in Seq(Term),
         NEW wide \in Rings, NEW mass \in Nat, bound * mass <= NarrowMax, NEW ranges,
         Cuts(Len(terms), Weights(terms), mass, ranges, Len(terms))
  PROVE  ChunkedAcc(plane, terms, ranges, Zero, wide)
           = [narrow |-> Zero, wide |-> [k \in 1 .. RingDim |-> wide[k] + Sum(Added(plane, terms, k))]]
<1> DEFINE n == Len(terms)
           m == Len(ranges)
           w == Weights(terms)
           v(k) == Added(plane, terms, k)
           End(i) == IF i = 0 THEN 0 ELSE ranges[i][2]
           Chunk(acc, r) ==
               LET nn == NarrowMulAcc(plane, SubSeq(terms, r[1], r[2]), acc.narrow)
               IN  [narrow |-> Zero, wide |-> [k \in 1 .. RingDim |-> acc.wide[k] + nn[k]]]
           first == [narrow |-> Zero, wide |-> wide]
           Rec(g) == g = [i \in 0 .. Len(ranges) |-> IF i = 0 THEN first ELSE Chunk(g[i - 1], ranges[i])]
           c == CHOOSE g : Rec(g)
           Sofar(i) == [k \in 1 .. RingDim |-> wide[k] + SumTo(v(k), End(i))]
           h == [i \in 0 .. m |-> [narrow |-> Zero, wide |-> Sofar(i)]]
<1>1. ChunkedAcc(plane, terms, ranges, Zero, wide) = c[Len(ranges)] BY Zenon DEF ChunkedAcc
<1>2. n \in Nat /\ m \in Nat /\ w \in [1 .. n -> Nat] /\ NarrowMax \in Nat
  <2>1. n \in Nat /\ w \in [1 .. n -> Nat] BY WeightFacts
  <2>2. m \in Nat BY DEF Cuts
  <2> QED BY <2>1, <2>2, FoldAssumption
<1>3. ASSUME NEW k \in 1 .. RingDim
      PROVE  /\ wide[k] \in Int /\ SumTo(v(k), 0) = 0 /\ SumTo(v(k), n) = Sum(v(k))
             /\ \A t \in 0 .. n : SumTo(v(k), t) \in Int
  <2>1. v(k) \in [1 .. n -> Int] BY AddedFacts
  <2>2. wide[k] \in Int BY DEF Rings
  <2> HIDE DEF v, n
  <2> QED BY <1>2, <2>1, <2>2, SumToSums
<1>4. ASSUME NEW i \in 1 .. m
      PROVE  /\ ranges[i][1] = End(i - 1) + 1 /\ ranges[i][2] = End(i)
             /\ ranges[i][1] \in 1 .. n + 1 /\ ranges[i][2] \in ranges[i][1] - 1 .. n
             /\ SumTo(w, ranges[i][2]) - SumTo(w, ranges[i][1] - 1) <= mass
             /\ End(i - 1) \in 0 .. n /\ End(i) \in 0 .. n
  <2>1. /\ ranges[i][1] = (IF i = 1 THEN 1 ELSE ranges[i - 1][2] + 1)
        /\ ranges[i][1] \in 1 .. n + 1 /\ ranges[i][2] \in ranges[i][1] - 1 .. n
        /\ SumTo(w, ranges[i][2]) - SumTo(w, ranges[i][1] - 1) <= mass
    BY DEF Cuts
  <2>2. i # 0 /\ (i - 1 = 0 <=> i = 1) BY <1>2
  <2>3. CASE i = 1
    <3>1. ranges[i][1] = 1 /\ End(i - 1) = 0 /\ End(i) = ranges[i][2] BY <2>1, <2>2, <2>3
    <3> HIDE DEF End, n, w
    <3> QED BY <1>2, <2>1, <3>1, SMTT(30)
  <2>4. CASE i # 1
    <3>1. ranges[i][1] = ranges[i - 1][2] + 1 /\ End(i - 1) = ranges[i - 1][2] /\ End(i) = ranges[i][2]
      BY <2>1, <2>2, <2>4
    <3>2. i - 1 \in 1 .. m BY <1>2, <2>4
    <3>3. ranges[i - 1][1] \in 1 .. n + 1 /\ ranges[i - 1][2] \in ranges[i - 1][1] - 1 .. n
      BY <3>2 DEF Cuts
    <3> HIDE DEF End, n, w
    <3>4. ranges[i - 1][2] \in 0 .. n BY <1>2, <3>3
    <3>5. ranges[i][2] \in 0 .. n BY <1>2, <2>1
    <3> QED BY <1>2, <2>1, <3>1, <3>4, <3>5
  <2> QED BY <2>3, <2>4
<1>5. ASSUME NEW i \in 1 .. m PROVE h[i] = Chunk(h[i - 1], ranges[i])
  <2> DEFINE x == ranges[i][1]
             y == ranges[i][2]
             sub == SubSeq(terms, x, y)
             nn == NarrowMulAcc(plane, sub, Zero)
  <2>1. i \in 0 .. m /\ i - 1 \in 0 .. m BY <1>2
  <2>2. h[i - 1].narrow = Zero /\ h[i - 1].wide = Sofar(i - 1)
    <3> HIDE DEF Sofar
    <3> QED BY <2>1
  <2>3. h[i] = [narrow |-> Zero, wide |-> Sofar(i)]
    <3> HIDE DEF Sofar
    <3> QED BY <2>1
  <2>4. /\ x = End(i - 1) + 1 /\ y = End(i) /\ x \in 1 .. n + 1 /\ y \in x - 1 .. n
        /\ SumTo(w, y) - SumTo(w, x - 1) <= mass /\ End(i - 1) \in 0 .. n /\ End(i) \in 0 .. n
    BY <1>4
  <2>5. x - 1 = End(i - 1)
    <3> HIDE DEF End, x
    <3> QED BY <1>2, <2>4
  <2>6. /\ sub \in Seq(Term) /\ Mass(sub) = SumTo(w, y) - SumTo(w, x - 1)
        /\ \A k \in 1 .. RingDim : Sum(Added(plane, sub, k)) = SumTo(v(k), y) - SumTo(v(k), x - 1)
    <3> HIDE DEF x, y
    <3> QED BY <2>4, PartOfTerms, ZenonT(30)
  <2> HIDE DEF sub
  <2>7. Mass(sub) \in Nat /\ Mass(sub) <= mass BY <2>4, <2>6, WeightFacts
  <2>8. 0 + bound * Mass(sub) <= NarrowMax
    <3>1. bound * Mass(sub) <= bound * mass BY <2>7, TimesGrows
    <3>2. bound * Mass(sub) \in Int /\ bound * mass \in Int BY <2>7
    <3> QED BY <1>2, <3>1, <3>2
  <2>9. Zero \in Rings /\ Within(Zero, 0) BY DEF Zero, Rings, Within, Abs
  <2>10. /\ nn = [k \in 1 .. RingDim |-> Zero[k] + Sum(Added(plane, sub, k))]
         /\ \A k \in 1 .. RingDim : Sum(Added(plane, sub, k)) \in Int
    <3>1. 0 \in Nat OBVIOUS
    <3> QED BY <2>6, <2>8, <2>9, <3>1, NarrowExact
  <2>11. \A k \in 1 .. RingDim : nn[k] = SumTo(v(k), y) - SumTo(v(k), x - 1)
    <3> SUFFICES ASSUME NEW k \in 1 .. RingDim PROVE nn[k] = SumTo(v(k), y) - SumTo(v(k), x - 1)
      OBVIOUS
    <3>1. nn[k] = Zero[k] + Sum(Added(plane, sub, k)) BY <2>10
    <3>2. Zero[k] = 0 BY DEF Zero
    <3>3. Sum(Added(plane, sub, k)) \in Int BY <2>10
    <3>4. nn[k] = Sum(Added(plane, sub, k))
      <4> HIDE DEF nn
      <4> QED BY <3>1, <3>2, <3>3
    <3> QED BY <2>6, <3>4
  <2>12. ASSUME NEW k \in 1 .. RingDim PROVE Sofar(i)[k] = Sofar(i - 1)[k] + nn[k]
    <3>1. /\ Sofar(i)[k] = wide[k] + SumTo(v(k), End(i))
          /\ Sofar(i - 1)[k] = wide[k] + SumTo(v(k), End(i - 1))
      OBVIOUS
    <3>2. nn[k] = SumTo(v(k), End(i)) - SumTo(v(k), End(i - 1)) BY <2>4, <2>5, <2>11
    <3>3. wide[k] \in Int /\ SumTo(v(k), End(i)) \in Int /\ SumTo(v(k), End(i - 1)) \in Int
      BY <1>3, <2>4
    <3> HIDE DEF Sofar, nn, v, End
    <3> QED BY <3>1, <3>2, <3>3
  <2>13. Sofar(i) = [k \in 1 .. RingDim |-> Sofar(i - 1)[k] + nn[k]]
    <3>1. Sofar(i) = [k \in 1 .. RingDim |-> Sofar(i)[k]] OBVIOUS
    <3> HIDE DEF Sofar, nn
    <3> QED BY <2>12, <3>1
  <2>14. Chunk(h[i - 1], ranges[i])
           = [narrow |-> Zero, wide |-> [k \in 1 .. RingDim |-> Sofar(i - 1)[k] + nn[k]]]
    <3> HIDE DEF h, Sofar
    <3> QED BY <2>2 DEF sub
  <2> HIDE DEF Chunk, h, Sofar, nn
  <2> QED BY <2>3, <2>13, <2>14
<1>6. h[0] = first
  <2>1. 0 \in 0 .. m BY <1>2
  <2>2. Sofar(0) = wide
    <3>1. \A k \in 1 .. RingDim : Sofar(0)[k] = wide[k] BY <1>3
    <3>2. Sofar(0) = [k \in 1 .. RingDim |-> Sofar(0)[k]] OBVIOUS
    <3> HIDE DEF Sofar
    <3> QED BY <3>1, <3>2 DEF Rings
  <2> HIDE DEF Sofar
  <2> QED BY <2>1, <2>2
<1>7. Rec(h)
  <2>1. h = [i \in 0 .. m |-> h[i]] OBVIOUS
  <2> HIDE DEF h, Chunk, first
  <2>2. ASSUME NEW i \in 0 .. m PROVE h[i] = IF i = 0 THEN first ELSE Chunk(h[i - 1], ranges[i])
    <3>1. i # 0 => i \in 1 .. m BY <1>2
    <3> QED BY <1>5, <1>6, <3>1
  <2> QED BY <2>1, <2>2
<1>8. Rec(c)
  <2> HIDE DEF Rec, h
  <2> QED BY <1>7
<1> HIDE DEF c, h
<1>9. \A i \in 0 .. m : c[i] = h[i]
  <2> HIDE DEF Chunk, first
  <2> DEFINE T == {i \in 0 .. m : c[i] = h[i]}
  <2>1. 0 \in T
    <3>1. 0 \in 0 .. m BY <1>2
    <3> QED BY <1>6, <1>8, <3>1
  <2>2. ASSUME NEW i \in 0 .. m - 1, i \in T PROVE i + 1 \in T
    <3>1. i + 1 \in 0 .. m /\ i + 1 \in 1 .. m /\ (i + 1) - 1 = i /\ i + 1 # 0 BY <1>2
    <3>2. c[i + 1] = Chunk(c[i], ranges[i + 1]) BY <1>8, <3>1
    <3>3. h[i + 1] = Chunk(h[i], ranges[i + 1]) BY <1>5, <3>1
    <3> QED BY <2>2, <3>1, <3>2, <3>3
  <2>3. \A i \in 0 .. m : i \in T
    <3> HIDE DEF T, m
    <3> QED BY <1>2, <2>1, <2>2, UpTo
  <2> QED BY <2>3
<1>10. m \in 0 .. m BY <1>2
<1>11. c[Len(ranges)] = [narrow |-> Zero, wide |-> Sofar(m)]
  <2> HIDE DEF Sofar
  <2>1. h[m] = [narrow |-> Zero, wide |-> Sofar(m)] BY <1>10 DEF h
  <2> QED BY <1>9, <1>10, <2>1
<1>12. End(m) = n
  BY DEF Cuts
<1>13. Sofar(m) = [k \in 1 .. RingDim |-> wide[k] + Sum(v(k))]
  <2>1. \A k \in 1 .. RingDim : SumTo(v(k), End(m)) = Sum(v(k)) BY <1>3, <1>12
  <2> QED BY <2>1
<1> QED BY <1>1, <1>11, <1>13

-----------------------------------------------------------------------------
\* Expanded challenges, and the product that is meant.

\* The coefficient of the plane that a term at pos brings to coefficient k.
From(pos, k) == IF k - 1 >= pos THEN k - pos ELSE RingDim + k - pos

\* A rotation names one coefficient.
LEMMA FromFacts ==
  ASSUME NEW plane \in Rings, NEW pos \in 0 .. RingDim - 1, NEW k \in 1 .. RingDim
  PROVE  /\ From(pos, k) \in 1 .. RingDim /\ plane[From(pos, k)] \in Int
         /\ Rotate(plane, pos, k - 1) = IF k - 1 >= pos THEN plane[From(pos, k)] ELSE -plane[From(pos, k)]
<1>0. RingDim \in Nat BY FoldAssumption
<1>1. CASE k - 1 >= pos
  <2>1. From(pos, k) = k - pos /\ k - pos \in 1 .. RingDim /\ k - 1 - pos + 1 = k - pos
    BY <1>0, <1>1 DEF From
  <2> QED BY <1>1, <2>1 DEF Rotate, Rings
<1>2. CASE ~(k - 1 >= pos)
  <2>1. /\ From(pos, k) = RingDim + k - pos /\ RingDim + k - pos \in 1 .. RingDim
        /\ RingDim - pos + (k - 1) + 1 = RingDim + k - pos
    BY <1>0, <1>2 DEF From
  <2> QED BY <1>2, <2>1 DEF Rotate, Rings
<1> QED BY <1>1, <1>2

\* Rotations are additive.
LEMMA RotateAdd ==
  ASSUME NEW r \in Rings, NEW s \in Rings, NEW u \in Rings,
         \A j \in 1 .. RingDim : u[j] = r[j] + s[j],
         NEW pos \in 0 .. RingDim - 1, NEW k \in 1 .. RingDim
  PROVE  Rotate(u, pos, k - 1) = Rotate(r, pos, k - 1) + Rotate(s, pos, k - 1)
<1> DEFINE f == From(pos, k)
<1>1. f \in 1 .. RingDim /\ r[f] \in Int /\ s[f] \in Int /\ u[f] \in Int BY FromFacts
<1>2. /\ Rotate(u, pos, k - 1) = IF k - 1 >= pos THEN u[f] ELSE -u[f]
      /\ Rotate(r, pos, k - 1) = IF k - 1 >= pos THEN r[f] ELSE -r[f]
      /\ Rotate(s, pos, k - 1) = IF k - 1 >= pos THEN s[f] ELSE -s[f]
  BY FromFacts
<1> HIDE DEF f
<1>3. u[f] = r[f] + s[f] BY <1>1
<1> QED BY <1>1, <1>2, <1>3

\* delta is the expansion of the term of coefficient co at pos, and s what its
\* table adds to coefficient k.
Expanded(plane, pos, co, k, delta, s) ==
  /\ plane \in Rings /\ pos \in 0 .. RingDim - 1 /\ co \in Int /\ k \in 1 .. RingDim
  /\ delta \in Rings /\ \A j \in 1 .. RingDim : delta[j] = IF pos = j - 1 THEN co ELSE 0
  /\ s \in [1 .. RingDim -> Int]
  /\ \A i \in 1 .. RingDim : s[i] = plane[i] * Rotate(delta, i - 1, k - 1)

\* The table of one term adds what the term does.
LEMMA OneTermRotated ==
  ASSUME NEW plane, NEW pos, NEW co, NEW k, NEW delta, NEW s, Expanded(plane, pos, co, k, delta, s)
  PROVE  Sum(s) = co * Rotate(plane, pos, k - 1)
<1> USE DEF Expanded
<1>0. RingDim \in Nat BY FoldAssumption
<1> DEFINE f == From(pos, k)
<1>1. delta \in Rings OBVIOUS
<1>3. /\ f \in 1 .. RingDim /\ plane[f] \in Int
      /\ Rotate(plane, pos, k - 1) = IF k - 1 >= pos THEN plane[f] ELSE -plane[f]
  BY FromFacts
<1>4. ASSUME NEW i \in 1 .. RingDim
      PROVE  Rotate(delta, i - 1, k - 1)
               = IF i # f THEN 0 ELSE IF k - 1 >= pos THEN co ELSE -co
  <2> DEFINE e == From(i - 1, k)
  <2>1. i - 1 \in 0 .. RingDim - 1 BY <1>0
  <2>2. /\ e \in 1 .. RingDim
        /\ Rotate(delta, i - 1, k - 1) = IF k - 1 >= i - 1 THEN delta[e] ELSE -delta[e]
    BY <1>1, <2>1, FromFacts
  <2>3. delta[e] = IF pos = e - 1 THEN co ELSE 0
    <3> HIDE DEF e
    <3> QED BY <2>2
  <2>4. pos = e - 1 <=> i = f BY <1>0 DEF From
  <2>5. i = f => (k - 1 >= i - 1 <=> k - 1 >= pos) BY <1>0 DEF From
  <2> HIDE DEF e, f
  <2> QED BY <2>2, <2>3, <2>4, <2>5
<1>5. \A i \in 1 .. RingDim : i # f => s[i] = 0
  <2> SUFFICES ASSUME NEW i \in 1 .. RingDim, i # f PROVE s[i] = 0 OBVIOUS
  <2>1. s[i] = plane[i] * Rotate(delta, i - 1, k - 1) OBVIOUS
  <2>2. Rotate(delta, i - 1, k - 1) = 0 BY <1>4
  <2>3. plane[i] \in Int BY DEF Rings
  <2> QED BY <2>1, <2>2, <2>3
<1>6. s[f] = co * Rotate(plane, pos, k - 1)
  <2>1. s[f] = plane[f] * Rotate(delta, f - 1, k - 1) BY <1>3
  <2>2. Rotate(delta, f - 1, k - 1) = IF k - 1 >= pos THEN co ELSE -co BY <1>3, <1>4
  <2> HIDE DEF f
  <2>3. CASE k - 1 >= pos BY <1>3, <2>1, <2>2, <2>3
  <2>4. CASE ~(k - 1 >= pos)
    <3>1. plane[f] * (-co) = co * (-plane[f]) BY <1>3
    <3> QED BY <1>3, <2>1, <2>2, <2>4, <3>1
  <2> QED BY <2>3, <2>4
<1> HIDE DEF f
<1>7. Sum(s) = s[f] BY <1>0, <1>3, <1>5, SumSingle
<1> QED BY <1>6, <1>7

\* The table of rotations adds what the terms one by one do.
LEMMA RotatedExact ==
  ASSUME NEW plane \in Rings, NEW terms \in Seq(Term), NEW acc
  PROVE  RotatedAcc(plane, terms, acc) = MulAcc(plane, terms, acc)
<1> DEFINE n == Len(terms)
           pick(j) == [t \in DOMAIN terms |-> IF terms[t].pos = j - 1 THEN terms[t].coeff ELSE 0]
           dense(m) == [j \in 1 .. RingDim |-> SumTo(pick(j), m)]
           row(m, k) == [i \in 1 .. RingDim |-> plane[i] * Rotate(dense(m), i - 1, k - 1)]
<1>0. RingDim \in Nat BY FoldAssumption
<1>1. n \in Nat /\ DOMAIN terms = 1 .. n OBVIOUS
<1>2. \A t \in 1 .. n : terms[t].coeff \in Int /\ terms[t].pos \in 0 .. RingDim - 1
  <2> SUFFICES ASSUME NEW t \in 1 .. n
               PROVE  terms[t].coeff \in Int /\ terms[t].pos \in 0 .. RingDim - 1
    OBVIOUS
  <2>1. terms[t] \in Term OBVIOUS
  <2> QED BY <2>1 DEF Term
<1> HIDE DEF n
<1>3. \A j \in 1 .. RingDim : pick(j) \in [1 .. n -> Int] BY <1>1, <1>2
<1>4. ASSUME NEW j \in 1 .. RingDim
      PROVE  /\ \A m \in 0 .. n : SumTo(pick(j), m) \in Int
             /\ SumTo(pick(j), 0) = 0 /\ SumTo(pick(j), n) = Sum(pick(j))
             /\ \A m \in 1 .. n : /\ SumTo(pick(j), m) = SumTo(pick(j), m - 1) + pick(j)[m]
                                  /\ pick(j)[m] = IF terms[m].pos = j - 1 THEN terms[m].coeff ELSE 0
  <2>1. \A m \in 1 .. n : pick(j)[m] = IF terms[m].pos = j - 1 THEN terms[m].coeff ELSE 0 BY <1>1
  <2>2. pick(j) \in [1 .. n -> Int] BY <1>3
  <2> HIDE DEF pick
  <2> QED BY <1>1, <2>1, <2>2, SumToSums
<1>5. ASSUME NEW m \in 0 .. n PROVE dense(m) \in Rings
  <2> HIDE DEF pick
  <2> QED BY <1>4 DEF Rings
<1>6. ASSUME NEW m \in 0 .. n, NEW k \in 1 .. RingDim
      PROVE  row(m, k) \in [1 .. RingDim -> Int]
  <2>1. ASSUME NEW i \in 1 .. RingDim PROVE plane[i] * Rotate(dense(m), i - 1, k - 1) \in Int
    <3>1. i - 1 \in 0 .. RingDim - 1 BY <1>0
    <3> HIDE DEF dense
    <3>2. Rotate(dense(m), i - 1, k - 1) \in Int BY <1>5, <3>1, RotateInt
    <3>3. plane[i] \in Int BY DEF Rings
    <3> QED BY <3>2, <3>3
  <2> HIDE DEF dense
  <2> QED BY <2>1
<1>7. ASSUME NEW k \in 1 .. RingDim
      PROVE  \A m \in 0 .. n : Sum(row(m, k)) = SumTo(Added(plane, terms, k), m)
  <2> DEFINE v == Added(plane, terms, k)
             T == {m \in 0 .. n : Sum(row(m, k)) = SumTo(v, m)}
  <2>1. /\ v \in [1 .. n -> Int]
        /\ \A t \in 1 .. n : v[t] = terms[t].coeff * Rotate(plane, terms[t].pos, k - 1)
    BY AddedFacts DEF n
  <2> HIDE DEF v
  <2>2. SumTo(v, 0) = 0 /\ \A t \in 1 .. n : SumTo(v, t) = SumTo(v, t - 1) + v[t]
    BY <1>1, <2>1, SumToSums
  <2>3. 0 \in T
    <3>1. 0 \in 0 .. n BY <1>1
    <3>2. ASSUME NEW i \in 1 .. RingDim PROVE row(0, k)[i] = 0
      <4>1. i - 1 \in 0 .. RingDim - 1 BY <1>0
      <4>2. row(0, k)[i] = plane[i] * Rotate(dense(0), i - 1, k - 1) OBVIOUS
      <4>3. \A j \in 1 .. RingDim : dense(0)[j] = 0
        <5> HIDE DEF pick
        <5> QED BY <1>4
      <4>4. dense(0) \in Rings BY <1>5, <3>1
      <4> HIDE DEF dense, row
      <4>5. Rotate(dense(0), i - 1, k - 1) = 0 BY <4>1, <4>3, <4>4, FromFacts, SMTT(30)
      <4>6. plane[i] \in Int BY DEF Rings
      <4> QED BY <4>2, <4>5, <4>6
    <3>3. row(0, k) \in [1 .. RingDim -> Int] BY <1>6, <3>1
    <3> HIDE DEF row
    <3>4. Sum(row(0, k)) = 0 BY <1>0, <3>2, <3>3, SumZero
    <3> QED BY <2>2, <3>1, <3>4
  <2>4. ASSUME NEW i \in 0 .. n - 1, i \in T PROVE i + 1 \in T
    <3> DEFINE m == i + 1
               co == terms[m].coeff
               pos == terms[m].pos
               delta == [j \in 1 .. RingDim |-> IF pos = j - 1 THEN co ELSE 0]
               one == [x \in 1 .. RingDim |-> plane[x] * Rotate(delta, x - 1, k - 1)]
    <3>1. m \in 1 .. n /\ m \in 0 .. n /\ i \in 0 .. n /\ m - 1 = i BY <1>1
    <3>2. co \in Int /\ pos \in 0 .. RingDim - 1 BY <1>2, <3>1
    <3>3. delta \in Rings BY <3>2 DEF Rings
    <3>4. \A j \in 1 .. RingDim : dense(m)[j] = dense(i)[j] + delta[j]
      <4> SUFFICES ASSUME NEW j \in 1 .. RingDim PROVE dense(m)[j] = dense(i)[j] + delta[j] OBVIOUS
      <4>1. dense(m)[j] = SumTo(pick(j), m) /\ dense(i)[j] = SumTo(pick(j), i) OBVIOUS
      <4>2. SumTo(pick(j), m) = SumTo(pick(j), i) + pick(j)[m] BY <1>4, <3>1
      <4>3. pick(j)[m] = IF terms[m].pos = j - 1 THEN terms[m].coeff ELSE 0 BY <1>4, <3>1
      <4>4. delta[j] = IF terms[m].pos = j - 1 THEN terms[m].coeff ELSE 0 OBVIOUS
      <4> HIDE DEF dense, pick, delta
      <4> QED BY <4>1, <4>2, <4>3, <4>4
    <3>5. one \in [1 .. RingDim -> Int] /\ Sum(one) = co * Rotate(plane, pos, k - 1)
      <4>1. \A j \in 1 .. RingDim : delta[j] = IF pos = j - 1 THEN co ELSE 0 OBVIOUS
      <4>2. \A x \in 1 .. RingDim : one[x] = plane[x] * Rotate(delta, x - 1, k - 1) OBVIOUS
      <4>3. one \in [1 .. RingDim -> Int]
        <5>1. ASSUME NEW x \in 1 .. RingDim PROVE plane[x] * Rotate(delta, x - 1, k - 1) \in Int
          <6>1. x - 1 \in 0 .. RingDim - 1 BY <1>0
          <6> HIDE DEF delta
          <6>2. Rotate(delta, x - 1, k - 1) \in Int BY <3>3, <6>1, RotateInt
          <6>3. plane[x] \in Int BY DEF Rings
          <6> QED BY <6>2, <6>3
        <5> HIDE DEF delta
        <5> QED BY <5>1
      <4> HIDE DEF co, pos, delta, one
      <4>4. Expanded(plane, pos, co, k, delta, one) BY <3>2, <3>3, <4>1, <4>2, <4>3 DEF Expanded
      <4> QED BY <4>3, <4>4, OneTermRotated
    <3>6. ASSUME NEW x \in 1 .. RingDim PROVE row(m, k)[x] = row(i, k)[x] + one[x]
      <4>1. x - 1 \in 0 .. RingDim - 1 BY <1>0
      <4>2. dense(m) \in Rings /\ dense(i) \in Rings BY <1>5, <3>1
      <4>3. /\ row(m, k)[x] = plane[x] * Rotate(dense(m), x - 1, k - 1)
            /\ row(i, k)[x] = plane[x] * Rotate(dense(i), x - 1, k - 1)
            /\ one[x] = plane[x] * Rotate(delta, x - 1, k - 1)
        OBVIOUS
      <4> HIDE DEF dense, row, delta, one
      <4>4. Rotate(dense(m), x - 1, k - 1) = Rotate(dense(i), x - 1, k - 1) + Rotate(delta, x - 1, k - 1)
        BY <3>3, <3>4, <4>1, <4>2, RotateAdd
      <4>5. Rotate(dense(i), x - 1, k - 1) \in Int /\ Rotate(delta, x - 1, k - 1) \in Int
        BY <3>3, <4>1, <4>2, RotateInt
      <4>6. plane[x] \in Int BY DEF Rings
      <4>7. \A a, b, c \in Int : a * (b + c) = a * b + a * c OBVIOUS
      <4> QED BY <4>3, <4>4, <4>5, <4>6, <4>7
    <3>7. row(m, k) \in [1 .. RingDim -> Int] /\ row(i, k) \in [1 .. RingDim -> Int]
      BY <1>6, <3>1
    <3> HIDE DEF row, one
    <3>8. Sum(row(m, k)) = Sum(row(i, k)) + Sum(one)
      BY <1>0, <3>5, <3>6, <3>7, SumAdd
    <3>9. SumTo(v, m) = SumTo(v, i) + co * Rotate(plane, pos, k - 1) BY <2>1, <2>2, <3>1
    <3>10. Sum(row(i, k)) = SumTo(v, i) BY <2>4
    <3> QED BY <3>1, <3>5, <3>8, <3>9, <3>10
  <2>5. \A m \in 0 .. n : m \in T
    <3> HIDE DEF T
    <3> QED BY <1>1, <2>3, <2>4, UpTo
  <2> QED BY <2>5 DEF v
<1>8. ASSUME NEW k \in 1 .. RingDim
      PROVE  Sum([i \in 1 .. RingDim |-> plane[i] * RotatedRows(terms)[i][k]])
               = Sum([t \in DOMAIN terms |-> terms[t].coeff * Rotate(plane, terms[t].pos, k - 1)])
  <2>1. n \in 0 .. n BY <1>1
  <2>2. SumTo(Added(plane, terms, k), n) = Sum(Added(plane, terms, k))
    <3>1. Added(plane, terms, k) \in [1 .. n -> Int] BY AddedFacts DEF n
    <3> QED BY <1>1, <3>1, SumToSums
  <2>3. dense(n) = [j \in 1 .. RingDim |-> Sum(pick(j))]
    <3> HIDE DEF pick
    <3> QED BY <1>4
  <2>4. \A i \in 1 .. RingDim : RotatedRows(terms)[i][k] = Rotate(dense(n), i - 1, k - 1)
    <3>1. RotatedRows(terms) = [i \in 1 .. RingDim |-> [kk \in 1 .. RingDim |->
              Rotate([j \in 1 .. RingDim |-> Sum(pick(j))], i - 1, kk - 1)]]
      BY Zenon DEF RotatedRows
    <3> HIDE DEF dense, pick
    <3> QED BY <2>3, <3>1
  <2>5. [i \in 1 .. RingDim |-> plane[i] * RotatedRows(terms)[i][k]] = row(n, k)
    <3> HIDE DEF dense
    <3> QED BY <2>4
  <2>6. Sum(row(n, k)) = Sum(Added(plane, terms, k)) BY <1>7, <2>1, <2>2
  <2> HIDE DEF row
  <2> QED BY <2>5, <2>6 DEF Added
<1>9. RotatedAcc(plane, terms, acc) = [k \in 1 .. RingDim |->
         acc[k] + Sum([i \in 1 .. RingDim |-> plane[i] * RotatedRows(terms)[i][k]])]
  BY Zenon DEF RotatedAcc
<1>10. MulAcc(plane, terms, acc) = [k \in 1 .. RingDim |->
         acc[k] + Sum([t \in DOMAIN terms |-> terms[t].coeff * Rotate(plane, terms[t].pos, k - 1)])]
  BY Zenon DEF MulAcc
<1> QED BY <1>8, <1>9, <1>10

-----------------------------------------------------------------------------
\* The call's input, and the slots of its tile.

\* The input of a call: a source and a challenge for every block.
IsInput(a) ==
  /\ a.digits \in Nat \ {0} /\ a.positions \in Nat \ {0} /\ a.bound \in Nat
  /\ a.tile.len \in Nat /\ a.tile.start \in 0 .. a.positions - 1
  /\ a.planes \in Seq(Rings) /\ Len(a.planes) % a.digits = 0
  /\ \A i \in DOMAIN a.planes : Within(a.planes[i], a.bound)
  /\ a.challenges \in [1 .. FoldBlocks -> Seq(Term)]

Elems(a) == Min({a.tile.len, a.positions - a.tile.start})
Size(a) == Elems(a) * a.digits

\* Block b has a ring for slot i.
Reaches(a, b, i) == ((b - 1) * a.positions + a.tile.start) * a.digits + i <= NumRings(a) * a.digits

\* What block b adds to coefficient k of slot i.
Contribution(a, b, i, k) ==
  IF Reaches(a, b, i) THEN Sum(Added(SlotPlane(a, b, i), a.challenges[b], k)) ELSE 0

\* The smaller of two naturals.
LEMMA Smaller ==
  ASSUME NEW x \in Nat, NEW y \in Nat
  PROVE  Min({x, y}) = IF x <= y THEN x ELSE y
<1>1. \E m \in {x, y} : \A z \in {x, y} : m <= z OBVIOUS
<1>2. Min({x, y}) \in {x, y} /\ \A z \in {x, y} : Min({x, y}) <= z BY <1>1 DEF Min
<1> QED BY <1>2

\* A tile has a natural number of slots.
LEMMA SizeNat ==
  ASSUME NEW a, IsInput(a)
  PROVE  Elems(a) \in Nat /\ Size(a) \in Nat /\ a.digits \in Nat \ {0}
<1>1. a.tile.len \in Nat /\ a.positions - a.tile.start \in Nat /\ a.digits \in Nat \ {0}
  BY DEF IsInput
<1>2. Elems(a) \in Nat BY <1>1, Smaller DEF Elems
<1>3. Elems(a) * a.digits \in Nat BY <1>1, <1>2
<1> QED BY <1>1, <1>2, <1>3 DEF Size

\* The plane of a slot that has a ring is one of the source's planes.
LEMMA SlotFacts ==
  ASSUME NEW a, IsInput(a), NEW b \in 1 .. FoldBlocks, NEW i \in 1 .. Size(a), Reaches(a, b, i)
  PROVE  /\ SlotPlane(a, b, i) \in Rings /\ Within(SlotPlane(a, b, i), a.bound)
<1> DEFINE p == (b - 1) * a.positions + a.tile.start
           x == p * a.digits + i
<1>1. /\ a.digits \in Nat \ {0} /\ a.positions \in Nat /\ a.tile.start \in Nat
      /\ a.planes \in Seq(Rings) /\ Len(a.planes) \in Nat /\ Len(a.planes) % a.digits = 0
      /\ b - 1 \in Nat /\ Size(a) \in Nat /\ i \in Nat \ {0}
  <2>1. FoldBlocks \in Nat BY FoldAssumption
  <2>2. Size(a) \in Nat BY SizeNat
  <2> QED BY <2>1, <2>2 DEF IsInput
<1>2. p \in Nat
  <2>1. \A u, v \in Nat : u * v \in Nat OBVIOUS
  <2>2. (b - 1) * a.positions \in Nat BY <1>1, <2>1
  <2> QED BY <1>1, <2>2
<1> HIDE DEF p
<1>3. x \in Nat \ {0}
  <2>1. \A u, v \in Nat : u * v \in Nat OBVIOUS
  <2>2. p * a.digits \in Nat BY <1>1, <1>2, <2>1
  <2> QED BY <1>1, <2>2
<1>4. NumRings(a) * a.digits = Len(a.planes)
  <2>1. a.digits * (Len(a.planes) \div a.digits) = Len(a.planes) /\ Len(a.planes) \div a.digits \in Nat
    BY <1>1, DivBack
  <2>2. \A u, v \in Nat : u * v = v * u OBVIOUS
  <2> QED BY <1>1, <2>1, <2>2 DEF NumRings
<1>5. x <= Len(a.planes) BY <1>4 DEF Reaches, p
<1>6. x \in 1 .. Len(a.planes) BY <1>1, <1>3, <1>5
<1>7. SlotPlane(a, b, i) = a.planes[x] BY DEF SlotPlane, p
<1> HIDE DEF x
<1>8. a.planes[x] \in Rings /\ x \in DOMAIN a.planes BY <1>1, <1>6
<1> QED BY <1>7, <1>8 DEF IsInput

\* What a block adds is an integer.
LEMMA ContributionInt ==
  ASSUME NEW a, IsInput(a), NEW b \in 1 .. FoldBlocks, NEW i \in 1 .. Size(a), NEW k \in 1 .. RingDim
  PROVE  Contribution(a, b, i, k) \in Int
<1>1. CASE Reaches(a, b, i)
  <2>1. SlotPlane(a, b, i) \in Rings BY <1>1, SlotFacts
  <2>2. a.challenges[b] \in Seq(Term) BY DEF IsInput
  <2>3. Sum(Added(SlotPlane(a, b, i), a.challenges[b], k)) \in Int BY <2>1, <2>2, AddedFacts, SumInt
  <2> QED BY <1>1, <2>3 DEF Contribution
<1>2. CASE ~Reaches(a, b, i) BY <1>2 DEF Contribution
<1> QED BY <1>1, <1>2

\* The sum over the j that the product of a term and a plane is.
IsProduct(plane, pos, co, k, s) ==
  /\ plane \in Rings /\ pos \in 0 .. RingDim - 1 /\ co \in Int /\ k \in 1 .. RingDim
  /\ s \in [1 .. RingDim -> Int]
  /\ \A j \in 1 .. RingDim :
        s[j] = CASE pos + (j - 1) = k - 1 -> co * plane[(j - 1) + 1]
                 [] pos + (j - 1) = RingDim + (k - 1) -> -(co * plane[(j - 1) + 1])
                 [] OTHER -> 0

\* In Z[X]/(X^D + 1) one coefficient of the plane reaches coefficient k.
LEMMA OneTermProduct ==
  ASSUME NEW plane, NEW pos, NEW co, NEW k, NEW s, IsProduct(plane, pos, co, k, s)
  PROVE  Sum(s) = co * Rotate(plane, pos, k - 1)
<1> DEFINE f == From(pos, k)
<1>0. RingDim \in Nat BY FoldAssumption
<1>a. /\ plane \in Rings /\ pos \in 0 .. RingDim - 1 /\ co \in Int /\ k \in 1 .. RingDim
      /\ s \in [1 .. RingDim -> Int]
  BY DEF IsProduct
<1>1. /\ f \in 1 .. RingDim /\ plane[f] \in Int
      /\ Rotate(plane, pos, k - 1) = IF k - 1 >= pos THEN plane[f] ELSE -plane[f]
  BY <1>a, FromFacts
<1>2. \A j \in 1 .. RingDim : j # f => s[j] = 0
  <2> SUFFICES ASSUME NEW j \in 1 .. RingDim, j # f PROVE s[j] = 0 OBVIOUS
  <2>1. pos \in 0 .. RingDim - 1 /\ k \in 1 .. RingDim BY <1>a
  <2>2. \A z \in 1 .. RingDim : pos + (z - 1) = k - 1 => z = f BY <1>0, <2>1 DEF From
  <2>3. \A z \in 1 .. RingDim : pos + (z - 1) = RingDim + (k - 1) => z = f BY <1>0, <2>1 DEF From
  <2> HIDE DEF f
  <2>4. pos + (j - 1) # k - 1 /\ pos + (j - 1) # RingDim + (k - 1) BY <2>2, <2>3
  <2> QED BY <2>4 DEF IsProduct
<1>3. s[f] = co * Rotate(plane, pos, k - 1)
  <2>1. CASE k - 1 >= pos
    <3>1. pos + (f - 1) = k - 1 /\ pos + (f - 1) # RingDim + (k - 1) /\ (f - 1) + 1 = f
      BY <1>0, <1>a, <2>1 DEF From
    <3> HIDE DEF f
    <3>2. s[f] = co * plane[f] BY <1>1, <3>1 DEF IsProduct
    <3> QED BY <1>1, <2>1, <3>2
  <2>2. CASE ~(k - 1 >= pos)
    <3>1. pos + (f - 1) = RingDim + (k - 1) /\ pos + (f - 1) # k - 1 /\ (f - 1) + 1 = f
      BY <1>0, <1>a, <2>2 DEF From
    <3> HIDE DEF f
    <3>2. s[f] = -(co * plane[f]) BY <1>1, <3>1 DEF IsProduct
    <3>3. -(co * plane[f]) = co * (-plane[f]) BY <1>a, <1>1
    <3> QED BY <1>1, <2>2, <3>2, <3>3
  <2> QED BY <2>1, <2>2
<1> HIDE DEF f
<1> QED BY <1>0, <1>a, <1>1, <1>2, <1>3, SumSingle

\* Position e, digit d of the tile is slot e * digits + d, and it has a ring
\* exactly if the position has one.
LEMMA SlotOf ==
  ASSUME NEW a, IsInput(a), NEW b \in 1 .. FoldBlocks, NEW e \in 0 .. Elems(a) - 1, NEW d \in 1 .. a.digits
  PROVE  /\ e * a.digits + d \in 1 .. Size(a)
         /\ ((b - 1) * a.positions + (a.tile.start + e)) * a.digits + d
              = ((b - 1) * a.positions + a.tile.start) * a.digits + (e * a.digits + d)
         /\ (b - 1) * a.positions + (a.tile.start + e) >= NumRings(a)
              <=> ~Reaches(a, b, e * a.digits + d)
<1> DEFINE p == (b - 1) * a.positions + a.tile.start
           D == a.digits
           N == NumRings(a)
<1>1. /\ D \in Nat \ {0} /\ a.positions \in Nat /\ a.tile.start \in Nat /\ Elems(a) \in Nat
      /\ b - 1 \in Nat /\ N \in Nat
  <2>1. FoldBlocks \in Nat BY FoldAssumption
  <2>2. Elems(a) \in Nat /\ D \in Nat \ {0} BY SizeNat
  <2>3. Len(a.planes) \in Nat BY DEF IsInput
  <2>4. N \in Nat BY <2>2, <2>3, DivBack DEF NumRings
  <2> QED BY <2>1, <2>2, <2>4 DEF IsInput
<1>2. (b - 1) * a.positions \in Nat /\ p \in Nat
  <2>1. \A u, v \in Nat : u * v \in Nat OBVIOUS
  <2>2. (b - 1) * a.positions \in Nat BY <1>1, <2>1
  <2> QED BY <1>1, <2>2
<1>3. (b - 1) * a.positions + (a.tile.start + e) = p + e BY <1>1, <1>2
<1>4. e \in Nat /\ d \in Nat /\ d >= 1 /\ d <= D /\ e + 1 <= Elems(a) BY <1>1
<1> HIDE DEF p, D, N
<1>5. e * D \in Nat /\ (e + 1) * D = e * D + D /\ D * (e + 1) <= D * Elems(a)
  <2>1. \A u, v \in Nat : u * v \in Nat OBVIOUS
  <2>2. D * (e + 1) <= D * Elems(a) BY <1>1, <1>4, TimesGrows
  <2> QED BY <1>1, <1>4, <2>1, <2>2
<1>6. e * D + d \in 1 .. Size(a)
  <2>1. D * (e + 1) = (e + 1) * D /\ D * Elems(a) = Elems(a) * D BY <1>1, <1>4
  <2>2. Size(a) = Elems(a) * D /\ Size(a) \in Nat BY SizeNat DEF Size, D
  <2>3. e * D + d <= Size(a) BY <1>1, <1>4, <1>5, <2>1, <2>2
  <2> QED BY <1>4, <1>5, <2>2, <2>3
<1>7. (p + e) * D + d = p * D + (e * D + d)
  <2>1. (p + e) * D = p * D + e * D BY <1>1, <1>2, <1>4
  <2>2. p * D \in Int BY <1>1, <1>2
  <2> QED BY <1>4, <1>5, <2>1, <2>2
<1>8. p + e >= N <=> ~((p + e) * D + d <= N * D)
  <2> DEFINE r == p + e
  <2>1. r \in Nat BY <1>2, <1>4
  <2> HIDE DEF r
  <2>2. CASE r >= N
    <3>1. D * N <= D * r BY <1>1, <2>1, <2>2, TimesGrows
    <3>2. D * N = N * D /\ D * r = r * D /\ N * D \in Int /\ r * D \in Int BY <1>1, <2>1
    <3>3. ~(r * D + d <= N * D) BY <1>4, <3>1, <3>2
    <3> QED BY <2>2, <3>3 DEF r
  <2>3. CASE ~(r >= N)
    <3>1. D * (r + 1) <= D * N BY <1>1, <2>1, <2>3, TimesGrows
    <3>2. D * N = N * D /\ D * (r + 1) = r * D + D /\ N * D \in Int /\ r * D \in Int BY <1>1, <2>1
    <3>3. r * D + d <= N * D BY <1>1, <1>4, <3>1, <3>2
    <3> QED BY <2>3, <3>3 DEF r
  <2> QED BY <2>2, <2>3
<1>9. Reaches(a, b, e * D + d) <=> p * D + (e * D + d) <= N * D BY DEF Reaches, p, D, N
<1> QED BY <1>3, <1>6, <1>7, <1>8, <1>9 DEF p, D, N

\* The product that is meant is what the kernels add.
LEMMA ProductMeant ==
  ASSUME NEW a, IsInput(a), NEW b \in 1 .. FoldBlocks, NEW e \in 0 .. Elems(a) - 1,
         NEW d \in 1 .. a.digits, NEW k \in 1 .. RingDim
  PROVE  ProductAt(a, b, a.tile.start + e, d, k - 1) = Contribution(a, b, e * a.digits + d, k)
<1> DEFINE i == e * a.digits + d
           ring == (b - 1) * a.positions + (a.tile.start + e)
           plane == a.planes[ring * a.digits + d]
           terms == a.challenges[b]
           One(t, j) == CASE t.pos + j = k - 1 -> t.coeff * plane[j + 1]
                          [] t.pos + j = RingDim + (k - 1) -> -(t.coeff * plane[j + 1])
                          [] OTHER -> 0
           inner(t) == [j \in 1 .. RingDim |-> One(terms[t], j - 1)]
<1>0. RingDim \in Nat BY FoldAssumption
<1>1. ProductAt(a, b, a.tile.start + e, d, k - 1)
        = IF ring >= NumRings(a) THEN 0
          ELSE Sum([t \in DOMAIN terms |-> Sum(inner(t))])
  BY Zenon DEF ProductAt
<1>2. /\ i \in 1 .. Size(a)
      /\ ring >= NumRings(a) <=> ~Reaches(a, b, i)
      /\ ring * a.digits + d = ((b - 1) * a.positions + a.tile.start) * a.digits + i
  BY SlotOf
<1>3. plane = SlotPlane(a, b, i) BY <1>2, Zenon DEF SlotPlane
<1>4. terms \in Seq(Term) BY DEF IsInput
<1>5. CASE ~Reaches(a, b, i)
  <2> HIDE DEF inner, i, ring
  <2>1. ProductAt(a, b, a.tile.start + e, d, k - 1) = 0 BY <1>1, <1>2, <1>5
  <2> QED BY <1>5, <2>1 DEF Contribution, i
<1>6. CASE Reaches(a, b, i)
  <2>1. plane \in Rings
    <3> HIDE DEF plane, i, ring
    <3> QED BY <1>2, <1>3, <1>6, SlotFacts
  <2>2. ASSUME NEW t \in DOMAIN terms
        PROVE  Sum(inner(t)) = terms[t].coeff * Rotate(plane, terms[t].pos, k - 1)
    <3> DEFINE pos == terms[t].pos
               co == terms[t].coeff
    <3>1. pos \in 0 .. RingDim - 1 /\ co \in Int
      <4>1. terms[t] \in Term BY <1>4
      <4> QED BY <4>1 DEF Term
    <3> HIDE DEF plane
    <3>2. ASSUME NEW j \in 1 .. RingDim
          PROVE  /\ inner(t)[j] = CASE pos + (j - 1) = k - 1 -> co * plane[(j - 1) + 1]
                                    [] pos + (j - 1) = RingDim + (k - 1) -> -(co * plane[(j - 1) + 1])
                                    [] OTHER -> 0
                 /\ inner(t)[j] \in Int
      <4>1. inner(t)[j] = One(terms[t], j - 1) OBVIOUS
      <4>2. One(terms[t], j - 1) = CASE pos + (j - 1) = k - 1 -> co * plane[(j - 1) + 1]
                                     [] pos + (j - 1) = RingDim + (k - 1) -> -(co * plane[(j - 1) + 1])
                                     [] OTHER -> 0
        OBVIOUS
      <4>3. (j - 1) + 1 = j /\ plane[j] \in Int BY <1>0, <2>1 DEF Rings
      <4>4. co * plane[j] \in Int /\ -(co * plane[j]) \in Int
        <5> HIDE DEF co
        <5> QED BY <3>1, <4>3
      <4> HIDE DEF pos, co, inner, One
      <4>5. One(terms[t], j - 1) \in Int
        <5>1. CASE pos + (j - 1) = k - 1
          <6>1. pos + (j - 1) # RingDim + (k - 1) BY <1>0, <3>1, <5>1
          <6> QED BY <4>2, <4>3, <4>4, <5>1, <6>1
        <5>2. CASE pos + (j - 1) # k - 1 BY <4>2, <4>3, <4>4, <5>2
        <5> QED BY <5>1, <5>2
      <4> QED BY <4>1, <4>2, <4>5
    <3>3. inner(t) \in [1 .. RingDim -> Int]
      <4>1. inner(t) = [j \in 1 .. RingDim |-> inner(t)[j]] OBVIOUS
      <4> HIDE DEF inner
      <4> QED BY <3>2, <4>1
    <3> HIDE DEF inner, pos, co
    <3>4. IsProduct(plane, pos, co, k, inner(t)) BY <2>1, <3>1, <3>2, <3>3 DEF IsProduct
    <3> QED BY <3>4, OneTermProduct DEF pos, co
  <2> HIDE DEF inner, ring, plane, i
  <2>3. ProductAt(a, b, a.tile.start + e, d, k - 1) = Sum([t \in DOMAIN terms |-> Sum(inner(t))])
    BY <1>1, <1>2, <1>6
  <2>4. [t \in DOMAIN terms |-> Sum(inner(t))] = Added(plane, terms, k)
    <3> HIDE DEF terms
    <3> QED BY <2>2 DEF Added
  <2>5. Contribution(a, b, i, k) = Sum(Added(plane, terms, k)) BY <1>3, <1>6 DEF Contribution
  <2> QED BY <2>3, <2>4, <2>5 DEF i
<1> QED BY <1>5, <1>6

-----------------------------------------------------------------------------
\* The tile.

\* What the blocks up to n add to coefficient k of slot i.
Total(a, n, i, k) == Sum([b \in 1 .. n |-> Contribution(a, b, i, k)])

Tiles(a) == [narrow : [1 .. Size(a) -> Rings], wide : [1 .. Size(a) -> Rings], bound : 0 .. NarrowMax]

\* After n blocks the two accumulators of a slot hold the sum over the blocks
\* together, and the 16-bit one at most the bound.
TileInv(a, n, s) ==
  /\ s \in Tiles(a)
  /\ \A i \in 1 .. Size(a) : Within(s.narrow[i], s.bound)
  /\ \A i \in 1 .. Size(a), k \in 1 .. RingDim : s.wide[i][k] + s.narrow[i][k] = Total(a, n, i, k)

\* The plan of a challenge: the 16-bit sum of a whole challenge is bounded by
\* what the plan says, and chunks cut a challenge into parts that fit.
LEMMA PlanFacts ==
  ASSUME NEW bound \in Nat, NEW terms \in Seq(Term)
  PROVE  /\ Plan(bound, terms).kind \in {"rotated", "full", "wide", "chunked"}
         /\ Plan(bound, terms).kind = "full" =>
               /\ Plan(bound, terms).bound = bound * Mass(terms) /\ bound * Mass(terms) \in Nat
               /\ bound * Mass(terms) <= NarrowMax
         /\ Plan(bound, terms).kind = "chunked" =>
               \E mass \in Nat : /\ bound * mass <= NarrowMax
                                 /\ Cuts(Len(terms), Weights(terms), mass, Plan(bound, terms).ranges,
                                         Len(terms))
<1> DEFINE chunk == NarrowMax \div bound
           light == \A t \in DOMAIN terms : Abs(terms[t].coeff) <= chunk
           P == Plan(bound, terms)
<1>1. /\ NarrowMax \in Nat /\ RotatedWeight \in Nat /\ Mass(terms) \in Nat /\ Len(terms) \in Nat
      /\ DOMAIN terms = 1 .. Len(terms)
  BY FoldAssumption, WeightFacts
<1>2. bound * Mass(terms) \in Nat BY <1>1
<1>3. CASE Len(terms) >= RotatedWeight
  <2>1. P = [kind |-> "rotated"] BY <1>1, <1>3 DEF Plan
  <2> HIDE DEF P
  <2>2. P.kind = "rotated" BY <2>1
  <2> QED BY <2>2 DEF P
<1>4. CASE Len(terms) < RotatedWeight /\ bound = 0
  <2>0. ~(Len(terms) >= RotatedWeight) /\ ~(bound > 0) BY <1>1, <1>4
  <2>1. P = [kind |-> "full", bound |-> 0] BY <1>4, <2>0 DEF Plan
  <2>2. bound * Mass(terms) = 0 BY <1>1, <1>4
  <2> HIDE DEF P
  <2>3. P.kind = "full" /\ P.bound = 0 BY <2>1
  <2> QED BY <1>1, <2>2, <2>3 DEF P
<1>5. CASE Len(terms) < RotatedWeight /\ bound > 0
  <2>0. ~(Len(terms) >= RotatedWeight) /\ ~(bound = 0) BY <1>1, <1>5
  <2>1. P = CASE \E t \in DOMAIN terms : Abs(terms[t].coeff) > chunk -> [kind |-> "wide"]
              [] light /\ bound * Mass(terms) <= NarrowMax ->
                    [kind |-> "full", bound |-> bound * Mass(terms)]
              [] OTHER -> [kind |-> "chunked", ranges |-> ChunkRanges(terms, chunk)]
    BY <1>5, <2>0 DEF Plan
  <2>2. chunk \in Nat /\ bound * chunk <= NarrowMax BY <1>1, <1>5, DivBack
  <2>3. \A t \in DOMAIN terms : Abs(terms[t].coeff) \in Nat
    <3> SUFFICES ASSUME NEW t \in DOMAIN terms PROVE Abs(terms[t].coeff) \in Nat OBVIOUS
    <3>1. terms[t] \in Term OBVIOUS
    <3>2. terms[t].coeff \in Int BY <3>1 DEF Term
    <3> QED BY <3>2 DEF Abs
  <2> HIDE DEF P, chunk
  <2>4. light <=> ~\E t \in DOMAIN terms : Abs(terms[t].coeff) > chunk BY <2>2, <2>3
  <2>5. CASE ~light
    <3> HIDE DEF light
    <3>1. P = [kind |-> "wide"] BY <2>1, <2>4, <2>5
    <3>2. P.kind = "wide" BY <3>1
    <3> QED BY <3>2 DEF P
  <2>6. CASE light /\ bound * Mass(terms) <= NarrowMax
    <3> HIDE DEF light
    <3>1. P = [kind |-> "full", bound |-> bound * Mass(terms)] BY <2>1, <2>4, <2>6
    <3>2. P.kind = "full" /\ P.bound = bound * Mass(terms) BY <3>1
    <3> QED BY <1>2, <2>6, <3>2 DEF P
  <2>7. CASE light /\ ~(bound * Mass(terms) <= NarrowMax)
    <3>0. \A t \in 1 .. Len(terms) : Abs(terms[t].coeff) <= chunk BY <1>1, <2>7
    <3> HIDE DEF light
    <3>1. P = [kind |-> "chunked", ranges |-> ChunkRanges(terms, chunk)] BY <2>1, <2>4, <2>7
    <3>2. P.kind = "chunked" /\ P.ranges = ChunkRanges(terms, chunk) BY <3>1
    <3>3. Cuts(Len(terms), Weights(terms), chunk, ChunkRanges(terms, chunk), Len(terms))
      BY <2>2, <3>0, ChunksCut
    <3> QED BY <2>2, <3>2, <3>3 DEF P
  <2> QED BY <2>5, <2>6, <2>7
<1> QED BY <1>1, <1>3, <1>4, <1>5

\* What a tile of the set is made of.
LEMMA TileFacts ==
  ASSUME NEW a, IsInput(a), NEW s \in Tiles(a)
  PROVE  /\ s = [narrow |-> s.narrow, wide |-> s.wide, bound |-> s.bound]
         /\ s.narrow \in [1 .. Size(a) -> Rings] /\ s.wide \in [1 .. Size(a) -> Rings]
         /\ s.bound \in Nat /\ s.bound <= NarrowMax
         /\ \A i \in 1 .. Size(a), k \in 1 .. RingDim : s.wide[i][k] \in Int /\ s.narrow[i][k] \in Int
<1>1. s = [narrow |-> s.narrow, wide |-> s.wide, bound |-> s.bound] BY DEF Tiles
<1>2. s.narrow \in [1 .. Size(a) -> Rings] /\ s.wide \in [1 .. Size(a) -> Rings] BY DEF Tiles
<1>3. s.bound \in Nat /\ s.bound <= NarrowMax
  <2>1. s.bound \in 0 .. NarrowMax BY DEF Tiles
  <2> QED BY <2>1, FoldAssumption
<1>4. ASSUME NEW i \in 1 .. Size(a), NEW k \in 1 .. RingDim
      PROVE  s.wide[i][k] \in Int /\ s.narrow[i][k] \in Int
  <2>1. s.wide[i] \in Rings /\ s.narrow[i] \in Rings BY <1>2
  <2> QED BY <2>1 DEF Rings
<1> QED BY <1>1, <1>2, <1>3, <1>4

\* The flush keeps the sums and empties the 16-bit accumulators.
LEMMA FlushKeeps ==
  ASSUME NEW a, IsInput(a), NEW n \in Nat, NEW s, TileInv(a, n, s)
  PROVE  TileInv(a, n, Flush(s)) /\ Flush(s).bound = 0
<1> DEFINE f == Flush(s)
<1>1. s \in Tiles(a) BY DEF TileInv
<1>2. /\ s.narrow \in [1 .. Size(a) -> Rings] /\ s.wide \in [1 .. Size(a) -> Rings]
      /\ \A i \in 1 .. Size(a), k \in 1 .. RingDim : s.wide[i][k] \in Int /\ s.narrow[i][k] \in Int
  BY <1>1, TileFacts
<1>3. DOMAIN s.narrow = 1 .. Size(a) /\ DOMAIN s.wide = 1 .. Size(a) BY <1>2
<1> DEFINE nn == [i \in 1 .. Size(a) |-> Zero]
           ww == [i \in 1 .. Size(a) |-> [k \in 1 .. RingDim |-> s.wide[i][k] + s.narrow[i][k]]]
<1>4. f = [narrow |-> nn, wide |-> ww, bound |-> 0] BY <1>3 DEF Flush
<1>5. Zero \in Rings /\ Within(Zero, 0) /\ \A k \in 1 .. RingDim : Zero[k] = 0
  BY DEF Zero, Rings, Within, Abs
<1>6. nn \in [1 .. Size(a) -> Rings] BY <1>5
<1>7. ww \in [1 .. Size(a) -> Rings]
  <2>1. ASSUME NEW i \in 1 .. Size(a)
        PROVE  [k \in 1 .. RingDim |-> s.wide[i][k] + s.narrow[i][k]] \in Rings
    <3>1. \A k \in 1 .. RingDim : s.wide[i][k] + s.narrow[i][k] \in Int BY <1>2
    <3> QED BY <3>1 DEF Rings
  <2> QED BY <2>1
<1>8. ASSUME NEW i \in 1 .. Size(a), NEW k \in 1 .. RingDim
      PROVE  ww[i][k] + nn[i][k] = Total(a, n, i, k)
  <2>1. ww[i][k] = s.wide[i][k] + s.narrow[i][k] /\ nn[i][k] = 0 BY <1>5
  <2>2. s.wide[i][k] + s.narrow[i][k] = Total(a, n, i, k) BY DEF TileInv
  <2>3. s.wide[i][k] + s.narrow[i][k] \in Int BY <1>2
  <2> HIDE DEF ww, nn
  <2> QED BY <2>1, <2>2, <2>3
<1>9. \A i \in 1 .. Size(a) : nn[i] = Zero OBVIOUS
<1> HIDE DEF f, nn, ww
<1>10. f.narrow = nn /\ f.wide = ww /\ f.bound = 0 BY <1>4
<1>11. 0 \in 0 .. NarrowMax BY FoldAssumption
<1>12. f \in Tiles(a) BY <1>4, <1>6, <1>7, <1>11 DEF Tiles
<1>13. TileInv(a, n, f) BY <1>5, <1>8, <1>9, <1>10, <1>12 DEF TileInv
<1> QED BY <1>10, <1>13 DEF f

\* After the flush of what is pending the 16-bit accumulators are zero.
LEMMA FlushPendingKeeps ==
  ASSUME NEW a, IsInput(a), NEW n \in Nat, NEW s, TileInv(a, n, s)
  PROVE  /\ TileInv(a, n, FlushPending(s)) /\ FlushPending(s).bound = 0
         /\ \A i \in 1 .. Size(a) : FlushPending(s).narrow[i] = Zero
<1> DEFINE f == FlushPending(s)
<1>1. TileInv(a, n, f) /\ f.bound = 0
  <2>1. CASE s.bound # 0 BY <2>1, FlushKeeps DEF FlushPending
  <2>2. CASE s.bound = 0 BY <2>2 DEF FlushPending
  <2> QED BY <2>1, <2>2
<1> HIDE DEF f
<1>2. ASSUME NEW i \in 1 .. Size(a) PROVE f.narrow[i] = Zero
  <2>1. f.narrow[i] \in Rings
    <3>1. f \in Tiles(a) BY <1>1 DEF TileInv
    <3> QED BY <3>1, TileFacts
  <2>2. Within(f.narrow[i], 0) BY <1>1 DEF TileInv
  <2> DEFINE r == f.narrow[i]
  <2> HIDE DEF r
  <2>3. r \in Rings /\ Within(r, 0) BY <2>1, <2>2 DEF r
  <2>4. \A k \in 1 .. RingDim : r[k] = 0
    <3> SUFFICES ASSUME NEW k \in 1 .. RingDim PROVE r[k] = 0 OBVIOUS
    <3>1. r[k] \in Int /\ Abs(r[k]) <= 0 BY <2>3 DEF Rings, Within
    <3> QED BY <3>1 DEF Abs
  <2>5. r = Zero BY <2>3, <2>4 DEF Rings, Zero
  <2> QED BY <2>5 DEF r
<1> QED BY <1>1, <1>2 DEF f

\* A tile that has gained what block n + 1 adds.
LEMMA Advance ==
  ASSUME NEW a, IsInput(a), NEW n \in Nat, n + 1 \in 1 .. FoldBlocks, NEW s, TileInv(a, n, s),
         NEW u \in Tiles(a), \A i \in 1 .. Size(a) : Within(u.narrow[i], u.bound),
         \A i \in 1 .. Size(a), k \in 1 .. RingDim :
            u.wide[i][k] + u.narrow[i][k]
              = (s.wide[i][k] + s.narrow[i][k]) + Contribution(a, n + 1, i, k)
  PROVE  TileInv(a, n + 1, u)
<1>1. ASSUME NEW i \in 1 .. Size(a), NEW k \in 1 .. RingDim
      PROVE  Total(a, n + 1, i, k) = Total(a, n, i, k) + Contribution(a, n + 1, i, k)
  <2> DEFINE c == [b \in 1 .. n + 1 |-> Contribution(a, b, i, k)]
             h == [b \in 1 .. n |-> c[b]]
  <2>1. \A b \in 1 .. n + 1 : b \in 1 .. FoldBlocks BY FoldAssumption
  <2>2. c \in [1 .. n + 1 -> Int] BY <2>1, ContributionInt
  <2>3. h = [b \in 1 .. n |-> Contribution(a, b, i, k)] OBVIOUS
  <2>4. c[n + 1] = Contribution(a, n + 1, i, k) OBVIOUS
  <2>5. Sum(c) = Sum(h) + c[n + 1]
    <3> HIDE DEF c
    <3> QED BY <2>2, SumSnoc
  <2> QED BY <2>3, <2>4, <2>5 DEF Total
<1>2. ASSUME NEW i \in 1 .. Size(a), NEW k \in 1 .. RingDim
      PROVE  u.wide[i][k] + u.narrow[i][k] = Total(a, n + 1, i, k)
  <2>1. s.wide[i][k] + s.narrow[i][k] = Total(a, n, i, k) BY DEF TileInv
  <2> QED BY <1>1, <2>1
<1> QED BY <1>2 DEF TileInv

\* The slots for which a block has a ring.
LEMMA SlotsReached ==
  ASSUME NEW a, IsInput(a), NEW b \in 1 .. FoldBlocks, NEW s \in Tiles(a)
  PROVE  Slots(a, b, s) = {i \in 1 .. Size(a) : Reaches(a, b, i)}
<1>1. s.wide \in [1 .. Size(a) -> Rings] BY TileFacts
<1>2. DOMAIN s.wide = 1 .. Size(a) BY <1>1
<1> QED BY <1>2, Zenon DEF Slots, Reaches

\* A block whose challenge is accumulated in 16 bits as a whole.
LEMMA FullBlock ==
  ASSUME NEW a, IsInput(a), NEW n \in Nat, n + 1 \in 1 .. FoldBlocks, NEW s, TileInv(a, n, s),
         Slots(a, n + 1, s) # {}, Plan(a.bound, a.challenges[n + 1]).kind = "full"
  PROVE  TileInv(a, n + 1, FoldBlock(a, n + 1, s))
<1> DEFINE b == n + 1
           terms == a.challenges[b]
           plan == Plan(a.bound, terms)
           slots == Slots(a, b, s)
           full == IF Exceeds(s.bound, plan.bound) THEN Flush(s) ELSE s
           nn == [i \in 1 .. Size(a) |-> IF i \in slots
                                         THEN NarrowMulAcc(SlotPlane(a, b, i), terms, full.narrow[i])
                                         ELSE full.narrow[i]]
           u == [narrow |-> nn, wide |-> full.wide, bound |-> full.bound + plan.bound]
           v(i, k) == Sum(Added(SlotPlane(a, b, i), terms, k))
<1>1. FoldBlock(a, b, s) =
        [ narrow |-> [i \in DOMAIN full.narrow |->
                        IF i \in slots THEN NarrowMulAcc(SlotPlane(a, b, i), terms, full.narrow[i])
                        ELSE full.narrow[i]],
          wide |-> full.wide, bound |-> full.bound + plan.bound ]
  BY DEF FoldBlock
<1>2. terms \in Seq(Term) /\ a.bound \in Nat /\ NarrowMax \in Nat
  <2>1. b \in 1 .. FoldBlocks OBVIOUS
  <2> QED BY <2>1, FoldAssumption DEF IsInput
<1>3. /\ plan.bound = a.bound * Mass(terms) /\ plan.bound \in Nat /\ plan.bound <= NarrowMax
  BY <1>2, PlanFacts
<1> HIDE DEF plan
<1>4. TileInv(a, n, full) /\ full.bound + plan.bound <= NarrowMax /\ s \in Tiles(a)
  <2>0. s \in Tiles(a) BY DEF TileInv
  <2>1. CASE Exceeds(s.bound, plan.bound)
    <3>1. TileInv(a, n, full) /\ full.bound = 0 BY <2>1, FlushKeeps
    <3> HIDE DEF full
    <3> QED BY <1>2, <1>3, <2>0, <3>1
  <2>2. CASE ~Exceeds(s.bound, plan.bound)
    <3>1. s.bound \in Nat BY <2>0, TileFacts
    <3>2. s.bound + plan.bound <= NarrowMax BY <1>2, <1>3, <2>2, <3>1 DEF Exceeds
    <3> QED BY <2>0, <2>2, <3>2
  <2> QED BY <2>1, <2>2
<1> HIDE DEF full
<1>5. full \in Tiles(a) BY <1>4 DEF TileInv
<1>6. /\ full = [narrow |-> full.narrow, wide |-> full.wide, bound |-> full.bound]
      /\ full.narrow \in [1 .. Size(a) -> Rings] /\ full.wide \in [1 .. Size(a) -> Rings]
      /\ full.bound \in Nat
      /\ \A i \in 1 .. Size(a), k \in 1 .. RingDim : full.wide[i][k] \in Int /\ full.narrow[i][k] \in Int
  BY <1>5, TileFacts
<1>7. FoldBlock(a, b, s) = u
  <2>1. DOMAIN full.narrow = 1 .. Size(a) BY <1>6
  <2> HIDE DEF slots, terms
  <2> QED BY <1>1, <2>1
<1>8. slots = {i \in 1 .. Size(a) : Reaches(a, b, i)} BY <1>4, SlotsReached
<1>9. ASSUME NEW i \in 1 .. Size(a), Reaches(a, b, i)
      PROVE  /\ nn[i] = [k \in 1 .. RingDim |-> full.narrow[i][k] + v(i, k)]
             /\ \A k \in 1 .. RingDim : v(i, k) \in Int
                   /\ Abs(full.narrow[i][k] + v(i, k)) <= full.bound + plan.bound
  <2>1. i \in slots BY <1>8, <1>9
  <2>2. SlotPlane(a, b, i) \in Rings /\ Within(SlotPlane(a, b, i), a.bound) BY <1>9, SlotFacts
  <2>3. full.narrow[i] \in Rings /\ Within(full.narrow[i], full.bound) BY <1>4, <1>6 DEF TileInv
  <2> HIDE DEF slots, terms
  <2>4. nn[i] = NarrowMulAcc(SlotPlane(a, b, i), terms, full.narrow[i]) BY <2>1
  <2> DEFINE pl == SlotPlane(a, b, i)
             ac == full.narrow[i]
             st == full.bound
             bd == a.bound
  <2>5. /\ pl \in Rings /\ bd \in Nat /\ Within(pl, bd) /\ ac \in Rings /\ st \in Nat
        /\ Within(ac, st) /\ st + bd * Mass(terms) <= NarrowMax /\ terms \in Seq(Term)
    BY <1>2, <1>3, <1>4, <1>6, <2>2, <2>3
  <2> HIDE DEF nn, pl, ac, st, bd
  <2>6. /\ NarrowMulAcc(pl, terms, ac) = [k \in 1 .. RingDim |-> ac[k] + Sum(Added(pl, terms, k))]
        /\ \A k \in 1 .. RingDim :
              /\ Sum(Added(pl, terms, k)) \in Int
              /\ Abs(ac[k] + Sum(Added(pl, terms, k))) <= st + bd * Mass(terms)
    BY <2>5, NarrowExact
  <2> QED BY <1>3, <2>4, <2>6 DEF pl, ac, st, bd
<1>10. ASSUME NEW i \in 1 .. Size(a), ~Reaches(a, b, i) PROVE nn[i] = full.narrow[i]
  <2>1. i \notin slots BY <1>8, <1>10
  <2> QED BY <2>1
<1> HIDE DEF nn, slots, v
<1>11. ASSUME NEW i \in 1 .. Size(a) PROVE nn[i] \in Rings /\ Within(nn[i], u.bound)
  <2>0. u.bound = full.bound + plan.bound OBVIOUS
  <2>1. CASE Reaches(a, b, i)
    <3>1. ASSUME NEW k \in 1 .. RingDim PROVE full.narrow[i][k] + v(i, k) \in Int
      <4>1. full.narrow[i][k] \in Int /\ v(i, k) \in Int BY <1>6, <1>9, <2>1
      <4> QED BY <4>1
    <3>2. nn[i] \in Rings BY <1>9, <2>1, <3>1 DEF Rings
    <3>3. \A k \in 1 .. RingDim : Abs(nn[i][k]) <= u.bound BY <1>9, <2>0, <2>1
    <3> QED BY <3>2, <3>3 DEF Within
  <2>2. CASE ~Reaches(a, b, i)
    <3>1. nn[i] = full.narrow[i] /\ full.narrow[i] \in Rings BY <1>6, <1>10, <2>2
    <3>2. Within(full.narrow[i], full.bound) BY <1>4 DEF TileInv
    <3>3. \A k \in 1 .. RingDim : Abs(full.narrow[i][k]) <= full.bound + plan.bound
      <4> SUFFICES ASSUME NEW k \in 1 .. RingDim
                   PROVE  Abs(full.narrow[i][k]) <= full.bound + plan.bound
        OBVIOUS
      <4>1. full.narrow[i][k] \in Int BY <1>6
      <4>2. Abs(full.narrow[i][k]) <= full.bound BY <3>2 DEF Within
      <4> DEFINE z == full.narrow[i][k]
      <4> HIDE DEF z
      <4>3. z \in Int /\ Abs(z) <= full.bound BY <4>1, <4>2 DEF z
      <4>4. Abs(z) \in Int BY <4>3 DEF Abs
      <4>5. Abs(z) <= full.bound + plan.bound BY <1>3, <1>6, <4>3, <4>4
      <4> QED BY <4>5 DEF z
    <3> QED BY <2>0, <3>1, <3>3 DEF Within
  <2> QED BY <2>1, <2>2
<1>12. nn \in [1 .. Size(a) -> Rings]
  <2>1. nn = [i \in 1 .. Size(a) |-> nn[i]] BY DEF nn
  <2> QED BY <1>11, <2>1
<1>13. u \in Tiles(a)
  <2>1. full.bound + plan.bound \in 0 .. NarrowMax BY <1>2, <1>3, <1>4, <1>6
  <2> QED BY <1>6, <1>12, <2>1 DEF Tiles
<1>14. ASSUME NEW i \in 1 .. Size(a), NEW k \in 1 .. RingDim
       PROVE  u.wide[i][k] + u.narrow[i][k]
                = (full.wide[i][k] + full.narrow[i][k]) + Contribution(a, n + 1, i, k)
  <2>1. u.wide[i][k] = full.wide[i][k] /\ u.narrow[i][k] = nn[i][k] OBVIOUS
  <2>2. full.wide[i][k] \in Int /\ full.narrow[i][k] \in Int BY <1>6
  <2> HIDE DEF u
  <2>3. CASE Reaches(a, b, i)
    <3>1. Contribution(a, n + 1, i, k) = v(i, k) BY <2>3 DEF Contribution, v
    <3>2. nn[i][k] = full.narrow[i][k] + v(i, k) /\ v(i, k) \in Int BY <1>9, <2>3
    <3> QED BY <2>1, <2>2, <3>1, <3>2
  <2>4. CASE ~Reaches(a, b, i)
    <3>1. Contribution(a, n + 1, i, k) = 0 BY <2>4 DEF Contribution
    <3>2. nn[i][k] = full.narrow[i][k] BY <1>10, <2>4
    <3> QED BY <2>1, <2>2, <3>1, <3>2
  <2> QED BY <2>3, <2>4
<1>15. u.narrow = nn OBVIOUS
<1> HIDE DEF u
<1>16. TileInv(a, n + 1, u) BY <1>4, <1>11, <1>13, <1>14, <1>15, Advance
<1> QED BY <1>7, <1>16

\* A block that leaves the 16-bit accumulators empty and adds to the 32-bit ones.
LEMMA WideBlock ==
  ASSUME NEW a, IsInput(a), NEW n \in Nat, n + 1 \in 1 .. FoldBlocks, NEW s, TileInv(a, n, s),
         NEW c, TileInv(a, n, c), c.bound = 0, \A i \in 1 .. Size(a) : c.narrow[i] = Zero,
         NEW ww \in [1 .. Size(a) -> Rings],
         \A i \in 1 .. Size(a), k \in 1 .. RingDim :
            ww[i][k] = c.wide[i][k] + Contribution(a, n + 1, i, k)
  PROVE  TileInv(a, n + 1, [narrow |-> c.narrow, wide |-> ww, bound |-> c.bound])
<1> DEFINE u == [narrow |-> c.narrow, wide |-> ww, bound |-> c.bound]
<1>1. c \in Tiles(a) BY DEF TileInv
<1>2. /\ c.narrow \in [1 .. Size(a) -> Rings] /\ c.bound \in 0 .. NarrowMax
      /\ \A i \in 1 .. Size(a), k \in 1 .. RingDim : c.wide[i][k] \in Int /\ c.narrow[i][k] \in Int
  BY <1>1, TileFacts, FoldAssumption
<1>3. u \in Tiles(a) BY <1>2 DEF Tiles
<1>4. u.narrow = c.narrow /\ u.wide = ww /\ u.bound = c.bound OBVIOUS
<1> HIDE DEF u
<1>5. \A i \in 1 .. Size(a) : Within(u.narrow[i], u.bound) BY <1>4 DEF TileInv
<1>6. ASSUME NEW i \in 1 .. Size(a), NEW k \in 1 .. RingDim
      PROVE  u.wide[i][k] + u.narrow[i][k]
               = (c.wide[i][k] + c.narrow[i][k]) + Contribution(a, n + 1, i, k)
  <2>1. u.wide[i][k] = c.wide[i][k] + Contribution(a, n + 1, i, k) /\ u.narrow[i][k] = c.narrow[i][k]
    BY <1>4
  <2>2. c.wide[i][k] \in Int /\ c.narrow[i][k] \in Int BY <1>2
  <2>3. Contribution(a, n + 1, i, k) \in Int BY ContributionInt
  <2> QED BY <2>1, <2>2, <2>3
<1>7. TileInv(a, n + 1, u) BY <1>3, <1>5, <1>6, Advance
<1> QED BY <1>7 DEF u

\* A block whose challenge is accumulated in 16 bits chunk by chunk.
LEMMA ChunkedBlock ==
  ASSUME NEW a, IsInput(a), NEW n \in Nat, n + 1 \in 1 .. FoldBlocks, NEW s, TileInv(a, n, s),
         Slots(a, n + 1, s) # {}, Plan(a.bound, a.challenges[n + 1]).kind = "chunked"
  PROVE  TileInv(a, n + 1, FoldBlock(a, n + 1, s))
<1> DEFINE b == n + 1
           terms == a.challenges[b]
           plan == Plan(a.bound, terms)
           slots == Slots(a, b, s)
           clean == FlushPending(s)
           Chunk(i) == ChunkedAcc(SlotPlane(a, b, i), terms, plan.ranges, clean.narrow[i], clean.wide[i])
           nn == [i \in DOMAIN clean.narrow |-> IF i \in slots THEN Chunk(i).narrow ELSE clean.narrow[i]]
           ww == [i \in DOMAIN clean.wide |-> IF i \in slots THEN Chunk(i).wide ELSE clean.wide[i]]
           v(i, k) == Sum(Added(SlotPlane(a, b, i), terms, k))
<1>1. FoldBlock(a, b, s) = [narrow |-> nn, wide |-> ww, bound |-> clean.bound]
  <2>1. plan.kind # "full" OBVIOUS
  <2> QED BY <2>1 DEF FoldBlock
<1>2. terms \in Seq(Term) /\ a.bound \in Nat
  <2>1. b \in 1 .. FoldBlocks OBVIOUS
  <2> QED BY <2>1 DEF IsInput
<1>3. PICK mass \in Nat : /\ a.bound * mass <= NarrowMax
                          /\ Cuts(Len(terms), Weights(terms), mass, plan.ranges, Len(terms))
  BY <1>2, PlanFacts
<1> HIDE DEF plan
<1>4. /\ TileInv(a, n, clean) /\ clean.bound = 0
      /\ \A i \in 1 .. Size(a) : clean.narrow[i] = Zero
  BY FlushPendingKeeps
<1>5. slots = {i \in 1 .. Size(a) : Reaches(a, b, i)}
  <2>1. s \in Tiles(a) BY DEF TileInv
  <2> QED BY <2>1, SlotsReached
<1> HIDE DEF clean, slots, terms
<1>6. clean \in Tiles(a) BY <1>4 DEF TileInv
<1>7. /\ clean.narrow \in [1 .. Size(a) -> Rings] /\ clean.wide \in [1 .. Size(a) -> Rings]
      /\ \A i \in 1 .. Size(a), k \in 1 .. RingDim : clean.wide[i][k] \in Int
  BY <1>6, TileFacts
<1>8. ASSUME NEW i \in slots
      PROVE  /\ Chunk(i).narrow = Zero
             /\ Chunk(i).wide = [k \in 1 .. RingDim |-> clean.wide[i][k] + v(i, k)]
  <2>1. i \in 1 .. Size(a) /\ Reaches(a, b, i) BY <1>5
  <2> DEFINE pl == SlotPlane(a, b, i)
             wd == clean.wide[i]
             bd == a.bound
             rs == plan.ranges
  <2>2. pl \in Rings /\ Within(pl, bd) BY <2>1, SlotFacts
  <2>3. wd \in Rings /\ clean.narrow[i] = Zero BY <1>4, <1>7, <2>1
  <2>4. bd \in Nat /\ bd * mass <= NarrowMax /\ Cuts(Len(terms), Weights(terms), mass, rs, Len(terms))
    BY <1>2, <1>3
  <2>5. Chunk(i) = ChunkedAcc(pl, terms, rs, Zero, wd) BY <2>3
  <2> HIDE DEF pl, wd, bd, rs, Chunk
  <2>6. ChunkedAcc(pl, terms, rs, Zero, wd)
          = [narrow |-> Zero, wide |-> [k \in 1 .. RingDim |-> wd[k] + Sum(Added(pl, terms, k))]]
    BY <1>2, <2>2, <2>3, <2>4, ChunkedExact
  <2>7. /\ Chunk(i).narrow = Zero
        /\ Chunk(i).wide = [k \in 1 .. RingDim |-> wd[k] + Sum(Added(pl, terms, k))]
    BY <2>5, <2>6
  <2> QED BY <2>7 DEF pl, wd
<1> HIDE DEF Chunk
<1>9. nn = clean.narrow
  <2>1. DOMAIN clean.narrow = 1 .. Size(a) BY <1>7
  <2>2. \A i \in 1 .. Size(a) : (IF i \in slots THEN Chunk(i).narrow ELSE clean.narrow[i]) = clean.narrow[i]
    BY <1>4, <1>8
  <2> QED BY <1>7, <2>1, <2>2
<1>10. ASSUME NEW i \in 1 .. Size(a), NEW k \in 1 .. RingDim
       PROVE  ww[i][k] = clean.wide[i][k] + Contribution(a, b, i, k)
  <2>1. i \in DOMAIN clean.wide BY <1>7
  <2>2. CASE Reaches(a, b, i)
    <3>1. i \in slots BY <1>5, <2>2
    <3>2. ww[i] = Chunk(i).wide BY <2>1, <3>1
    <3>3. Contribution(a, b, i, k) = v(i, k) BY <2>2 DEF Contribution, terms
    <3> HIDE DEF ww, v
    <3> QED BY <1>8, <3>1, <3>2, <3>3
  <2>3. CASE ~Reaches(a, b, i)
    <3>1. i \notin slots BY <1>5, <2>3
    <3>2. ww[i] = clean.wide[i] BY <2>1, <3>1
    <3>3. Contribution(a, b, i, k) = 0 BY <2>3 DEF Contribution
    <3>4. clean.wide[i][k] \in Int BY <1>7
    <3> HIDE DEF ww
    <3> QED BY <3>2, <3>3, <3>4
  <2> QED BY <2>2, <2>3
<1>11. ww \in [1 .. Size(a) -> Rings]
  <2>1. DOMAIN clean.wide = 1 .. Size(a) BY <1>7
  <2>2. ASSUME NEW i \in 1 .. Size(a) PROVE ww[i] \in Rings
    <3>1. CASE i \in slots
      <4>1. ww[i] = [k \in 1 .. RingDim |-> clean.wide[i][k] + v(i, k)] BY <1>8, <2>1, <3>1
      <4>2. ww[i] = [k \in 1 .. RingDim |-> ww[i][k]]
        <5> HIDE DEF ww, v
        <5> QED BY <4>1
      <4>3. \A k \in 1 .. RingDim : ww[i][k] \in Int
        <5> SUFFICES ASSUME NEW k \in 1 .. RingDim PROVE ww[i][k] \in Int OBVIOUS
        <5>1. Contribution(a, b, i, k) \in Int BY ContributionInt
        <5>2. clean.wide[i][k] \in Int BY <1>7
        <5> HIDE DEF ww
        <5> QED BY <1>10, <5>1, <5>2
      <4> HIDE DEF ww
      <4> QED BY <4>2, <4>3 DEF Rings
    <3>2. CASE i \notin slots
      <4>1. ww[i] = clean.wide[i] BY <2>1, <3>2
      <4> HIDE DEF ww
      <4> QED BY <1>7, <4>1
    <3> QED BY <3>1, <3>2
  <2>3. ww = [i \in 1 .. Size(a) |-> ww[i]] BY <2>1
  <2> HIDE DEF ww
  <2> QED BY <2>2, <2>3
<1> HIDE DEF ww, nn
<1>12. TileInv(a, n + 1, [narrow |-> clean.narrow, wide |-> ww, bound |-> clean.bound])
  BY <1>4, <1>10, <1>11, WideBlock
<1> QED BY <1>1, <1>9, <1>12

\* A block whose challenge is expanded or accumulated in 32 bits.
LEMMA OtherBlock ==
  ASSUME NEW a, IsInput(a), NEW n \in Nat, n + 1 \in 1 .. FoldBlocks, NEW s, TileInv(a, n, s),
         Slots(a, n + 1, s) # {}, Plan(a.bound, a.challenges[n + 1]).kind \in {"rotated", "wide"}
  PROVE  TileInv(a, n + 1, FoldBlock(a, n + 1, s))
<1> DEFINE b == n + 1
           terms == a.challenges[b]
           plan == Plan(a.bound, terms)
           slots == Slots(a, b, s)
           clean == FlushPending(s)
           Wide(i) == IF plan.kind = "rotated" THEN RotatedAcc(SlotPlane(a, b, i), terms, clean.wide[i])
                      ELSE MulAcc(SlotPlane(a, b, i), terms, clean.wide[i])
           ww == [i \in DOMAIN clean.wide |-> IF i \in slots THEN Wide(i) ELSE clean.wide[i]]
           v(i, k) == Sum(Added(SlotPlane(a, b, i), terms, k))
<1>1. FoldBlock(a, b, s) = [narrow |-> clean.narrow, wide |-> ww, bound |-> clean.bound]
  <2>1. plan.kind # "full" /\ plan.kind # "chunked" OBVIOUS
  <2> QED BY <2>1 DEF FoldBlock
<1>2. terms \in Seq(Term)
  <2>1. b \in 1 .. FoldBlocks OBVIOUS
  <2> QED BY <2>1 DEF IsInput
<1> HIDE DEF plan
<1>4. /\ TileInv(a, n, clean) /\ clean.bound = 0
      /\ \A i \in 1 .. Size(a) : clean.narrow[i] = Zero
  BY FlushPendingKeeps
<1>5. slots = {i \in 1 .. Size(a) : Reaches(a, b, i)}
  <2>1. s \in Tiles(a) BY DEF TileInv
  <2> QED BY <2>1, SlotsReached
<1> HIDE DEF clean, slots, terms
<1>6. clean \in Tiles(a) BY <1>4 DEF TileInv
<1>7. /\ clean.wide \in [1 .. Size(a) -> Rings]
      /\ \A i \in 1 .. Size(a), k \in 1 .. RingDim : clean.wide[i][k] \in Int
  BY <1>6, TileFacts
<1>8. ASSUME NEW i \in slots
      PROVE  Wide(i) = [k \in 1 .. RingDim |-> clean.wide[i][k] + v(i, k)]
  <2>1. i \in 1 .. Size(a) /\ Reaches(a, b, i) BY <1>5
  <2> DEFINE pl == SlotPlane(a, b, i)
             wd == clean.wide[i]
  <2>2. pl \in Rings BY <2>1, SlotFacts
  <2>3. Wide(i) = (IF plan.kind = "rotated" THEN RotatedAcc(pl, terms, wd) ELSE MulAcc(pl, terms, wd))
    OBVIOUS
  <2> HIDE DEF pl, wd, Wide
  <2>4. Wide(i) = MulAcc(pl, terms, wd) BY <1>2, <2>2, <2>3, RotatedExact
  <2>5. MulAcc(pl, terms, wd) = [k \in 1 .. RingDim |-> wd[k] + Sum(Added(pl, terms, k))]
    BY Zenon DEF MulAcc, Added
  <2> QED BY <2>4, <2>5 DEF pl, wd
<1> HIDE DEF Wide
<1>10. ASSUME NEW i \in 1 .. Size(a), NEW k \in 1 .. RingDim
       PROVE  ww[i][k] = clean.wide[i][k] + Contribution(a, b, i, k)
  <2>1. i \in DOMAIN clean.wide BY <1>7
  <2>2. CASE Reaches(a, b, i)
    <3>1. i \in slots BY <1>5, <2>2
    <3>2. ww[i] = Wide(i) BY <2>1, <3>1
    <3>3. Contribution(a, b, i, k) = v(i, k) BY <2>2 DEF Contribution, terms
    <3> HIDE DEF ww, v
    <3> QED BY <1>8, <3>1, <3>2, <3>3
  <2>3. CASE ~Reaches(a, b, i)
    <3>1. i \notin slots BY <1>5, <2>3
    <3>2. ww[i] = clean.wide[i] BY <2>1, <3>1
    <3>3. Contribution(a, b, i, k) = 0 BY <2>3 DEF Contribution
    <3>4. clean.wide[i][k] \in Int BY <1>7
    <3> HIDE DEF ww
    <3> QED BY <3>2, <3>3, <3>4
  <2> QED BY <2>2, <2>3
<1>11. ww \in [1 .. Size(a) -> Rings]
  <2>1. DOMAIN clean.wide = 1 .. Size(a) BY <1>7
  <2>2. ASSUME NEW i \in 1 .. Size(a) PROVE ww[i] \in Rings
    <3>1. CASE i \in slots
      <4>1. ww[i] = [k \in 1 .. RingDim |-> clean.wide[i][k] + v(i, k)] BY <1>8, <2>1, <3>1
      <4>2. ww[i] = [k \in 1 .. RingDim |-> ww[i][k]]
        <5> HIDE DEF ww, v
        <5> QED BY <4>1
      <4>3. \A k \in 1 .. RingDim : ww[i][k] \in Int
        <5> SUFFICES ASSUME NEW k \in 1 .. RingDim PROVE ww[i][k] \in Int OBVIOUS
        <5>1. Contribution(a, b, i, k) \in Int BY ContributionInt
        <5>2. clean.wide[i][k] \in Int BY <1>7
        <5> HIDE DEF ww
        <5> QED BY <1>10, <5>1, <5>2
      <4> HIDE DEF ww
      <4> QED BY <4>2, <4>3 DEF Rings
    <3>2. CASE i \notin slots
      <4>1. ww[i] = clean.wide[i] BY <2>1, <3>2
      <4> HIDE DEF ww
      <4> QED BY <1>7, <4>1
    <3> QED BY <3>1, <3>2
  <2>3. ww = [i \in 1 .. Size(a) |-> ww[i]] BY <2>1
  <2> HIDE DEF ww
  <2> QED BY <2>2, <2>3
<1> HIDE DEF ww
<1>12. TileInv(a, n + 1, [narrow |-> clean.narrow, wide |-> ww, bound |-> clean.bound])
  BY <1>4, <1>10, <1>11, WideBlock
<1> QED BY <1>1, <1>12

\* Every block keeps the invariant of the tile, whatever its plan.
LEMMA BlockKeeps ==
  ASSUME NEW a, IsInput(a), NEW n \in Nat, n + 1 \in 1 .. FoldBlocks, NEW s, TileInv(a, n, s)
  PROVE  TileInv(a, n + 1, FoldBlock(a, n + 1, s))
<1>1. CASE Slots(a, n + 1, s) = {}
  <2>1. FoldBlock(a, n + 1, s) = s BY <1>1 DEF FoldBlock
  <2>2. s \in Tiles(a) BY DEF TileInv
  <2>3. \A i \in 1 .. Size(a) : ~Reaches(a, n + 1, i) BY <1>1, <2>2, SlotsReached
  <2>4. ASSUME NEW i \in 1 .. Size(a), NEW k \in 1 .. RingDim
        PROVE  s.wide[i][k] + s.narrow[i][k]
                 = (s.wide[i][k] + s.narrow[i][k]) + Contribution(a, n + 1, i, k)
    <3>1. Contribution(a, n + 1, i, k) = 0 BY <2>3 DEF Contribution
    <3>2. s.wide[i][k] \in Int /\ s.narrow[i][k] \in Int BY <2>2, TileFacts
    <3> QED BY <3>1, <3>2
  <2>5. \A i \in 1 .. Size(a) : Within(s.narrow[i], s.bound) BY DEF TileInv
  <2>6. TileInv(a, n + 1, s) BY <2>2, <2>4, <2>5, Advance
  <2> QED BY <2>1, <2>6
<1>2. CASE Slots(a, n + 1, s) # {}
  <2>1. a.bound \in Nat /\ a.challenges[n + 1] \in Seq(Term) BY DEF IsInput
  <2>2. Plan(a.bound, a.challenges[n + 1]).kind \in {"rotated", "full", "wide", "chunked"}
    BY <2>1, PlanFacts
  <2> QED BY <1>2, <2>2, FullBlock, ChunkedBlock, OtherBlock
<1> QED BY <1>1, <1>2

\* A new tile holds the empty sum.
LEMMA NewTileInv ==
  ASSUME NEW a, IsInput(a)
  PROVE  TileInv(a, 0, NewTile(a))
<1> DEFINE z == [i \in 1 .. Size(a) |-> Zero]
           u == [narrow |-> z, wide |-> z, bound |-> 0]
<1>1. NewTile(a) = u BY DEF NewTile, Size, Elems
<1>2. Zero \in Rings /\ Within(Zero, 0) /\ \A k \in 1 .. RingDim : Zero[k] = 0
  BY DEF Zero, Rings, Within, Abs
<1>3. z \in [1 .. Size(a) -> Rings] BY <1>2
<1>4. \A i \in 1 .. Size(a) : z[i] = Zero OBVIOUS
<1> HIDE DEF z
<1>5. 0 \in 0 .. NarrowMax BY FoldAssumption
<1>6. u \in Tiles(a) BY <1>3, <1>5 DEF Tiles
<1>7. u.narrow = z /\ u.wide = z /\ u.bound = 0 OBVIOUS
<1> HIDE DEF u
<1>8. ASSUME NEW i \in 1 .. Size(a), NEW k \in 1 .. RingDim
      PROVE  u.wide[i][k] + u.narrow[i][k] = Total(a, 0, i, k)
  <2> DEFINE c == [b \in 1 .. 0 |-> Contribution(a, b, i, k)]
  <2>1. c \in [1 .. 0 -> Int] /\ \A b \in 1 .. 0 : c[b] = 0 OBVIOUS
  <2>2. Total(a, 0, i, k) = Sum(c) BY DEF Total
  <2> HIDE DEF c
  <2>3. Sum(c) = 0
    <3>1. 0 \in Nat OBVIOUS
    <3> QED BY <2>1, <3>1, SumZero
  <2>4. u.wide[i][k] = 0 /\ u.narrow[i][k] = 0 BY <1>2, <1>4, <1>7
  <2> QED BY <2>2, <2>3, <2>4
<1> QED BY <1>1, <1>2, <1>4, <1>6, <1>7, <1>8 DEF TileInv

-----------------------------------------------------------------------------
\* The calls.

\* The call is a fold of a source; its last tile holds the sum over the blocks
\* done, and once it is finished nothing waits in 16 bits.
FoldInv ==
  /\ {"fn", "arg", "out"} \subseteq DOMAIN call /\ call.fn = "fold"
  /\ IsInput(call.arg) /\ Len(call.arg.challenges) = FoldBlocks
  /\ call.out \in Seq(Tiles(call.arg)) /\ Len(call.out) <= FoldBlocks + 1
  /\ Len(call.out) \in 1 .. FoldBlocks => TileInv(call.arg, Len(call.out), call.out[Len(call.out)])
  /\ Len(call.out) = FoldBlocks + 1 =>
        /\ TileInv(call.arg, FoldBlocks, call.out[FoldBlocks + 1])
        /\ \A i \in 1 .. Size(call.arg) : call.out[FoldBlocks + 1].narrow[i] = Zero

\* The inputs of a call are a source's and challenges of the sampler.
LEMMA FoldInit == StartFold => FoldInv
<1> SUFFICES ASSUME StartFold PROVE FoldInv OBVIOUS
<1>1. PICK a \in FoldSources, cs \in [1 .. FoldBlocks -> FoldChallenges] :
        call = [fn |-> "fold", out |-> <<>>,
                arg |-> [ bound |-> a.bound, planes |-> a.planes, digits |-> a.digits,
                          positions |-> a.positions, tile |-> a.tile, challenges |-> cs ]]
  BY DEF StartFold, Starts
<1> DEFINE q == [ bound |-> a.bound, planes |-> a.planes, digits |-> a.digits,
                  positions |-> a.positions, tile |-> a.tile, challenges |-> cs ]
<1>2. /\ q.bound = a.bound /\ q.planes = a.planes /\ q.digits = a.digits
      /\ q.positions = a.positions /\ q.tile = a.tile /\ q.challenges = cs
  OBVIOUS
<1> HIDE DEF q
<1>3. call.fn = "fold" /\ call.out = <<>> /\ call.arg = q /\ {"fn", "arg", "out"} \subseteq DOMAIN call
  BY <1>1 DEF q
<1>4. \A c \in FoldChallenges : c \in Seq(Term) BY FoldAssumption DEF Term
<1>5. cs \in [1 .. FoldBlocks -> Seq(Term)] BY <1>4
<1>6. \A i \in DOMAIN q.planes : Within(q.planes[i], q.bound) BY <1>2, FoldAssumption DEF Within
<1>7. IsInput(q) BY <1>2, <1>5, <1>6, FoldAssumption DEF IsInput
<1>8. FoldBlocks \in Nat BY FoldAssumption
<1>9. Len(cs) = FoldBlocks BY <1>8
<1>10. call.out \in Seq(Tiles(q)) /\ Len(call.out) = 0 BY <1>3
<1> QED BY <1>2, <1>3, <1>7, <1>8, <1>9, <1>10 DEF FoldInv

\* A call that has returned one tile more.
LEMMA Returned ==
  ASSUME FoldInv, NEW r, r \in Tiles(call.arg), Returns(r)
  PROVE  /\ {"fn", "arg", "out"} \subseteq DOMAIN call' /\ call'.fn = "fold" /\ call'.arg = call.arg
         /\ call'.out \in Seq(Tiles(call.arg)) /\ Len(call'.out) = Len(call.out) + 1
         /\ call'.out[Len(call'.out)] = r /\ Len(call.out) \in Nat
<1>1. call' = [call EXCEPT !.out = Append(call.out, r)] BY DEF Returns
<1>2. call.out \in Seq(Tiles(call.arg)) BY DEF FoldInv
<1>3. "fn" \in DOMAIN call /\ "arg" \in DOMAIN call /\ "out" \in DOMAIN call BY DEF FoldInv
<1>4. /\ call'.fn = call.fn /\ call'.arg = call.arg /\ call'.out = Append(call.out, r)
      /\ DOMAIN call' = DOMAIN call
  BY <1>1, <1>3
<1>5. call.fn = "fold" BY DEF FoldInv
<1> QED BY <1>2, <1>3, <1>4, <1>5

\* The tile the next block starts from.
LEMMA TileNowInv ==
  ASSUME FoldInv, Len(call.out) <= FoldBlocks
  PROVE  TileInv(call.arg, Len(call.out), TileNow)
<1>1. IsInput(call.arg) /\ call.out \in Seq(Tiles(call.arg)) BY DEF FoldInv
<1>2. CASE call.out = <<>>
  <2>1. Len(call.out) = 0 /\ TileNow = NewTile(call.arg) BY <1>2 DEF TileNow
  <2> QED BY <1>1, <2>1, NewTileInv
<1>3. CASE call.out # <<>>
  <2>1. Len(call.out) \in Nat /\ Len(call.out) # 0 BY <1>1, <1>3
  <2>2. Len(call.out) \in 1 .. FoldBlocks BY <2>1, FoldAssumption
  <2>3. TileNow = call.out[Len(call.out)] BY <1>3 DEF TileNow, Last
  <2> QED BY <2>2, <2>3 DEF FoldInv
<1> QED BY <1>2, <1>3

\* One block more.
LEMMA NextBlockKeeps ==
  ASSUME FoldInv, NextBlockOfTile
  PROVE  FoldInv'
<1> DEFINE n == Len(call.out)
           a == call.arg
           r == FoldBlock(a, n + 1, TileNow)
<1>1. IsInput(a) /\ Len(a.challenges) = FoldBlocks /\ call.out \in Seq(Tiles(a)) BY DEF FoldInv
<1>2. n \in Nat /\ n + 1 \in 1 .. FoldBlocks /\ FoldBlocks \in Nat
  BY <1>1, FoldAssumption DEF NextBlockOfTile, Blocks
<1>3. TileInv(a, n, TileNow) BY <1>2, TileNowInv
<1>4. Returns(r) BY DEF NextBlockOfTile
<1>5. TileInv(a, n + 1, r)
  <2> DEFINE t == TileNow
  <2> HIDE DEF n, a, t
  <2> QED BY <1>1, <1>2, <1>3, BlockKeeps DEF t
<1>6. r \in Tiles(a) BY <1>5 DEF TileInv
<1> HIDE DEF r
<1>7. /\ {"fn", "arg", "out"} \subseteq DOMAIN call' /\ call'.fn = "fold" /\ call'.arg = a
      /\ call'.out \in Seq(Tiles(a)) /\ Len(call'.out) = n + 1 /\ call'.out[Len(call'.out)] = r
  BY <1>4, <1>6, Returned
<1> HIDE DEF n, a
<1>8. n + 1 # FoldBlocks + 1 /\ n + 1 <= FoldBlocks + 1 BY <1>2
<1> QED BY <1>1, <1>2, <1>5, <1>7, <1>8 DEF FoldInv

\* The last flush.
LEMMA FinishKeeps ==
  ASSUME FoldInv, FinishTile
  PROVE  FoldInv'
<1> DEFINE n == Len(call.out)
           a == call.arg
           r == FlushPending(TileNow)
<1>1. IsInput(a) /\ Len(a.challenges) = FoldBlocks BY DEF FoldInv
<1>2. n = FoldBlocks /\ FoldBlocks \in Nat BY <1>1, FoldAssumption DEF FinishTile, At, Blocks
<1>3. TileInv(a, n, TileNow) BY <1>2, TileNowInv
<1>4. Returns(r) BY DEF FinishTile
<1>5. TileInv(a, n, r) /\ \A i \in 1 .. Size(a) : r.narrow[i] = Zero
  <2> DEFINE t == TileNow
  <2>1. n \in Nat BY <1>2
  <2> HIDE DEF n, a, t
  <2> QED BY <1>1, <1>3, <2>1, FlushPendingKeeps DEF t
<1>6. r \in Tiles(a) BY <1>5 DEF TileInv
<1> HIDE DEF r
<1>7. /\ {"fn", "arg", "out"} \subseteq DOMAIN call' /\ call'.fn = "fold" /\ call'.arg = a
      /\ call'.out \in Seq(Tiles(a)) /\ Len(call'.out) = n + 1 /\ call'.out[Len(call'.out)] = r
  BY <1>4, <1>6, Returned
<1> HIDE DEF n, a
<1>8. ~(n + 1 \in 1 .. FoldBlocks) /\ n + 1 = FoldBlocks + 1 BY <1>2
<1> QED BY <1>1, <1>2, <1>5, <1>7, <1>8 DEF FoldInv

\* The 16-bit accumulators of a fold never leave their range and never lose or
\* repeat a contribution, for every source, every challenge and every ring
\* dimension: the invariant of sparse_mul_acc's callers.
THEOREM FoldTilesHold == FoldSpec => []FoldInv
<1>1. StartFold => FoldInv BY FoldInit
<1>2. FoldInv /\ [FoldNext]_call => FoldInv'
  <2> SUFFICES ASSUME FoldInv, [FoldNext]_call PROVE FoldInv' OBVIOUS
  <2>1. CASE NextBlockOfTile BY <2>1, NextBlockKeeps
  <2>2. CASE FinishTile BY <2>2, FinishKeeps
  <2>3. CASE UNCHANGED call BY <2>3 DEF FoldInv, TileInv
  <2> QED BY <2>1, <2>2, <2>3 DEF FoldNext
<1> QED BY <1>1, <1>2, PTL DEF FoldSpec

\* A finished fold is the sum of the products.
LEMMA FoldInvExact == FoldInv => FoldExact
<1> SUFFICES ASSUME FoldInv, Len(call.out) = Blocks + 1 PROVE FoldExact BY DEF FoldExact
<1> DEFINE a == call.arg
           s == call.out[FoldBlocks + 1]
<1>1. IsInput(a) /\ Blocks = FoldBlocks /\ FoldBlocks \in Nat BY FoldAssumption DEF FoldInv, Blocks
<1>2. Len(call.out) = FoldBlocks + 1 BY <1>1
<1>3. TileInv(a, FoldBlocks, s) /\ \A i \in 1 .. Size(a) : s.narrow[i] = Zero BY <1>2 DEF FoldInv
<1>4. Last(call.out) = s BY <1>2 DEF Last
<1> HIDE DEF a, s
<1>5. ASSUME NEW e \in 0 .. Elems(a) - 1, NEW d \in 1 .. a.digits, NEW k \in 1 .. RingDim
      PROVE  s.wide[e * a.digits + d][k]
               = Sum([b \in 1 .. Blocks |-> ProductAt(a, b, a.tile.start + e, d, k - 1)])
  <2> DEFINE i == e * a.digits + d
  <2>1. [b \in 1 .. Blocks |-> ProductAt(a, b, a.tile.start + e, d, k - 1)]
          = [b \in 1 .. FoldBlocks |-> Contribution(a, b, i, k)]
    <3>1. \A b \in 1 .. FoldBlocks :
             ProductAt(a, b, a.tile.start + e, d, k - 1) = Contribution(a, b, i, k)
      BY <1>1, ProductMeant
    <3> HIDE DEF i
    <3> QED BY <1>1, <3>1
  <2>2. i \in 1 .. Size(a)
    <3>1. Elems(a) \in Nat /\ a.digits \in Nat \ {0} /\ Size(a) = Elems(a) * a.digits
      BY <1>1, SizeNat DEF Size
    <3>2. a.digits * (e + 1) <= a.digits * Elems(a) BY <3>1, TimesGrows
    <3>3. /\ a.digits * (e + 1) = e * a.digits + a.digits /\ e * a.digits \in Nat
          /\ a.digits * Elems(a) = Elems(a) * a.digits /\ Elems(a) * a.digits \in Nat
      BY <3>1, SMTT(30)
    <3>4. PICK x \in Nat, y \in Nat, g \in Nat \ {0} :
            /\ x = e * a.digits /\ y = Elems(a) * a.digits /\ g = a.digits /\ x + g <= y /\ d \in 1 .. g
      BY <3>1, <3>2, <3>3
    <3>5. x + d \in 1 .. y BY <3>4, SMTT(30)
    <3> QED BY <3>1, <3>4, <3>5
  <2> HIDE DEF i
  <2>3. s.wide[i][k] + s.narrow[i][k] = Total(a, FoldBlocks, i, k) BY <1>3, <2>2 DEF TileInv
  <2>4. s.narrow[i][k] = 0 BY <1>3, <2>2 DEF Zero
  <2>5. s.wide[i][k] \in Int
    <3>1. s \in Tiles(a) BY <1>3 DEF TileInv
    <3> QED BY <1>1, <2>2, <3>1, TileFacts
  <2>6. s.wide[i][k] = Total(a, FoldBlocks, i, k) BY <2>3, <2>4, <2>5
  <2> QED BY <2>1, <2>6 DEF Total, i
<1> QED BY <1>4, <1>5 DEF FoldExact, Elems, a

\* The fold of a tile is the sum over the blocks of challenge times plane in
\* Z[X]/(X^D + 1), whichever plans (table of rotations, 16 bits, chunks, 32
\* bits) meet in it, for every source, challenge and ring dimension.
THEOREM FoldIsExact == FoldSpec => []FoldExact
BY FoldTilesHold, FoldInvExact, PTL


-----------------------------------------------------------------------------
(* The packed witness. *)


\* Powers of two, from the cardinality of power sets.
LEMMA PowerStep ==
  ASSUME NEW k \in Nat
  PROVE  2 ^ 0 = 1 /\ 2 ^ k \in Nat /\ 2 ^ (k + 1) = 2 * 2 ^ k
<1> DEFINE S == 1 .. k
           R == 1 .. k + 1
           A == SUBSET S
           B == {T \in SUBSET R : k + 1 \in T}
           add == [T \in A |-> T \cup {k + 1}]
<1>1. IsFiniteSet(S) /\ Cardinality(S) = k /\ IsFiniteSet(R) /\ Cardinality(R) = k + 1
  BY FS_Interval
<1>2. IsFiniteSet(A) /\ Cardinality(A) = 2 ^ k BY <1>1, FS_SUBSET
<1>3. IsFiniteSet(SUBSET R) /\ Cardinality(SUBSET R) = 2 ^ (k + 1) BY <1>1, FS_SUBSET
<1>4. 2 ^ k \in Nat BY <1>2, FS_CardinalityType
<1>5. 2 ^ 0 = 1
  <2>1. IsFiniteSet({}) /\ Cardinality({}) = 0 BY FS_EmptySet
  <2>2. Cardinality(SUBSET {}) = 2 ^ 0 BY <2>1, FS_SUBSET
  <2>3. SUBSET {} = {{}} OBVIOUS
  <2>4. Cardinality({{}}) = 1 BY FS_Singleton
  <2> QED BY <2>2, <2>3, <2>4
<1>6. add \in Bijection(A, B)
  <2>1. add \in [A -> B] OBVIOUS
  <2>2. ASSUME NEW T \in A, NEW U \in A, add[T] = add[U] PROVE T = U
    <3>1. k + 1 \notin T /\ k + 1 \notin U OBVIOUS
    <3>2. T \cup {k + 1} = U \cup {k + 1} BY <2>2
    <3> QED BY <3>1, <3>2
  <2>3. ASSUME NEW T \in B PROVE \E U \in A : add[U] = T
    <3>1. T \ {k + 1} \in A OBVIOUS
    <3>2. add[T \ {k + 1}] = T BY <3>1
    <3> QED BY <3>1, <3>2
  <2> QED BY <2>1, <2>2, <2>3 DEF Bijection, Injection, Surjection, IsInjective
<1>7. IsFiniteSet(B) /\ Cardinality(B) = 2 ^ k
  <2>1. ExistsBijection(A, B) BY <1>6 DEF ExistsBijection
  <2> QED BY <1>2, <2>1, FS_Bijection
<1>8. SUBSET R = A \cup B /\ A \cap B = {} OBVIOUS
<1> HIDE DEF A, B, R
<1>9. Cardinality(A \cup B) = 2 ^ k + 2 ^ k - Cardinality({}) BY <1>2, <1>7, <1>8, FS_Union
<1>10. Cardinality({}) = 0 BY FS_EmptySet
<1>11. PICK p \in Nat : p = 2 ^ k BY <1>4
<1>12. 2 ^ (k + 1) = p + p - 0 BY <1>3, <1>8, <1>9, <1>10, <1>11
<1>13. 2 ^ (k + 1) = 2 * p BY <1>12
<1> QED BY <1>4, <1>5, <1>11, <1>13


\* Powers of two are positive and double.
LEMMA PowerFacts ==
  ASSUME NEW k \in Nat
  PROVE  2 ^ 0 = 1 /\ 2 ^ k \in Nat \ {0} /\ 2 ^ (k + 1) = 2 * 2 ^ k
<1> DEFINE T == {i \in Nat : 2 ^ i > 0}
<1>1. 0 \in T BY PowerStep
<1>2. ASSUME NEW i \in 0 .. k - 1, i \in T PROVE i + 1 \in T
  <2>1. PICK p \in Nat : p = 2 ^ i /\ 2 ^ (i + 1) = 2 * p BY PowerStep
  <2>2. p > 0 BY <1>2, <2>1
  <2> QED BY <2>1, <2>2
<1>3. \A i \in 0 .. k : i \in T
  <2> HIDE DEF T
  <2> QED BY <1>1, <1>2, UpTo
<1>4. 2 ^ k > 0 BY <1>3
<1> QED BY <1>4, PowerStep

\* Quotient and remainder are unique.
LEMMA DivUnique ==
  ASSUME NEW p \in Nat \ {0}, NEW q \in Int, NEW r \in 0 .. p - 1, NEW x \in Int, x = p * q + r
  PROVE  x \div p = q /\ x % p = r
<1> DEFINE u == x \div p
           v == x % p
<1>1. u \in Int /\ v \in 0 .. p - 1 /\ x = p * u + v OBVIOUS
<1> HIDE DEF u, v
<1>2. ~(u < q)
  <2> SUFFICES ASSUME u + 1 <= q PROVE FALSE BY <1>1
  <2>1. p * (u + 1) <= p * q BY <1>1, TimesGrows
  <2>2. p * (u + 1) = p * u + p BY <1>1
  <2>3. PICK a \in Int, b \in Int : a = p * u /\ b = p * q BY <1>1
  <2> QED BY <1>1, <2>1, <2>2, <2>3
<1>3. ~(q < u)
  <2> SUFFICES ASSUME q + 1 <= u PROVE FALSE BY <1>1
  <2>1. p * (q + 1) <= p * u BY <1>1, TimesGrows
  <2>2. p * (q + 1) = p * q + p BY <1>1
  <2>3. PICK a \in Int, b \in Int : a = p * u /\ b = p * q BY <1>1
  <2> QED BY <1>1, <2>1, <2>2, <2>3
<1>4. u = q BY <1>1, <1>2, <1>3
<1>5. PICK a \in Int : a = p * q OBVIOUS
<1>6. v = r BY <1>1, <1>4, <1>5
<1> QED BY <1>4, <1>6 DEF u, v

\* The remainder by twice a number has one bit more than the one by it.
LEMMA BitStep ==
  ASSUME NEW x \in Int, NEW p \in Nat \ {0}
  PROVE  /\ x % (2 * p) = (x % p) + (((x \div p) % 2) * p)
         /\ (x \div p) % 2 \in {0, 1}
<1> DEFINE q == x \div p
           r == x % p
           s == q \div 2
           t == q % 2
<1>1. q \in Int /\ r \in 0 .. p - 1 /\ x = p * q + r OBVIOUS
<1> HIDE DEF q, r
<1>2. s \in Int /\ t \in {0, 1} /\ q = 2 * s + t BY <1>1
<1> HIDE DEF s, t
<1>3. p * q = (2 * p) * s + t * p BY <1>1, <1>2
<1>4. t * p \in {0, p}  BY <1>2
<1>5. x = (2 * p) * s + (t * p + r)
  <2>1. PICK a \in Int, b \in Int, c \in Int : a = p * q /\ b = (2 * p) * s /\ c = t * p BY <1>1, <1>2
  <2> QED BY <1>1, <1>3, <2>1
<1>6. t * p + r \in 0 .. (2 * p) - 1 /\ 2 * p \in Nat \ {0} BY <1>1, <1>4
<1>7. x % (2 * p) = t * p + r
  <2>1. PICK d \in Nat \ {0} : d = 2 * p BY <1>6
  <2>2. PICK e \in 0 .. d - 1 : e = t * p + r BY <1>6, <2>1
  <2>3. x = d * s + e BY <1>5, <2>1, <2>2
  <2>4. x % d = e BY <1>2, <2>3, DivUnique
  <2> QED BY <2>1, <2>2, <2>4
<1> QED BY <1>1, <1>2, <1>4, <1>7 DEF q, r, s, t

\* A bit, and the bits up to it.
LEMMA BitIs ==
  ASSUME NEW x \in Int, NEW i \in Nat
  PROVE  Bit(x, i) \in {0, 1} /\ x % 2 ^ (i + 1) = (x % 2 ^ i) + (Bit(x, i) * 2 ^ i)
<1>1. PICK p \in Nat \ {0} : p = 2 ^ i /\ 2 ^ (i + 1) = 2 * p BY PowerFacts
<1>2. x % (2 * p) = (x % p) + (((x \div p) % 2) * p) /\ (x \div p) % 2 \in {0, 1} BY BitStep
<1> QED BY <1>1, <1>2 DEF Bit

\* The low bits of a number, put together again.
LEMMA BitsSum ==
  ASSUME NEW w \in Nat, NEW x \in Int, NEW s, DOMAIN s = 1 .. w, s = [i \in 1 .. w |-> s[i]],
         \A i \in 1 .. w : s[i] = Bit(x, i - 1) * 2 ^ (i - 1)
  PROVE  Sum(s) = x % 2 ^ w
<1> DEFINE g == [i \in 0 .. w |-> x % 2 ^ i]
<1>1. ASSUME NEW i \in 0 .. w PROVE x % 2 ^ i \in Int
  <2>1. PICK p \in Nat \ {0} : p = 2 ^ i BY PowerFacts
  <2>2. x % p \in Int OBVIOUS
  <2> QED BY <2>1, <2>2
<1>2. x % 2 ^ 0 = 0
  <2>1. x % 1 = 0 OBVIOUS
  <2> QED BY <2>1, PowerFacts
<1>3. ASSUME NEW i \in 1 .. w PROVE s[i] \in Int /\ x % 2 ^ i = (x % 2 ^ (i - 1)) + s[i]
  <2>1. i - 1 \in Nat /\ (i - 1) + 1 = i /\ i - 1 \in 0 .. w OBVIOUS
  <2>2. Bit(x, i - 1) \in {0, 1} /\ x % 2 ^ i = (x % 2 ^ (i - 1)) + (Bit(x, i - 1) * 2 ^ (i - 1))
    BY <2>1, BitIs
  <2>3. PICK p \in Nat \ {0} : p = 2 ^ (i - 1) BY <2>1, PowerFacts
  <2> QED BY <2>1, <2>2, <2>3
<1>4. s \in [1 .. w -> Int] BY <1>3
<1>5. PartialSums(w, s, g) BY <1>1, <1>2, <1>3 DEF PartialSums
<1>6. Sum(s) = g[w]
  <2> HIDE DEF g
  <2> QED BY <1>4, <1>5, SumBy
<1> QED BY <1>6


\* A multiple leaves no remainder.
LEMMA Multiple ==
  ASSUME NEW p \in Nat \ {0}, NEW q \in Int
  PROVE  (p * q) % p = 0 /\ (p * q) \div p = q
<1>1. PICK x \in Int : x = p * q OBVIOUS
<1>2. x = p * q + 0 BY <1>1
<1>3. 0 \in 0 .. p - 1 OBVIOUS
<1>4. x \div p = q /\ x % p = 0 BY <1>2, <1>3, DivUnique
<1> QED BY <1>1, <1>4

\* Addresses of bits: the bit of a digit is the bit of no other digit.
LEMMA AddressUnique ==
  ASSUME NEW w \in Nat \ {0}, NEW i \in Nat, NEW k \in Nat, NEW j \in 0 .. w - 1, NEW m \in 0 .. w - 1,
         i * w + j = k * w + m
  PROVE  i = k /\ j = m
<1> DEFINE x == i * w + j
<1>1. x = w * i + j /\ x = w * k + m /\ x \in Int OBVIOUS
<1> HIDE DEF x
<1>2. x \div w = i /\ x % w = j BY <1>1, DivUnique
<1>3. x \div w = k /\ x % w = m BY <1>1, DivUnique
<1> QED BY <1>2, <1>3

\* Where a block of digits ends, a byte ends.
LEMMA BlockStart ==
  ASSUME NEW n \in Nat, n % BlockDigits = 0, NEW width \in Nat
  PROVE  EncodedLen(n, width) * PackedByte = n * width
<1> DEFINE q == n \div BlockDigits
           c == BlockDigits \div PackedByte
           z == (c * q) * width
<1>1. PackedByte \in Nat \ {0} /\ BlockDigits \in Nat \ {0} /\ BlockDigits % PackedByte = 0
  BY PackedAssumption
<1>2. q \in Nat /\ n = BlockDigits * q BY <1>1, DivBack
<1>3. c \in Nat /\ BlockDigits = PackedByte * c BY <1>1, DivBack
<1> HIDE DEF q, c
<1>4. n * width = PackedByte * z
  <2>1. n = (PackedByte * c) * q BY <1>2, <1>3
  <2>2. (PackedByte * c) * q = PackedByte * (c * q) BY <1>1, <1>2, <1>3
  <2>3. PICK e \in Nat : e = c * q BY <1>2, <1>3
  <2>4. n * width = (PackedByte * e) * width BY <2>1, <2>2, <2>3
  <2>5. (PackedByte * e) * width = PackedByte * (e * width) BY <1>1, <2>3
  <2> QED BY <2>3, <2>4, <2>5
<1>5. z \in Int
  <2>1. PICK e \in Nat : e = c * q BY <1>2, <1>3
  <2> QED BY <2>1
<1> HIDE DEF z
<1>6. PackedByte * z + PackedByte - 1 = PackedByte * z + (PackedByte - 1) /\ PackedByte - 1 \in 0 .. PackedByte - 1
  BY <1>1, <1>5
<1>7. (PackedByte * z + PackedByte - 1) \div PackedByte = z BY <1>1, <1>5, <1>6, DivUnique
<1>8. EncodedLen(n, width) = z BY <1>4, <1>7 DEF EncodedLen, DivCeil
<1> QED BY <1>1, <1>4, <1>5, <1>8

\* The bits of the digits f[0], f[1], ... below n.
Encoded(f, n, width) ==
  {x \in Nat : \E i \in 0 .. n - 1, j \in 0 .. width - 1 :
                  x = i * width + j /\ Bit(f[i] % 2 ^ width, j) = 1}

\* What encode_digits writes, whatever the blocks.
LEMMA EncodeFacts ==
  ASSUME NEW s \in Seq(Int), NEW width \in Nat \ {0}, NEW x
  PROVE  x \in EncodeDigits(s, width) <=>
           \E i \in 0 .. Len(s) - 1, j \in 0 .. width - 1 :
              x = i * width + j /\ Bit(s[i + 1] % 2 ^ width, j) = 1
<1>0. BlockDigits \in Nat \ {0} BY PackedAssumption
<1>1. ASSUME NEW i \in 0 .. Len(s) - 1, NEW j \in 0 .. width - 1
      PROVE  ((i \div BlockDigits) * BlockDigits * width) + ((i % BlockDigits) * width + j) = i * width + j
  <2> DEFINE q == i \div BlockDigits
             r == i % BlockDigits
  <2>1. i \in Nat OBVIOUS
  <2>2. q \in Int /\ r \in Int /\ i = BlockDigits * q + r BY <1>0, <2>1
  <2> HIDE DEF q, r
  <2>3. i * width = (BlockDigits * q + r) * width BY <2>2
  <2>4. (BlockDigits * q + r) * width = (q * BlockDigits) * width + r * width BY <1>0, <2>2
  <2>5. PICK a \in Int, b \in Int, c \in Int : a = (q * BlockDigits) * width /\ b = r * width /\ c = i * width
    BY <1>0, <2>1, <2>2
  <2>6. c = a + b BY <2>3, <2>4, <2>5
  <2>7. j \in Int OBVIOUS
  <2>8. a + (b + j) = c + j BY <2>6, <2>7
  <2> QED BY <2>5, <2>8 DEF q, r
<1>2. x \in EncodeDigits(s, width) <=>
        \E i \in 0 .. Len(s) - 1 : \E j \in 0 .. width - 1 :
           /\ Bit(s[i + 1] % 2 ^ width, j) = 1
           /\ x = ((i \div BlockDigits) * BlockDigits * width) + ((i % BlockDigits) * width + j)
  <2> DEFINE at(i) == EncodeAt(i % BlockDigits, width, s[i + 1])
  <2>1. x \in EncodeDigits(s, width) <=>
          \E i \in 0 .. Len(s) - 1 : \E b \in at(i) : x = ((i \div BlockDigits) * BlockDigits * width) + b
    <3> HIDE DEF at
    <3>1. EncodeDigits(s, width) =
            UNION {{((i \div BlockDigits) * BlockDigits * width) + b : b \in at(i)} : i \in 0 .. Len(s) - 1}
      BY Zenon DEF EncodeDigits, at
    <3> QED BY <3>1, SMT
  <2>2. \A i \in 0 .. Len(s) - 1 : \A b : b \in at(i) <=>
          \E j \in 0 .. width - 1 : Bit(s[i + 1] % 2 ^ width, j) = 1 /\ b = (i % BlockDigits) * width + j
    BY Zenon DEF EncodeAt
  <2> HIDE DEF at
  <2> QED BY <2>1, <2>2
<1> QED BY <1>1, <1>2, ZenonT(30)


\* The larger and the smaller of two integers.
LEMMA MaxPair ==
  ASSUME NEW x \in Int, NEW y \in Int
  PROVE  /\ Max({x, y}) \in {x, y} /\ Max({x, y}) >= x /\ Max({x, y}) >= y
         /\ Min({x, y}) \in {x, y} /\ Min({x, y}) <= x /\ Min({x, y}) <= y
<1>1. \E m \in {x, y} : \A k \in {x, y} : m >= k OBVIOUS
<1>2. \E m \in {x, y} : \A k \in {x, y} : m <= k OBVIOUS
<1>3. Max({x, y}) \in {x, y} /\ \A k \in {x, y} : Max({x, y}) >= k BY <1>1 DEF Max
<1>4. Min({x, y}) \in {x, y} /\ \A k \in {x, y} : Min({x, y}) <= k BY <1>2 DEF Min
<1> QED BY <1>3, <1>4

\* The largest of the entries of a list and 0.
LEMMA MaxOfList ==
  ASSUME NEW n \in Nat, NEW g \in [1 .. n -> Int], NEW S, S = {0} \cup {g[i] : i \in 1 .. n}
  PROVE  Max(S) \in Nat /\ \A i \in 1 .. n : g[i] <= Max(S)
<1> DEFINE T == {m \in 0 .. n : \E b \in S : b >= 0 /\ \A i \in 1 .. m : b >= g[i]}
<1>1. 0 \in T OBVIOUS
<1>2. ASSUME NEW m \in 0 .. n - 1, m \in T PROVE m + 1 \in T
  <2>1. PICK b \in S : b >= 0 /\ \A i \in 1 .. m : b >= g[i] BY <1>2
  <2>2. m + 1 \in 1 .. n /\ g[m + 1] \in Int /\ g[m + 1] \in S /\ m + 1 \in 0 .. n OBVIOUS
  <2>3. \A i \in 1 .. m + 1 : i \in 1 .. m \/ i = m + 1 OBVIOUS
  <2>4. b \in Int /\ \A i \in 1 .. m : g[i] \in Int OBVIOUS
  <2>5. CASE b >= g[m + 1] BY <2>1, <2>2, <2>3, <2>5
  <2>6. CASE g[m + 1] >= b
    <3>1. g[m + 1] >= 0 BY <2>1, <2>2, <2>4, <2>6
    <3>2. \A i \in 1 .. m : g[m + 1] >= g[i] BY <2>1, <2>2, <2>4, <2>6
    <3>3. \A i \in 1 .. m + 1 : g[m + 1] >= g[i] BY <2>2, <2>3, <3>2
    <3> QED BY <2>2, <3>1, <3>3
  <2> QED BY <2>2, <2>4, <2>5, <2>6
<1>3. \A m \in 0 .. n : m \in T
  <2> HIDE DEF T
  <2> QED BY <1>1, <1>2, UpTo
<1>4. PICK b \in S : b >= 0 /\ \A i \in 1 .. n : b >= g[i]
  <2>1. n \in 0 .. n OBVIOUS
  <2> QED BY <1>3, <2>1
<1>5. \E x \in S : \A y \in S : x >= y BY <1>4
<1>6. Max(S) \in S /\ \A y \in S : Max(S) >= y BY <1>5 DEF Max
<1>7. \A i \in 1 .. n : g[i] \in S /\ g[i] \in Int OBVIOUS
<1>8. 0 \in S /\ S \subseteq Int OBVIOUS
<1>9. Max(S) >= 0 /\ Max(S) \in Int BY <1>6, <1>8
<1>10. \A i \in 1 .. n : g[i] <= Max(S) BY <1>6, <1>7, <1>9
<1> QED BY <1>9, <1>10

\* The bounds of a list of digits are bounds of each.
LEMMA BoundFacts ==
  ASSUME NEW s \in Seq(Int)
  PROVE  /\ DigitBounds(s).neg \in Nat /\ DigitBounds(s).pos \in Nat
         /\ \A i \in 1 .. Len(s) : -DigitBounds(s).neg <= s[i] /\ s[i] <= DigitBounds(s).pos
<1> DEFINE n == Len(s)
           minus == [i \in 1 .. n |-> -s[i]]
           P == {0} \cup {s[i] : i \in DOMAIN s}
           N == {0} \cup {-s[i] : i \in DOMAIN s}
<1>1. n \in Nat /\ DOMAIN s = 1 .. n /\ s \in [1 .. n -> Int] /\ minus \in [1 .. n -> Int] OBVIOUS
<1>2. P = {0} \cup {s[i] : i \in 1 .. n} BY <1>1
<1>3. N = {0} \cup {minus[i] : i \in 1 .. n} BY <1>1
<1>4. DigitBounds(s).neg = Max(N) /\ DigitBounds(s).pos = Max(P) BY DEF DigitBounds
<1> HIDE DEF N, P, minus
<1>5. Max(P) \in Nat /\ \A i \in 1 .. n : s[i] <= Max(P) BY <1>1, <1>2, MaxOfList
<1>6. Max(N) \in Nat /\ \A i \in 1 .. n : minus[i] <= Max(N) BY <1>1, <1>3, MaxOfList
<1>7. \A i \in 1 .. n : s[i] \in Int /\ minus[i] = -s[i] BY <1>1 DEF minus
<1>8. ASSUME NEW i \in 1 .. n PROVE -Max(N) <= s[i]
  <2>1. -s[i] <= Max(N) /\ s[i] \in Int /\ Max(N) \in Nat BY <1>6, <1>7
  <2> QED BY <2>1
<1> QED BY <1>4, <1>5, <1>6, <1>8

\* The digits s are f[m], f[m + 1], ...
Continues(f, m, s) == \A j \in 1 .. Len(s) : s[j] = f[m + j - 1]
Appended(f, m, s, width) ==
  Encoded(f, m + Len(s), width) = Encoded(f, m, width) \cup {m * width + x : x \in EncodeDigits(s, width)}

\* The bits of some digits more.
LEMMA EncodedMore ==
  ASSUME NEW f \in [Nat -> Int], NEW m \in Nat, NEW s \in Seq(Int), NEW width \in Nat \ {0},
         Continues(f, m, s)
  PROVE  Appended(f, m, s, width)
<1> DEFINE More == {m * width + x : x \in EncodeDigits(s, width)}
<1> USE DEF Continues
<1>0. Len(s) \in Nat OBVIOUS
<1>1. ASSUME NEW x \in Encoded(f, m + Len(s), width) PROVE x \in Encoded(f, m, width) \cup More
  <2>1. PICK i \in 0 .. m + Len(s) - 1, j \in 0 .. width - 1 :
               x = i * width + j /\ Bit(f[i] % 2 ^ width, j) = 1
    BY <1>1 DEF Encoded
  <2>2. CASE i < m
    <3>1. i \in 0 .. m - 1 BY <2>2
    <3> QED BY <2>1, <3>1, <1>1 DEF Encoded
  <2>3. CASE i >= m
    <3> DEFINE k == i - m
               y == k * width + j
    <3>1. k \in 0 .. Len(s) - 1 /\ k + 1 \in 1 .. Len(s) /\ m + (k + 1) - 1 = i BY <1>0, <2>3
    <3>2. s[k + 1] = f[i] BY <3>1
    <3>3. y \in EncodeDigits(s, width)
      <4>1. y = k * width + j OBVIOUS
      <4> HIDE DEF y, k
      <4>2. \E u \in 0 .. Len(s) - 1, v \in 0 .. width - 1 :
               y = u * width + v /\ Bit(s[u + 1] % 2 ^ width, v) = 1
        BY <2>1, <3>1, <3>2, <4>1
      <4> QED BY <4>2, EncodeFacts
    <3>4. m * width + y = i * width + j
      <4>1. (i - m) * width = i * width - m * width BY <1>0
      <4>2. PICK b \in Int, c \in Int : b = i * width /\ c = m * width BY <1>0
      <4>3. j \in Int OBVIOUS
      <4>4. y = (b - c) + j BY <4>1, <4>2
      <4> QED BY <4>2, <4>3, <4>4
    <3> HIDE DEF y
    <3> QED BY <2>1, <3>3, <3>4
  <2> QED BY <1>0, <2>2, <2>3
<1>2. ASSUME NEW x \in Encoded(f, m, width) PROVE x \in Encoded(f, m + Len(s), width)
  <2>1. PICK i \in 0 .. m - 1, j \in 0 .. width - 1 : x = i * width + j /\ Bit(f[i] % 2 ^ width, j) = 1
    BY <1>2 DEF Encoded
  <2>2. i \in 0 .. m + Len(s) - 1 BY <1>0
  <2> QED BY <1>2, <2>1, <2>2 DEF Encoded
<1>3. ASSUME NEW y \in EncodeDigits(s, width) PROVE m * width + y \in Encoded(f, m + Len(s), width)
  <2>1. PICK k \in 0 .. Len(s) - 1, j \in 0 .. width - 1 :
               y = k * width + j /\ Bit(s[k + 1] % 2 ^ width, j) = 1
    BY <1>3, EncodeFacts
  <2> DEFINE i == m + k
  <2>2. k + 1 \in 1 .. Len(s) /\ m + (k + 1) - 1 = i /\ i \in 0 .. m + Len(s) - 1 /\ i \in Nat BY <1>0
  <2>3. s[k + 1] = f[i] BY <2>2
  <2>4. m * width + y = i * width + j
    <3>1. (m + k) * width = m * width + k * width BY <1>0
    <3>2. PICK b \in Nat, c \in Nat : b = m * width /\ c = k * width BY <1>0
    <3>3. j \in Nat OBVIOUS
    <3>4. y = c + j BY <2>1, <3>2
    <3> QED BY <3>1, <3>2, <3>3, <3>4
  <2>5. i * width + j \in Nat
    <3>1. \A u, v \in Nat : u * v \in Nat OBVIOUS
    <3>2. PICK e \in Nat : e = i * width BY <2>2, <3>1
    <3>3. j \in Nat /\ e + j \in Nat OBVIOUS
    <3> QED BY <3>2, <3>3
  <2> HIDE DEF i
  <2>6. Bit(f[i] % 2 ^ width, j) = 1 BY <2>1, <2>3
  <2>7. PICK x \in Nat : x = i * width + j BY <2>5
  <2>8. x \in Encoded(f, m + Len(s), width) BY <2>2, <2>6, <2>7 DEF Encoded
  <2> QED BY <2>4, <2>7, <2>8
<1> QED BY <1>1, <1>2, <1>3 DEF Appended


Writers == [position : Nat, flushed : Nat, staging : Seq(Int), bits : SUBSET Nat, neg : Nat, pos : Nat]

\* The writer holds the digits f[0], f[1], ... below its position: what is
\* flushed is in the storage, the rest in the staging buffer.
Holds(a, w, f) ==
  /\ w \in Writers
  /\ w.position = w.flushed + Len(w.staging) /\ w.position <= a.len
  /\ Continues(f, w.flushed, w.staging)
  /\ w.bits = Encoded(f, w.flushed, a.width)
  /\ \A i \in 0 .. w.flushed - 1 : -w.neg <= f[i] /\ f[i] <= w.pos

\* Between two turns the next flush starts at a block.
Ready(a, w) == w.flushed % BlockDigits = 0 /\ Len(w.staging) < a.limit

\* What is assumed of a call.
LEMMA ArgFacts ==
  ASSUME NEW a \in PackedInputs
  PROVE  /\ a.len \in Nat /\ a.width \in Nat \ {0} /\ a.limit \in Nat
         /\ a.writes \in Seq(Nat \X Seq(Int))
         /\ a.view \in Nat \X Nat \X Nat /\ a.reads \in Seq(Nat)
         /\ BlockDigits \in Nat \ {0}
BY PackedAssumption

\* A flush moves the staged digits to the storage.
LEMMA FlushHolds ==
  ASSUME NEW a \in PackedInputs, NEW w, NEW f \in [Nat -> Int], Holds(a, w, f), w.flushed % BlockDigits = 0
  PROVE  /\ Holds(a, FlushStaging(a, w), f)
         /\ FlushStaging(a, w).staging = <<>>
         /\ FlushStaging(a, w).position = w.position /\ FlushStaging(a, w).flushed = w.position
<1> DEFINE v == FlushStaging(a, w)
           b == DigitBounds(w.staging)
           start == EncodedLen(w.flushed, a.width)
           n == Len(w.staging)
<1>1. /\ w.position \in Nat /\ w.flushed \in Nat /\ w.staging \in Seq(Int) /\ w.bits \in SUBSET Nat
      /\ w.neg \in Nat /\ w.pos \in Nat /\ n \in Nat
  BY DEF Holds, Writers
<1>2. a.width \in Nat \ {0} /\ a.len \in Nat BY ArgFacts
<1>3. start * PackedByte = w.flushed * a.width BY <1>1, <1>2, BlockStart
<1>4. Continues(f, w.flushed, w.staging) BY DEF Holds
<1>5. w.position = w.flushed + n /\ w.position <= a.len /\ w.bits = Encoded(f, w.flushed, a.width) BY DEF Holds
<1>6. v = [ position |-> w.position,
            flushed  |-> w.flushed + n,
            staging  |-> <<>>,
            bits     |-> w.bits \cup {start * PackedByte + i : i \in EncodeDigits(w.staging, a.width)},
            neg      |-> Max({w.neg, b.neg}),
            pos      |-> Max({w.pos, b.pos}) ]
  BY DEF FlushStaging, FlushTo
<1>7. /\ b.neg \in Nat /\ b.pos \in Nat
      /\ \A i \in 1 .. n : -b.neg <= w.staging[i] /\ w.staging[i] <= b.pos
  BY <1>1, BoundFacts
<1> HIDE DEF v, b, start
<1>8. /\ v.position = w.position /\ v.flushed = w.flushed + n /\ v.staging = <<>>
      /\ v.bits = w.bits \cup {start * PackedByte + i : i \in EncodeDigits(w.staging, a.width)}
      /\ v.neg = Max({w.neg, b.neg}) /\ v.pos = Max({w.pos, b.pos})
  BY <1>6
<1>9. v.bits = Encoded(f, v.flushed, a.width)
  <2>1. Encoded(f, w.flushed + n, a.width) =
          Encoded(f, w.flushed, a.width) \cup {w.flushed * a.width + x : x \in EncodeDigits(w.staging, a.width)}
    <3>1. PICK m \in Nat : m = w.flushed BY <1>1
    <3>2. PICK s \in Seq(Int) : s = w.staging BY <1>1
    <3>3. PICK width \in Nat \ {0} : width = a.width BY <1>2
    <3>4. Continues(f, m, s) BY <1>4, <3>1, <3>2
    <3>5. Appended(f, m, s, width) BY <3>4, EncodedMore, Zenon
    <3> QED BY <3>1, <3>2, <3>3, <3>5 DEF Appended
  <2> QED BY <1>3, <1>5, <1>8, <2>1
<1>10. /\ v.neg \in Nat /\ v.neg >= w.neg /\ v.neg >= b.neg
       /\ v.pos \in Nat /\ v.pos >= w.pos /\ v.pos >= b.pos
  <2>1. PICK x \in Nat, y \in Nat : x = w.neg /\ y = b.neg /\ x \in Int /\ y \in Int BY <1>1, <1>7
  <2>2. Max({x, y}) \in {x, y} /\ Max({x, y}) >= x /\ Max({x, y}) >= y BY <2>1, MaxPair, Zenon
  <2>3. PICK u \in Nat, z \in Nat : u = w.pos /\ z = b.pos /\ u \in Int /\ z \in Int BY <1>1, <1>7
  <2>4. Max({u, z}) \in {u, z} /\ Max({u, z}) >= u /\ Max({u, z}) >= z BY <2>3, MaxPair, Zenon
  <2>5. v.neg = Max({x, y}) /\ v.pos = Max({u, z}) BY <1>8, <2>1, <2>3
  <2>6. v.neg \in Nat /\ v.neg >= x /\ v.neg >= y BY <2>2, <2>5
  <2>7. v.pos \in Nat /\ v.pos >= u /\ v.pos >= z BY <2>4, <2>5
  <2> QED BY <2>1, <2>3, <2>6, <2>7
<1>11. v \in Writers
  <2>1. v.bits \in SUBSET Nat BY <1>9 DEF Encoded
  <2>2. v = [position |-> v.position, flushed |-> v.flushed, staging |-> v.staging, bits |-> v.bits,
             neg |-> v.neg, pos |-> v.pos] BY <1>6, <1>8
  <2>3. <<>> \in Seq(Int) OBVIOUS
  <2>4. w.flushed + n \in Nat BY <1>1
  <2>5. v.position \in Nat /\ v.flushed \in Nat /\ v.staging \in Seq(Int) BY <1>1, <1>8, <2>3, <2>4
  <2> QED BY <1>10, <2>1, <2>2, <2>5 DEF Writers
<1>12. ASSUME NEW i \in 0 .. v.flushed - 1 PROVE -v.neg <= f[i] /\ f[i] <= v.pos
  <2>0. f[i] \in Int /\ i \in Nat BY <1>1, <1>8
  <2>1. CASE i < w.flushed
    <3>1. -w.neg <= f[i] /\ f[i] <= w.pos BY <1>1, <2>0, <2>1, SMTT(30) DEF Holds
    <3>2. PICK x \in Nat, y \in Nat : x = w.neg /\ y = w.pos BY <1>1
    <3>3. PICK u \in Nat, z \in Nat : u = v.neg /\ z = v.pos BY <1>10
    <3>4. -x <= f[i] /\ f[i] <= y /\ u >= x /\ z >= y BY <1>10, <3>1, <3>2, <3>3
    <3>5. -u <= f[i] /\ f[i] <= z BY <2>0, <3>4
    <3> QED BY <3>3, <3>5
  <2>2. CASE i >= w.flushed
    <3> DEFINE j == i - w.flushed + 1
    <3>1. j \in 1 .. n /\ w.flushed + j - 1 = i
      <4>1. PICK m \in Nat : m = w.flushed BY <1>1
      <4>2. i \in 0 .. (m + n) - 1 /\ i >= m BY <1>8, <2>2, <4>1
      <4>3. PICK k \in Nat : k = n BY <1>1
      <4>4. i \in 0 .. (m + k) - 1 BY <4>2, <4>3
      <4>5. i - m + 1 \in 1 .. k /\ m + (i - m + 1) - 1 = i BY <2>0, <4>2, <4>4
      <4> QED BY <4>1, <4>3, <4>5
    <3>2. w.staging[j] = f[i] BY <1>4, <3>1 DEF Continues
    <3>3. -b.neg <= f[i] /\ f[i] <= b.pos BY <1>7, <3>1, <3>2
    <3> QED BY <1>7, <1>10, <2>0, <3>3
  <2> QED BY <1>1, <2>0, <2>1, <2>2
<1>13. Len(<<>>) = 0 OBVIOUS
<1>14. Holds(a, v, f)
  <2>1. v.position = v.flushed + Len(v.staging) BY <1>1, <1>5, <1>8, <1>13
  <2>2. Continues(f, v.flushed, v.staging) BY <1>8, <1>13 DEF Continues
  <2> QED BY <1>5, <1>8, <1>9, <1>11, <1>12, <2>1, <2>2 DEF Holds
<1> QED BY <1>5, <1>8, <1>14 DEF v


\* Ok and Refused are told apart, and Ok(x) holds x.
LEMMA OkFacts ==
  ASSUME NEW x
  PROVE  Ok(x) # Refused /\ Ok(x)[1] = x
BY DEF Ok, Refused

\* Digits behind the staged ones.
LEMMA StageHolds ==
  ASSUME NEW a \in PackedInputs, NEW w, NEW f \in [Nat -> Int], Holds(a, w, f),
         NEW part \in Seq(Int), Continues(f, w.position, part), w.position + Len(part) <= a.len
  PROVE  /\ Holds(a, Stage(w, part), f)
         /\ Stage(w, part).flushed = w.flushed /\ Stage(w, part).position = w.position + Len(part)
         /\ Len(Stage(w, part).staging) = Len(w.staging) + Len(part)
<1> DEFINE v == Stage(w, part)
<1>1. /\ w.position \in Nat /\ w.flushed \in Nat /\ w.staging \in Seq(Int) /\ w.bits \in SUBSET Nat
      /\ w.neg \in Nat /\ w.pos \in Nat /\ Len(w.staging) \in Nat /\ Len(part) \in Nat
  BY DEF Holds, Writers
<1>2. /\ v.position = w.position + Len(part) /\ v.flushed = w.flushed /\ v.staging = w.staging \o part
      /\ v.bits = w.bits /\ v.neg = w.neg /\ v.pos = w.pos
      /\ v = [position |-> v.position, flushed |-> v.flushed, staging |-> v.staging, bits |-> v.bits,
              neg |-> v.neg, pos |-> v.pos]
  BY DEF Stage
<1> HIDE DEF v
<1>3. v.staging \in Seq(Int) /\ Len(v.staging) = Len(w.staging) + Len(part)
  <2>1. PICK s \in Seq(Int) : s = w.staging BY <1>1
  <2>2. s \o part \in Seq(Int) /\ Len(s \o part) = Len(s) + Len(part) OBVIOUS
  <2> QED BY <1>2, <2>1, <2>2
<1>4. v \in Writers
  <2>1. v.position \in Nat BY <1>1, <1>2, SMTT(30)
  <2> QED BY <1>1, <1>2, <1>3, <2>1 DEF Writers
<1>5. w.position = w.flushed + Len(w.staging) BY DEF Holds
<1>6. Continues(f, v.flushed, v.staging)
  <2>1. PICK s \in Seq(Int), m \in Nat : s = w.staging /\ m = w.flushed BY <1>1
  <2>2. w.position = m + Len(s) BY <1>5, <2>1
  <2>3. Continues(f, m, s) /\ Continues(f, m + Len(s), part) BY <2>1, <2>2 DEF Holds
  <2>4. ASSUME NEW j \in 1 .. Len(s \o part) PROVE (s \o part)[j] = f[m + j - 1]
    <3>1. CASE j <= Len(s) BY <2>3, <3>1 DEF Continues
    <3>2. CASE j > Len(s)
      <4> DEFINE i == j - Len(s)
      <4>1. i \in 1 .. Len(part) /\ (m + Len(s)) + i - 1 = m + j - 1 BY <3>2
      <4>2. (s \o part)[j] = part[i] BY <3>2
      <4> HIDE DEF i
      <4>3. part[i] = f[(m + Len(s)) + i - 1] BY <2>3, <4>1 DEF Continues
      <4> QED BY <4>1, <4>2, <4>3
    <3> QED BY <3>1, <3>2
  <2>5. Continues(f, m, s \o part) BY <2>4 DEF Continues
  <2> QED BY <1>2, <2>1, <2>5
<1>7. v.position = v.flushed + Len(v.staging)
  <2>1. PICK p \in Nat, m \in Nat, k \in Nat, l \in Nat :
               p = w.position /\ m = w.flushed /\ k = Len(w.staging) /\ l = Len(part) BY <1>1
  <2>2. p = m + k BY <1>5, <2>1
  <2>3. p + l = m + (k + l) BY <2>2
  <2> QED BY <1>2, <1>3, <2>1, <2>3
<1>8. v.bits = Encoded(f, v.flushed, a.width) /\ \A i \in 0 .. v.flushed - 1 : -v.neg <= f[i] /\ f[i] <= v.pos
  BY <1>2 DEF Holds
<1>9. Holds(a, v, f) BY <1>2, <1>4, <1>6, <1>7, <1>8 DEF Holds
<1> QED BY <1>2, <1>3, <1>9 DEF v

\* The first digits, and the rest.
Splits(f, p, s, k) ==
  /\ SubSeq(s, 1, k) \in Seq(Int) /\ Len(SubSeq(s, 1, k)) = k /\ Continues(f, p, SubSeq(s, 1, k))
  /\ SubSeq(s, k + 1, Len(s)) \in Seq(Int) /\ Len(SubSeq(s, k + 1, Len(s))) = Len(s) - k
  /\ Continues(f, p + k, SubSeq(s, k + 1, Len(s)))

\* Both parts go on with the digits.
LEMMA PartContinues ==
  ASSUME NEW f, NEW p \in Nat, NEW s \in Seq(Int), Continues(f, p, s), NEW k \in 0 .. Len(s)
  PROVE  Splits(f, p, s, k)
<1> DEFINE r == SubSeq(s, k + 1, Len(s))
           t == SubSeq(s, 1, k)
<1>1. t \in Seq(Int) /\ Len(t) = k /\ \A j \in 1 .. k : t[j] = s[j] OBVIOUS
<1>2. r \in Seq(Int) /\ Len(r) = Len(s) - k /\ \A j \in 1 .. Len(s) - k : r[j] = s[k + j] OBVIOUS
<1> HIDE DEF r, t
<1>3. Continues(f, p, t)
  <2>1. \A j \in 1 .. Len(t) : j \in 1 .. k /\ j \in 1 .. Len(s) BY <1>1
  <2> QED BY <1>1, <2>1 DEF Continues
<1>4. ASSUME NEW j \in 1 .. Len(r) PROVE r[j] = f[(p + k) + j - 1]
  <2>1. k + j \in 1 .. Len(s) /\ p + (k + j) - 1 = (p + k) + j - 1 BY <1>2
  <2>2. s[k + j] = f[p + (k + j) - 1] BY <2>1 DEF Continues
  <2> QED BY <1>2, <2>1, <2>2
<1>5. Continues(f, p + k, r) BY <1>4 DEF Continues
<1> QED BY <1>1, <1>2, <1>3, <1>5, Zenon DEF r, t, Splits

\* What a turn of the loop may return: the writer moved on, or a refusal of
\* more digits than there is room for.
Moved(a, w, f, digits, r) ==
  \/ r = Refused /\ w.position + Len(digits) > a.len
  \/ \E v \in Writers : /\ r = Ok(v) /\ Holds(a, v, f) /\ Ready(a, v)
                        /\ v.position \in w.position + 1 .. w.position + Len(digits)

\* A turn of the loop moves at least one digit, or meets the end of the storage.
LEMMA FillHolds ==
  ASSUME NEW a \in PackedInputs, a.limit % BlockDigits = 0, NEW w, NEW f \in [Nat -> Int],
         Holds(a, w, f), Ready(a, w), NEW digits \in Seq(Int), Len(digits) > 0, Continues(f, w.position, digits)
  PROVE  Moved(a, w, f, digits, FillStaging(a, w, digits))
<1> DEFINE take == Min({a.limit - Len(w.staging), Len(digits)})
           part == SubSeq(digits, 1, take)
           v == Stage(w, part)
           u == FlushStaging(a, v)
<1>1. /\ w.position \in Nat /\ w.flushed \in Nat /\ Len(w.staging) \in Nat /\ Len(digits) \in Nat
      /\ a.limit \in Nat /\ a.len \in Nat /\ BlockDigits \in Nat \ {0}
  <2>1. a.limit \in Nat /\ a.len \in Nat /\ BlockDigits \in Nat \ {0} BY ArgFacts
  <2>2. w.position \in Nat /\ w.flushed \in Nat /\ w.staging \in Seq(Int) BY DEF Holds, Writers
  <2> QED BY <2>1, <2>2, SMTT(30)
<1>2. PICK k \in Nat, l \in Nat, n \in Nat : k = Len(w.staging) /\ l = a.limit /\ n = Len(digits) /\ k < l
  BY <1>1 DEF Ready
<1>3. take \in 1 .. n /\ take <= l - k
  <2>1. l - k \in Int /\ n \in Int OBVIOUS
  <2>2. PICK d \in Int : d = l - k OBVIOUS
  <2>3. Min({d, n}) \in {d, n} /\ Min({d, n}) <= d /\ Min({d, n}) <= n BY <2>1, <2>2, MaxPair, Zenon
  <2>4. take = Min({d, n}) BY <1>2, <2>2
  <2>5. d > 0 /\ n > 0 BY <1>2, <2>2
  <2> HIDE DEF take
  <2> QED BY <2>2, <2>3, <2>4, <2>5
<1> HIDE DEF take
<1>4. part \in Seq(Int) /\ Len(part) = take /\ Continues(f, w.position, part)
  <2>1. take \in 0 .. Len(digits) BY <1>2, <1>3
  <2>2. PICK p \in Nat : p = w.position BY <1>1
  <2>3. Continues(f, p, digits) BY <2>2
  <2>4. /\ SubSeq(digits, 1, take) \in Seq(Int) /\ Len(SubSeq(digits, 1, take)) = take
        /\ Continues(f, p, SubSeq(digits, 1, take))
    <3>1. Splits(f, p, digits, take) BY <2>1, <2>3, PartContinues
    <3> QED BY <3>1, Zenon DEF Splits
  <2> QED BY <2>2, <2>4
<1> HIDE DEF part
<1>5. v.position = w.position + take BY <1>4 DEF Stage
<1>6. FillStaging(a, w, digits) =
         IF v.position > a.len THEN Refused ELSE Ok(IF Len(v.staging) = a.limit THEN u ELSE v)
  BY Zenon DEF FillStaging, take, part
<1>7. CASE v.position > a.len
  <2>1. FillStaging(a, w, digits) = Refused BY <1>6, <1>7
  <2>2. w.position + Len(digits) > a.len
    <3>1. PICK p \in Nat, e \in Nat : p = w.position /\ e = a.len BY <1>1
    <3>2. p + take > e BY <1>5, <1>7, <3>1
    <3>3. p + n > e BY <1>3, <3>2
    <3> QED BY <1>2, <3>1, <3>3
  <2> QED BY <2>1, <2>2 DEF Moved
<1>8. CASE ~(v.position > a.len)
  <2>1. w.position + Len(part) <= a.len
    <3>1. PICK p \in Nat, e \in Nat : p = w.position /\ e = a.len BY <1>1
    <3>2. ~(p + take > e) BY <1>5, <1>8, <3>1
    <3>3. p + take <= e BY <1>3, <3>2
    <3> QED BY <1>4, <3>1, <3>3
  <2>2. /\ Holds(a, v, f) /\ v.flushed = w.flushed /\ Len(v.staging) = k + take
    <3>1. /\ Holds(a, v, f) /\ v.flushed = w.flushed /\ Len(v.staging) = Len(w.staging) + Len(part)
      BY <1>4, <2>1, StageHolds
    <3> QED BY <1>2, <1>4, <3>1
  <2>3. v.position \in w.position + 1 .. w.position + Len(digits)
    <3>1. PICK p \in Nat : p = w.position BY <1>1
    <3>2. p + take \in p + 1 .. p + n BY <1>3
    <3> QED BY <1>2, <1>5, <3>1, <3>2
  <2>4. v.flushed % BlockDigits = 0 BY <2>2 DEF Ready
  <2> HIDE DEF v
  <2>5. CASE Len(v.staging) = a.limit
    <3>1. FillStaging(a, w, digits) = Ok(u) BY <1>6, <1>8, <2>5
    <3>2. Holds(a, u, f) /\ u.staging = <<>> /\ u.position = v.position /\ u.flushed = v.position
      BY <2>2, <2>4, FlushHolds
    <3>3. v.position = v.flushed + Len(v.staging) /\ v.flushed \in Nat BY <2>2 DEF Holds, Writers
    <3>4. v.position % BlockDigits = 0
      <4>1. PICK m \in Nat, b \in Nat \ {0} : m = v.flushed /\ b = BlockDigits BY <1>1, <3>3
      <4>2. m % b = 0 /\ l % b = 0 BY <1>2, <2>4, <4>1
      <4>3. m = b * (m \div b) /\ l = b * (l \div b) /\ m \div b \in Nat /\ l \div b \in Nat BY <4>2, DivBack
      <4>4. PICK x \in Nat, y \in Nat : m = b * x /\ l = b * y BY <4>3
      <4>5. PICK q \in Int : q = x + y OBVIOUS
      <4>6. m + l = b * q BY <4>4, <4>5
      <4>7. (b * q) % b = 0 BY Multiple
      <4> QED BY <1>2, <2>5, <3>3, <4>1, <4>6, <4>7
    <3>5. Ready(a, u)
      <4>1. Len(u.staging) = 0 BY <3>2
      <4> QED BY <1>2, <3>2, <3>4, <4>1 DEF Ready
    <3>6. u \in Writers BY <3>2 DEF Holds
    <3> HIDE DEF u
    <3> QED BY <2>3, <3>1, <3>2, <3>5, <3>6 DEF Moved
  <2>6. CASE Len(v.staging) # a.limit
    <3>1. FillStaging(a, w, digits) = Ok(v) BY <1>6, <1>8, <2>6
    <3>2. Len(v.staging) < a.limit
      <4>1. k + take <= l BY <1>3
      <4>2. k + take # l BY <1>2, <2>2, <2>6
      <4>3. k + take < l BY <1>3, <4>1, <4>2
      <4> QED BY <1>2, <2>2, <4>3
    <3>3. Ready(a, v) BY <2>4, <3>2 DEF Ready
    <3>4. v \in Writers BY <2>2 DEF Holds
    <3> QED BY <2>2, <2>3, <3>1, <3>3, <3>4 DEF Moved
  <2> QED BY <2>5, <2>6
<1> QED BY <1>7, <1>8


\* What the whole loop may return.
Arrived(a, w, f, digits, r) ==
  \/ r = Refused /\ w.position + Len(digits) > a.len
  \/ \E v \in Writers : /\ r = Ok(v) /\ Holds(a, v, f) /\ Ready(a, v)
                        /\ v.position = w.position + Len(digits)

\* The writers a loop passes that starts at position p with n digits, and one
\* turn of it.
OnTheWay(a, f, p, n) ==
  {v \in Writers : Holds(a, v, f) /\ Ready(a, v) /\ v.position \in p .. p + n}
TurnResults(a, f, p, n) ==
  {r \in {Refused} : p + n > a.len} \cup {Ok(v) : v \in OnTheWay(a, f, p, n)}
Turn(a, p, digits, last) ==
  IF last = Refused \/ last[1].position - p = Len(digits) THEN last
  ELSE FillStaging(a, last[1], SubSeq(digits, last[1].position - p + 1, Len(digits)))

\* A turn keeps the results among those a loop may pass, and moves on.
LEMMA TurnFacts ==
  ASSUME NEW a \in PackedInputs, a.limit % BlockDigits = 0, NEW f \in [Nat -> Int], NEW p \in Nat,
         NEW digits \in Seq(Int), Continues(f, p, digits),
         NEW last \in TurnResults(a, f, p, Len(digits))
  PROVE  /\ Turn(a, p, digits, last) \in TurnResults(a, f, p, Len(digits))
         /\ \A v \in OnTheWay(a, f, p, Len(digits)) :
              Turn(a, p, digits, last) = Ok(v) /\ last # Refused =>
                 \/ v.position = p + Len(digits)
                 \/ v.position >= last[1].position + 1
         /\ last = Refused => Turn(a, p, digits, last) = Refused
<1> DEFINE n == Len(digits)
<1>0. n \in Nat OBVIOUS
<1>1. CASE last = Refused
  <2>1. Turn(a, p, digits, last) = last BY <1>1 DEF Turn
  <2> QED BY <1>1, <2>1
<1>2. CASE last # Refused
  <2>1. PICK u \in OnTheWay(a, f, p, n) : last = Ok(u) BY <1>2 DEF TurnResults
  <2>2. last[1] = u /\ Holds(a, u, f) /\ Ready(a, u) /\ u.position \in p .. p + n BY <2>1, OkFacts DEF OnTheWay
  <2>3. PICK k \in 0 .. n : u.position = p + k
    <3>1. PICK e \in p .. p + n : e = u.position BY <2>2
    <3>2. e - p \in 0 .. n /\ e = p + (e - p) BY <1>0
    <3> QED BY <3>1, <3>2
  <2>4. u.position - p = k BY <2>3
  <2>5. CASE k = n
    <3>1. Turn(a, p, digits, last) = last BY <2>2, <2>4, <2>5 DEF Turn
    <3>2. u.position = p + n BY <2>3, <2>5
    <3>3. ASSUME NEW v, Ok(u) = Ok(v) PROVE v = u BY <3>3, OkFacts
    <3> QED BY <1>2, <2>1, <3>1, <3>2, <3>3
  <2>6. CASE k # n
    <3> DEFINE rest == SubSeq(digits, k + 1, n)
    <3>1. Turn(a, p, digits, last) = FillStaging(a, u, rest) BY <1>2, <2>2, <2>4, <2>6 DEF Turn
    <3>2. rest \in Seq(Int) /\ Len(rest) = n - k /\ Continues(f, p + k, rest)
      <4>1. Splits(f, p, digits, k) BY PartContinues
      <4> QED BY <4>1, Zenon DEF Splits
    <3> HIDE DEF rest
    <3>3. Len(rest) > 0 /\ Continues(f, u.position, rest) BY <1>0, <2>3, <2>6, <3>2
    <3>4. Moved(a, u, f, rest, FillStaging(a, u, rest)) BY <2>2, <3>2, <3>3, FillHolds
    <3>5. (p + k) + (n - k) = p + n BY <1>0
    <3>6. CASE FillStaging(a, u, rest) = Refused /\ u.position + Len(rest) > a.len
      <4>1. p + n > a.len BY <2>3, <3>2, <3>5, <3>6
      <4>2. \A v : Ok(v) # Refused BY OkFacts
      <4> QED BY <1>2, <3>1, <3>6, <4>1, <4>2 DEF TurnResults
    <3>7. CASE \E v \in Writers : /\ FillStaging(a, u, rest) = Ok(v) /\ Holds(a, v, f) /\ Ready(a, v)
                                  /\ v.position \in u.position + 1 .. u.position + Len(rest)
      <4>1. PICK v \in Writers : /\ FillStaging(a, u, rest) = Ok(v) /\ Holds(a, v, f) /\ Ready(a, v)
                                 /\ v.position \in u.position + 1 .. u.position + Len(rest)
        BY <3>7
      <4>2. v.position \in (p + k) + 1 .. p + n BY <2>3, <3>2, <3>5, <4>1
      <4>3. v.position \in p .. p + n /\ v.position >= u.position + 1
        <5>1. PICK e \in (p + k) + 1 .. p + n : e = v.position BY <4>2
        <5>2. e \in p .. p + n /\ e >= (p + k) + 1 BY <1>0
        <5> QED BY <2>3, <5>1, <5>2
      <4>4. v \in OnTheWay(a, f, p, n) BY <4>1, <4>3 DEF OnTheWay
      <4>5. ASSUME NEW z, Ok(v) = Ok(z) PROVE z = v BY <4>5, OkFacts
      <4>6. Turn(a, p, digits, last) = Ok(v) BY <3>1, <4>1
      <4>7. Ok(v) \in TurnResults(a, f, p, n) BY <4>4 DEF TurnResults
      <4> QED BY <1>2, <2>2, <4>3, <4>5, <4>6, <4>7
    <3> QED BY <3>4, <3>6, <3>7 DEF Moved
  <2> QED BY <2>5, <2>6
<1> QED BY <1>1, <1>2

\* The loop ends where its digits end: as many turns as digits suffice.
LEMMA ExtendHolds ==
  ASSUME NEW a \in PackedInputs, a.limit % BlockDigits = 0, NEW w, NEW f \in [Nat -> Int],
         Holds(a, w, f), Ready(a, w), NEW digits \in Seq(Int), Continues(f, w.position, digits)
  PROVE  Arrived(a, w, f, digits, Extend(a, w, digits))
<1> DEFINE n == Len(digits)
           p == w.position
           S == TurnResults(a, f, p, n)
           Rec(g) == g = [i \in 0 .. n |-> IF i = 0 THEN Ok(w) ELSE Turn(a, p, digits, g[i - 1])]
           c == CHOOSE g : Rec(g)
           step == [q \in S \X (1 .. n) |-> Turn(a, p, digits, q[1])]
<1>0. n \in Nat /\ p \in Nat BY DEF Holds, Writers
<1>1. Extend(a, w, digits) = c[n] BY Zenon DEF Extend, Turn
<1>2. w \in OnTheWay(a, f, p, n) /\ Ok(w) \in S
  <2>1. w.position \in p .. p + n BY <1>0
  <2>2. w \in Writers BY DEF Holds
  <2>3. w \in OnTheWay(a, f, p, n) BY <2>1, <2>2 DEF OnTheWay
  <2> QED BY <2>3 DEF TurnResults
<1> HIDE DEF p, S
<1>3. \A r \in S : Turn(a, p, digits, r) \in S BY <1>0, TurnFacts DEF S, p
<1>4. step \in [S \X (1 .. n) -> S] BY <1>3
<1>5. PICK g \in [0 .. n -> S] : Loop(n, Ok(w), step, g)
  <2> HIDE DEF step
  <2> QED BY <1>0, <1>2, <1>4, LoopExists
<1>6. \A i \in 1 .. n : g[i] = Turn(a, p, digits, g[i - 1])
  <2> SUFFICES ASSUME NEW i \in 1 .. n PROVE g[i] = Turn(a, p, digits, g[i - 1]) OBVIOUS
  <2>0. i - 1 \in 0 .. n BY <1>0
  <2>1. <<g[i - 1], i>> \in S \X (1 .. n) BY <1>5, <2>0
  <2> QED BY <1>5, <2>1 DEF Loop
<1>7. Rec(g) BY <1>5, <1>6 DEF Loop
<1>8. Rec(c)
  <2> HIDE DEF Rec
  <2> QED BY <1>7
<1> HIDE DEF c
<1>9. c[0] = Ok(w) /\ \A i \in 1 .. n : c[i] = Turn(a, p, digits, c[i - 1])
  <2>1. 0 \in 0 .. n /\ \A i \in 1 .. n : i \in 0 .. n /\ i # 0 BY <1>0
  <2> QED BY <1>8, <2>1
<1> DEFINE T == {i \in 0 .. n : /\ c[i] \in S
                                /\ c[i] # Refused => c[i][1].position >= p + i}
<1>10. 0 \in T BY <1>0, <1>2, <1>9, OkFacts DEF p
<1>11. ASSUME NEW i \in 0 .. n - 1, i \in T PROVE i + 1 \in T
  <2>1. i + 1 \in 1 .. n /\ (i + 1) - 1 = i /\ i + 1 \in 0 .. n BY <1>0
  <2>2. c[i + 1] = Turn(a, p, digits, c[i]) /\ c[i] \in S BY <1>9, <1>11, <2>1
  <2>3. c[i + 1] \in S BY <1>3, <2>2
  <2>4. ASSUME c[i + 1] # Refused PROVE c[i + 1][1].position >= p + (i + 1)
    <3>1. PICK v \in OnTheWay(a, f, p, n) : c[i + 1] = Ok(v) BY <2>3, <2>4 DEF S, TurnResults
    <3>2. c[i] # Refused BY <1>0, <2>2, <2>4, TurnFacts DEF S, p
    <3>3. v.position = p + n \/ v.position >= c[i][1].position + 1
      BY <1>0, <2>2, <3>1, <3>2, TurnFacts, ZenonT(30) DEF S, p
    <3>4. c[i][1].position >= p + i BY <1>11, <3>2
    <3>5. PICK u \in OnTheWay(a, f, p, n) : c[i] = Ok(u) BY <2>2, <3>2 DEF S, TurnResults
    <3>6. PICK x \in Nat, y \in Nat : x = u.position /\ y = v.position BY DEF OnTheWay, Writers
    <3>7. c[i][1] = u /\ c[i + 1][1] = v BY <3>1, <3>5, OkFacts
    <3>8. (y = p + n \/ y >= x + 1) /\ x >= p + i BY <3>3, <3>4, <3>6, <3>7
    <3>9. y >= p + (i + 1) BY <1>0, <2>1, <3>8
    <3> QED BY <3>6, <3>7, <3>9
  <2> QED BY <2>1, <2>3, <2>4
<1>12. \A i \in 0 .. n : i \in T
  <2> HIDE DEF T
  <2> QED BY <1>0, <1>10, <1>11, UpTo
<1>13. c[n] \in S /\ (c[n] # Refused => c[n][1].position >= p + n)
  <2>1. n \in 0 .. n BY <1>0
  <2> QED BY <1>12, <2>1
<1>14. CASE c[n] = Refused
  <2>1. p + n > a.len
    <3>1. \A v : Ok(v) # Refused BY OkFacts
    <3> QED BY <1>13, <1>14, <3>1 DEF S, TurnResults
  <2> QED BY <1>1, <1>14, <2>1 DEF Arrived, p
<1>15. CASE c[n] # Refused
  <2>1. PICK v \in OnTheWay(a, f, p, n) : c[n] = Ok(v) BY <1>13, <1>15 DEF S, TurnResults
  <2>2. v.position \in p .. p + n /\ v.position >= p + n BY <1>13, <1>15, <2>1, OkFacts DEF OnTheWay
  <2>3. v.position = p + n
    <3>1. PICK m \in Nat : m = p + n BY <1>0
    <3>2. PICK e \in p .. m : e = v.position BY <2>2, <3>1
    <3>3. e >= m BY <2>2, <3>1, <3>2
    <3>4. e \in Int /\ e <= m BY <1>0
    <3>5. e = m BY <3>3, <3>4
    <3> QED BY <3>1, <3>2, <3>5
  <2>4. v \in Writers /\ Holds(a, v, f) /\ Ready(a, v) BY <2>1 DEF OnTheWay
  <2> QED BY <1>1, <2>1, <2>3, <2>4 DEF Arrived, p
<1> QED BY <1>14, <1>15


\* A digit in the range of its width is what decode_at returns for it.
LEMMA DecodeExact ==
  ASSUME NEW f \in [Nat -> Int], NEW n \in Nat, NEW width \in Nat \ {0}, NEW i \in 0 .. n - 1,
         -(2 ^ (width - 1)) <= f[i], f[i] < 2 ^ (width - 1)
  PROVE  DecodeAt(Encoded(f, n, width), i, width) = f[i]
<1> DEFINE bits == Encoded(f, n, width)
           x == f[i] % 2 ^ width
           s == [t \in 1 .. width |-> IF i * width + t - 1 \in bits THEN 2 ^ (t - 1) ELSE 0]
<1>0. i \in Nat /\ f[i] \in Int OBVIOUS
<1>1. PICK h \in Nat \ {0} : h = 2 ^ (width - 1) /\ 2 ^ width = 2 * h
  <2>1. width - 1 \in Nat /\ (width - 1) + 1 = width OBVIOUS
  <2> QED BY <2>1, PowerFacts
<1>2. PICK d \in Int : d = f[i] /\ -h <= d /\ d < h BY <1>0, <1>1
<1>3. PICK m \in Nat \ {0} : m = 2 * h BY <1>1
<1>4. x = d % m /\ x \in 0 .. m - 1 BY <1>1, <1>2, <1>3
<1>5. x = IF d >= 0 THEN d ELSE d + m
  <2>1. CASE d >= 0
    <3>1. d = m * 0 + d /\ d \in 0 .. m - 1 BY <1>2, <1>3, <2>1
    <3>2. d % m = d BY <3>1, DivUnique
    <3> QED BY <1>4, <2>1, <3>2
  <2>2. CASE d < 0
    <3>1. PICK e \in 0 .. m - 1 : e = d + m BY <1>2, <1>3, <2>2
    <3>2. d = m * (-1) + e BY <3>1
    <3>3. d % m = e BY <3>2, DivUnique
    <3> QED BY <1>4, <2>2, <3>1, <3>3
  <2> QED BY <2>1, <2>2
<1> HIDE DEF x
<1>6. ASSUME NEW t \in 1 .. width
      PROVE  (i * width + t - 1 \in bits) <=> Bit(x, t - 1) = 1
  <2> DEFINE j == t - 1
             b == i * width + t - 1
  <2>1. j \in 0 .. width - 1 /\ b = i * width + j
    <3>1. PICK e \in Int : e = i * width BY <1>0
    <3>2. e + t - 1 = e + (t - 1) OBVIOUS
    <3> QED BY <3>1, <3>2
  <2>2. b \in Nat
    <3>1. \A u, v \in Nat : u * v \in Nat OBVIOUS
    <3>2. PICK e \in Nat : e = i * width BY <1>0, <3>1
    <3>3. e + j \in Nat BY <2>1
    <3> QED BY <2>1, <3>2, <3>3
  <2> HIDE DEF b, j
  <2>3. ASSUME b \in bits PROVE Bit(x, j) = 1
    <3>1. PICK k \in 0 .. n - 1, l \in 0 .. width - 1 : b = k * width + l /\ Bit(f[k] % 2 ^ width, l) = 1
      BY <2>3 DEF Encoded
    <3>2. k \in Nat /\ i * width + j = k * width + l BY <2>1, <3>1
    <3>3. i = k /\ j = l BY <1>0, <2>1, <3>2, AddressUnique
    <3> QED BY <3>1, <3>3 DEF x
  <2>4. ASSUME Bit(x, j) = 1 PROVE b \in bits
    BY <2>1, <2>2, <2>4 DEF Encoded, x
  <2>5. b \in bits <=> Bit(x, j) = 1 BY <2>3, <2>4
  <2> QED BY <2>5 DEF b, j
<1> HIDE DEF bits
<1>7. ASSUME NEW t \in 1 .. width PROVE s[t] = Bit(x, t - 1) * 2 ^ (t - 1)
  <2>1. t - 1 \in Nat /\ x \in Int BY <1>4
  <2>2. Bit(x, t - 1) \in {0, 1} BY <2>1, BitIs
  <2>3. PICK p \in Nat : p = 2 ^ (t - 1) BY <2>1, PowerFacts
  <2> QED BY <1>6, <2>2, <2>3
<1>8. Sum(s) = x % 2 ^ width
  <2>1. DOMAIN s = 1 .. width /\ s = [t \in 1 .. width |-> s[t]] OBVIOUS
  <2> HIDE DEF s
  <2>2. x \in Int /\ width \in Nat BY <1>4
  <2>3. \A t \in 1 .. width : s[t] = Bit(x, t - 1) * 2 ^ (t - 1) BY <1>7
  <2> QED BY <2>1, <2>2, <2>3, BitsSum, Zenon
<1>9. x % m = x
  <2>1. \A u \in Nat, v \in Nat \ {0} : u < v => u % v = u OBVIOUS
  <2>2. x \in Nat /\ x < m BY <1>3, <1>4
  <2> QED BY <2>1, <2>2
<1>10. Sum(s) = x BY <1>1, <1>3, <1>8, <1>9
<1>11. DecodeAt(bits, i, width) = IF x >= h THEN x - m ELSE x
  <2>1. DecodeAt(bits, i, width) = IF Sum(s) >= 2 ^ (width - 1) THEN Sum(s) - 2 ^ width ELSE Sum(s)
    BY Zenon DEF DecodeAt
  <2> QED BY <1>1, <1>3, <1>10, <2>1
<1>12. (IF x >= h THEN x - m ELSE x) = d BY <1>2, <1>3, <1>4, <1>5
<1> QED BY <1>2, <1>11, <1>12 DEF bits

\* f holds what the first n writes put, which all end at p, and is 0 elsewhere.
Covers(write, i) == write[1] <= i /\ i < write[1] + Len(write[2])
Content(a, n, f, p) ==
  /\ \A k \in 1 .. n : /\ Continues(f, a.writes[k][1], a.writes[k][2])
                       /\ a.writes[k][1] + Len(a.writes[k][2]) <= p
  /\ \A i \in Nat : f[i] # 0 => \E k \in 1 .. n : Covers(a.writes[k], i)

WriterOk(a, n, w) ==
  /\ a.limit % BlockDigits = 0 /\ Ready(a, w)
  /\ \E f \in [Nat -> Int] : Holds(a, w, f) /\ Content(a, n, f, w.position)

\* A write is a start and digits.
LEMMA WriteFacts ==
  ASSUME NEW a \in PackedInputs, NEW k \in 1 .. Len(a.writes)
  PROVE  a.writes[k][1] \in Nat /\ a.writes[k][2] \in Seq(Int) /\ Len(a.writes[k][2]) \in Nat
<1>1. PICK ws \in Seq(Nat \X Seq(Int)) : ws = a.writes BY ArgFacts
<1>2. ws[k] \in Nat \X Seq(Int) BY <1>1
<1>3. ws[k][1] \in Nat /\ ws[k][2] \in Seq(Int) BY <1>2
<1> QED BY <1>1, <1>3

\* A new writer holds nothing.
LEMMA NewHolds ==
  ASSUME NEW a \in PackedInputs
  PROVE  NewWriter(a) = Refused \/ \E v \in Writers : NewWriter(a) = Ok(v) /\ WriterOk(a, 0, v)
<1> DEFINE v == [position |-> 0, flushed |-> 0, staging |-> <<>>, bits |-> {}, neg |-> 0, pos |-> 0]
           f == [i \in Nat |-> 0]
<1>0. a.len \in Nat /\ a.limit \in Nat /\ BlockDigits \in Nat \ {0} BY ArgFacts
<1>1. CASE a.limit = 0 \/ a.limit % BlockDigits # 0 BY <1>1 DEF NewWriter
<1>2. CASE a.limit > 0 /\ a.limit % BlockDigits = 0
  <2>1. NewWriter(a) = Ok(v) BY <1>0, <1>2 DEF NewWriter
  <2>2. v \in Writers
    <3>1. <<>> \in Seq(Int) OBVIOUS
    <3> QED BY <3>1 DEF Writers
  <2>3. Len(<<>>) = 0 OBVIOUS
  <2>4. Continues(f, 0, <<>>) BY <2>3 DEF Continues
  <2>5. Encoded(f, 0, a.width) = {} BY DEF Encoded
  <2>6. v.position = 0 /\ v.flushed = 0 /\ v.staging = <<>> /\ v.bits = {} /\ v.neg = 0 /\ v.pos = 0 OBVIOUS
  <2> HIDE DEF v
  <2>7. Holds(a, v, f) BY <1>0, <2>2, <2>3, <2>4, <2>5, <2>6 DEF Holds
  <2>8. 0 % BlockDigits = 0
    <3>1. 0 = BlockDigits * 0 + 0 /\ 0 \in 0 .. BlockDigits - 1 BY <1>0
    <3> QED BY <1>0, <3>1, DivUnique
  <2>9. Ready(a, v) BY <1>2, <2>3, <2>6, <2>8 DEF Ready
  <2>10. Content(a, 0, f, v.position) BY DEF Content
  <2>11. f \in [Nat -> Int] OBVIOUS
  <2> HIDE DEF f
  <2>12. WriterOk(a, 0, v) BY <1>2, <2>7, <2>9, <2>10, <2>11 DEF WriterOk
  <2> QED BY <2>1, <2>2, <2>12
<1> QED BY <1>0, <1>1, <1>2


\* A writer knows nothing of the digits from its position on.
LEMMA HoldsSame ==
  ASSUME NEW a, NEW w, NEW f \in [Nat -> Int], Holds(a, w, f), NEW g \in [Nat -> Int],
         \A i \in Nat : i < w.position => g[i] = f[i]
  PROVE  Holds(a, w, g)
<1>1. PICK m \in Nat, n \in Nat, s \in Seq(Int) :
        m = w.flushed /\ s = w.staging /\ n = Len(s) /\ w.position = m + n
  BY DEF Holds, Writers
<1>2. \A i \in 0 .. m - 1 : i \in Nat /\ g[i] = f[i] BY <1>1, SMTT(30)
<1>3. Continues(f, m, s) BY <1>1 DEF Holds
<1>4. ASSUME NEW j \in 1 .. n PROVE g[m + j - 1] = f[m + j - 1]
  <2>1. PICK e \in Nat : e = m + j - 1 /\ e < m + n OBVIOUS
  <2> QED BY <1>1, <2>1
<1>5. Continues(g, m, s) BY <1>1, <1>3, <1>4 DEF Continues
<1>6. Encoded(g, m, a.width) = Encoded(f, m, a.width) BY <1>2 DEF Encoded
<1>7. \A i \in 0 .. m - 1 : -w.neg <= g[i] /\ g[i] <= w.pos BY <1>1, <1>2 DEF Holds
<1> QED BY <1>1, <1>5, <1>6, <1>7 DEF Holds

\* Zeros as a sequence.
LEMMA ZerosFacts ==
  ASSUME NEW n \in Nat
  PROVE  Zeros(n) \in Seq(Int) /\ Len(Zeros(n)) = n /\ \A j \in 1 .. n : Zeros(n)[j] = 0
BY DEF Zeros

\* A write puts its digits behind those of the earlier writes, or is refused.
LEMMA WriteHolds ==
  ASSUME NEW a \in PackedInputs, NEW n \in 0 .. Len(a.writes) - 1, NEW w, WriterOk(a, n, w)
  PROVE  \/ WriteAt(a, w, a.writes[n + 1]) = Refused
         \/ \E v \in Writers : WriteAt(a, w, a.writes[n + 1]) = Ok(v) /\ WriterOk(a, n + 1, v)
<1> DEFINE write == a.writes[n + 1]
           r == WriteAt(a, w, write)
<1>0. Len(a.writes) \in Nat
  <2>1. PICK ws \in Seq(Nat \X Seq(Int)) : ws = a.writes BY ArgFacts
  <2> QED BY <2>1
<1>1. n \in Nat /\ n + 1 \in 1 .. Len(a.writes) BY <1>0
<1>2. PICK st \in Nat, ds \in Seq(Int), len \in Nat : st = write[1] /\ ds = write[2] /\ len = Len(ds)
  BY <1>1, WriteFacts
<1>3. PICK f \in [Nat -> Int] : Holds(a, w, f) /\ Content(a, n, f, w.position) BY DEF WriterOk
<1>4. a.limit % BlockDigits = 0 /\ Ready(a, w) BY DEF WriterOk
<1>5. PICK p \in Nat : p = w.position BY <1>3 DEF Holds, Writers
<1>6. CASE st < p BY <1>2, <1>5, <1>6 DEF WriteAt
<1>7. CASE st >= p
  <2> DEFINE g == [i \in Nat |-> IF st <= i /\ i < st + len THEN ds[i - st + 1] ELSE IF i < p THEN f[i] ELSE 0]
             zs == Zeros(st - p)
             gap == Extend(a, w, zs)
  <2>1. g \in [Nat -> Int]
    <3> SUFFICES ASSUME NEW i \in Nat
                 PROVE  (IF st <= i /\ i < st + len THEN ds[i - st + 1] ELSE IF i < p THEN f[i] ELSE 0) \in Int
      OBVIOUS
    <3>1. CASE st <= i /\ i < st + len
      <4>1. PICK j \in 1 .. len : j = i - st + 1 BY <3>1
      <4>2. ds[j] \in Int BY <1>2, SMTT(30)
      <4> QED BY <3>1, <4>1, <4>2
    <3>2. CASE ~(st <= i /\ i < st + len) BY <3>2
    <3> QED BY <3>1, <3>2
  <2>2. \A i \in Nat : i < p => g[i] = f[i] BY <1>7
  <2>3. \A i \in Nat : p <= i /\ i < st => g[i] = 0 OBVIOUS
  <2>4. \A j \in 1 .. len : g[st + j - 1] = ds[j]
    <3> SUFFICES ASSUME NEW j \in 1 .. len PROVE g[st + j - 1] = ds[j] OBVIOUS
    <3>1. PICK e \in Nat : e = st + j - 1 /\ st <= e /\ e < st + len /\ e - st + 1 = j OBVIOUS
    <3>2. g[e] = ds[e - st + 1] BY <3>1
    <3> QED BY <3>1, <3>2
  <2>5. \A i \in Nat : g[i] # 0 => (st <= i /\ i < st + len) \/ (i < p /\ f[i] # 0) OBVIOUS
  <2> HIDE DEF g
  <2>6. Holds(a, w, g) BY <1>3, <1>5, <2>1, <2>2, HoldsSame
  <2>7. zs \in Seq(Int) /\ Len(zs) = st - p /\ \A j \in 1 .. st - p : zs[j] = 0
    <3>1. PICK z \in Nat : z = st - p BY <1>7
    <3> QED BY <3>1, ZerosFacts
  <2> HIDE DEF zs
  <2>8. Continues(g, w.position, zs)
    <3> SUFFICES ASSUME NEW j \in 1 .. st - p PROVE g[p + j - 1] = 0 BY <1>5, <2>7 DEF Continues
    <3>1. PICK e \in Nat : e = p + j - 1 /\ p <= e /\ e < st OBVIOUS
    <3> QED BY <2>3, <3>1
  <2>9. Arrived(a, w, g, zs, gap) BY <1>4, <2>1, <2>6, <2>7, <2>8, ExtendHolds
  <2>10. r = IF gap = Refused THEN Refused ELSE Extend(a, gap[1], ds)
    <3>1. ~(write[1] < w.position) /\ zs = Zeros(write[1] - w.position) /\ ds = write[2]
      BY <1>2, <1>5, <1>7, SMTT(30) DEF zs
    <3> HIDE DEF write
    <3> QED BY <3>1, Zenon DEF WriteAt
  <2> HIDE DEF gap, r
  <2>11. CASE gap = Refused BY <2>10, <2>11 DEF r
  <2>12. CASE gap # Refused
    <3>1. PICK u \in Writers : gap = Ok(u) /\ Holds(a, u, g) /\ Ready(a, u) /\ u.position = w.position + Len(zs)
      BY <2>9, <2>12 DEF Arrived
    <3>2. u.position = st
      <4>1. p + (st - p) = st OBVIOUS
      <4> QED BY <1>5, <2>7, <3>1, <4>1
    <3>3. Continues(g, u.position, ds) BY <1>2, <2>4, <3>2 DEF Continues
    <3>4. r = Extend(a, u, ds) BY <2>10, <2>12, <3>1, OkFacts
    <3>5. Arrived(a, u, g, ds, r) BY <1>4, <2>1, <3>1, <3>3, <3>4, ExtendHolds
    <3>6. CASE r = Refused BY <3>6 DEF r
    <3>7. CASE r # Refused
      <4>1. PICK v \in Writers : r = Ok(v) /\ Holds(a, v, g) /\ Ready(a, v) /\ v.position = u.position + Len(ds)
        BY <3>5, <3>7 DEF Arrived
      <4>2. v.position = st + len BY <1>2, <3>2, <4>1
      <4>3. ASSUME NEW k \in 1 .. n + 1
            PROVE  /\ Continues(g, a.writes[k][1], a.writes[k][2])
                   /\ a.writes[k][1] + Len(a.writes[k][2]) <= st + len
        <5>1. CASE k = n + 1
          <6>1. a.writes[k][1] = st /\ a.writes[k][2] = ds BY <1>2, <5>1
          <6>2. Len(ds) = len BY <1>2
          <6>3. Continues(g, st, ds) BY <3>2, <3>3
          <6>4. st + len <= st + len OBVIOUS
          <6> QED BY <6>1, <6>2, <6>3, <6>4, Zenon
        <5>2. CASE k # n + 1
          <6>1. k \in 1 .. n /\ k \in 1 .. Len(a.writes) BY <1>0, <1>1, <5>2
          <6>2. PICK x \in Nat, s \in Seq(Int), l \in Nat : x = a.writes[k][1] /\ s = a.writes[k][2] /\ l = Len(s)
            BY <6>1, WriteFacts
          <6>3. Continues(f, x, s) /\ x + l <= p BY <1>3, <1>5, <6>1, <6>2 DEF Content
          <6>4. ASSUME NEW j \in 1 .. l PROVE g[x + j - 1] = f[x + j - 1]
            <7>1. PICK e \in Nat : e = x + j - 1 /\ e < p BY <6>3
            <7> QED BY <2>2, <7>1
          <6>5. Continues(g, x, s) BY <6>2, <6>3, <6>4 DEF Continues
          <6>6. x + l <= st + len BY <1>7, <6>3
          <6> QED BY <6>2, <6>5, <6>6
        <5> QED BY <5>1, <5>2
      <4>4. ASSUME NEW i \in Nat, g[i] # 0 PROVE \E k \in 1 .. n + 1 : Covers(a.writes[k], i)
        <5>1. CASE st <= i /\ i < st + len
          <6>1. Covers(write, i) BY <1>2, <5>1 DEF Covers
          <6>2. n + 1 \in 1 .. n + 1 BY <1>1
          <6> QED BY <6>1, <6>2
        <5>2. CASE f[i] # 0
          <6>1. PICK k \in 1 .. n : Covers(a.writes[k], i) BY <1>3, <5>2 DEF Content
          <6>2. k \in 1 .. n + 1 BY <1>1
          <6> QED BY <6>1, <6>2
        <5> QED BY <2>5, <4>4, <5>1, <5>2
      <4>5. Content(a, n + 1, g, v.position) BY <4>2, <4>3, <4>4 DEF Content
      <4>6. WriterOk(a, n + 1, v) BY <1>4, <2>1, <4>1, <4>5 DEF WriterOk
      <4> QED BY <4>1, <4>6 DEF r
    <3> QED BY <3>6, <3>7
  <2> QED BY <2>11, <2>12
<1> QED BY <1>6, <1>7

\* The digits the writes put are those the writer holds.
LEMMA WrittenIs ==
  ASSUME NEW a \in PackedInputs, NEW f \in [Nat -> Int], NEW p, Content(a, Len(a.writes), f, p), NEW i \in Nat
  PROVE  Written(a, i) = f[i]
<1> DEFINE at == {w \in Range(a.writes) : w[1] <= i /\ i < w[1] + Len(w[2])}
<1>1. PICK ws \in Seq(Nat \X Seq(Int)) : ws = a.writes BY ArgFacts
<1>2. \A w : w \in Range(a.writes) <=> \E k \in 1 .. Len(a.writes) : w = a.writes[k]
  BY <1>1 DEF Range
<1>3. CASE at = {}
  <2>1. \A k \in 1 .. Len(a.writes) : ~Covers(a.writes[k], i) BY <1>2, <1>3 DEF Covers
  <2>2. f[i] = 0 BY <2>1 DEF Content
  <2> QED BY <1>3, <2>2 DEF Written
<1>4. CASE at # {}
  <2> DEFINE w == CHOOSE w \in at : TRUE
  <2>1. w \in at BY <1>4
  <2>2. Written(a, i) = w[2][i - w[1] + 1] BY <1>4 DEF Written
  <2> HIDE DEF w
  <2>3. PICK k \in 1 .. Len(a.writes) : w = a.writes[k] BY <1>2, <2>1
  <2>4. PICK x \in Nat, s \in Seq(Int), l \in Nat : x = w[1] /\ s = w[2] /\ l = Len(s) BY <2>3, WriteFacts
  <2>5. x <= i /\ i < x + l BY <2>1, <2>4
  <2>6. Continues(f, x, s) BY <2>3, <2>4 DEF Content
  <2>7. PICK j \in 1 .. l : j = i - x + 1 /\ x + j - 1 = i BY <2>5
  <2>8. s[j] = f[i] BY <2>4, <2>6, <2>7 DEF Continues
  <2> QED BY <2>2, <2>4, <2>7, <2>8
<1> QED BY <1>3, <1>4

\* What a finished writer has stored: every digit that was written, and there
\* is none behind the end.
Stored(a, p) ==
  /\ p.len = a.len /\ p.width = a.width
  /\ \A i \in Nat : i < a.len => DecodeAt(p.bits, i, a.width) = Written(a, i)
  /\ \A i \in Nat : i >= a.len => Written(a, i) = 0
  /\ \A i \in Nat : Written(a, i) \in Int

\* Finishing pads with zeros and flushes; digits that do not fit are refused.
LEMMA FinishHolds ==
  ASSUME NEW a \in PackedInputs, NEW w, WriterOk(a, Len(a.writes), w)
  PROVE  Finish(a, w) = Refused \/ \E p : Finish(a, w) = Ok(p) /\ Stored(a, p)
<1> DEFINE n == Len(a.writes)
           zs == Zeros(a.len - w.position)
           full == Extend(a, w, zs)
           done == FlushStaging(a, full[1])
           stored == [bits |-> done.bits, len |-> a.len, width |-> a.width]
<1>0. a.len \in Nat /\ a.width \in Nat \ {0} BY ArgFacts
<1>1. PICK f \in [Nat -> Int] : Holds(a, w, f) /\ Content(a, n, f, w.position) BY DEF WriterOk
<1>2. a.limit % BlockDigits = 0 /\ Ready(a, w) BY DEF WriterOk
<1>3. PICK q \in Nat : q = w.position /\ q <= a.len BY <1>1 DEF Holds, Writers
<1>4. \A i \in Nat : i >= q => f[i] = 0
  <2> SUFFICES ASSUME NEW i \in Nat, i >= q, f[i] # 0 PROVE FALSE OBVIOUS
  <2>1. PICK k \in 1 .. n : Covers(a.writes[k], i) BY <1>1 DEF Content
  <2>2. PICK x \in Nat, s \in Seq(Int), l \in Nat : x = a.writes[k][1] /\ s = a.writes[k][2] /\ l = Len(s)
    BY <2>1, WriteFacts
  <2>3. x + l <= q BY <1>1, <1>3, <2>2 DEF Content
  <2>4. i < x + l BY <2>1, <2>2 DEF Covers
  <2> QED BY <2>3, <2>4
<1>5. zs \in Seq(Int) /\ Len(zs) = a.len - q /\ \A j \in 1 .. a.len - q : zs[j] = 0
  <2>1. PICK z \in Nat : z = a.len - q BY <1>0, <1>3
  <2> QED BY <1>3, <2>1, ZerosFacts
<1> HIDE DEF zs
<1>6. Continues(f, w.position, zs)
  <2> SUFFICES ASSUME NEW j \in 1 .. a.len - q PROVE f[q + j - 1] = 0 BY <1>3, <1>5 DEF Continues
  <2>1. PICK e \in Nat : e = q + j - 1 /\ q <= e BY <1>0
  <2> QED BY <1>4, <2>1
<1>7. Arrived(a, w, f, zs, full) BY <1>1, <1>2, <1>5, <1>6, ExtendHolds
<1>8. Finish(a, w) = IF full # Refused /\ BoundsFit(done, a.width) THEN Ok(stored) ELSE Refused
  BY DEF Finish, zs
<1>9. CASE ~(full # Refused /\ BoundsFit(done, a.width)) BY <1>8, <1>9
<1>10. CASE full # Refused /\ BoundsFit(done, a.width)
  <2> HIDE DEF full
  <2>1. PICK u \in Writers : full = Ok(u) /\ Holds(a, u, f) /\ Ready(a, u) /\ u.position = w.position + Len(zs)
    BY <1>7, <1>10 DEF Arrived
  <2>2. full[1] = u BY <2>1, OkFacts
  <2>3. u.position = a.len
    <3>1. q + (a.len - q) = a.len BY <1>0
    <3> QED BY <1>3, <1>5, <2>1, <3>1
  <2>4. u.flushed % BlockDigits = 0 BY <2>1 DEF Ready
  <2>5. Holds(a, FlushStaging(a, u), f) /\ FlushStaging(a, u).flushed = u.position BY <2>1, <2>4, FlushHolds
  <2>6. Holds(a, done, f) /\ done.flushed = a.len BY <2>2, <2>3, <2>5
  <2> HIDE DEF done
  <2>7. PICK h \in Nat : h = 2 ^ (a.width - 1)
    <3>1. a.width - 1 \in Nat BY <1>0
    <3> QED BY <3>1, PowerFacts
  <2>8. PICK x \in Nat, y \in Nat : x = done.neg /\ y = done.pos BY <2>6 DEF Holds, Writers
  <2>9. x <= h /\ y < h BY <1>10, <2>7, <2>8 DEF BoundsFit
  <2>10. done.bits = Encoded(f, a.len, a.width) BY <2>6 DEF Holds
  <2>11. ASSUME NEW i \in Nat, i < a.len PROVE DecodeAt(done.bits, i, a.width) = f[i]
    <3>1. i \in 0 .. a.len - 1 BY <1>0, <2>11
    <3>2. -x <= f[i] /\ f[i] <= y BY <2>6, <2>8, <3>1 DEF Holds
    <3>3. PICK d \in Int : d = f[i] OBVIOUS
    <3>4. -h <= d /\ d < h BY <2>9, <3>2, <3>3
    <3>5. -(2 ^ (a.width - 1)) <= f[i] /\ f[i] < 2 ^ (a.width - 1) BY <2>7, <3>3, <3>4
    <3>6. DecodeAt(Encoded(f, a.len, a.width), i, a.width) = f[i] BY <1>0, <3>1, <3>5, DecodeExact, Zenon
    <3> QED BY <2>10, <3>6
  <2>12. \A i \in Nat : Written(a, i) = f[i] /\ f[i] \in Int BY <1>1, WrittenIs
  <2>13. \A i \in Nat : i >= a.len => f[i] = 0 BY <1>0, <1>3, <1>4
  <2>14. stored.bits = done.bits /\ stored.len = a.len /\ stored.width = a.width OBVIOUS
  <2> HIDE DEF stored
  <2>15. Stored(a, stored) BY <2>11, <2>12, <2>13, <2>14 DEF Stored
  <2> QED BY <1>8, <1>10, <2>15
<1> QED BY <1>9, <1>10


\* The digits that were written from position x on.
Slice(a, x, count) == [k \in 1 .. count |-> Written(a, x + k - 1)]

\* The block border at which decode_range begins to decode whole blocks, if
\* any block is decoded as a whole.
LEMMA PrefixFacts ==
  ASSUME NEW b \in Nat \ {0}, NEW from \in Nat, NEW live \in Nat, NEW prefix,
         prefix = Min({b - (from % b), live}) % b
  PROVE  prefix \in 0 .. live /\ (prefix = live \/ (from + prefix) % b = 0)
<1>1. PICK q \in Int, r \in 0 .. b - 1 : q = from \div b /\ r = from % b /\ from = b * q + r OBVIOUS
<1>2. from = b * q + r BY <1>1
<1>3. PICK m \in Nat : m = Min({b - r, live}) /\ m \in {b - r, live} /\ m <= b - r /\ m <= live
  <2>1. PICK e \in Nat : e = b - r OBVIOUS
  <2>2. e \in Int /\ live \in Int OBVIOUS
  <2>3. Min({e, live}) \in {e, live} /\ Min({e, live}) <= e /\ Min({e, live}) <= live
    BY <2>2, MaxPair, Zenon
  <2> QED BY <2>1, <2>3
<1>4. prefix = m % b BY <1>1, <1>3
<1>5. \A u \in Nat, v \in Nat \ {0} : u < v => u % v = u OBVIOUS
<1>6. PICK z \in Int : z = b * (q + 1) /\ z % b = 0
  <2>1. q + 1 \in Int OBVIOUS
  <2> QED BY <2>1, Multiple
<1>7. z = b * q + b BY <1>2, <1>6
<1>8. CASE m < b
  <2>1. prefix = m BY <1>3, <1>4, <1>5, <1>8
  <2>2. CASE m = live BY <2>1, <2>2
  <2>3. CASE m = b - r
    <3>1. from + m = z BY <1>2, <1>7, <2>3
    <3> QED BY <1>3, <1>6, <2>1, <3>1
  <2> QED BY <1>3, <2>2, <2>3
<1>9. CASE m >= b
  <2>1. r = 0 /\ m = b BY <1>1, <1>3, <1>9
  <2>2. m % b = 0
    <3>1. b * 1 = b OBVIOUS
    <3>2. (b * 1) % b = 0 BY Multiple
    <3> QED BY <2>1, <3>1, <3>2
  <2>3. prefix = 0 BY <1>4, <2>2
  <2>4. from + 0 = from /\ from % b = 0 BY <1>1, <2>1
  <2> QED BY <2>3, <2>4
<1> QED BY <1>3, <1>8, <1>9

\* The digit in a whole block.
LEMMA BlockIndex ==
  ASSUME NEW b \in Nat \ {0}, NEW x \in Nat, x % b = 0, NEW i \in Nat
  PROVE  /\ ((x \div b) + (i \div b)) * b + (i % b) = x + i
         /\ i % b \in 0 .. b - 1
<1>1. PICK q \in Int : q = x \div b /\ x = b * q BY DivBack
<1>2. PICK t \in Int, r \in 0 .. b - 1 : t = i \div b /\ r = i % b /\ i = b * t + r OBVIOUS
<1>3. (q + t) * b = b * q + b * t BY <1>1, <1>2
<1>4. PICK u \in Int, v \in Int : u = b * q /\ v = b * t BY <1>1, <1>2
<1>5. (q + t) * b + r = x + i
  <2>1. PICK w \in Int : w = (q + t) * b BY <1>1, <1>2
  <2>2. w = u + v /\ x = u /\ i = v + r BY <1>1, <1>2, <1>3, <1>4, <2>1
  <2>3. w + r = x + i BY <1>4, <2>2
  <2> QED BY <2>1, <2>3
<1> QED BY <1>1, <1>2, <1>5

\* What decode_range returns is a slice of what was written.
LEMMA RangeExact ==
  ASSUME NEW a \in PackedInputs, NEW view, Stored(a, view.packed), view.start \in Nat,
         NEW start \in Nat, NEW count \in Nat
  PROVE  DecodeRange(view, start, count) = Slice(a, view.start + start, count)
<1> DEFINE p == view.packed
           from == view.start + start
           live == Max({0, Min({p.len, from + count}) - from})
           prefix == Min({BlockDigits - (from % BlockDigits), live}) % BlockDigits
           blocks == (live - prefix) \div BlockDigits
           first == (from + prefix) \div BlockDigits
           Block(c) == [i \in 1 .. BlockDigits |-> DecodeAt(p.bits, c * BlockDigits + i - 1, p.width)]
           decoded == prefix + blocks * BlockDigits
           D(i) == DecodeAt(p.bits, i, p.width)
           value(k) == CASE k - 1 < prefix -> DecodeAt(p.bits, from + k - 1, p.width)
                         [] k - 1 >= prefix /\ k - 1 < decoded ->
                               Block(first + ((k - 1 - prefix) \div BlockDigits))
                                   [((k - 1 - prefix) % BlockDigits) + 1]
                         [] k - 1 >= decoded /\ k - 1 < live -> DecodeAt(p.bits, from + k - 1, p.width)
                         [] OTHER -> 0
<1>0. a.len \in Nat /\ BlockDigits \in Nat \ {0} BY ArgFacts
<1>1. from \in Nat OBVIOUS
<1>2. p.len = a.len /\ p.width = a.width BY DEF Stored
<1>3. DecodeRange(view, start, count) = [k \in 1 .. count |-> value(k)] BY Zenon DEF DecodeRange
<1> HIDE DEF from
<1>4. /\ live \in Nat
      /\ \A i \in Nat : i < live => from + i < a.len
      /\ \A i \in Nat : i < count /\ i >= live => from + i >= a.len
  <2>1. PICK m \in Int : m = Min({p.len, from + count}) /\ m \in {a.len, from + count} /\ m <= a.len /\ m <= from + count
    <3>1. PICK e \in Int : e = from + count BY <1>1
    <3>2. Min({a.len, e}) \in {a.len, e} /\ Min({a.len, e}) <= a.len /\ Min({a.len, e}) <= e
      <4>1. a.len \in Int BY <1>0
      <4> QED BY <3>1, <4>1, MaxPair, Zenon
    <3>3. Min({p.len, from + count}) = Min({a.len, e}) BY <1>2, <3>1
    <3>4. Min({a.len, e}) \in Int BY <1>0, <3>2
    <3> QED BY <3>1, <3>2, <3>3, <3>4
  <2>2. PICK e \in Int : e = m - from BY <1>1
  <2>3. live \in {0, e} /\ live >= 0 /\ live >= e
    <3>1. live = Max({0, e}) BY <2>1, <2>2
    <3>2. 0 \in Int OBVIOUS
    <3>3. Max({0, e}) \in {0, e} /\ Max({0, e}) >= 0 /\ Max({0, e}) >= e BY <3>2, MaxPair, Zenon
    <3> QED BY <3>1, <3>3
  <2> HIDE DEF live
  <2> QED BY <1>0, <1>1, <2>1, <2>2, <2>3
<1> HIDE DEF live
<1>5. prefix \in 0 .. live /\ (prefix = live \/ (from + prefix) % BlockDigits = 0)
  BY <1>0, <1>1, <1>4, PrefixFacts
<1> HIDE DEF prefix
<1>6. \A i \in Nat : i < live => D(from + i) = Written(a, from + i)
  <2> SUFFICES ASSUME NEW i \in Nat, i < live PROVE D(from + i) = Written(a, from + i) OBVIOUS
  <2>1. PICK e \in Nat : e = from + i /\ e < a.len BY <1>1, <1>4
  <2> QED BY <1>2, <2>1 DEF Stored
<1>7. \A i \in Nat : i < count /\ i >= live => Written(a, from + i) = 0
  <2> SUFFICES ASSUME NEW i \in Nat, i < count, i >= live PROVE Written(a, from + i) = 0 OBVIOUS
  <2>1. PICK e \in Nat : e = from + i /\ e >= a.len BY <1>1, <1>4
  <2> QED BY <2>1 DEF Stored
<1>8. decoded \in Nat /\ decoded <= live /\ prefix <= decoded /\ (decoded > prefix => (from + prefix) % BlockDigits = 0)
  <2>1. PICK n \in Nat : n = live - prefix BY <1>4, <1>5
  <2>2. PICK y \in Nat : y = blocks * BlockDigits /\ y <= n
    <3>1. PICK t \in Nat : t = blocks /\ BlockDigits * t <= n BY <1>0, <2>1, DivBack
    <3>2. \A u, v \in Nat : u * v \in Nat /\ u * v = v * u OBVIOUS
    <3> QED BY <1>0, <3>1, <3>2
  <2>3. decoded = prefix + y BY <2>2
  <2> HIDE DEF decoded, blocks
  <2> QED BY <1>4, <1>5, <2>1, <2>2, <2>3
<1> HIDE DEF decoded
<1>9. ASSUME NEW k \in 1 .. count PROVE value(k) = Written(a, from + k - 1)
  <2>1. PICK i \in Nat : i = k - 1 /\ i < count OBVIOUS
  <2>2. from + k - 1 = from + i BY <1>1, <2>1
  <2>3. CASE i < prefix
    <3>1. i < live BY <1>4, <1>5, <2>3
    <3>2. value(k) = D(from + i)
      <4>1. k - 1 < prefix BY <2>1, <2>3
      <4>2. ~(k - 1 >= prefix) /\ ~(k - 1 >= decoded) BY <1>5, <1>8, <4>1
      <4>3. value(k) = D(from + k - 1) BY <4>1, <4>2, Zenon
      <4> QED BY <2>2, <4>3
    <3> QED BY <1>6, <2>2, <3>1, <3>2
  <2>4. CASE i >= prefix /\ i < decoded
    <3> DEFINE c == first + ((k - 1 - prefix) \div BlockDigits)
               l == ((k - 1 - prefix) % BlockDigits) + 1
    <3>1. i < live BY <1>4, <1>8, <2>4
    <3>2. PICK n \in Nat : n = k - 1 - prefix /\ from + i = (from + prefix) + n BY <1>1, <1>5, <2>1, <2>4
    <3>3. PICK x \in Nat : x = from + prefix /\ x % BlockDigits = 0 BY <1>1, <1>5, <1>8, <2>4
    <3>4. /\ ((x \div BlockDigits) + (n \div BlockDigits)) * BlockDigits + (n % BlockDigits) = x + n
          /\ n % BlockDigits \in 0 .. BlockDigits - 1
      <4>1. \A b \in Nat \ {0}, y, j \in Nat : y % b = 0 =>
              /\ ((y \div b) + (j \div b)) * b + (j % b) = y + j
              /\ j % b \in 0 .. b - 1
        BY BlockIndex, Zenon
      <4>2. x % BlockDigits = 0 BY <3>3
      <4>3. BlockDigits \in Nat \ {0} BY <1>0
      <4>4. x \in Nat /\ n \in Nat OBVIOUS
      <4> HIDE DEF c, l, value
      <4> QED BY <4>1, <4>2, <4>3, <4>4, Zenon
    <3>5. c * BlockDigits + (n % BlockDigits) = from + i BY <3>2, <3>3, <3>4
    <3>6. l \in 1 .. BlockDigits /\ l = (n % BlockDigits) + 1 BY <1>0, <3>2, <3>4
    <3>7. c * BlockDigits + l - 1 = from + i
      <4>1. PICK y \in Int : y = c * BlockDigits
        <5>1. c \in Int BY <1>0, <3>2, <3>3
        <5> HIDE DEF c
        <5> QED BY <1>0, <5>1
      <4>2. PICK z \in Int : z = n % BlockDigits BY <3>4
      <4> HIDE DEF c, l
      <4> QED BY <3>5, <3>6, <4>1, <4>2
    <3>8. value(k) = Block(c)[l]
      <4>1. k - 1 >= prefix /\ k - 1 < decoded BY <2>1, <2>4
      <4>2. ~(k - 1 < prefix) /\ ~(k - 1 >= decoded) BY <1>5, <1>8, <4>1
      <4> QED BY <4>1, <4>2, Zenon
    <3> HIDE DEF c, l
    <3>9. Block(c)[l] = D(from + i) BY <3>6, <3>7
    <3> QED BY <1>6, <2>2, <3>1, <3>8, <3>9
  <2>5. CASE i >= decoded /\ i < live
    <3>1. value(k) = D(from + i) BY <1>5, <1>8, <2>1, <2>2, <2>5
    <3> QED BY <1>6, <2>2, <2>5, <3>1
  <2>6. CASE i >= live
    <3>1. value(k) = 0 BY <1>4, <1>5, <1>8, <2>1, <2>6
    <3> QED BY <1>7, <2>1, <2>2, <2>6, <3>1
  <2> QED BY <1>4, <1>5, <1>8, <2>3, <2>4, <2>5, <2>6
<1> HIDE DEF value
<1> QED BY <1>3, <1>9 DEF Slice, from


\* A view of what was stored.
ViewOk(a, view) == Stored(a, view.packed) /\ view.start \in Nat /\ view.len \in Nat

\* A slice is a sequence.
LEMMA SliceFacts ==
  ASSUME NEW a, \A i \in Nat : Written(a, i) \in Int, NEW x \in Nat, NEW n \in Nat
  PROVE  /\ Slice(a, x, n) \in Seq(Int) /\ Len(Slice(a, x, n)) = n
         /\ \A k \in 1 .. n : Slice(a, x, n)[k] = Written(a, x + k - 1)
<1>1. ASSUME NEW k \in 1 .. n PROVE Written(a, x + k - 1) \in Int
  <2>1. PICK e \in Nat : e = x + k - 1 OBVIOUS
  <2> QED BY <2>1
<1> QED BY <1>1 DEF Slice

\* Two sequences put together.
LEMMA ConcatFacts ==
  ASSUME NEW s \in Seq(Int), NEW t \in Seq(Int)
  PROVE  /\ s \o t \in Seq(Int) /\ Len(s \o t) = Len(s) + Len(t)
         /\ \A k \in 1 .. Len(s) : (s \o t)[k] = s[k]
         /\ \A k \in 1 .. Len(t) : (s \o t)[Len(s) + k] = t[k]
OBVIOUS

\* Slices that follow each other.
LEMMA SliceAppend ==
  ASSUME NEW a, \A i \in Nat : Written(a, i) \in Int, NEW x \in Nat, NEW m \in Nat, NEW n \in Nat
  PROVE  Slice(a, x, m) \o Slice(a, x + m, n) = Slice(a, x, m + n)
<1> DEFINE s == Slice(a, x, m)
           t == Slice(a, x + m, n)
           u == Slice(a, x, m + n)
<1>0. x + m \in Nat /\ m + n \in Nat OBVIOUS
<1>1. s \in Seq(Int) /\ Len(s) = m /\ \A k \in 1 .. m : s[k] = Written(a, x + k - 1) BY SliceFacts
<1>2. t \in Seq(Int) /\ Len(t) = n /\ \A k \in 1 .. n : t[k] = Written(a, x + m + k - 1) BY <1>0, SliceFacts
<1>3. u \in Seq(Int) /\ Len(u) = m + n /\ \A k \in 1 .. m + n : u[k] = Written(a, x + k - 1)
  BY <1>0, SliceFacts
<1> HIDE DEF s, t, u
<1> DEFINE c == s \o t
<1>4. /\ c \in Seq(Int) /\ Len(c) = m + n /\ \A k \in 1 .. m : c[k] = s[k]
      /\ \A k \in 1 .. n : c[m + k] = t[k]
  BY <1>1, <1>2, ConcatFacts
<1> HIDE DEF c
<1>5. ASSUME NEW k \in 1 .. m + n PROVE c[k] = u[k]
  <2>1. CASE k <= m
    <3>1. k \in 1 .. m BY <2>1
    <3> QED BY <1>1, <1>3, <1>4, <3>1
  <2>2. CASE k > m
    <3>1. PICK l \in 1 .. n : l = k - m /\ x + m + l - 1 = x + k - 1 /\ m + l = k BY <2>2
    <3>2. c[k] = t[l] BY <1>4, <3>1
    <3> QED BY <1>2, <1>3, <3>1, <3>2
  <2> QED BY <2>1, <2>2
<1>6. c = u BY <1>3, <1>4, <1>5
<1> QED BY <1>6 DEF c, s, t, u

\* A part of a slice.
PartOfSlice(a, x, m, l, n) == SubSeq(Slice(a, x, m), l + 1, l + n) = Slice(a, x + l, n)

\* A window holds every digit between its ends.
LEMMA SlicePart ==
  ASSUME NEW a, \A i \in Nat : Written(a, i) \in Int, NEW x \in Nat, NEW m \in Nat, NEW l \in Nat, NEW n \in Nat,
         l + n <= m
  PROVE  PartOfSlice(a, x, m, l, n)
<1> DEFINE s == Slice(a, x, m)
           t == SubSeq(s, l + 1, l + n)
           u == Slice(a, x + l, n)
<1>0. x + l \in Nat OBVIOUS
<1>1. s \in Seq(Int) /\ Len(s) = m /\ \A k \in 1 .. m : s[k] = Written(a, x + k - 1) BY SliceFacts
<1>2. u \in Seq(Int) /\ Len(u) = n /\ \A k \in 1 .. n : u[k] = Written(a, x + l + k - 1) BY <1>0, SliceFacts
<1> HIDE DEF s, u
<1>3. t \in Seq(Int) /\ Len(t) = n /\ \A k \in 1 .. n : t[k] = s[l + k] BY <1>1
<1> HIDE DEF t
<1>4. ASSUME NEW k \in 1 .. n PROVE t[k] = u[k]
  <2>1. PICK j \in 1 .. m : j = l + k /\ x + j - 1 = x + l + k - 1 OBVIOUS
  <2> QED BY <1>1, <1>2, <1>3, <2>1
<1>5. t = u BY <1>2, <1>3, <1>4
<1> QED BY <1>5, Zenon DEF t, s, u, PartOfSlice

\* The iterators of a view, and the states of a sequence of reads: the window
\* is a slice of what was written, and what has been read is all of it up to
\* the position.
Iters(view) == [view : {view}, position : Nat, from : Nat, got : Seq(Int)]
IterOk(a, view, it) ==
  /\ it \in Iters(view) /\ it.position <= view.len
  /\ it.got = Slice(a, view.start + it.from, Len(it.got))
Reads(a, view) ==
  {r \in [iter : Iters(view), values : Seq(Int)] :
     IterOk(a, view, r.iter) /\ r.values = Slice(a, view.start, r.iter.position)}

\* refill decodes a window at the position.
LEMMA RefillOk ==
  ASSUME NEW a \in PackedInputs, NEW view, ViewOk(a, view), NEW it, IterOk(a, view, it)
  PROVE  /\ IterOk(a, view, Refill(it)) /\ Refill(it).position = it.position /\ Refill(it).from = it.position
         /\ Refill(it).view = view
<1> DEFINE batch == BlockDigits - ((view.start + it.position) % BlockDigits)
           count == Min({view.len - it.position, batch})
           got == DecodeRange(view, it.position, count)
           u == [view |-> view, position |-> it.position, from |-> it.position, got |-> got]
<1>0. BlockDigits \in Nat \ {0} BY ArgFacts
<1>1. it.view = view /\ it.position \in Nat /\ it.position <= view.len BY DEF IterOk, Iters
<1>2. view.start \in Nat /\ view.len \in Nat /\ Stored(a, view.packed) BY DEF ViewOk
<1>3. Refill(it) = u BY <1>1 DEF Refill
<1>4. batch \in Nat /\ view.len - it.position \in Nat
  <2>1. PICK y \in Nat : y = view.start + it.position BY <1>1, <1>2
  <2>2. PICK z \in 0 .. BlockDigits - 1 : z = y % BlockDigits BY <1>0, <2>1
  <2>3. BlockDigits - z \in Nat BY <1>0, <2>2
  <2>4. batch = BlockDigits - z BY <2>1, <2>2
  <2> HIDE DEF batch
  <2> QED BY <1>1, <1>2, <2>3, <2>4
<1> HIDE DEF batch
<1>5. count \in Nat
  <2>1. PICK x \in Int, y \in Int : x = view.len - it.position /\ y = batch /\ x >= 0 /\ y >= 0 BY <1>4
  <2>2. Min({x, y}) \in {x, y} BY <2>1, MaxPair, Zenon
  <2>3. count = Min({x, y}) BY <2>1
  <2> HIDE DEF count
  <2> QED BY <2>1, <2>2, <2>3
<1> HIDE DEF count
<1>6. got = Slice(a, view.start + it.position, count) BY <1>1, <1>2, <1>5, RangeExact
<1>7. view.start + it.position \in Nat /\ \A i \in Nat : Written(a, i) \in Int BY <1>1, <1>2 DEF Stored
<1>8. got \in Seq(Int) /\ Len(got) = count BY <1>5, <1>6, <1>7, SliceFacts
<1> HIDE DEF got
<1>9. u \in Iters(view) BY <1>1, <1>8 DEF Iters
<1>10. u.position = it.position /\ u.from = it.position /\ u.got = got /\ u.view = view OBVIOUS
<1> HIDE DEF u
<1> QED BY <1>1, <1>3, <1>6, <1>8, <1>9, <1>10 DEF IterOk

\* One read: nothing when the digits do not suffice, and else the next ones.
ReadsOn(a, view, it, r) ==
  \E m \in Nat : /\ IterOk(a, view, r.iter) /\ r.iter.position = it.position + m
                 /\ r.values = Slice(a, view.start + it.position, m)

\* next_array, with its window, a refilled one, or none.
LEMMA NextArrayOk ==
  ASSUME NEW a \in PackedInputs, NEW view, ViewOk(a, view), NEW it, IterOk(a, view, it), NEW n \in Nat
  PROVE  ReadsOn(a, view, it, NextArray(it, n))
<1> DEFINE at == IF WindowHolds(it, n) THEN it ELSE Refill(it)
           local == at.position - at.from
           Values == IF local + n > Len(at.got) THEN DecodeRange(at.view, at.position, n)
                     ELSE SubSeq(at.got, local + 1, local + n)
<1>1. PICK p \in Nat : p = it.position /\ p <= view.len BY DEF IterOk, Iters
<1>2. view.start \in Nat /\ view.len \in Nat /\ Stored(a, view.packed) /\ \A i \in Nat : Written(a, i) \in Int
  BY DEF ViewOk, Stored
<1>3. it.view = view BY DEF IterOk, Iters
<1>4. CASE p + n > view.len
  <2>1. NextArray(it, n) = [iter |-> it, values |-> <<>>] BY <1>1, <1>3, <1>4 DEF NextArray
  <2>2. view.start + p \in Nat BY <1>2
  <2>3. Slice(a, view.start + p, 0) = <<>> BY <2>2 DEF Slice
  <2>4. NextArray(it, n).iter = it /\ NextArray(it, n).values = <<>> BY <2>1
  <2>5. p + 0 = p /\ 0 \in Nat OBVIOUS
  <2> QED BY <1>1, <2>3, <2>4, <2>5 DEF ReadsOn
<1>5. CASE p + n <= view.len
  <2>1. IterOk(a, view, at) /\ at.position = p /\ at.view = view
    BY <1>1, <1>3, RefillOk
  <2>2. PICK g \in Seq(Int), f \in Nat, l \in Nat : g = at.got /\ f = at.from /\ l = Len(g)
    BY <2>1 DEF IterOk, Iters
  <2>3. f <= p
    <3>1. CASE WindowHolds(it, n) BY <1>1, <2>2, <3>1 DEF WindowHolds
    <3>2. CASE ~WindowHolds(it, n) BY <1>1, <2>2, <3>2, RefillOk
    <3> QED BY <3>1, <3>2
  <2>4. NextArray(it, n) = [iter |-> [at EXCEPT !.position = @ + n], values |-> Values]
    <3>1. ~(it.position + n > it.view.len) BY <1>1, <1>2, <1>3, <1>5
    <3> QED BY <3>1, Zenon DEF NextArray
  <2> HIDE DEF at
  <2>5. PICK d \in Nat : d = local /\ f + d = p BY <2>1, <2>2, <2>3
  <2>6. g = Slice(a, view.start + f, l) BY <2>1, <2>2 DEF IterOk
  <2>7. Values = Slice(a, view.start + p, n)
    <3>1. CASE d + n > l
      <4>1. Values = DecodeRange(view, p, n) BY <2>1, <2>2, <2>5, <3>1
      <4> QED BY <1>2, <4>1, RangeExact, ZenonT(30)
    <3>2. CASE d + n <= l
      <4>1. Values = SubSeq(g, d + 1, d + n)
        <5>1. ~(local + n > Len(at.got)) BY <2>2, <2>5, <3>2
        <5>2. Values = SubSeq(at.got, local + 1, local + n) BY <5>1, Zenon
        <5> QED BY <2>2, <2>5, <5>2
      <4>2. view.start + f \in Nat BY <1>2
      <4>3. SubSeq(Slice(a, view.start + f, l), d + 1, d + n) = Slice(a, view.start + f + d, n)
        <5>1. PICK y \in Nat : y = view.start + f BY <4>2
        <5>2. PartOfSlice(a, y, l, d, n) BY <1>2, <3>2, SlicePart
        <5>3. SubSeq(Slice(a, y, l), d + 1, d + n) = Slice(a, y + d, n) BY <5>2, Zenon DEF PartOfSlice
        <5> QED BY <5>1, <5>3
      <4>4. view.start + f + d = view.start + p BY <1>2, <2>5
      <4> QED BY <2>6, <4>1, <4>3, <4>4
    <3> QED BY <3>1, <3>2
  <2> DEFINE u == [at EXCEPT !.position = @ + n]
  <2>8. /\ u \in Iters(view) /\ u.position = p + n /\ u.from = f /\ u.got = g
    BY <2>1, <2>2 DEF IterOk, Iters
  <2>9. NextArray(it, n).iter = u /\ NextArray(it, n).values = Values BY <2>4
  <2> HIDE DEF u, Values
  <2>10. IterOk(a, view, u) BY <1>5, <2>2, <2>6, <2>8 DEF IterOk
  <2> QED BY <1>1, <2>7, <2>8, <2>9, <2>10 DEF ReadsOn
<1> QED BY <1>1, <1>2, <1>4, <1>5


\* The state after one more read.
ReadOne(r, n) ==
  [iter |-> NextArray(r.iter, n).iter, values |-> r.values \o NextArray(r.iter, n).values]

\* A read goes on where the last one ended.
LEMMA ReadOneOk ==
  ASSUME NEW a \in PackedInputs, NEW view, ViewOk(a, view), NEW r \in Reads(a, view), NEW n \in Nat
  PROVE  ReadOne(r, n) \in Reads(a, view)
<1> DEFINE q == NextArray(r.iter, n)
           u == ReadOne(r, n)
<1>1. IterOk(a, view, r.iter) /\ r.values = Slice(a, view.start, r.iter.position) BY DEF Reads
<1>2. PICK m \in Nat : /\ IterOk(a, view, q.iter) /\ q.iter.position = r.iter.position + m
                       /\ q.values = Slice(a, view.start + r.iter.position, m)
  <2>1. ReadsOn(a, view, r.iter, q) BY <1>1, NextArrayOk
  <2> QED BY <2>1, Zenon DEF ReadsOn
<1> HIDE DEF q
<1>3. PICK p \in Nat : p = r.iter.position BY <1>1 DEF IterOk, Iters
<1>4. PICK x \in Nat : x = view.start /\ \A i \in Nat : Written(a, i) \in Int BY DEF ViewOk, Stored
<1>5. r.values \o q.values = Slice(a, x, p + m)
  <2>1. Slice(a, x, p) \o Slice(a, x + p, m) = Slice(a, x, p + m) BY <1>4, SliceAppend, ZenonT(30)
  <2> QED BY <1>1, <1>2, <1>3, <1>4, <2>1
<1>6. u = [iter |-> q.iter, values |-> r.values \o q.values] BY DEF ReadOne, q
<1>7. r.values \o q.values \in Seq(Int)
  <2>1. p + m \in Nat OBVIOUS
  <2> QED BY <1>4, <1>5, <2>1, SliceFacts
<1>8. q.iter \in Iters(view) BY <1>2 DEF IterOk
<1>9. u \in [iter : Iters(view), values : Seq(Int)] /\ u.iter = q.iter /\ u.values = Slice(a, x, p + m)
  BY <1>5, <1>6, <1>7, <1>8
<1> HIDE DEF u
<1> QED BY <1>2, <1>3, <1>4, <1>9 DEF Reads, u

\* The iterator returns the first digits of its view, whatever lengths it is
\* asked for.
LEMMA IterExact ==
  ASSUME NEW a \in PackedInputs, NEW view, ViewOk(a, view), NEW lengths \in Seq(Nat)
  PROVE  \E m \in 0 .. view.len : IterReads(view, lengths) = Slice(a, view.start, m)
<1> DEFINE n == Len(lengths)
           S == Reads(a, view)
           init == [iter |-> NewIter(view), values |-> <<>>]
           Rec(g) == g = [i \in 0 .. n |-> IF i = 0 THEN init ELSE ReadOne(g[i - 1], lengths[i])]
           c == CHOOSE g : Rec(g)
           step == [q \in S \X (1 .. n) |-> ReadOne(q[1], lengths[q[2]])]
<1>0. n \in Nat /\ \A i \in 1 .. n : lengths[i] \in Nat OBVIOUS
<1>1. IterReads(view, lengths) = c[n].values BY Zenon DEF IterReads, ReadOne
<1>2. init \in S
  <2> DEFINE it == NewIter(view)
  <2>1. view.start \in Nat /\ view.len \in Nat BY DEF ViewOk
  <2>2. it \in Iters(view) /\ it.position = 0 /\ it.from = 0 /\ it.got = <<>> BY DEF NewIter, Iters
  <2>3. Len(<<>>) = 0 /\ \A x \in Nat : Slice(a, x, 0) = <<>> BY DEF Slice
  <2>4. view.start + 0 \in Nat BY <2>1
  <2> HIDE DEF it
  <2>5. IterOk(a, view, it) BY <2>1, <2>2, <2>3, <2>4 DEF IterOk
  <2>6. init = [iter |-> it, values |-> <<>>] BY DEF it
  <2>7. init.iter = it /\ init.values = <<>> /\ init \in [iter : Iters(view), values : Seq(Int)]
    BY <2>2, <2>6
  <2> HIDE DEF init
  <2> QED BY <2>1, <2>2, <2>3, <2>5, <2>7 DEF Reads
<1> HIDE DEF init
<1>3. \A r \in S, i \in 1 .. n : ReadOne(r, lengths[i]) \in S BY <1>0, ReadOneOk
<1> HIDE DEF S
<1>4. step \in [S \X (1 .. n) -> S] BY <1>3
<1>5. PICK g \in [0 .. n -> S] : Loop(n, init, step, g)
  <2> HIDE DEF step
  <2> QED BY <1>0, <1>2, <1>4, LoopExists
<1>6. \A i \in 1 .. n : g[i] = ReadOne(g[i - 1], lengths[i])
  <2> SUFFICES ASSUME NEW i \in 1 .. n PROVE g[i] = ReadOne(g[i - 1], lengths[i]) OBVIOUS
  <2>0. i - 1 \in 0 .. n BY <1>0
  <2>1. <<g[i - 1], i>> \in S \X (1 .. n) BY <1>5, <2>0
  <2> QED BY <1>5, <2>1 DEF Loop
<1>7. Rec(g) BY <1>5, <1>6 DEF Loop
<1>8. Rec(c)
  <2> HIDE DEF Rec
  <2> QED BY <1>7
<1> HIDE DEF c
<1>9. c[0] = init /\ \A i \in 1 .. n : c[i] = ReadOne(c[i - 1], lengths[i])
  <2>1. 0 \in 0 .. n /\ \A i \in 1 .. n : i \in 0 .. n /\ i # 0 BY <1>0
  <2> QED BY <1>8, <2>1
<1> DEFINE T == {i \in 0 .. n : c[i] \in S}
<1>10. 0 \in T BY <1>0, <1>2, <1>9
<1>11. ASSUME NEW i \in 0 .. n - 1, i \in T PROVE i + 1 \in T
  <2>1. i + 1 \in 1 .. n /\ (i + 1) - 1 = i /\ i + 1 \in 0 .. n BY <1>0
  <2> QED BY <1>3, <1>9, <1>11, <2>1
<1>12. \A i \in 0 .. n : i \in T
  <2> HIDE DEF T
  <2> QED BY <1>0, <1>10, <1>11, UpTo
<1>13. c[n] \in S
  <2>1. n \in 0 .. n BY <1>0
  <2> QED BY <1>12, <2>1
<1>14. PICK m \in Nat : m = c[n].iter.position /\ m <= view.len /\ c[n].values = Slice(a, view.start, m)
  BY <1>13 DEF S, Reads, IterOk, Iters
<1>15. m \in 0 .. view.len BY <1>14 DEF ViewOk
<1> QED BY <1>1, <1>14, <1>15

\* What a stage of a call returns: a writer that holds the writes so far, what
\* a finished writer has stored, and slices of what was written.
ReadExact(a, g) ==
  /\ a.view[2] <= a.view[3]
  /\ g.range = Slice(a, a.view[2], a.view[3] - a.view[2])
  /\ \E m \in 0 .. a.view[3] - a.view[2] : g.iter = Slice(a, a.view[2], m)
StageOk(a, k, r) ==
  \/ r = Refused
  \/ k \in 1 .. Len(a.writes) + 1 /\ \E v \in Writers : r = Ok(v) /\ WriterOk(a, k - 1, v)
  \/ k = Len(a.writes) + 2 /\ \E p : r = Ok(p) /\ Stored(a, p)
  \/ /\ k = Len(a.writes) + 3 /\ \E g : r = Ok(g) /\ ReadExact(a, g)
     /\ \A i \in Nat : Written(a, i) \in Int

PackedInv ==
  /\ {"fn", "arg", "out"} \subseteq DOMAIN call /\ call.fn = "packed" /\ call.arg \in PackedInputs
  /\ \E S : call.out \in Seq(S)
  /\ \A k \in 1 .. Len(call.out) : StageOk(call.arg, k, call.out[k])

\* One stage more.
LEMMA PackedReturned ==
  ASSUME PackedInv, NEW r, Returns(r), StageOk(call.arg, Len(call.out) + 1, r)
  PROVE  PackedInv'
<1> DEFINE a == call.arg
           n == Len(call.out)
<1>1. PICK S : call.out \in Seq(S) BY DEF PackedInv
<1>2. call' = [call EXCEPT !.out = Append(call.out, r)] BY DEF Returns
<1>3. "fn" \in DOMAIN call /\ "arg" \in DOMAIN call /\ "out" \in DOMAIN call BY DEF PackedInv
<1>4. /\ call'.fn = call.fn /\ call'.arg = call.arg /\ call'.out = Append(call.out, r)
      /\ DOMAIN call' = DOMAIN call
  BY <1>2, <1>3
<1> DEFINE R == S \cup {r}
<1>5. call.out \in Seq(R) /\ r \in R BY <1>1
<1> HIDE DEF R
<1>6. call'.out \in Seq(R) /\ n \in Nat /\ Len(call'.out) = n + 1 /\ call'.out[n + 1] = r
      /\ \A k \in 1 .. n : call'.out[k] = call.out[k]
  BY <1>4, <1>5
<1>7. \A k \in 1 .. n : StageOk(a, k, call.out[k]) BY DEF PackedInv
<1> HIDE DEF n
<1>8. ASSUME NEW k \in 1 .. Len(call'.out) PROVE StageOk(a, k, call'.out[k])
  <2>1. CASE k = n + 1 BY <1>6, <2>1 DEF n
  <2>2. CASE k # n + 1
    <3>1. k \in 1 .. n BY <1>6, <2>2
    <3> QED BY <1>6, <1>7, <3>1
  <2> QED BY <2>1, <2>2
<1>9. /\ {"fn", "arg", "out"} \subseteq DOMAIN call' /\ call'.fn = "packed" /\ call'.arg \in PackedInputs
      /\ \E X : call'.out \in Seq(X)
  BY <1>3, <1>4, <1>6 DEF PackedInv
<1>10. \A k \in 1 .. Len(call'.out) : StageOk(call'.arg, k, call'.out[k]) BY <1>4, <1>8
<1> QED BY <1>9, <1>10 DEF PackedInv

\* A read of what a finished writer has stored.
LEMMA ReadBackOk ==
  ASSUME NEW a \in PackedInputs, NEW p, Stored(a, p), NEW v,
         v = ViewOf(p, a.view[1], a.view[2], a.view[3]), v # Refused
  PROVE  ReadExact(a, [range |-> DecodeRange(v[1], 0, v[1].len), iter |-> IterReads(v[1], a.reads)])
<1> DEFINE view == [packed |-> p, start |-> a.view[2], len |-> a.view[3] - a.view[2]]
           g == [range |-> DecodeRange(v[1], 0, v[1].len), iter |-> IterReads(v[1], a.reads)]
<1>1. a.view \in Nat \X Nat \X Nat /\ a.reads \in Seq(Nat) BY ArgFacts
<1>2. PICK x \in Nat, y \in Nat : x = a.view[2] /\ y = a.view[3] BY <1>1
<1>3. v = Ok(view) /\ ~(a.view[2] > a.view[3]) BY DEF ViewOf
<1>4. x <= y /\ v[1] = view BY <1>2, <1>3, OkFacts
<1>5. view.packed = p /\ view.start = x /\ view.len = y - x BY <1>2
<1> HIDE DEF view
<1>6. y - x \in Nat BY <1>4
<1>7. ViewOk(a, view) BY <1>5, <1>6 DEF ViewOk
<1>8. DecodeRange(view, 0, view.len) = Slice(a, x, y - x)
  <2>1. 0 \in Nat /\ view.start + 0 = x /\ view.len \in Nat BY <1>5, <1>6
  <2>2. DecodeRange(view, 0, view.len) = Slice(a, view.start + 0, view.len) BY <1>7, <2>1, RangeExact DEF ViewOk
  <2> QED BY <1>5, <2>1, <2>2
<1>9. \E m \in 0 .. view.len : IterReads(view, a.reads) = Slice(a, view.start, m) BY <1>1, <1>7, IterExact
<1>10. g.range = DecodeRange(view, 0, view.len) /\ g.iter = IterReads(view, a.reads) BY <1>4
<1> HIDE DEF g
<1>11. ReadExact(a, g) BY <1>2, <1>4, <1>5, <1>8, <1>9, <1>10 DEF ReadExact
<1> QED BY <1>11 DEF g

\* The stages that have returned.
LEMMA StageFacts ==
  ASSUME PackedInv
  PROVE  /\ Len(call.out) \in Nat /\ Writes \in Nat /\ call.arg \in PackedInputs /\ Writes = Len(call.arg.writes)
         /\ \A k \in 1 .. Len(call.out) : StageOk(call.arg, k, call.out[k])
<1>1. call.arg \in PackedInputs BY DEF PackedInv
<1>2. PICK ws \in Seq(Nat \X Seq(Int)) : ws = call.arg.writes BY <1>1, ArgFacts
<1>3. Writes \in Nat /\ Writes = Len(call.arg.writes) BY <1>2 DEF Writes
<1>4. PICK S : call.out \in Seq(S) BY DEF PackedInv
<1>5. Len(call.out) \in Nat BY <1>4
<1> QED BY <1>1, <1>3, <1>5 DEF PackedInv

\* Every stage of a call keeps the invariant.
LEMMA PackedStep == PackedInv /\ [PackedNext]_call => PackedInv'
<1> SUFFICES ASSUME PackedInv, [PackedNext]_call PROVE PackedInv' OBVIOUS
<1> DEFINE a == call.arg
           n == Len(call.out)
<1>0. /\ n \in Nat /\ Writes \in Nat /\ a \in PackedInputs /\ Writes = Len(a.writes)
      /\ \A k \in 1 .. n : StageOk(a, k, call.out[k])
  BY StageFacts
<1>1. CASE OpenWriter
  <2> DEFINE r == NewWriter(a)
  <2>1. n = 0 /\ Returns(r) BY <1>1 DEF OpenWriter, At
  <2>2. r = Refused \/ \E v \in Writers : r = Ok(v) /\ WriterOk(a, 0, v) BY <1>0, NewHolds
  <2> HIDE DEF r, a, n
  <2>3. PICK k \in 1 .. Len(a.writes) + 1 : k = n + 1 /\ k - 1 = 0 BY <1>0, <2>1
  <2>4. StageOk(a, k, r) BY <2>2, <2>3 DEF StageOk
  <2> QED BY <2>1, <2>3, <2>4, PackedReturned DEF a, n
<1>2. CASE WriteNext
  <2> DEFINE w == call.out[n][1]
             r == WriteAt(a, w, a.writes[n])
  <2>1. n \in 1 .. Writes /\ Returns(r) /\ call.out[n] # Refused BY <1>0, <1>2 DEF WriteNext, Live
  <2>2. StageOk(a, n, call.out[n]) BY <1>0, <2>1
  <2>3. PICK v \in Writers : call.out[n] = Ok(v) /\ WriterOk(a, n - 1, v)
    <3>1. n # Len(a.writes) + 2 /\ n # Len(a.writes) + 3 BY <1>0, <2>1
    <3> HIDE DEF a, n
    <3> QED BY <2>1, <2>2, <3>1 DEF StageOk
  <2>4. w = v BY <2>3, OkFacts
  <2> HIDE DEF w, n, a
  <2>5. PICK m \in 0 .. Len(a.writes) - 1 : m = n - 1 /\ m + 1 = n BY <1>0, <2>1
  <2>6. WriterOk(a, m, w) BY <2>3, <2>4, <2>5
  <2>7. \/ WriteAt(a, w, a.writes[m + 1]) = Refused
        \/ \E u \in Writers : WriteAt(a, w, a.writes[m + 1]) = Ok(u) /\ WriterOk(a, m + 1, u)
    BY <1>0, <2>6, WriteHolds
  <2>8. r = Refused \/ \E u \in Writers : r = Ok(u) /\ WriterOk(a, n, u) BY <2>5, <2>7
  <2> HIDE DEF r
  <2>9. PICK k \in 1 .. Len(a.writes) + 1 : k = n + 1 /\ k - 1 = n BY <1>0, <2>1
  <2>10. StageOk(a, k, r) BY <2>8, <2>9 DEF StageOk
  <2> QED BY <2>1, <2>9, <2>10, PackedReturned DEF a, n
<1>3. CASE FinishWriter
  <2> DEFINE w == call.out[n][1]
             r == Finish(a, w)
  <2>1. n = Writes + 1 BY <1>3 DEF FinishWriter, At
  <2>2. Returns(r) /\ call.out[n] # Refused BY <1>0, <1>3, <2>1 DEF FinishWriter, Live
  <2>3. n \in 1 .. n BY <1>0, <2>1
  <2>4. PICK v \in Writers : call.out[n] = Ok(v) /\ WriterOk(a, n - 1, v)
    <3>1. n # Len(a.writes) + 2 /\ n # Len(a.writes) + 3 BY <1>0, <2>1
    <3>2. StageOk(a, n, call.out[n]) BY <1>0, <2>3
    <3> HIDE DEF a, n
    <3> QED BY <2>2, <3>1, <3>2 DEF StageOk
  <2>5. w = v BY <2>4, OkFacts
  <2> HIDE DEF w, n, a
  <2>6. n - 1 = Len(a.writes) BY <1>0, <2>1
  <2>7. WriterOk(a, Len(a.writes), w) BY <2>4, <2>5, <2>6
  <2>8. r = Refused \/ \E p : r = Ok(p) /\ Stored(a, p) BY <1>0, <2>7, FinishHolds
  <2> HIDE DEF r
  <2>9. n + 1 = Len(a.writes) + 2 BY <1>0, <2>1
  <2>10. StageOk(a, n + 1, r) BY <2>8, <2>9 DEF StageOk
  <2> QED BY <2>2, <2>10, PackedReturned DEF a, n
<1>4. CASE ReadBack
  <2> DEFINE p == call.out[n][1]
             v == ViewOf(p, a.view[1], a.view[2], a.view[3])
             g == [range |-> DecodeRange(v[1], 0, v[1].len), iter |-> IterReads(v[1], a.reads)]
             r == IF v = Refused THEN Refused ELSE Ok(g)
  <2>1. n = Writes + 2 BY <1>4 DEF ReadBack, At
  <2>2. Returns(r) /\ call.out[n] # Refused
    <3>1. Live(Writes + 2) BY <1>4 DEF ReadBack
    <3>2. Writes + 2 \in 1 .. Writes + 2 BY <1>0
    <3>3. call.out[n] # Refused BY <2>1, <3>1, <3>2 DEF Live
    <3>4. Returns(r) BY <1>4, <2>1, Zenon DEF ReadBack
    <3> QED BY <3>3, <3>4
  <2>3. n \in 1 .. n BY <1>0, <2>1
  <2>4. PICK q : call.out[n] = Ok(q) /\ Stored(a, q)
    <3>1. n # Len(a.writes) + 3 /\ ~(n \in 1 .. Len(a.writes) + 1) BY <1>0, <2>1
    <3>2. StageOk(a, n, call.out[n]) BY <1>0, <2>3
    <3> HIDE DEF a, n
    <3> QED BY <2>2, <3>1, <3>2 DEF StageOk
  <2>5. p = q BY <2>4, OkFacts
  <2>6. Stored(a, p) BY <2>4, <2>5
  <2> HIDE DEF p, n, a
  <2>7. v # Refused => ReadExact(a, g) BY <1>0, <2>6, ReadBackOk
  <2> HIDE DEF g, v
  <2>8. r = Refused \/ (r = Ok(g) /\ ReadExact(a, g)) BY <2>7
  <2> HIDE DEF r
  <2>9. n + 1 = Len(a.writes) + 3 BY <1>0, <2>1
  <2>10. \A i \in Nat : Written(a, i) \in Int BY <2>6 DEF Stored
  <2>11. StageOk(a, n + 1, r) BY <2>8, <2>9, <2>10 DEF StageOk
  <2> QED BY <2>2, <2>11, PackedReturned DEF a, n
<1>5. CASE UNCHANGED call BY <1>5 DEF PackedInv
<1> QED BY <1>1, <1>2, <1>3, <1>4, <1>5 DEF PackedNext

\* A call that has not begun has returned nothing.
LEMMA PackedStart == StartPacked => PackedInv
<1> SUFFICES ASSUME StartPacked PROVE PackedInv OBVIOUS
<1>1. PICK a \in PackedInputs : call = [fn |-> "packed", arg |-> a, out |-> <<>>]
  BY DEF StartPacked, Starts
<1>2. call.fn = "packed" /\ call.out = <<>> /\ call.arg = a /\ {"fn", "arg", "out"} \subseteq DOMAIN call
  BY <1>1
<1>3. call.out \in Seq(Nat) /\ Len(call.out) = 0 BY <1>2
<1> QED BY <1>2, <1>3 DEF PackedInv

\* The packed writer never loses, moves or repeats a digit, however its writes
\* fall on the staging buffer and the blocks: what it has flushed is the
\* encoding of the digits below its flush position, what it stages are the
\* digits that follow, and every digit is within the bounds it remembers, so
\* that finish refuses digits the width cannot hold.
THEOREM PackedWritersHold == PackedSpec => []PackedInv
<1>1. StartPacked => PackedInv BY PackedStart
<1>2. PackedInv /\ [PackedNext]_call => PackedInv' BY PackedStep
<1> QED BY <1>1, <1>2, PTL DEF PackedSpec

\* The last stage of a call returns what was written.
LEMMA PackedInvExact == PackedInv => PackedExact
<1> SUFFICES ASSUME PackedInv, Len(call.out) = Writes + 3, Live(Writes + 3) PROVE PackedExact BY DEF PackedExact
<1> DEFINE a == call.arg
           n == Len(call.out)
           x == a.view[2]
           len == a.view[3] - a.view[2]
           got == call.out[n][1]
           expected == [k \in 1 .. len |-> Written(a, x + k - 1)]
<1>0. /\ n \in Nat /\ Writes \in Nat /\ a \in PackedInputs /\ Writes = Len(a.writes)
      /\ \A k \in 1 .. n : StageOk(a, k, call.out[k])
  BY StageFacts
<1>1. n = Writes + 3 /\ n \in 1 .. n BY <1>0
<1>2. call.out[n] # Refused BY <1>0, <1>1 DEF Live
<1>3. StageOk(a, n, call.out[n]) BY <1>0, <1>1
<1>4. PICK g : call.out[n] = Ok(g) /\ ReadExact(a, g) /\ \A i \in Nat : Written(a, i) \in Int
  <2>1. ~(n \in 1 .. Len(a.writes) + 1) /\ n # Len(a.writes) + 2 BY <1>0, <1>1
  <2> HIDE DEF a, n
  <2> QED BY <1>2, <1>3, <2>1 DEF StageOk
<1>5. got = g BY <1>4, OkFacts
<1>6. PICK m \in 0 .. len : got.iter = Slice(a, x, m) BY <1>4, <1>5 DEF ReadExact
<1>7. x \in Nat /\ len \in Nat
  <2>1. a.view \in Nat \X Nat \X Nat BY <1>0, ArgFacts
  <2>2. PICK y \in Nat, z \in Nat : y = a.view[2] /\ z = a.view[3] BY <2>1
  <2>3. y <= z BY <1>4, <2>2 DEF ReadExact
  <2>4. z - y \in Nat BY <2>3
  <2> QED BY <2>2, <2>4
<1>8. expected = Slice(a, x, len) /\ got.range = Slice(a, x, len) BY <1>4, <1>5 DEF Slice, ReadExact
<1>9. IsPrefix(got.iter, expected)
  <2> DEFINE s == got.iter
             t == expected
  <2> HIDE DEF len, x, a
  <2>1. m \in Nat /\ m <= len BY <1>7
  <2>2. s \in Seq(Int) /\ Len(s) = m /\ \A k \in 1 .. m : s[k] = Written(a, x + k - 1)
    BY <1>4, <1>6, <1>7, <2>1, SliceFacts
  <2>3. t \in Seq(Int) /\ Len(t) = len /\ \A k \in 1 .. len : t[k] = Written(a, x + k - 1)
    BY <1>4, <1>7, <1>8, SliceFacts
  <2> HIDE DEF s, t
  <2>4. \A k \in 1 .. m : s[k] = t[k] BY <1>7, <2>1, <2>2, <2>3
  <2>5. SubSeq(s, 1, m) = SubSeq(t, 1, m) BY <1>7, <2>1, <2>2, <2>3, <2>4
  <2>6. IsPrefix(s, t) BY <2>1, <2>2, <2>3, <2>5 DEF IsPrefix
  <2> QED BY <2>6 DEF s, t
<1>10. call.out[Writes + 3][1] = got BY <1>1
<1> QED BY <1>8, <1>9, <1>10 DEF PackedExact

\* What is read from a packed witness, as a range or by an iterator whose steps
\* do not match the blocks, is what was written, for every width, block size,
\* staging limit, sequence of writes, view and sequence of reads.
THEOREM PackedIsExact == PackedSpec => []PackedExact
BY PackedWritersHold, PackedInvExact, PTL


-----------------------------------------------------------------------------
(* The terminal response. *)

\* A number written in bits: how large it is.
Weighed(w, b, s) == /\ b \in [1 .. w -> {0, 1}] /\ s \in [1 .. w -> Int]
                    /\ \A i \in 1 .. w : s[i] = b[i] * 2 ^ (i - 1)

\* A number of w bits is below 2 ^ w.
LEMMA BinaryRange ==
  ASSUME NEW w \in Nat, NEW b, NEW s, Weighed(w, b, s), NEW g, PartialSums(w, s, g)
  PROVE  \A i \in 0 .. w : g[i] \in 0 .. 2 ^ i - 1
<1> DEFINE T == {i \in 0 .. w : g[i] \in 0 .. 2 ^ i - 1}
<1>1. 0 \in T
  <2>1. 2 ^ 0 = 1 BY PowerFacts
  <2> QED BY <2>1 DEF PartialSums
<1>2. ASSUME NEW i \in 0 .. w - 1, i \in T PROVE i + 1 \in T
  <2>1. i + 1 \in 1 .. w /\ (i + 1) - 1 = i /\ i + 1 \in 0 .. w /\ i \in Nat OBVIOUS
  <2>2. PICK p \in Nat \ {0} : p = 2 ^ i /\ 2 ^ (i + 1) = 2 * p BY <2>1, PowerFacts
  <2>3. PICK x \in 0 .. p - 1 : x = g[i] BY <1>2, <2>2
  <2>4. PICK e \in {0, 1} : e = b[i + 1] BY <2>1 DEF Weighed
  <2>5. g[i + 1] = x + e * p BY <2>1, <2>2, <2>3, <2>4 DEF PartialSums, Weighed
  <2>6. x + e * p \in 0 .. 2 * p - 1
    <3>1. CASE e = 0 BY <3>1
    <3>2. CASE e = 1 BY <3>2
    <3> QED BY <2>4, <3>1, <3>2
  <2> QED BY <2>1, <2>2, <2>5, <2>6
<1>3. \A i \in 0 .. w : i \in T
  <2> HIDE DEF T
  <2> QED BY <1>1, <1>2, UpTo
<1> QED BY <1>3

\* The highest bit of a number taken off.
LEMMA TopBit ==
  ASSUME NEW p \in Nat \ {0}, NEW x \in 0 .. p - 1, NEW c \in {0, 1}, NEW z \in Int, z = x + c * p
  PROVE  z \div p = c /\ z % p = x
<1>1. c \in Int OBVIOUS
<1>2. z = p * c + x
  <2>1. CASE c = 0 BY <2>1
  <2>2. CASE c = 1 BY <2>2
  <2> QED BY <2>1, <2>2
<1> QED BY <1>1, <1>2, DivUnique

\* A number has one binary representation of a given length.
LEMMA BinaryUnique ==
  ASSUME NEW w \in Nat, NEW a, NEW s, Weighed(w, a, s), NEW b, NEW t, Weighed(w, b, t), Sum(s) = Sum(t)
  PROVE  \A i \in 1 .. w : a[i] = b[i]
<1>1. PICK g : PartialSums(w, s, g) /\ Sum(s) = g[w] BY SumIsPartial DEF Weighed
<1>2. PICK h : PartialSums(w, t, h) /\ Sum(t) = h[w] BY SumIsPartial DEF Weighed
<1>3. (\A i \in 0 .. w : g[i] \in 0 .. 2 ^ i - 1) /\ (\A i \in 0 .. w : h[i] \in 0 .. 2 ^ i - 1)
  BY <1>1, <1>2, BinaryRange
<1>4. ASSUME NEW k \in 1 .. w, g[k] = h[k] PROVE g[k - 1] = h[k - 1] /\ a[k] = b[k]
  <2>1. k - 1 \in Nat /\ k - 1 \in 0 .. w OBVIOUS
  <2>2. PICK p \in Nat \ {0} : p = 2 ^ (k - 1) BY <2>1, PowerFacts
  <2>3. PICK x \in 0 .. p - 1, y \in 0 .. p - 1 : x = g[k - 1] /\ y = h[k - 1] BY <1>3, <2>1, <2>2
  <2>4. PICK c \in {0, 1}, d \in {0, 1} : c = a[k] /\ d = b[k] BY DEF Weighed
  <2>5. PICK z \in Int : z = g[k] /\ z = x + c * p /\ z = y + d * p
    <3>1. g[k] = x + c * p BY <1>1, <2>2, <2>3, <2>4 DEF PartialSums, Weighed
    <3>2. h[k] = y + d * p BY <1>2, <2>2, <2>3, <2>4 DEF PartialSums, Weighed
    <3>3. g[k] \in Int BY <1>1 DEF PartialSums
    <3> QED BY <1>4, <3>1, <3>2, <3>3
  <2>7. z \div p = c /\ z % p = x BY <2>5, TopBit
  <2>8. z \div p = d /\ z % p = y BY <2>5, TopBit
  <2> QED BY <2>3, <2>4, <2>7, <2>8
<1> DEFINE T == {j \in 0 .. w : g[w - j] = h[w - j]}
<1>5. 0 \in T
  <2>1. w - 0 = w /\ 0 \in 0 .. w OBVIOUS
  <2> QED BY <1>1, <1>2, <2>1
<1>6. ASSUME NEW j \in 0 .. w - 1, j \in T PROVE j + 1 \in T
  <2>1. PICK k \in 1 .. w : k = w - j /\ k - 1 = w - (j + 1) OBVIOUS
  <2>2. g[k] = h[k] BY <1>6, <2>1
  <2>3. g[k - 1] = h[k - 1] BY <1>4, <2>2
  <2> QED BY <2>1, <2>3
<1>7. \A j \in 0 .. w : j \in T
  <2> HIDE DEF T
  <2> QED BY <1>5, <1>6, UpTo
<1>8. ASSUME NEW k \in 1 .. w PROVE a[k] = b[k]
  <2>1. w - k \in 0 .. w /\ w - (w - k) = k OBVIOUS
  <2>2. g[k] = h[k] BY <1>7, <2>1
  <2> QED BY <1>4, <2>2
<1> QED BY <1>8

\* The zigzag map and its inverse.
LEMMA ZigzagFacts ==
  ASSUME NEW n \in Int
  PROVE  /\ Zigzag(n) \in Nat /\ Unzigzag(Zigzag(n)) = n
         /\ Zigzag(n) <= 2 * Abs(n) /\ Abs(n) \in Nat
<1>1. CASE n >= 0
  <2>1. PICK u \in Nat : u = 2 * n /\ u = Zigzag(n) BY <1>1 DEF Zigzag
  <2>2. u % 2 = 0 /\ u \div 2 = n BY <1>1, <2>1
  <2> QED BY <1>1, <2>1, <2>2 DEF Unzigzag, Abs
<1>2. CASE n < 0
  <2>1. PICK u \in Nat : u = -2 * n - 1 /\ u = Zigzag(n) BY <1>2 DEF Zigzag
  <2>2. u % 2 = 1 /\ (u + 1) \div 2 = -n BY <1>2, <2>1
  <2> QED BY <1>2, <2>1, <2>2 DEF Unzigzag, Abs
<1> QED BY <1>1, <1>2

\* The other way around: every natural number is the image of one integer.
LEMMA UnzigzagFacts ==
  ASSUME NEW u \in Nat
  PROVE  Unzigzag(u) \in Int /\ Zigzag(Unzigzag(u)) = u
<1>1. PICK h \in Nat : u = 2 * h \/ u = 2 * h + 1
  <2>1. u \div 2 \in Nat /\ (u = 2 * (u \div 2) \/ u = 2 * (u \div 2) + 1) OBVIOUS
  <2> QED BY <2>1
<1>2. CASE u = 2 * h
  <2>1. u % 2 = 0 /\ u \div 2 = h BY <1>2
  <2> QED BY <1>2, <2>1 DEF Unzigzag, Zigzag
<1>3. CASE u = 2 * h + 1
  <2>1. u % 2 = 1 /\ (u + 1) \div 2 = h + 1 BY <1>3
  <2> QED BY <1>3, <2>1 DEF Unzigzag, Zigzag
<1> QED BY <1>1, <1>2, <1>3

\* Powers of two grow past every number.
LEMMA PowerGrows ==
  ASSUME NEW n \in Nat
  PROVE  \A i \in 0 .. n : i < 2 ^ i
<1> DEFINE T == {i \in 0 .. n : i < 2 ^ i}
<1>1. 0 \in T BY PowerFacts
<1>2. ASSUME NEW i \in 0 .. n - 1, i \in T PROVE i + 1 \in T
  <2>1. PICK p \in Nat \ {0} : p = 2 ^ i /\ 2 ^ (i + 1) = 2 * p BY PowerFacts
  <2>2. i < p BY <1>2, <2>1
  <2>3. i + 1 < 2 * p /\ i + 1 \in 0 .. n BY <2>2
  <2> QED BY <2>1, <2>3
<1>3. \A i \in 0 .. n : i \in T
  <2> HIDE DEF T
  <2> QED BY <1>1, <1>2, UpTo
<1> QED BY <1>3

\* The highest bit of a positive number.
LEMMA HighBitFacts ==
  ASSUME NEW x \in Nat \ {0}
  PROVE  HighBit(x) \in Nat /\ 2 ^ HighBit(x) <= x /\ x < 2 ^ (HighBit(x) + 1)
<1> DEFINE T == {i \in Nat : x < 2 ^ (i + 1)}
<1>1. x \in T
  <2>1. x < 2 ^ x BY PowerGrows
  <2>2. PICK p \in Nat : p = 2 ^ x /\ 2 ^ (x + 1) = 2 * p BY PowerFacts
  <2>3. x < 2 * p BY <2>1, <2>2
  <2> QED BY <2>2, <2>3
<1>2. PICK m \in T : \A k \in T : m <= k BY <1>1, LeastNumber
<1>3. m \in 0 .. x BY <1>1, <1>2
<1>4. 2 ^ m <= x
  <2>1. CASE m = 0 BY <2>1, PowerFacts
  <2>2. CASE m # 0
    <3>1. m - 1 \in Nat /\ (m - 1) + 1 = m BY <1>3, <2>2
    <3>2. m - 1 \notin T BY <1>2, <3>1
    <3>3. ~(x < 2 ^ m) BY <3>1, <3>2
    <3>4. 2 ^ m \in Nat BY <1>3, PowerFacts
    <3> QED BY <3>3, <3>4
  <2> QED BY <2>1, <2>2
<1>5. x < 2 ^ (m + 1) BY <1>2
<1>6. \E k \in 0 .. x : 2 ^ k <= x /\ x < 2 ^ (k + 1) BY <1>3, <1>4, <1>5
<1> DEFINE c == CHOOSE k \in 0 .. x : 2 ^ k <= x /\ x < 2 ^ (k + 1)
<1>7. c \in 0 .. x /\ 2 ^ c <= x /\ x < 2 ^ (c + 1) BY <1>6
<1>8. HighBit(x) = c BY DEF HighBit
<1> HIDE DEF c
<1> QED BY <1>7, <1>8

\* Padding ends a byte, the next one.
LEMMA PadFacts ==
  ASSUME NEW p \in Nat
  PROVE  /\ PaddingBits(p) \in Nat /\ p + PaddingBits(p) = DivCeil(p, ByteBits) * ByteBits
         /\ DivCeil(p, ByteBits) \in Nat
         /\ (p + PaddingBits(p)) % ByteBits = 0
         /\ \A k \in Nat : p <= k * ByteBits => p + PaddingBits(p) <= k * ByteBits
<1> DEFINE B == ByteBits
<1>0. B \in Nat \ {0} BY TailAssumption
<1> HIDE DEF B
<1>1. PICK q \in Nat, r \in 0 .. B - 1 : p = B * q + r /\ r = p % B
  <2>1. p \div B \in Nat BY <1>0, DivBack
  <2> QED BY <1>0, <2>1
<1>2. PICK d \in Nat, e \in Nat : /\ d = (B - r) % B /\ e = DivCeil(p, B) /\ p + d = B * e
                                  /\ (r = 0 => e = q) /\ (r > 0 => e = q + 1)
  <2>1. CASE r = 0
    <3>1. (B - r) % B = 0
      <4>1. B - r = B * 1 + 0 /\ 0 \in 0 .. B - 1 /\ B - r \in Int BY <1>0, <2>1
      <4> QED BY <1>0, <4>1, DivUnique
    <3>2. DivCeil(p, B) = q
      <4>0. p = B * q BY <1>0, <1>1, <2>1
      <4>1. p + B - 1 = B * q + (B - 1) /\ B - 1 \in 0 .. B - 1 /\ p + B - 1 \in Int
        <5>1. p + B - 1 = p + (B - 1) /\ B - 1 \in 0 .. B - 1 /\ p + B - 1 \in Int BY <1>0
        <5> QED BY <4>0, <5>1
      <4>2. (p + B - 1) \div B = q BY <1>0, <4>1, DivUnique
      <4> QED BY <4>2 DEF DivCeil
    <3> QED BY <1>0, <1>1, <2>1, <3>1, <3>2
  <2>2. CASE r > 0
    <3>1. (B - r) % B = B - r
      <4>1. \A u \in Nat, v \in Nat \ {0} : u < v => u % v = u OBVIOUS
      <4>2. B - r \in Nat /\ B - r < B BY <1>0, <2>2
      <4> QED BY <1>0, <4>1, <4>2
    <3>2. DivCeil(p, B) = q + 1
      <4>1. B * (q + 1) = B * q + B BY <1>0
      <4>2. p + B - 1 = B * (q + 1) + (r - 1) /\ r - 1 \in 0 .. B - 1 /\ p + B - 1 \in Int
        BY <1>0, <1>1, <2>2, <4>1
      <4>3. (p + B - 1) \div B = q + 1 BY <1>0, <4>2, DivUnique
      <4> QED BY <4>3 DEF DivCeil
    <3>3. p + (B - r) = B * (q + 1)
      <4>1. B * (q + 1) = B * q + B BY <1>0
      <4> QED BY <1>0, <1>1, <4>1
    <3> QED BY <1>0, <1>1, <2>2, <3>1, <3>2, <3>3
  <2> QED BY <2>1, <2>2
<1>3. PaddingBits(p) = d BY <1>1, <1>2 DEF PaddingBits, B
<1>4. B * e = e * B /\ (B * e) % B = 0 BY <1>0, Multiple
<1>5. ASSUME NEW k \in Nat, p <= k * B PROVE p + d <= k * B
  <2>1. PICK x \in Nat, y \in Nat : x = k * B /\ y = q * B BY <1>0
  <2>2. k >= e
    <3> SUFFICES ASSUME k + 1 <= e PROVE FALSE OBVIOUS
    <3>1. CASE r = 0
      <4>1. k + 1 <= q BY <1>2, <3>1
      <4>2. B * (k + 1) <= B * q BY <1>0, <4>1, TimesGrows
      <4>3. B * (k + 1) = k * B + B BY <1>0
      <4> QED BY <1>0, <1>1, <1>5, <4>2, <4>3
    <3>2. CASE r > 0
      <4>1. k <= q BY <1>2, <3>2
      <4>2. B * k <= B * q BY <1>0, <4>1, TimesGrows
      <4>3. B * k = k * B BY <1>0
      <4> QED BY <1>0, <1>1, <1>5, <3>2, <4>2, <4>3
    <3> QED BY <1>1, <3>1, <3>2
  <2>3. B * e <= B * k BY <1>0, <2>2, TimesGrows
  <2>4. B * k = k * B BY <1>0
  <2> QED BY <1>2, <2>3, <2>4
<1> QED BY <1>2, <1>3, <1>4, <1>5 DEF B

\* Sequences of bits, and a sequence that lies in another one at a position.
BitSeq == Seq({0, 1})
Lies(bits, pos, t) == pos + Len(t) <= Len(bits) /\ \A j \in 1 .. Len(t) : bits[pos + j] = t[j]

\* The unary part of a code is a natural number.
LEMMA QuotientNat ==
  ASSUME NEW n \in Int, NEW low \in Nat
  PROVE  Quotient(n, low) \in Nat
<1>1. PICK p \in Nat \ {0} : p = 2 ^ low BY PowerFacts
<1>2. PICK z \in Nat : z = Zigzag(n) BY ZigzagFacts
<1>3. z \div p \in Nat BY DivBack
<1> QED BY <1>1, <1>2, <1>3 DEF Quotient

\* The low bits of a number as a sequence.
LEMMA BitsOfFacts ==
  ASSUME NEW x \in Int, NEW n \in Nat
  PROVE  BitsOf(x, n) \in BitSeq /\ Len(BitsOf(x, n)) = n /\ \A i \in 1 .. n : BitsOf(x, n)[i] = Bit(x, i - 1)
<1>1. ASSUME NEW i \in 1 .. n PROVE Bit(x, i - 1) \in {0, 1}
  <2>1. i - 1 \in Nat OBVIOUS
  <2> QED BY <2>1, BitIs
<1> QED BY <1>1 DEF BitsOf, BitSeq

\* Two sequences of bits put together.
Joined(s, t, c) ==
  /\ c \in BitSeq /\ Len(c) = Len(s) + Len(t) /\ Len(s) \in Nat /\ Len(t) \in Nat
  /\ \A k \in 1 .. Len(s) : c[k] = s[k]
  /\ \A k \in 1 .. Len(t) : c[Len(s) + k] = t[k]

\* Concatenation of sequences of bits.
LEMMA JoinFacts ==
  ASSUME NEW s \in BitSeq, NEW t \in BitSeq
  PROVE  Joined(s, t, s \o t)
BY DEF BitSeq, Joined

\* The code of a coefficient: its quotient in ones, a zero, its low bits.
Coded(e, q, z, low) ==
  /\ e \in BitSeq /\ Len(e) = q + 1 + low
  /\ \A i \in 1 .. q : e[i] = 1
  /\ e[q + 1] = 0
  /\ \A j \in 1 .. low : e[q + 1 + j] = Bit(z, j - 1)

\* golomb_rice_encode_one writes such a code.
LEMMA EncodeOneFacts ==
  ASSUME NEW n \in Int, NEW low \in Nat
  PROVE  Coded(EncodeOne(n, low), Quotient(n, low), Zigzag(n), low)
<1> DEFINE q == Quotient(n, low)
           z == Zigzag(n)
           s == [i \in 1 .. q |-> 1]
           t == <<0>>
           u == BitsOf(z, low)
           st == s \o t
           e == st \o u
<1>0. q \in Nat /\ z \in Int BY QuotientNat, ZigzagFacts
<1> HIDE DEF q, z
<1>1. s \in BitSeq /\ Len(s) = q /\ \A i \in 1 .. q : s[i] = 1 BY <1>0 DEF BitSeq
<1>2. t \in BitSeq /\ Len(t) = 1 /\ t[1] = 0 BY DEF BitSeq
<1>3. u \in BitSeq /\ Len(u) = low /\ \A i \in 1 .. low : u[i] = Bit(z, i - 1) BY <1>0, BitsOfFacts
<1> HIDE DEF s, t, u
<1>4. /\ st \in BitSeq /\ Len(st) = q + 1 /\ \A k \in 1 .. q : st[k] = s[k]
      /\ \A k \in 1 .. 1 : st[q + k] = t[k]
  <2>1. Joined(s, t, st) BY <1>1, <1>2, JoinFacts, Zenon
  <2> HIDE DEF st
  <2> QED BY <1>1, <1>2, <2>1 DEF Joined
<1> HIDE DEF st
<1>5. /\ e \in BitSeq /\ Len(e) = (q + 1) + low /\ \A k \in 1 .. q + 1 : e[k] = st[k]
      /\ \A k \in 1 .. low : e[(q + 1) + k] = u[k]
  <2>1. Joined(st, u, e) BY <1>3, <1>4, JoinFacts, Zenon
  <2> HIDE DEF e
  <2> QED BY <1>3, <1>4, <2>1 DEF Joined
<1>6. EncodeOne(n, low) = e BY DEF EncodeOne, e, st, s, t, u, q, z
<1> HIDE DEF e
<1>7. ASSUME NEW i \in 1 .. q PROVE e[i] = 1
  <2>1. i \in 1 .. q + 1 BY <1>0
  <2> QED BY <1>1, <1>4, <1>5, <2>1
<1>8. e[q + 1] = 0
  <2>1. q + 1 \in 1 .. q + 1 /\ 1 \in 1 .. 1 BY <1>0
  <2> QED BY <1>2, <1>4, <1>5, <2>1
<1>9. \A j \in 1 .. low : e[q + 1 + j] = Bit(z, j - 1) BY <1>3, <1>5
<1>10. Len(e) = q + 1 + low BY <1>5
<1> QED BY <1>5, <1>6, <1>7, <1>8, <1>9, <1>10 DEF Coded, q, z

\* A quotient in ones and its end at a position.
UnaryAt(bits, pos, q) ==
  /\ pos + q < Len(bits) /\ \A i \in 1 .. q : bits[pos + i] = 1
  /\ bits[pos + q + 1] = 0

\* What it takes for a code to lie at a position.
CodeAt(bits, pos, n, low) ==
  LET q == Quotient(n, low)
  IN  /\ UnaryAt(bits, pos, q) /\ pos + q + 1 + low <= Len(bits)
      /\ \A j \in 1 .. low : bits[(pos + q + 1) + j] = Bit(Zigzag(n), j - 1)

\* The code of a coefficient lies at a position if and only if CodeAt.
LEMMA CodeLies ==
  ASSUME NEW bits \in BitSeq, NEW pos \in Nat, NEW n \in Int, NEW low \in Nat
  PROVE  Lies(bits, pos, EncodeOne(n, low)) <=> CodeAt(bits, pos, n, low)
<1> DEFINE q == Quotient(n, low)
           e == EncodeOne(n, low)
           z == Zigzag(n)
<1>1. Coded(e, q, z, low) BY EncodeOneFacts
<1>2. q \in Nat BY QuotientNat
<1>3. Len(bits) \in Nat BY DEF BitSeq
<1> HIDE DEF q, e, z
<1>4. ASSUME Lies(bits, pos, e) PROVE CodeAt(bits, pos, n, low)
  <2>1. Len(e) = q + 1 + low /\ pos + (q + 1 + low) <= Len(bits) BY <1>1, <1>4 DEF Coded, Lies
  <2>2. \A j \in 1 .. q + 1 + low : bits[pos + j] = e[j] BY <1>4, <2>1 DEF Lies
  <2>3. ASSUME NEW i \in 1 .. q PROVE bits[pos + i] = 1
    <3>1. i \in 1 .. q + 1 + low BY <1>2
    <3> QED BY <1>1, <2>2, <3>1 DEF Coded
  <2>4. bits[pos + q + 1] = 0
    <3>1. q + 1 \in 1 .. q + 1 + low /\ pos + (q + 1) = pos + q + 1 BY <1>2
    <3> QED BY <1>1, <2>2, <3>1 DEF Coded
  <2>5. ASSUME NEW j \in 1 .. low PROVE bits[(pos + q + 1) + j] = Bit(z, j - 1)
    <3>1. q + 1 + j \in 1 .. q + 1 + low /\ pos + (q + 1 + j) = (pos + q + 1) + j BY <1>2
    <3>2. e[q + 1 + j] = Bit(z, j - 1) BY <1>1 DEF Coded
    <3> QED BY <2>2, <3>1, <3>2
  <2>6. pos + q < Len(bits) /\ pos + q + 1 + low <= Len(bits) BY <1>2, <1>3, <2>1
  <2> QED BY <2>3, <2>4, <2>5, <2>6 DEF CodeAt, UnaryAt, q, z
<1>5. ASSUME CodeAt(bits, pos, n, low) PROVE Lies(bits, pos, e)
  <2>1. /\ UnaryAt(bits, pos, q) /\ pos + q + 1 + low <= Len(bits)
        /\ \A j \in 1 .. low : bits[(pos + q + 1) + j] = Bit(z, j - 1)
    BY <1>5 DEF CodeAt, q, z
  <2>2. Len(e) = q + 1 + low BY <1>1 DEF Coded
  <2>3. ASSUME NEW j \in 1 .. q + 1 + low PROVE bits[pos + j] = e[j]
    <3>1. CASE j <= q
      <4>1. j \in 1 .. q BY <1>2, <3>1
      <4> QED BY <1>1, <2>1, <4>1 DEF Coded, UnaryAt
    <3>2. CASE j = q + 1
      <4>1. pos + (q + 1) = pos + q + 1 BY <1>2
      <4> QED BY <1>1, <2>1, <3>2, <4>1 DEF Coded, UnaryAt
    <3>3. CASE j > q + 1
      <4>1. PICK i \in 1 .. low : j = q + 1 + i /\ pos + j = (pos + q + 1) + i
        <5>1. j - (q + 1) \in 1 .. low /\ j = q + 1 + (j - (q + 1)) /\ pos + j = (pos + q + 1) + (j - (q + 1))
          BY <1>2, <3>3
        <5> QED BY <5>1
      <4>2. e[q + 1 + i] = Bit(z, i - 1) BY <1>1 DEF Coded
      <4> QED BY <2>1, <4>1, <4>2
    <3> QED BY <1>2, <3>1, <3>2, <3>3
  <2>4. pos + (q + 1 + low) <= Len(bits) BY <1>2, <1>3, <2>1
  <2> QED BY <2>2, <2>3, <2>4 DEF Lies
<1> QED BY <1>4, <1>5 DEF e

\* A finite set of naturals has a largest one.
LEMMA MaxUpTo ==
  ASSUME NEW n \in Nat, NEW S \in SUBSET (0 .. n), S # {}
  PROVE  Max(S) \in S /\ \A k \in S : k <= Max(S)
<1> DEFINE T == {n - k : k \in S}
<1>0. \A k \in S : k \in 0 .. n /\ k \in Int /\ n - k \in Nat
  <2> SUFFICES ASSUME NEW k \in S PROVE k \in 0 .. n /\ k \in Int /\ n - k \in Nat OBVIOUS
  <2>1. k \in 0 .. n OBVIOUS
  <2> QED BY <2>1
<1>1. T \in SUBSET Nat /\ T # {} BY <1>0
<1>2. PICK m \in T : \A k \in T : m <= k
  <2> HIDE DEF T
  <2> QED BY <1>1, LeastNumber
<1>3. PICK x \in S : m = n - x BY <1>2
<1>4. \A k \in S : x >= k
  <2> SUFFICES ASSUME NEW k \in S PROVE x >= k OBVIOUS
  <2>1. m <= n - k BY <1>2
  <2>2. x \in Int /\ k \in Int BY <1>0
  <2> QED BY <1>3, <2>1, <2>2
<1>5. Max(S) \in S /\ \A k \in S : Max(S) >= k BY <1>4 DEF Max
<1>6. ASSUME NEW k \in S PROVE k <= Max(S)
  <2>1. k \in Int /\ Max(S) \in Int BY <1>0, <1>5
  <2> QED BY <1>5, <2>1
<1> QED BY <1>5, <1>6

\* A payload: bits that fill their bytes.
Payloads == {bits \in BitSeq : Len(bits) % ByteBits = 0}

\* The ones of the byte at a position.
Available(pos) == ByteBits - (pos % ByteBits)
Ones(bits, pos) == Max({k \in 0 .. Available(pos) : \A i \in 1 .. k : bits[pos + i] = 1})

\* Ones counts the leading ones of the rest of the byte.
LEMMA OnesFacts ==
  ASSUME NEW bits, NEW pos \in Nat
  PROVE  /\ Available(pos) \in Nat \ {0} /\ Ones(bits, pos) \in 0 .. Available(pos)
         /\ \A i \in 1 .. Ones(bits, pos) : bits[pos + i] = 1
         /\ Ones(bits, pos) < Available(pos) => bits[pos + (Ones(bits, pos) + 1)] # 1
<1> DEFINE n == Available(pos)
           S == {k \in 0 .. n : \A i \in 1 .. k : bits[pos + i] = 1}
           m == Max(S)
<1>0. ByteBits \in Nat \ {0} BY TailAssumption
<1>1. n \in Nat \ {0}
  <2>1. PICK r \in 0 .. ByteBits - 1 : r = pos % ByteBits BY <1>0
  <2>2. ByteBits - r \in Nat \ {0} BY <1>0
  <2> QED BY <2>1, <2>2 DEF Available
<1> HIDE DEF n
<1>2. 0 \in S BY <1>1
<1>3. S \in SUBSET (0 .. n) /\ S # {} BY <1>2
<1>4. m \in S /\ \A k \in S : k <= m
  <2> HIDE DEF S
  <2> QED BY <1>1, <1>3, MaxUpTo
<1>5. Ones(bits, pos) = m BY DEF Ones, n
<1> HIDE DEF m
<1>6. m \in 0 .. n /\ \A i \in 1 .. m : bits[pos + i] = 1 BY <1>4
<1>7. ASSUME m < n, bits[pos + (m + 1)] = 1 PROVE FALSE
  <2>1. m + 1 \in 0 .. n BY <1>1, <1>6, <1>7
  <2>2. ASSUME NEW i \in 1 .. m + 1 PROVE bits[pos + i] = 1
    <3>1. CASE i = m + 1 BY <1>7, <3>1
    <3>2. CASE i # m + 1
      <4>1. i \in 1 .. m BY <1>6, <3>2
      <4> QED BY <1>6, <4>1
    <3> QED BY <3>1, <3>2
  <2>3. m + 1 \in S BY <2>1, <2>2
  <2>4. m + 1 <= m BY <1>4, <2>3
  <2> QED BY <1>6, <2>4
<1> QED BY <1>1, <1>5, <1>6, <1>7 DEF n

\* The byte at a position ends within the payload.
LEMMA ByteFits ==
  ASSUME NEW bits \in Payloads, NEW pos \in Nat, pos < Len(bits)
  PROVE  pos + Available(pos) <= Len(bits)
<1>0. ByteBits \in Nat \ {0} BY TailAssumption
<1>1. PICK b \in Nat \ {0}, n \in Nat : b = ByteBits /\ n = Len(bits) /\ n % b = 0
  BY <1>0 DEF Payloads, BitSeq
<1>2. PICK m \in Int : n = b * m
  <2>1. b * (n \div b) = n /\ n \div b \in Int BY <1>1, DivBack
  <2> QED BY <2>1
<1>3. PICK k \in Int, r \in 0 .. b - 1 : k = pos \div b /\ pos = b * k + r /\ r = pos % b OBVIOUS
<1>4. k + 1 <= m
  <2> SUFFICES ASSUME m <= k PROVE FALSE OBVIOUS
  <2>1. b * m <= b * k BY TimesGrows
  <2> QED BY <1>1, <1>2, <1>3, <2>1
<1>5. b * (k + 1) <= b * m BY <1>4, TimesGrows
<1>6. b * (k + 1) = b * k + b OBVIOUS
<1>7. pos + (b - r) <= n BY <1>2, <1>3, <1>5, <1>6
<1> QED BY <1>1, <1>3, <1>7 DEF Available

\* The states of read_unary_ones: ones up to the position, or the end seen.
UnaryStates == [value : Nat, pos : Nat, ended : BOOLEAN]
UnaryResults == {Refused} \cup {Ok(at) : at \in UnaryStates}
Running(bits, pos, i, at) ==
  /\ ~at.ended /\ at.pos = pos + at.value /\ at.pos <= Len(bits) /\ at.value >= i
  /\ \A j \in 1 .. at.value : bits[pos + j] = 1
Ended(bits, pos, at) == at.ended /\ at.pos = pos + at.value + 1 /\ UnaryAt(bits, pos, at.value)
UnaryInv(bits, pos, limit, i, r) ==
  \/ r = Refused /\ \A q \in 0 .. limit : ~UnaryAt(bits, pos, q)
  \/ \E at \in UnaryStates : /\ r = Ok(at) /\ at.value <= limit
                             /\ Running(bits, pos, i, at) \/ Ended(bits, pos, at)

\* Ones where a quotient would end.
LEMMA NoEnd ==
  ASSUME NEW bits, NEW pos \in Nat, NEW v \in Nat, \A j \in 1 .. v : bits[pos + j] = 1, NEW q \in Nat, q < v
  PROVE  ~UnaryAt(bits, pos, q)
<1>1. q + 1 \in 1 .. v /\ pos + (q + 1) = pos + q + 1 OBVIOUS
<1>2. bits[pos + q + 1] = 1 BY <1>1
<1> QED BY <1>2 DEF UnaryAt

\* What one turn returns.
LEMMA ByteIs ==
  ASSUME NEW bits, NEW at \in UnaryStates, NEW limit \in Nat
  PROVE  /\ UnaryByte(bits, at, limit) =
              IF at.pos >= Len(bits) \/ at.value + Ones(bits, at.pos) > limit THEN Refused
              ELSE Ok([ value |-> at.value + Ones(bits, at.pos),
                        pos   |-> IF Ones(bits, at.pos) < Available(at.pos) THEN at.pos + Ones(bits, at.pos) + 1
                                  ELSE at.pos + Ones(bits, at.pos),
                        ended |-> Ones(bits, at.pos) < Available(at.pos) ])
         /\ UnaryByte(bits, at, limit) \in UnaryResults
<1> DEFINE o == Ones(bits, at.pos)
           n == Available(at.pos)
           x == [ value |-> at.value + o, pos |-> IF o < n THEN at.pos + o + 1 ELSE at.pos + o, ended |-> o < n ]
<1>1. at.value \in Nat /\ at.pos \in Nat BY DEF UnaryStates
<1>2. UnaryByte(bits, at, limit) = IF at.pos >= Len(bits) \/ at.value + o > limit THEN Refused ELSE Ok(x)
  BY Zenon DEF UnaryByte, Ones, Available
<1>3. o \in Nat
  <2>1. o \in 0 .. n /\ n \in Nat BY <1>1, OnesFacts
  <2> QED BY <2>1
<1> HIDE DEF o, n
<1>4. x \in UnaryStates
  <2>1. (o < n) \in BOOLEAN OBVIOUS
  <2>2. (IF o < n THEN at.pos + o + 1 ELSE at.pos + o) \in Nat /\ at.value + o \in Nat BY <1>1, <1>3
  <2> QED BY <2>1, <2>2 DEF UnaryStates
<1>5. UnaryByte(bits, at, limit) \in UnaryResults
  <2> HIDE DEF x
  <2> QED BY <1>2, <1>4 DEF UnaryResults
<1>6. UnaryByte(bits, at, limit) = IF at.pos >= Len(bits) \/ at.value + Ones(bits, at.pos) > limit THEN Refused
              ELSE Ok([ value |-> at.value + Ones(bits, at.pos),
                        pos   |-> IF Ones(bits, at.pos) < Available(at.pos) THEN at.pos + Ones(bits, at.pos) + 1
                                  ELSE at.pos + Ones(bits, at.pos),
                        ended |-> Ones(bits, at.pos) < Available(at.pos) ])
  BY <1>2, Zenon DEF o, n
<1> QED BY <1>5, <1>6, Zenon

\* One byte more.
LEMMA ByteStep ==
  ASSUME NEW bits \in Payloads, NEW pos \in Nat, NEW limit \in Nat, NEW i \in Nat,
         NEW at \in UnaryStates, at.value <= limit, Running(bits, pos, i, at)
  PROVE  UnaryInv(bits, pos, limit, i + 1, UnaryByte(bits, at, limit))
<1> DEFINE r == UnaryByte(bits, at, limit)
<1>1. PICK v \in Nat, p \in Nat : v = at.value /\ p = at.pos /\ p = pos + v /\ v >= i
  BY DEF UnaryStates, Running
<1>2. PICK len \in Nat : len = Len(bits) /\ p <= len BY <1>1 DEF Payloads, BitSeq, Running
<1>3. \A j \in 1 .. v : bits[pos + j] = 1 BY <1>1 DEF Running
<1>4. PICK n \in Nat \ {0}, o \in Nat :
        /\ n = Available(p) /\ o = Ones(bits, p) /\ o <= n /\ \A j \in 1 .. o : bits[p + j] = 1
        /\ o < n => bits[p + (o + 1)] # 1
  <2>1. /\ Available(p) \in Nat \ {0} /\ Ones(bits, p) \in 0 .. Available(p)
        /\ \A j \in 1 .. Ones(bits, p) : bits[p + j] = 1
        /\ Ones(bits, p) < Available(p) => bits[p + (Ones(bits, p) + 1)] # 1
    BY OnesFacts, Zenon
  <2>2. Ones(bits, p) \in Nat /\ Ones(bits, p) <= Available(p) BY <2>1
  <2> QED BY <2>1, <2>2, Zenon
<1>5. r = IF p >= len \/ v + o > limit THEN Refused
          ELSE Ok([value |-> v + o, pos |-> IF o < n THEN p + o + 1 ELSE p + o, ended |-> o < n])
  BY <1>1, <1>2, <1>4, ByteIs
<1> HIDE DEF r
<1>6. CASE p >= len
  <2>1. r = Refused /\ p = len BY <1>2, <1>5, <1>6
  <2>2. ASSUME NEW q \in 0 .. limit PROVE ~UnaryAt(bits, pos, q)
    <3>1. q \in Nat OBVIOUS
    <3>2. CASE q < v BY <1>3, <3>1, <3>2, NoEnd
    <3>3. CASE q >= v
      <4>1. ~(pos + q < len) BY <1>1, <2>1, <3>1, <3>3
      <4> QED BY <1>2, <4>1 DEF UnaryAt
    <3> QED BY <3>1, <3>2, <3>3
  <2> QED BY <2>1, <2>2 DEF UnaryInv, r
<1>7. CASE p < len
  <2>1. p + n <= len BY <1>2, <1>4, <1>7, ByteFits
  <2>2. PICK w \in Nat : w = v + o /\ p + o = pos + w BY <1>1
  <2>3. ASSUME NEW j \in 1 .. w PROVE bits[pos + j] = 1
    <3>1. CASE j <= v
      <4>1. j \in 1 .. v BY <3>1
      <4> QED BY <1>3, <4>1
    <3>2. CASE j > v
      <4>1. PICK k \in 1 .. o : k = j - v /\ p + k = pos + j BY <1>1, <2>2, <3>2
      <4>2. bits[p + k] = 1 BY <1>4
      <4> QED BY <4>1, <4>2
    <3> QED BY <3>1, <3>2
  <2>4. CASE w > limit
    <3>1. r = Refused BY <1>5, <2>2, <2>4
    <3>2. ASSUME NEW q \in 0 .. limit PROVE ~UnaryAt(bits, pos, q)
      <4>1. q \in Nat /\ q < w BY <2>4
      <4> QED BY <2>3, <4>1, NoEnd
    <3> QED BY <3>1, <3>2 DEF UnaryInv, r
  <2>5. CASE w <= limit /\ o < n
    <3> DEFINE x == [value |-> w, pos |-> p + o + 1, ended |-> TRUE]
    <3>1. r = Ok(x)
      <4>1. ~(p >= len \/ v + o > limit) BY <1>7, <2>2, <2>5
      <4>2. (o < n) = TRUE BY <2>5
      <4> QED BY <1>5, <2>2, <4>1, <4>2
    <3>2. x \in UnaryStates /\ x.value = w /\ x.pos = p + o + 1 /\ x.ended BY DEF UnaryStates
    <3> HIDE DEF x
    <3>3. bits[pos + w + 1] = 0
      <4>1. p + (o + 1) \in 1 .. len /\ p + (o + 1) = pos + w + 1 BY <1>1, <2>1, <2>2, <2>5
      <4>2. bits[p + (o + 1)] \in {0, 1} BY <1>2, <4>1 DEF Payloads, BitSeq
      <4>3. bits[p + (o + 1)] # 1 BY <1>4, <2>5
      <4> QED BY <4>1, <4>2, <4>3
    <3>4. pos + w < len BY <2>1, <2>2, <2>5
    <3>5. UnaryAt(bits, pos, w) BY <1>2, <2>3, <3>3, <3>4 DEF UnaryAt
    <3>6. x.pos = pos + x.value + 1 BY <2>2, <3>2
    <3>7. Ended(bits, pos, x) BY <3>2, <3>5, <3>6 DEF Ended
    <3> QED BY <2>5, <3>1, <3>2, <3>7 DEF UnaryInv, r
  <2>6. CASE w <= limit /\ ~(o < n)
    <3> DEFINE x == [value |-> w, pos |-> p + o, ended |-> FALSE]
    <3>1. r = Ok(x)
      <4>1. ~(p >= len \/ v + o > limit) BY <1>7, <2>2, <2>6
      <4>2. (o < n) = FALSE BY <2>6
      <4> QED BY <1>5, <2>2, <4>1, <4>2
    <3>2. x \in UnaryStates /\ x.value = w /\ x.pos = p + o /\ ~x.ended BY DEF UnaryStates
    <3> HIDE DEF x
    <3>3. o = n BY <1>4, <2>6
    <3>4. p + o <= len /\ w >= i + 1 BY <1>1, <2>1, <2>2, <3>3
    <3>5. Running(bits, pos, i + 1, x) BY <1>2, <2>2, <2>3, <3>2, <3>4 DEF Running
    <3> QED BY <2>6, <3>1, <3>2, <3>5 DEF UnaryInv, r
  <2> QED BY <2>4, <2>5, <2>6
<1> QED BY <1>2, <1>6, <1>7

\* One turn of the loop of read_unary_ones.
UnaryTurn(bits, limit, last) ==
  IF last = Refused \/ last[1].ended THEN last ELSE UnaryByte(bits, last[1], limit)

\* A turn keeps the invariant of the loop.
LEMMA UnaryTurnFacts ==
  ASSUME NEW bits \in Payloads, NEW pos \in Nat, NEW limit \in Nat, NEW i \in Nat, NEW r,
         UnaryInv(bits, pos, limit, i, r)
  PROVE  UnaryInv(bits, pos, limit, i + 1, UnaryTurn(bits, limit, r))
<1>1. CASE r = Refused BY <1>1, OkFacts DEF UnaryInv, UnaryTurn
<1>2. CASE r # Refused
  <2>1. PICK at \in UnaryStates : /\ r = Ok(at) /\ at.value <= limit
                                  /\ Running(bits, pos, i, at) \/ Ended(bits, pos, at)
    BY <1>2 DEF UnaryInv
  <2>2. r[1] = at BY <2>1, OkFacts
  <2>3. CASE Ended(bits, pos, at)
    <3>1. UnaryTurn(bits, limit, r) = r BY <2>2, <2>3 DEF UnaryTurn, Ended
    <3> QED BY <2>1, <2>3, <3>1 DEF UnaryInv
  <2>4. CASE Running(bits, pos, i, at)
    <3>1. UnaryTurn(bits, limit, r) = UnaryByte(bits, at, limit) BY <1>2, <2>2, <2>4 DEF UnaryTurn, Running
    <3>2. UnaryInv(bits, pos, limit, i + 1, UnaryByte(bits, at, limit)) BY <2>1, <2>4, ByteStep
    <3> QED BY <3>1, <3>2
  <2> QED BY <2>1, <2>3, <2>4
<1> QED BY <1>1, <1>2

\* A turn returns a result of the loop.
LEMMA UnaryTurnType ==
  ASSUME NEW bits, NEW limit \in Nat, NEW r \in UnaryResults
  PROVE  UnaryTurn(bits, limit, r) \in UnaryResults
<1>1. CASE r = Refused BY <1>1 DEF UnaryTurn
<1>2. CASE r # Refused
  <2>1. PICK at \in UnaryStates : r = Ok(at) BY <1>2 DEF UnaryResults
  <2>2. r[1] = at BY <2>1, OkFacts
  <2>3. UnaryByte(bits, at, limit) \in UnaryResults BY ByteIs
  <2> QED BY <1>2, <2>2, <2>3 DEF UnaryTurn
<1> QED BY <1>1, <1>2

\* read_unary_ones reads a quotient within its limit where there is one, and
\* nothing else.
UnaryRead(bits, pos, limit, r) ==
  \/ r = Refused /\ \A q \in 0 .. limit : ~UnaryAt(bits, pos, q)
  \/ \E q \in 0 .. limit : r # Refused /\ r[1].value = q /\ r[1].pos = pos + q + 1 /\ UnaryAt(bits, pos, q)

\* The loop of read_unary_ones reads a quotient exactly, for every payload.
LEMMA ReadUnaryExact ==
  ASSUME NEW bits \in Payloads, NEW pos \in Nat, pos <= Len(bits), NEW limit \in Nat
  PROVE  UnaryRead(bits, pos, limit, ReadUnary(bits, pos, limit))
<1> DEFINE n == Len(bits) + 1
           S == UnaryResults
           init == Ok([value |-> 0, pos |-> pos, ended |-> FALSE])
           Rec(g) == g = [i \in 0 .. n |-> IF i = 0 THEN init ELSE UnaryTurn(bits, limit, g[i - 1])]
           c == CHOOSE g : Rec(g)
           step == [q \in S \X (1 .. n) |-> UnaryTurn(bits, limit, q[1])]
<1>0. Len(bits) \in Nat /\ n \in Nat BY DEF Payloads, BitSeq
<1>1. ReadUnary(bits, pos, limit) = c[n] BY Zenon DEF ReadUnary, UnaryTurn
<1>2. init \in S /\ UnaryInv(bits, pos, limit, 0, init)
  <2> DEFINE x == [value |-> 0, pos |-> pos, ended |-> FALSE]
  <2>1. x \in UnaryStates /\ x.value = 0 /\ x.pos = pos /\ ~x.ended BY DEF UnaryStates
  <2>2. init = Ok(x) OBVIOUS
  <2> HIDE DEF x, init
  <2>3. Running(bits, pos, 0, x) BY <2>1 DEF Running
  <2>4. UnaryInv(bits, pos, limit, 0, init) BY <2>1, <2>2, <2>3 DEF UnaryInv
  <2> QED BY <2>1, <2>2, <2>4 DEF UnaryResults
<1> HIDE DEF init
<1>3. \A r \in S : UnaryTurn(bits, limit, r) \in S BY UnaryTurnType
<1> HIDE DEF S
<1>4. step \in [S \X (1 .. n) -> S] BY <1>3
<1> HIDE DEF n
<1>5. PICK g \in [0 .. n -> S] : Loop(n, init, step, g)
  <2> HIDE DEF step
  <2> QED BY <1>0, <1>2, <1>4, LoopExists
<1>6. \A i \in 1 .. n : g[i] = UnaryTurn(bits, limit, g[i - 1])
  <2> SUFFICES ASSUME NEW i \in 1 .. n PROVE g[i] = UnaryTurn(bits, limit, g[i - 1]) OBVIOUS
  <2>0. i - 1 \in 0 .. n BY <1>0
  <2>1. <<g[i - 1], i>> \in S \X (1 .. n) BY <1>5, <2>0
  <2> QED BY <1>5, <2>1 DEF Loop
<1>7. Rec(g) BY <1>5, <1>6 DEF Loop
<1>8. Rec(c)
  <2> HIDE DEF Rec
  <2> QED BY <1>7
<1> HIDE DEF c
<1>9. c[0] = init /\ \A i \in 1 .. n : c[i] = UnaryTurn(bits, limit, c[i - 1])
  <2>1. 0 \in 0 .. n /\ \A i \in 1 .. n : i \in 0 .. n /\ i # 0 BY <1>0
  <2> QED BY <1>8, <2>1
<1> DEFINE T == {i \in 0 .. n : UnaryInv(bits, pos, limit, i, c[i])}
<1>10. 0 \in T BY <1>0, <1>2, <1>9
<1>11. ASSUME NEW i \in 0 .. n - 1, i \in T PROVE i + 1 \in T
  <2>1. i + 1 \in 1 .. n /\ (i + 1) - 1 = i /\ i + 1 \in 0 .. n /\ i \in Nat BY <1>0
  <2>2. UnaryInv(bits, pos, limit, i + 1, UnaryTurn(bits, limit, c[i])) BY <1>11, <2>1, UnaryTurnFacts
  <2> QED BY <1>9, <2>1, <2>2
<1>12. \A i \in 0 .. n : i \in T
  <2> HIDE DEF T
  <2> QED BY <1>0, <1>10, <1>11, UpTo
<1>13. UnaryInv(bits, pos, limit, n, c[n])
  <2>1. n \in 0 .. n BY <1>0
  <2> QED BY <1>12, <2>1
<1>14. CASE c[n] = Refused
  BY <1>1, <1>13, <1>14, OkFacts DEF UnaryInv, UnaryRead
<1>15. CASE c[n] # Refused
  <2>1. PICK at \in UnaryStates : /\ c[n] = Ok(at) /\ at.value <= limit
                                  /\ Running(bits, pos, n, at) \/ Ended(bits, pos, at)
    BY <1>13, <1>15 DEF UnaryInv
  <2>2. c[n][1] = at BY <2>1, OkFacts
  <2>3. PICK v \in Nat, p \in Nat : v = at.value /\ p = at.pos BY DEF UnaryStates
  <2>4. ~Running(bits, pos, n, at)
    <3> SUFFICES ASSUME Running(bits, pos, n, at) PROVE FALSE OBVIOUS
    <3>1. p = pos + v /\ p <= Len(bits) /\ v >= n BY <2>3 DEF Running
    <3> QED BY <1>0, <2>3, <3>1 DEF n
  <2>5. v \in 0 .. limit BY <2>1, <2>3
  <2>6. Ended(bits, pos, at) BY <2>1, <2>4
  <2>7. UnaryAt(bits, pos, v) /\ p = pos + v + 1 BY <2>3, <2>6 DEF Ended
  <2> QED BY <1>1, <1>15, <2>2, <2>3, <2>5, <2>7 DEF UnaryRead
<1> QED BY <1>14, <1>15

\* A quotient ends in one place.
LEMMA UnaryUnique ==
  ASSUME NEW bits, NEW pos \in Nat, NEW q \in Nat, NEW r \in Nat, UnaryAt(bits, pos, q), UnaryAt(bits, pos, r)
  PROVE  q = r
<1>1. ~(q < r)
  <2> SUFFICES ASSUME q < r PROVE FALSE OBVIOUS
  <2>1. \A j \in 1 .. r : bits[pos + j] = 1 BY DEF UnaryAt
  <2> QED BY <2>1, NoEnd
<1>2. ~(r < q)
  <2> SUFFICES ASSUME r < q PROVE FALSE OBVIOUS
  <2>1. \A j \in 1 .. q : bits[pos + j] = 1 BY DEF UnaryAt
  <2> QED BY <2>1, NoEnd
<1> QED BY <1>1, <1>2

\* read_bits, against the low bits of a number u: the remainder of u, and of
\* no other number than one with these bits.
LowSum(bits, at, low) == Sum([i \in 1 .. low |-> bits[at + i] * 2 ^ (i - 1)])
LowSame(bits, at, low, u) == \A i \in 1 .. low : bits[at + i] = Bit(u, i - 1)

\* read_bits returns a remainder, u's if and only if the bits are u's.
LEMMA LowBits ==
  ASSUME NEW bits \in BitSeq, NEW at \in Nat, NEW low \in Nat, at + low <= Len(bits), NEW u \in Nat
  PROVE  /\ LowSum(bits, at, low) \in 0 .. 2 ^ low - 1
         /\ (LowSum(bits, at, low) = u % 2 ^ low) <=> LowSame(bits, at, low, u)
<1> DEFINE a == [i \in 1 .. low |-> bits[at + i]]
           b == [i \in 1 .. low |-> Bit(u, i - 1)]
           s == [i \in 1 .. low |-> bits[at + i] * 2 ^ (i - 1)]
           t == [i \in 1 .. low |-> Bit(u, i - 1) * 2 ^ (i - 1)]
<1>1. ASSUME NEW i \in 1 .. low
      PROVE  /\ bits[at + i] \in {0, 1} /\ Bit(u, i - 1) \in {0, 1} /\ 2 ^ (i - 1) \in Nat
             /\ bits[at + i] * 2 ^ (i - 1) \in Int /\ Bit(u, i - 1) * 2 ^ (i - 1) \in Int
  <2>1. i - 1 \in Nat /\ u \in Int OBVIOUS
  <2>2. at + i \in 1 .. Len(bits) BY DEF BitSeq
  <2>3. bits[at + i] \in {0, 1} BY <2>2 DEF BitSeq
  <2>4. Bit(u, i - 1) \in {0, 1} BY <2>1, BitIs
  <2>5. PICK p \in Nat : p = 2 ^ (i - 1) BY <2>1, PowerFacts
  <2>6. \A e \in {0, 1} : e * p \in Int OBVIOUS
  <2> QED BY <2>3, <2>4, <2>5, <2>6
<1>2. Weighed(low, a, s) BY <1>1 DEF Weighed
<1>3. Weighed(low, b, t) BY <1>1 DEF Weighed
<1>4. Sum(t) = u % 2 ^ low
  <2>1. DOMAIN t = 1 .. low /\ t = [i \in 1 .. low |-> t[i]] /\ u \in Int
        /\ \A i \in 1 .. low : t[i] = Bit(u, i - 1) * 2 ^ (i - 1)
    OBVIOUS
  <2> HIDE DEF t
  <2> QED BY <2>1, BitsSum, Zenon
<1>5. Sum(s) \in 0 .. 2 ^ low - 1
  <2> HIDE DEF s, a
  <2>1. s \in [1 .. low -> Int] BY <1>2 DEF Weighed
  <2>2. PICK g : PartialSums(low, s, g) /\ Sum(s) = g[low] BY <2>1, SumIsPartial
  <2>3. low \in 0 .. low OBVIOUS
  <2> QED BY <1>2, <2>2, <2>3, BinaryRange
<1>6. ASSUME Sum(s) = Sum(t) PROVE \A i \in 1 .. low : bits[at + i] = Bit(u, i - 1)
  <2>1. \A i \in 1 .. low : a[i] = b[i]
    <3> HIDE DEF a, b, s, t
    <3> QED BY <1>2, <1>3, <1>6, BinaryUnique
  <2> QED BY <2>1
<1>7. ASSUME \A i \in 1 .. low : bits[at + i] = Bit(u, i - 1) PROVE Sum(s) = Sum(t)
  <2>1. s = t BY <1>7
  <2> QED BY <2>1
<1>8. LowSum(bits, at, low) = Sum(s) BY DEF LowSum
<1>9. LowSame(bits, at, low, u) <=> \A i \in 1 .. low : bits[at + i] = Bit(u, i - 1) BY DEF LowSame
<1> HIDE DEF t, s
<1> QED BY <1>4, <1>5, <1>6, <1>7, <1>8, <1>9

\* A code lies where its quotient ends, its low bits those of the payload.
LEMMA CodeParts ==
  ASSUME NEW bits \in BitSeq, NEW pos \in Nat, NEW low \in Nat, NEW n \in Int, CodeAt(bits, pos, n, low)
  PROVE  /\ UnaryAt(bits, pos, Quotient(n, low)) /\ pos + Quotient(n, low) + 1 + low <= Len(bits)
         /\ \A j \in 1 .. low : bits[(pos + Quotient(n, low) + 1) + j] = Bit(Zigzag(n), j - 1)
BY DEF CodeAt

\* The codes of two coefficients do not lie at one position.
LEMMA CodeUnique ==
  ASSUME NEW bits \in BitSeq, NEW pos \in Nat, NEW low \in Nat, NEW n \in Int, NEW m \in Int,
         CodeAt(bits, pos, n, low), CodeAt(bits, pos, m, low)
  PROVE  n = m
<1>1. PICK q \in Nat : q = Quotient(n, low) BY QuotientNat
<1>2. /\ UnaryAt(bits, pos, q) /\ pos + q + 1 + low <= Len(bits)
      /\ \A j \in 1 .. low : bits[(pos + q + 1) + j] = Bit(Zigzag(n), j - 1)
  BY <1>1, CodeParts
<1>3. PICK r \in Nat : r = Quotient(m, low) BY QuotientNat
<1>4. /\ UnaryAt(bits, pos, r)
      /\ \A j \in 1 .. low : bits[(pos + r + 1) + j] = Bit(Zigzag(m), j - 1)
  BY <1>3, CodeParts
<1>5. r = q BY <1>2, <1>4, UnaryUnique
<1>6. PICK at \in Nat : at = pos + q + 1 /\ at + low <= Len(bits) BY <1>2
<1>7. PICK x \in Nat, y \in Nat : x = Zigzag(n) /\ y = Zigzag(m) BY ZigzagFacts
<1> DEFINE s == LowSum(bits, at, low)
<1>8. s = x % 2 ^ low
  <2>1. LowSame(bits, at, low, x) BY <1>2, <1>6, <1>7 DEF LowSame
  <2> QED BY <1>6, <2>1, LowBits
<1>9. s = y % 2 ^ low
  <2>1. LowSame(bits, at, low, y) BY <1>4, <1>5, <1>6, <1>7 DEF LowSame
  <2> QED BY <1>6, <2>1, LowBits
<1> HIDE DEF s
<1>10. PICK p \in Nat \ {0} : p = 2 ^ low BY PowerFacts
<1>11. x \div p = q /\ y \div p = q BY <1>1, <1>3, <1>5, <1>7, <1>10 DEF Quotient
<1>12. x % p = s /\ y % p = s BY <1>8, <1>9, <1>10
<1>13. x = p * (x \div p) + (x % p) /\ y = p * (y \div p) + (y % p) OBVIOUS
<1>14. x = y BY <1>11, <1>12, <1>13
<1> QED BY <1>7, <1>14, ZigzagFacts

\* The coefficient that the decoder may return at a position.
Decodes(bits, pos, low, w, limit, n) ==
  n \in Int /\ InWidth(n, w) /\ Quotient(n, low) <= limit /\ CodeAt(bits, pos, n, low)

DecodedOne(bits, pos, low, w, limit, d) ==
  \/ d = Refused /\ \A n \in Int : ~Decodes(bits, pos, low, w, limit, n)
  \/ \E n \in Int : /\ Decodes(bits, pos, low, w, limit, n)
                    /\ d = Ok([value |-> n, pos |-> pos + Quotient(n, low) + 1 + low])

\* golomb_rice_decode_one returns the coefficient whose code lies at the
\* position, and refuses when there is none within the width and the limit.
LEMMA DecodeOneExact ==
  ASSUME NEW bits \in Payloads, NEW pos \in Nat, pos <= Len(bits), NEW low \in Nat, NEW w, NEW limit \in Nat
  PROVE  DecodedOne(bits, pos, low, w, limit, DecodeOne(bits, pos, low, w, limit))
<1> DEFINE q == ReadUnary(bits, pos, limit)
           d == DecodeOne(bits, pos, low, w, limit)
           r == IF q = Refused THEN Refused ELSE ReadBits(bits, q[1].pos, low)
           n == Unzigzag(q[1].value * 2 ^ low + r[1].value)
<1>0. bits \in BitSeq /\ Len(bits) \in Nat BY DEF Payloads, BitSeq
<1>1. UnaryRead(bits, pos, limit, q) BY ReadUnaryExact
<1>2. d = IF r = Refused THEN Refused
          ELSE IF InWidth(n, w) THEN Ok([value |-> n, pos |-> r[1].pos]) ELSE Refused
  BY Zenon DEF DecodeOne
<1> HIDE DEF q, d
<1>3. CASE q = Refused
  <2>1. \A k \in 0 .. limit : ~UnaryAt(bits, pos, k) BY <1>1, <1>3 DEF UnaryRead
  <2>2. d = Refused BY <1>2, <1>3
  <2>3. ASSUME NEW m \in Int, Decodes(bits, pos, low, w, limit, m) PROVE FALSE
    <3>1. PICK k \in Nat : k = Quotient(m, low) BY QuotientNat
    <3>2. k \in 0 .. limit /\ UnaryAt(bits, pos, k) BY <1>0, <2>3, <3>1, CodeParts DEF Decodes
    <3> QED BY <2>1, <3>2
  <2> QED BY <2>2, <2>3 DEF DecodedOne, d
<1>4. CASE q # Refused
  <2>1. PICK k \in 0 .. limit : q[1].value = k /\ q[1].pos = pos + k + 1 /\ UnaryAt(bits, pos, k)
    BY <1>1, <1>4 DEF UnaryRead
  <2>2. PICK at \in Nat : at = pos + k + 1 /\ at <= Len(bits) BY <1>0, <2>1 DEF UnaryAt
  <2>3. r = ReadBits(bits, at, low) BY <1>4, <2>1, <2>2
  <2>4. ASSUME NEW m \in Int, Decodes(bits, pos, low, w, limit, m)
        PROVE  Quotient(m, low) = k /\ at + low <= Len(bits)
    <3>1. PICK j \in Nat : j = Quotient(m, low) BY QuotientNat
    <3>2. UnaryAt(bits, pos, j) /\ pos + j + 1 + low <= Len(bits) BY <1>0, <2>4, <3>1, CodeParts DEF Decodes
    <3>3. j = k BY <2>1, <3>2, UnaryUnique
    <3> QED BY <2>2, <3>1, <3>2, <3>3
  <2>5. CASE Len(bits) - at < low
    <3>1. d = Refused BY <1>2, <2>3, <2>5 DEF ReadBits
    <3>2. \A m \in Int : ~Decodes(bits, pos, low, w, limit, m) BY <1>0, <2>2, <2>4, <2>5
    <3> QED BY <3>1, <3>2 DEF DecodedOne, d
  <2>6. CASE ~(Len(bits) - at < low)
    <3> DEFINE s == LowSum(bits, at, low)
    <3>0. at + low <= Len(bits) BY <1>0, <2>2, <2>6
    <3>1. PICK p \in Nat \ {0} : p = 2 ^ low BY PowerFacts
    <3>2. s \in 0 .. p - 1 BY <1>0, <3>0, <3>1, LowBits
    <3>3. r = Ok([value |-> s, pos |-> at + low]) BY <2>3, <2>6, Zenon DEF ReadBits, LowSum
    <3>4. r # Refused /\ r[1].value = s /\ r[1].pos = at + low BY <3>3, OkFacts
    <3>5. PICK u \in Nat : u = k * p + s
      <4>1. k * p \in Nat BY <2>1
      <4> HIDE DEF s
      <4> QED BY <3>2, <4>1
    <3>6. u \div p = k /\ u % p = s
      <4> HIDE DEF s
      <4>1. u = p * k + s /\ k \in Int /\ u \in Int BY <2>1, <3>5
      <4> QED BY <3>2, <4>1, DivUnique
    <3>7. n = Unzigzag(u) BY <2>1, <3>1, <3>4, <3>5
    <3>8. PICK v \in Int : v = n /\ Zigzag(v) = u
      <4>1. Unzigzag(u) \in Int /\ Zigzag(Unzigzag(u)) = u BY UnzigzagFacts
      <4> QED BY <3>7, <4>1
    <3>9. Quotient(v, low) = k BY <3>1, <3>6, <3>8 DEF Quotient
    <3>10. LowSame(bits, at, low, u) BY <1>0, <3>0, <3>1, <3>6, LowBits
    <3>11. CodeAt(bits, pos, v, low)
      <4>1. pos + k + 1 + low <= Len(bits) BY <2>2, <3>0
      <4> QED BY <2>1, <2>2, <3>8, <3>9, <3>10, <4>1 DEF CodeAt, LowSame
    <3>12. CASE InWidth(v, w)
      <4>1. d = Ok([value |-> v, pos |-> at + low]) BY <1>2, <3>4, <3>8, <3>12
      <4>2. at + low = pos + Quotient(v, low) + 1 + low BY <2>2, <3>9
      <4>3. Decodes(bits, pos, low, w, limit, v) BY <2>1, <3>9, <3>11, <3>12 DEF Decodes
      <4> QED BY <4>1, <4>2, <4>3 DEF DecodedOne, d
    <3>13. CASE ~InWidth(v, w)
      <4>1. d = Refused BY <1>2, <3>4, <3>8, <3>13
      <4>2. ASSUME NEW m \in Int, Decodes(bits, pos, low, w, limit, m) PROVE FALSE
        <5>1. m = v BY <1>0, <3>11, <4>2, CodeUnique DEF Decodes
        <5> QED BY <3>13, <4>2, <5>1 DEF Decodes
      <4> QED BY <4>1, <4>2 DEF DecodedOne, d
    <3> QED BY <3>12, <3>13
  <2> QED BY <2>5, <2>6
<1> QED BY <1>3, <1>4

\* The sequences that concatenating one after another passes through.
Flat(n, seqs, g) ==
  /\ g \in [0 .. n -> BitSeq] /\ g[0] = <<>>
  /\ \A i \in 1 .. n : g[i] = g[i - 1] \o seqs[i]

\* There is one such chain of sequences.
LEMMA FlatUnique ==
  ASSUME NEW n \in Nat, NEW seqs, NEW g, NEW h, Flat(n, seqs, g), Flat(n, seqs, h)
  PROVE  \A i \in 0 .. n : g[i] = h[i]
<1> DEFINE T == {i \in 0 .. n : g[i] = h[i]}
<1>1. 0 \in T BY DEF Flat
<1>2. ASSUME NEW i \in 0 .. n - 1, i \in T PROVE i + 1 \in T
  <2>1. i + 1 \in 1 .. n /\ (i + 1) - 1 = i /\ i + 1 \in 0 .. n OBVIOUS
  <2>2. g[i + 1] = g[i] \o seqs[i + 1] /\ h[i + 1] = h[i] \o seqs[i + 1] BY <2>1 DEF Flat
  <2> QED BY <1>2, <2>1, <2>2
<1>3. \A i \in 0 .. n : i \in T
  <2> HIDE DEF T
  <2> QED BY <1>1, <1>2, UpTo
<1> QED BY <1>3

\* The type of a concatenation.
LEMMA JoinType ==
  ASSUME NEW s \in BitSeq, NEW t \in BitSeq
  PROVE  s \o t \in BitSeq
BY DEF BitSeq

\* There is such a chain.
LEMMA FlatExists ==
  ASSUME NEW n \in Nat, NEW seqs \in [1 .. n -> BitSeq]
  PROVE  \E g : Flat(n, seqs, g)
<1> DEFINE step == [p \in BitSeq \X (1 .. n) |-> p[1] \o seqs[p[2]]]
<1>1. step \in [BitSeq \X (1 .. n) -> BitSeq]
  <2> SUFFICES ASSUME NEW p \in BitSeq \X (1 .. n) PROVE p[1] \o seqs[p[2]] \in BitSeq OBVIOUS
  <2>1. p[1] \in BitSeq /\ seqs[p[2]] \in BitSeq OBVIOUS
  <2> QED BY <2>1, JoinType
<1>2. <<>> \in BitSeq BY DEF BitSeq
<1>3. PICK g \in [0 .. n -> BitSeq] : Loop(n, <<>>, step, g)
  <2> HIDE DEF step
  <2> QED BY <1>1, <1>2, LoopExists
<1>4. ASSUME NEW i \in 1 .. n PROVE g[i] = g[i - 1] \o seqs[i]
  <2>1. <<g[i - 1], i>> \in BitSeq \X (1 .. n) BY <1>3
  <2>2. g[i] = step[<<g[i - 1], i>>] BY <1>3 DEF Loop
  <2> QED BY <2>1, <2>2
<1> HIDE DEF step
<1> QED BY <1>3, <1>4 DEF Flat, Loop

\* FlattenSeq is the last of them.
LEMMA FlattenIs ==
  ASSUME NEW n \in Nat, NEW seqs \in [1 .. n -> BitSeq], NEW g, Flat(n, seqs, g)
  PROVE  FlattenSeq(seqs) = g[n]
<1>0. Len(seqs) = n OBVIOUS
<1>1. CASE n = 0
  <2>1. FlattenSeq(seqs) = seqs BY <1>0, <1>1, Zenon DEF FlattenSeq
  <2>2. seqs = <<>> BY <1>1
  <2> QED BY <1>1, <2>1, <2>2 DEF Flat
<1>2. CASE n # 0
  <2> DEFINE Rec(h) == h = [i \in 1 .. Len(seqs) |-> IF i = 1 THEN seqs[i] ELSE h[i - 1] \o seqs[i]]
             c == CHOOSE h : Rec(h)
             r == [i \in 1 .. n |-> g[i]]
  <2>1. FlattenSeq(seqs) = c[Len(seqs)] BY <1>0, <1>2, Zenon DEF FlattenSeq
  <2>2. g[1] = seqs[1]
    <3>1. 1 \in 1 .. n /\ 1 - 1 = 0 BY <1>2
    <3>2. g[1] = <<>> \o seqs[1] BY <3>1 DEF Flat
    <3>3. seqs[1] \in BitSeq BY <3>1
    <3>4. <<>> \o seqs[1] = seqs[1] BY <3>3 DEF BitSeq
    <3> QED BY <3>2, <3>4
  <2>3. Rec(r)
    <3>1. ASSUME NEW i \in 1 .. n PROVE r[i] = IF i = 1 THEN seqs[i] ELSE r[i - 1] \o seqs[i]
      <4>1. CASE i = 1 BY <2>2, <4>1
      <4>2. CASE i # 1
        <5>1. i - 1 \in 1 .. n BY <4>2
        <5>2. g[i] = g[i - 1] \o seqs[i] BY DEF Flat
        <5> QED BY <4>2, <5>1, <5>2
      <4> QED BY <4>1, <4>2
    <3>2. r = [i \in 1 .. n |-> r[i]] OBVIOUS
    <3> HIDE DEF r
    <3>3. r = [i \in 1 .. n |-> IF i = 1 THEN seqs[i] ELSE r[i - 1] \o seqs[i]] BY <3>1, <3>2, Zenon
    <3> QED BY <1>0, <3>3
  <2>4. Rec(c)
    <3> HIDE DEF Rec, r
    <3> QED BY <2>3
  <2> HIDE DEF c
  <2>5. \A i \in 1 .. n : c[i] = IF i = 1 THEN seqs[i] ELSE c[i - 1] \o seqs[i]
    <3> SUFFICES ASSUME NEW i \in 1 .. n PROVE c[i] = IF i = 1 THEN seqs[i] ELSE c[i - 1] \o seqs[i] OBVIOUS
    <3>1. c = [k \in 1 .. n |-> IF k = 1 THEN seqs[k] ELSE c[k - 1] \o seqs[k]] BY <1>0, <2>4
    <3> QED BY <3>1, Zenon
  <2> DEFINE T == {i \in 0 .. n : i = 0 \/ c[i] = g[i]}
  <2>6. 0 \in T OBVIOUS
  <2>7. ASSUME NEW i \in 0 .. n - 1, i \in T PROVE i + 1 \in T
    <3>1. i + 1 \in 1 .. n /\ (i + 1) - 1 = i /\ i + 1 \in 0 .. n OBVIOUS
    <3>2. CASE i = 0
      <4>1. i + 1 = 1 BY <3>2
      <4>2. c[1] = seqs[1] BY <2>5, <3>1, <4>1
      <4> QED BY <2>2, <3>1, <4>1, <4>2
    <3>3. CASE i # 0
      <4>1. c[i + 1] = c[i] \o seqs[i + 1]
        <5>1. i + 1 # 1 BY <3>3
        <5> QED BY <2>5, <3>1, <5>1
      <4>2. g[i + 1] = g[i] \o seqs[i + 1] BY <3>1 DEF Flat
      <4> QED BY <2>7, <3>1, <3>3, <4>1, <4>2
    <3> QED BY <3>2, <3>3
  <2>8. \A i \in 0 .. n : i \in T
    <3> HIDE DEF T
    <3> QED BY <2>6, <2>7, UpTo
  <2>9. c[n] = g[n] BY <1>2, <2>8
  <2> QED BY <1>0, <2>1, <2>9
<1> QED BY <1>1, <1>2

\* The codes of a response, one after another.
Codes(values, low) == [i \in DOMAIN values |-> EncodeOne(values[i], low)]
Code(values, low) == FlattenSeq(Codes(values, low))

\* The codes of the coefficients are sequences of bits.
LEMMA CodesType ==
  ASSUME NEW n \in Nat, NEW values \in [1 .. n -> Int], NEW low \in Nat
  PROVE  /\ Codes(values, low) \in [1 .. n -> BitSeq]
         /\ \A i \in 1 .. n : Codes(values, low)[i] = EncodeOne(values[i], low)
<1>1. DOMAIN values = 1 .. n OBVIOUS
<1>2. ASSUME NEW i \in 1 .. n PROVE EncodeOne(values[i], low) \in BitSeq
  <2>1. values[i] \in Int OBVIOUS
  <2> QED BY <2>1, EncodeOneFacts DEF Coded
<1> QED BY <1>1, <1>2 DEF Codes

\* The code of no coefficient, and of one more.
LEMMA CodeNone ==
  ASSUME NEW low \in Nat
  PROVE  Code(<<>>, low) = <<>> /\ \A values \in [1 .. 0 -> Int] : Code(values, low) = <<>>
<1>1. ASSUME NEW values \in [1 .. 0 -> Int] PROVE Code(values, low) = <<>>
  <2>1. Codes(values, low) \in [1 .. 0 -> BitSeq] BY CodesType
  <2>2. PICK g : Flat(0, Codes(values, low), g) BY <2>1, FlatExists
  <2>3. Code(values, low) = g[0] BY <2>1, <2>2, FlattenIs DEF Code
  <2> QED BY <2>2, <2>3 DEF Flat
<1>2. <<>> \in [1 .. 0 -> Int] OBVIOUS
<1> QED BY <1>1, <1>2

\* So is the code of the response.
LEMMA CodeType ==
  ASSUME NEW n \in Nat, NEW values \in [1 .. n -> Int], NEW low \in Nat
  PROVE  Code(values, low) \in BitSeq /\ Len(Code(values, low)) \in Nat
<1>1. Codes(values, low) \in [1 .. n -> BitSeq] BY CodesType
<1>2. PICK g : Flat(n, Codes(values, low), g) BY <1>1, FlatExists
<1>3. Code(values, low) = g[n] BY <1>1, <1>2, FlattenIs DEF Code
<1>4. g[n] \in BitSeq BY <1>2 DEF Flat
<1> QED BY <1>3, <1>4 DEF BitSeq

\* The code of a response of one more coefficient.
LEMMA CodeMore ==
  ASSUME NEW n \in Nat, NEW values \in [1 .. n + 1 -> Int], NEW v \in [1 .. n -> Int],
         \A i \in 1 .. n : v[i] = values[i], NEW low \in Nat
  PROVE  Code(values, low) = Code(v, low) \o EncodeOne(values[n + 1], low)
<1> DEFINE a == Codes(values, low)
           b == Codes(v, low)
<1>0. n + 1 \in Nat /\ n + 1 \in 1 .. n + 1 /\ (n + 1) - 1 = n OBVIOUS
<1>1. a \in [1 .. n + 1 -> BitSeq] /\ b \in [1 .. n -> BitSeq] BY <1>0, CodesType
<1>2. a[n + 1] = EncodeOne(values[n + 1], low) /\ \A i \in 1 .. n : a[i] = b[i]
  <2>1. \A i \in 1 .. n + 1 : a[i] = EncodeOne(values[i], low) BY <1>0, CodesType
  <2>2. \A i \in 1 .. n : b[i] = EncodeOne(v[i], low) BY CodesType
  <2> QED BY <1>0, <2>1, <2>2
<1> HIDE DEF a, b
<1>3. PICK g : Flat(n + 1, a, g) BY <1>0, <1>1, FlatExists
<1>4. PICK h : Flat(n, b, h) BY <1>1, FlatExists
<1> DEFINE r == [i \in 0 .. n |-> g[i]]
<1>5. Flat(n, b, r)
  <2>1. r \in [0 .. n -> BitSeq] /\ r[0] = <<>> BY <1>3 DEF Flat
  <2>2. ASSUME NEW i \in 1 .. n PROVE r[i] = r[i - 1] \o b[i]
    <3>1. i \in 1 .. n + 1 /\ i \in 0 .. n /\ i - 1 \in 0 .. n OBVIOUS
    <3>2. g[i] = g[i - 1] \o a[i] BY <1>3, <3>1 DEF Flat
    <3> QED BY <1>2, <3>1, <3>2
  <2> HIDE DEF r
  <2> QED BY <2>1, <2>2 DEF Flat
<1>6. g[n] = h[n]
  <2>1. n \in 0 .. n /\ r[n] = g[n] OBVIOUS
  <2> HIDE DEF r
  <2> QED BY <1>4, <1>5, <2>1, FlatUnique
<1>7. g[n + 1] = g[n] \o a[n + 1] BY <1>0, <1>3 DEF Flat
<1>8. Code(values, low) = g[n + 1] BY <1>0, <1>1, <1>3, FlattenIs DEF Code, a
<1>9. Code(v, low) = h[n] BY <1>1, <1>4, FlattenIs DEF Code, b
<1> QED BY <1>2, <1>6, <1>7, <1>8, <1>9

\* A concatenation lies where its parts do.
LEMMA LiesJoin ==
  ASSUME NEW bits \in BitSeq, NEW s \in BitSeq, NEW t \in BitSeq
  PROVE  Lies(bits, 0, s \o t) <=> Lies(bits, 0, s) /\ Lies(bits, Len(s), t)
<1> DEFINE c == s \o t
<1>1. Joined(s, t, c) BY JoinFacts
<1> HIDE DEF c
<1>2. PICK m \in Nat, k \in Nat, n \in Nat : m = Len(s) /\ k = Len(t) /\ n = Len(bits) /\ Len(c) = m + k
  BY <1>1 DEF Joined, BitSeq
<1>3. (\A i \in 1 .. m : c[i] = s[i]) /\ \A i \in 1 .. k : c[m + i] = t[i] BY <1>1, <1>2 DEF Joined
<1>4. ASSUME Lies(bits, 0, c) PROVE Lies(bits, 0, s) /\ Lies(bits, Len(s), t)
  <2>1. m + k <= n /\ \A j \in 1 .. m + k : bits[0 + j] = c[j] BY <1>2, <1>4 DEF Lies
  <2>2. ASSUME NEW j \in 1 .. m PROVE bits[0 + j] = s[j]
    <3>1. j \in 1 .. m + k OBVIOUS
    <3> QED BY <1>3, <2>1, <3>1
  <2>3. ASSUME NEW j \in 1 .. k PROVE bits[m + j] = t[j]
    <3>1. m + j \in 1 .. m + k /\ 0 + (m + j) = m + j OBVIOUS
    <3>2. bits[0 + (m + j)] = c[m + j] BY <2>1, <3>1
    <3> QED BY <1>3, <3>1, <3>2
  <2> QED BY <1>2, <2>1, <2>2, <2>3 DEF Lies
<1>5. ASSUME Lies(bits, 0, s), Lies(bits, Len(s), t) PROVE Lies(bits, 0, c)
  <2>1. m + k <= n /\ (\A j \in 1 .. m : bits[0 + j] = s[j]) /\ \A j \in 1 .. k : bits[m + j] = t[j]
    BY <1>2, <1>5 DEF Lies
  <2>2. ASSUME NEW j \in 1 .. m + k PROVE bits[0 + j] = c[j]
    <3>1. CASE j \in 1 .. m BY <1>3, <2>1, <3>1
    <3>2. CASE ~(j \in 1 .. m)
      <4>1. j - m \in 1 .. k /\ m + (j - m) = j /\ 0 + j = j BY <3>2
      <4>2. bits[m + (j - m)] = t[j - m] /\ c[m + (j - m)] = t[j - m] BY <1>3, <2>1, <4>1
      <4> QED BY <4>1, <4>2
    <3> QED BY <3>1, <3>2
  <2>3. 0 + Len(c) <= Len(bits) BY <1>2, <2>1
  <2> QED BY <1>2, <2>2, <2>3 DEF Lies
<1> QED BY <1>4, <1>5 DEF c

\* The shape of a scheduled group.
IsGroup(g) ==
  /\ g.coords \in Nat /\ g.cap \in Nat /\ g.cap <= I16Max /\ g.low \in Nat
  /\ g.bytes \in Nat /\ g.energy \in Nat

LimitOf(g) == QuotientLimit(WireAbsBound(g), g.low)

\* The decoder's bounds are natural numbers.
LEMMA LimitNat ==
  ASSUME NEW g, IsGroup(g)
  PROVE  WireAbsBound(g) \in Nat /\ LimitOf(g) \in Nat
<1>1. WireAbsBound(g) \in Nat BY TailAssumption DEF WireAbsBound, IsGroup
<1>2. g.low \in Nat BY DEF IsGroup
<1>3. WireAbsBound(g) \in Int BY <1>1
<1> QED BY <1>1, <1>2, <1>3, QuotientNat DEF LimitOf, QuotientLimit

\* What the decoder takes: a coefficient, and a response whose codes the
\* payload begins with.
Takes(n, g) == InWidth(n, Width(g)) /\ Quotient(n, g.low) <= LimitOf(g) /\ Converts(n, g)
AllTaken(v, g) == \A k \in DOMAIN v : Takes(v[k], g)
Good(bits, g, v) == AllTaken(v, g) /\ Lies(bits, 0, Code(v, g.low))
Reached(v, g) == Ok([values |-> v, pos |-> Len(Code(v, g.low))])

\* One more coefficient that the decoder takes.
LEMMA GoodMore ==
  ASSUME NEW bits \in BitSeq, NEW g, IsGroup(g), NEW n \in Nat, NEW v \in [1 .. n -> Int], NEW x \in Int,
         NEW u \in [1 .. n + 1 -> Int], \A i \in 1 .. n : u[i] = v[i], u[n + 1] = x
  PROVE  /\ Good(bits, g, u) <=> Good(bits, g, v) /\ Takes(x, g) /\ CodeAt(bits, Len(Code(v, g.low)), x, g.low)
         /\ Len(Code(u, g.low)) = Len(Code(v, g.low)) + Quotient(x, g.low) + 1 + g.low
<1>1. PICK low \in Nat : low = g.low BY DEF IsGroup
<1> DEFINE c == Code(v, low)
           e == EncodeOne(x, low)
<1>2. Code(u, low) = c \o e BY CodeMore
<1>3. c \in BitSeq /\ Len(c) \in Nat BY CodeType
<1>4. Coded(e, Quotient(x, low), Zigzag(x), low) BY EncodeOneFacts
<1>5. e \in BitSeq /\ Len(e) = Quotient(x, low) + 1 + low BY <1>4 DEF Coded
<1>6. Lies(bits, Len(c), e) <=> CodeAt(bits, Len(c), x, low) BY <1>3, CodeLies
<1> HIDE DEF c, e
<1>7. Lies(bits, 0, Code(u, low)) <=> Lies(bits, 0, c) /\ CodeAt(bits, Len(c), x, low)
  BY <1>2, <1>3, <1>5, <1>6, LiesJoin
<1>8. AllTaken(u, g) <=> AllTaken(v, g) /\ Takes(x, g)
  <2>1. DOMAIN u = 1 .. n + 1 /\ DOMAIN v = 1 .. n OBVIOUS
  <2>2. \A i \in 1 .. n + 1 : i \in 1 .. n \/ i = n + 1 OBVIOUS
  <2>3. n + 1 \in 1 .. n + 1 /\ \A i \in 1 .. n : i \in 1 .. n + 1 OBVIOUS
  <2> QED BY <2>1, <2>2, <2>3 DEF AllTaken
<1>9. Len(c \o e) = Len(c) + Len(e) BY <1>3, <1>5, JoinFacts DEF Joined
<1>10. Quotient(x, low) \in Nat BY QuotientNat
<1>11. Len(Code(u, low)) = Len(c) + Quotient(x, low) + 1 + low BY <1>2, <1>3, <1>5, <1>9, <1>10
<1>12. Code(v, g.low) = c /\ Code(u, g.low) = Code(u, low) BY <1>1 DEF c
<1> QED BY <1>1, <1>7, <1>8, <1>11, <1>12 DEF Good

\* A response of one more coefficient.
LEMMA AppendFacts ==
  ASSUME NEW n \in Nat, NEW v \in [1 .. n -> Int], NEW x \in Int
  PROVE  /\ Append(v, x) \in [1 .. n + 1 -> Int] /\ Append(v, x)[n + 1] = x
         /\ \A i \in 1 .. n : Append(v, x)[i] = v[i]
<1>1. v \in Seq(Int) /\ Len(v) = n OBVIOUS
<1>2. PICK s \in Seq(Int) : s = v /\ Len(s) = n BY <1>1
<1>3. Append(s, x) \in Seq(Int) /\ Len(Append(s, x)) = n + 1 BY <1>2
<1>4. Append(s, x)[n + 1] = x /\ \A i \in 1 .. n : Append(s, x)[i] = s[i] BY <1>2
<1>5. Append(s, x) \in [1 .. n + 1 -> Int]
  <2>1. \A t \in Seq(Int) : Len(t) = n + 1 => t \in [1 .. n + 1 -> Int] OBVIOUS
  <2> QED BY <1>3, <2>1
<1> QED BY <1>2, <1>4, <1>5

\* One turn of the decoder.
LEMMA DecodeNextExact ==
  ASSUME NEW bits \in Payloads, NEW g, IsGroup(g), NEW n \in Nat, NEW v \in [1 .. n -> Int], Good(bits, g, v)
  PROVE  \/ /\ DecodeNext(bits, Reached(v, g), g) = Refused
            /\ \A x \in Int : ~Good(bits, g, Append(v, x))
         \/ \E x \in Int : /\ Good(bits, g, Append(v, x))
                           /\ DecodeNext(bits, Reached(v, g), g) = Reached(Append(v, x), g)
                           /\ \A y \in Int : Good(bits, g, Append(v, y)) => y = x
<1> DEFINE pos == Len(Code(v, g.low))
           w == Width(g)
           limit == LimitOf(g)
           d == DecodeOne(bits, pos, g.low, w, limit)
           r == Reached(v, g)
           next == DecodeNext(bits, r, g)
<1>0. bits \in BitSeq /\ Len(bits) \in Nat /\ g.low \in Nat BY DEF Payloads, BitSeq, IsGroup
<1>1. pos \in Nat BY <1>0, CodeType
<1>2. pos <= Len(bits) BY <1>0, <1>1 DEF Good, Lies
<1>3. limit \in Nat BY LimitNat
<1>4. DecodedOne(bits, pos, g.low, w, limit, d) BY <1>0, <1>1, <1>2, <1>3, DecodeOneExact
<1>5. r # Refused /\ r[1] = [values |-> v, pos |-> pos] BY OkFacts DEF Reached
<1>6. next = IF d # Refused /\ Converts(d[1].value, g)
             THEN Ok([values |-> Append(v, d[1].value), pos |-> d[1].pos]) ELSE Refused
  <2>1. r[1].pos = pos /\ r[1].values = v BY <1>5
  <2> HIDE DEF r, pos
  <2> QED BY <1>5, <2>1, Zenon DEF DecodeNext, LimitOf
<1>7. ASSUME NEW x \in Int
      PROVE  /\ Good(bits, g, Append(v, x)) <=> Takes(x, g) /\ CodeAt(bits, pos, x, g.low)
             /\ Len(Code(Append(v, x), g.low)) = pos + Quotient(x, g.low) + 1 + g.low
  <2>1. /\ Append(v, x) \in [1 .. n + 1 -> Int] /\ Append(v, x)[n + 1] = x
        /\ \A i \in 1 .. n : Append(v, x)[i] = v[i]
    BY AppendFacts
  <2>2. PICK u \in [1 .. n + 1 -> Int] : u = Append(v, x) /\ u[n + 1] = x /\ \A i \in 1 .. n : u[i] = v[i]
    BY <2>1, Zenon
  <2>3. /\ Good(bits, g, u) <=> Good(bits, g, v) /\ Takes(x, g) /\ CodeAt(bits, Len(Code(v, g.low)), x, g.low)
        /\ Len(Code(u, g.low)) = Len(Code(v, g.low)) + Quotient(x, g.low) + 1 + g.low
    BY <1>0, <2>2, GoodMore
  <2> QED BY <2>2, <2>3, Zenon
<1> HIDE DEF pos, w, limit, d, r, next
<1>8. ASSUME NEW x \in Int, Good(bits, g, Append(v, x))
      PROVE  Decodes(bits, pos, g.low, w, limit, x) /\ Converts(x, g)
  BY <1>7, <1>8 DEF Takes, Decodes, w, limit
<1>9. CASE d = Refused
  <2>1. \A x \in Int : ~Decodes(bits, pos, g.low, w, limit, x) BY <1>4, <1>9, OkFacts DEF DecodedOne
  <2>2. next = Refused BY <1>6, <1>9
  <2> QED BY <1>8, <2>1, <2>2 DEF next, r
<1>10. CASE d # Refused
  <2>1. PICK x \in Int : /\ Decodes(bits, pos, g.low, w, limit, x)
                         /\ d = Ok([value |-> x, pos |-> pos + Quotient(x, g.low) + 1 + g.low])
    BY <1>4, <1>10 DEF DecodedOne
  <2>2. d[1].value = x /\ d[1].pos = pos + Quotient(x, g.low) + 1 + g.low BY <2>1, OkFacts
  <2>3. ASSUME NEW y \in Int, Good(bits, g, Append(v, y)) PROVE y = x
    <3>1. CodeAt(bits, pos, y, g.low) /\ CodeAt(bits, pos, x, g.low) BY <1>7, <2>1, <2>3 DEF Decodes
    <3> QED BY <1>0, <1>1, <3>1, CodeUnique
  <2>4. CASE Converts(x, g)
    <3>1. Good(bits, g, Append(v, x)) BY <1>7, <2>1, <2>4 DEF Takes, Decodes, w, limit
    <3>2. next = Ok([values |-> Append(v, x), pos |-> pos + Quotient(x, g.low) + 1 + g.low])
      BY <1>6, <1>10, <2>2, <2>4
    <3>3. next = Reached(Append(v, x), g) BY <1>7, <3>2 DEF Reached
    <3> QED BY <2>3, <3>1, <3>3 DEF next, r
  <2>5. CASE ~Converts(x, g)
    <3>1. next = Refused BY <1>6, <2>2, <2>5
    <3>2. \A y \in Int : ~Good(bits, g, Append(v, y)) BY <1>8, <2>3, <2>5
    <3> QED BY <3>1, <3>2 DEF next, r
  <2> QED BY <2>4, <2>5
<1> QED BY <1>9, <1>10

\* The states of the decoder's loop.
Stages(bits, g) == {Refused} \cup {Reached(v, g) : v \in {u \in Seq(Int) : Good(bits, g, u)}}

\* The decoder before its first turn.
LEMMA GoodNone ==
  ASSUME NEW bits \in BitSeq, NEW g, IsGroup(g)
  PROVE  Good(bits, g, <<>>) /\ Reached(<<>>, g) = Ok([values |-> <<>>, pos |-> 0])
<1>1. g.low \in Nat BY DEF IsGroup
<1>2. Code(<<>>, g.low) = <<>> BY <1>1, CodeNone
<1>3. Len(<<>>) = 0 /\ Len(bits) \in Nat BY DEF BitSeq
<1>4. Lies(bits, 0, <<>>) BY <1>3 DEF Lies
<1>5. AllTaken(<<>>, g) BY DEF AllTaken
<1> QED BY <1>2, <1>3, <1>4, <1>5 DEF Good, Reached

\* A turn leads from state to state.
LEMMA StageNext ==
  ASSUME NEW bits \in Payloads, NEW g, IsGroup(g), NEW r \in Stages(bits, g)
  PROVE  DecodeNext(bits, r, g) \in Stages(bits, g)
<1>1. CASE r = Refused
  <2>1. DecodeNext(bits, r, g) = Refused BY <1>1, Zenon DEF DecodeNext
  <2> QED BY <2>1 DEF Stages
<1>2. CASE r # Refused
  <2>1. PICK v \in Seq(Int) : Good(bits, g, v) /\ r = Reached(v, g) BY <1>2 DEF Stages
  <2>2. PICK n \in Nat : v \in [1 .. n -> Int]
    <3>1. Len(v) \in Nat /\ v \in [1 .. Len(v) -> Int] OBVIOUS
    <3> QED BY <3>1
  <2>3. ASSUME NEW x \in Int PROVE Append(v, x) \in Seq(Int) OBVIOUS
  <2>4. DecodeNext(bits, r, g) = Refused
        \/ \E x \in Int : Good(bits, g, Append(v, x)) /\ DecodeNext(bits, r, g) = Reached(Append(v, x), g)
    BY <2>1, <2>2, DecodeNextExact
  <2> QED BY <2>3, <2>4 DEF Stages
<1> QED BY <1>1, <1>2

\* The loop of the decoder.
Decoding(bits, g, c) ==
  /\ c[0] = Reached(<<>>, g) /\ \A i \in 1 .. g.coords : c[i] = DecodeNext(bits, c[i - 1], g)
  /\ DecodePayload(bits, g) =
       IF /\ Len(bits) <= g.bytes * ByteBits
          /\ c[g.coords] # Refused
          /\ CanonicalPadding(bits, c[g.coords][1].pos)
       THEN Ok(c[g.coords][1].values) ELSE Refused

\* DecodePayload runs this loop.
LEMMA DecodeLoop ==
  ASSUME NEW bits \in Payloads, NEW g, IsGroup(g)
  PROVE  \E c : Decoding(bits, g, c)
<1> DEFINE m == g.coords
           S == Stages(bits, g)
           init == Ok([values |-> <<>>, pos |-> 0])
           Rec(h) == h = [i \in 0 .. m |-> IF i = 0 THEN init ELSE DecodeNext(bits, h[i - 1], g)]
           c == CHOOSE h : Rec(h)
           step == [q \in S \X (1 .. m) |-> DecodeNext(bits, q[1], g)]
<1>0. m \in Nat /\ bits \in BitSeq BY DEF IsGroup, Payloads
<1>1. DecodePayload(bits, g) =
        IF /\ Len(bits) <= g.bytes * ByteBits
           /\ c[m] # Refused
           /\ CanonicalPadding(bits, c[m][1].pos)
        THEN Ok(c[m][1].values) ELSE Refused
  BY Zenon DEF DecodePayload
<1>2. init = Reached(<<>>, g) /\ Good(bits, g, <<>>) BY <1>0, GoodNone
<1>3. init \in S
  <2>1. <<>> \in Seq(Int) OBVIOUS
  <2> QED BY <1>2, <2>1 DEF Stages
<1> HIDE DEF init
<1>4. \A r \in S : DecodeNext(bits, r, g) \in S BY StageNext
<1> HIDE DEF S
<1>5. step \in [S \X (1 .. m) -> S] BY <1>4
<1> HIDE DEF m
<1>6. PICK h \in [0 .. m -> S] : Loop(m, init, step, h)
  <2> HIDE DEF step
  <2> QED BY <1>0, <1>3, <1>5, LoopExists
<1>7. \A i \in 1 .. m : h[i] = DecodeNext(bits, h[i - 1], g)
  <2> SUFFICES ASSUME NEW i \in 1 .. m PROVE h[i] = DecodeNext(bits, h[i - 1], g) OBVIOUS
  <2>0. i - 1 \in 0 .. m BY <1>0
  <2>1. <<h[i - 1], i>> \in S \X (1 .. m) BY <1>6, <2>0
  <2> QED BY <1>6, <2>1 DEF Loop
<1>8. Rec(h) BY <1>6, <1>7 DEF Loop
<1>9. Rec(c)
  <2> HIDE DEF Rec
  <2> QED BY <1>8
<1> HIDE DEF c
<1>10. c[0] = init /\ \A i \in 1 .. m : c[i] = DecodeNext(bits, c[i - 1], g)
  <2>1. 0 \in 0 .. m /\ \A i \in 1 .. m : i \in 0 .. m /\ i # 0 BY <1>0
  <2> QED BY <1>9, <2>1
<1>11. Decoding(bits, g, c) BY <1>1, <1>2, <1>10, Zenon DEF Decoding, m
<1> QED BY <1>11

\* The stages of a call that returns have read as many coefficients as turns
\* have run.
LEMMA DecodeSound ==
  ASSUME NEW bits \in Payloads, NEW g, IsGroup(g), NEW c, Decoding(bits, g, c)
  PROVE  c[g.coords] = Refused \/ \E v \in [1 .. g.coords -> Int] : Good(bits, g, v) /\ c[g.coords] = Reached(v, g)
<1> DEFINE Read(i) == c[i] = Refused \/ \E v \in [1 .. i -> Int] : Good(bits, g, v) /\ c[i] = Reached(v, g)
<1>1. PICK m \in Nat : m = g.coords BY DEF IsGroup
<1>2. c[0] = Reached(<<>>, g) /\ \A i \in 1 .. m : c[i] = DecodeNext(bits, c[i - 1], g) BY <1>1 DEF Decoding
<1> DEFINE T == {i \in 0 .. m : Read(i)}
<1>3. 0 \in T
  <2>1. <<>> \in [1 .. 0 -> Int] OBVIOUS
  <2>2. Good(bits, g, <<>>) BY GoodNone DEF Payloads
  <2>3. Read(0) BY <1>2, <2>1, <2>2
  <2> HIDE DEF Read
  <2> QED BY <2>3
<1>4. ASSUME NEW i \in 0 .. m - 1, i \in T PROVE i + 1 \in T
  <2>1. i + 1 \in 1 .. m /\ (i + 1) - 1 = i /\ i + 1 \in 0 .. m /\ i \in Nat OBVIOUS
  <2>2. c[i + 1] = DecodeNext(bits, c[i], g) BY <1>2, <2>1
  <2>3. CASE c[i] = Refused
    <3>1. c[i + 1] = Refused BY <2>2, <2>3, Zenon DEF DecodeNext
    <3> QED BY <2>1, <3>1
  <2>4. CASE c[i] # Refused
    <3>1. PICK v \in [1 .. i -> Int] : Good(bits, g, v) /\ c[i] = Reached(v, g) BY <1>4, <2>4
    <3>2. c[i + 1] = Refused \/ \E x \in Int : Good(bits, g, Append(v, x)) /\ c[i + 1] = Reached(Append(v, x), g)
      BY <2>1, <2>2, <3>1, DecodeNextExact
    <3>3. \A x \in Int : Append(v, x) \in [1 .. i + 1 -> Int] BY <2>1, AppendFacts
    <3>4. Read(i + 1) BY <3>2, <3>3, Zenon
    <3> HIDE DEF Read
    <3> QED BY <2>1, <3>4
  <2> QED BY <2>3, <2>4
<1>5. \A i \in 0 .. m : i \in T
  <2> HIDE DEF T
  <2> QED BY <1>3, <1>4, UpTo
<1>6. Read(m)
  <2>1. m \in 0 .. m OBVIOUS
  <2> HIDE DEF Read
  <2> QED BY <1>5, <2>1
<1> QED BY <1>1, <1>6

\* The first coefficients of a response.
First(v, i) == [k \in 1 .. i |-> v[k]]

\* The first coefficients and the next one.
LEMMA FirstFacts ==
  ASSUME NEW m \in Nat, NEW v \in [1 .. m -> Int], NEW i \in 0 .. m - 1
  PROVE  /\ First(v, i) \in [1 .. i -> Int] /\ First(v, i + 1) \in [1 .. i + 1 -> Int]
         /\ First(v, i + 1) = Append(First(v, i), v[i + 1]) /\ v[i + 1] \in Int
         /\ \A k \in 1 .. i : First(v, i + 1)[k] = First(v, i)[k]
         /\ First(v, i + 1)[i + 1] = v[i + 1]
<1>0. i \in Nat /\ i + 1 \in 1 .. m OBVIOUS
<1>1. First(v, i) \in [1 .. i -> Int] /\ First(v, i + 1) \in [1 .. i + 1 -> Int] /\ v[i + 1] \in Int
  BY <1>0 DEF First
<1>2. \A k \in 1 .. i : First(v, i + 1)[k] = First(v, i)[k] BY <1>0 DEF First
<1>3. First(v, i + 1)[i + 1] = v[i + 1] BY <1>0 DEF First
<1> DEFINE a == Append(First(v, i), v[i + 1])
           b == First(v, i + 1)
<1>4. a \in [1 .. i + 1 -> Int] /\ a[i + 1] = v[i + 1] /\ \A k \in 1 .. i : a[k] = First(v, i)[k]
  BY <1>0, <1>1, AppendFacts
<1>5. a = b
  <2>1. ASSUME NEW k \in 1 .. i + 1 PROVE a[k] = b[k]
    <3>1. CASE k = i + 1 BY <1>3, <1>4, <3>1
    <3>2. CASE k # i + 1
      <4>1. k \in 1 .. i BY <1>0, <3>2
      <4> QED BY <1>2, <1>4, <4>1
    <3> QED BY <3>1, <3>2
  <2>2. b \in [1 .. i + 1 -> Int] BY <1>1
  <2> HIDE DEF a, b
  <2> QED BY <1>4, <2>1, <2>2
<1> QED BY <1>1, <1>2, <1>3, <1>5

\* A response whose codes the payload begins with is what the loop returns.
LEMMA DecodeComplete ==
  ASSUME NEW bits \in Payloads, NEW g, IsGroup(g), NEW c, Decoding(bits, g, c),
         NEW v \in [1 .. g.coords -> Int], Good(bits, g, v)
  PROVE  c[g.coords] = Reached(v, g)
<1>1. PICK m \in Nat : m = g.coords /\ v \in [1 .. m -> Int] BY DEF IsGroup
<1>2. c[0] = Reached(<<>>, g) /\ \A i \in 1 .. m : c[i] = DecodeNext(bits, c[i - 1], g) BY <1>1 DEF Decoding
<1>3. First(v, m) = v BY <1>1 DEF First
<1>4. ASSUME NEW i \in 0 .. m - 1, Good(bits, g, First(v, i + 1)) PROVE Good(bits, g, First(v, i))
  <2>1. i \in Nat OBVIOUS
  <2>2. bits \in BitSeq BY DEF Payloads
  <2>3. /\ First(v, i) \in [1 .. i -> Int] /\ First(v, i + 1) \in [1 .. i + 1 -> Int] /\ v[i + 1] \in Int
        /\ \A k \in 1 .. i : First(v, i + 1)[k] = First(v, i)[k]
        /\ First(v, i + 1)[i + 1] = v[i + 1]
    BY <1>1, FirstFacts
  <2>4. PICK a \in [1 .. i -> Int], b \in [1 .. i + 1 -> Int], x \in Int :
          /\ a = First(v, i) /\ b = First(v, i + 1) /\ b[i + 1] = x /\ \A k \in 1 .. i : b[k] = a[k]
    BY <2>3, Zenon
  <2>5. Good(bits, g, b) BY <1>4, <2>4
  <2>6. Good(bits, g, a) BY <2>1, <2>2, <2>4, <2>5, GoodMore
  <2> QED BY <2>4, <2>6
<1> DEFINE U == {j \in 0 .. m : Good(bits, g, First(v, m - j))}
<1>5. 0 \in U
  <2>1. m - 0 = m OBVIOUS
  <2> QED BY <1>3, <2>1
<1>6. ASSUME NEW j \in 0 .. m - 1, j \in U PROVE j + 1 \in U
  <2>1. (m - (j + 1)) + 1 = m - j /\ m - (j + 1) \in 0 .. m - 1 /\ j + 1 \in 0 .. m OBVIOUS
  <2>2. Good(bits, g, First(v, (m - (j + 1)) + 1)) BY <1>6, <2>1
  <2>3. Good(bits, g, First(v, m - (j + 1))) BY <1>4, <2>1, <2>2
  <2> QED BY <2>1, <2>3
<1>7. \A j \in 0 .. m : j \in U
  <2> HIDE DEF U
  <2> QED BY <1>5, <1>6, UpTo
<1>8. \A i \in 0 .. m : Good(bits, g, First(v, i))
  <2> SUFFICES ASSUME NEW i \in 0 .. m PROVE Good(bits, g, First(v, i)) OBVIOUS
  <2>1. m - i \in 0 .. m /\ m - (m - i) = i OBVIOUS
  <2>2. Good(bits, g, First(v, m - (m - i))) BY <1>7, <2>1
  <2> QED BY <2>1, <2>2
<1> DEFINE T == {i \in 0 .. m : c[i] = Reached(First(v, i), g)}
<1>9. 0 \in T
  <2>1. First(v, 0) = <<>> BY DEF First
  <2> QED BY <1>2, <2>1
<1>10. ASSUME NEW i \in 0 .. m - 1, i \in T PROVE i + 1 \in T
  <2>1. i + 1 \in 1 .. m /\ (i + 1) - 1 = i /\ i + 1 \in 0 .. m /\ i \in 0 .. m /\ i \in Nat OBVIOUS
  <2>2. c[i + 1] = DecodeNext(bits, c[i], g) BY <1>2, <2>1
  <2>3. PICK u \in [1 .. i -> Int], x \in Int : u = First(v, i) /\ First(v, i + 1) = Append(u, x)
    BY <1>1, FirstFacts
  <2>4. Good(bits, g, u) /\ Good(bits, g, Append(u, x)) BY <1>8, <2>1, <2>3
  <2>5. DecodeNext(bits, Reached(u, g), g) = Reached(Append(u, x), g)
    <3> DEFINE next == DecodeNext(bits, Reached(u, g), g)
    <3>1. \/ next = Refused /\ \A y \in Int : ~Good(bits, g, Append(u, y))
          \/ \E y \in Int : /\ Good(bits, g, Append(u, y)) /\ next = Reached(Append(u, y), g)
                            /\ \A z \in Int : Good(bits, g, Append(u, z)) => z = y
      BY <2>1, <2>4, DecodeNextExact
    <3> HIDE DEF next
    <3>2. PICK y \in Int : /\ next = Reached(Append(u, y), g)
                           /\ \A z \in Int : Good(bits, g, Append(u, z)) => z = y
      BY <2>4, <3>1
    <3>3. x = y BY <2>4, <3>2
    <3> QED BY <3>2, <3>3 DEF next
  <2> QED BY <1>10, <2>1, <2>2, <2>3, <2>5
<1>11. \A i \in 0 .. m : i \in T
  <2> HIDE DEF T
  <2> QED BY <1>9, <1>10, UpTo
<1>12. m \in 0 .. m OBVIOUS
<1> QED BY <1>1, <1>3, <1>11, <1>12

\* What decode_terminal_z_golomb_payload returns.
LEMMA DecodePayloadExact ==
  ASSUME NEW bits \in Payloads, NEW g, IsGroup(g)
  PROVE  /\ DecodePayload(bits, g) # Refused =>
              \E v \in [1 .. g.coords -> Int] :
                 /\ Good(bits, g, v) /\ CanonicalPadding(bits, Len(Code(v, g.low)))
                 /\ DecodePayload(bits, g) = Ok(v)
         /\ \A v \in [1 .. g.coords -> Int] :
               /\ Good(bits, g, v) /\ CanonicalPadding(bits, Len(Code(v, g.low)))
               /\ Len(bits) <= g.bytes * ByteBits
               => DecodePayload(bits, g) = Ok(v)
<1>1. PICK c : Decoding(bits, g, c) BY DecodeLoop
<1> DEFINE last == c[g.coords]
           d == DecodePayload(bits, g)
<1>2. d = IF /\ Len(bits) <= g.bytes * ByteBits
             /\ last # Refused
             /\ CanonicalPadding(bits, last[1].pos)
          THEN Ok(last[1].values) ELSE Refused
  BY <1>1 DEF Decoding
<1>3. ASSUME NEW v \in [1 .. g.coords -> Int], last = Reached(v, g)
      PROVE  last # Refused /\ last[1].pos = Len(Code(v, g.low)) /\ last[1].values = v
  BY <1>3, OkFacts DEF Reached
<1>4. ASSUME d # Refused
      PROVE  \E v \in [1 .. g.coords -> Int] :
                /\ Good(bits, g, v) /\ CanonicalPadding(bits, Len(Code(v, g.low))) /\ d = Ok(v)
  <2>1. last # Refused /\ CanonicalPadding(bits, last[1].pos) /\ d = Ok(last[1].values) BY <1>2, <1>4
  <2>2. PICK v \in [1 .. g.coords -> Int] : Good(bits, g, v) /\ last = Reached(v, g) BY <1>1, <2>1, DecodeSound
  <2> HIDE DEF last, d
  <2> QED BY <1>3, <2>1, <2>2
<1>5. ASSUME NEW v \in [1 .. g.coords -> Int], Good(bits, g, v),
             CanonicalPadding(bits, Len(Code(v, g.low))), Len(bits) <= g.bytes * ByteBits
      PROVE  d = Ok(v)
  <2>1. last = Reached(v, g) BY <1>1, <1>5, DecodeComplete
  <2> HIDE DEF last, d
  <2> QED BY <1>2, <1>3, <1>5, <2>1
<1> HIDE DEF d
<1>6. DecodePayload(bits, g) = d BY DEF d
<1> QED BY <1>4, <1>5, <1>6

\* golomb_rice_total_wire_bits is the length of the code.
LEMMA LenCode ==
  ASSUME NEW n \in Nat, NEW v \in [1 .. n -> Int], NEW low \in Nat
  PROVE  /\ WireBits(v, low) = Len(Code(v, low))
         /\ [i \in 1 .. n |-> Quotient(v[i], low) + 1 + low] \in [1 .. n -> Nat]
<1> DEFINE s == [i \in 1 .. n |-> Quotient(v[i], low) + 1 + low]
           h == [i \in 0 .. n |-> Len(Code(First(v, i), low))]
<1>1. ASSUME NEW i \in 1 .. n PROVE Quotient(v[i], low) \in Nat
  <2>1. v[i] \in Int OBVIOUS
  <2> QED BY <2>1, QuotientNat
<1>2. s \in [1 .. n -> Nat] /\ s \in [1 .. n -> Int] BY <1>1
<1>3. PartialSums(n, s, h)
  <2>1. ASSUME NEW i \in 0 .. n PROVE First(v, i) \in [1 .. i -> Int] BY DEF First
  <2>2. ASSUME NEW i \in 0 .. n PROVE h[i] \in Int
    <3>1. i \in Nat OBVIOUS
    <3>2. Len(Code(First(v, i), low)) \in Nat BY <2>1, <3>1, CodeType
    <3> QED BY <3>2
  <2>3. h[0] = 0
    <3>1. First(v, 0) \in [1 .. 0 -> Int] /\ 0 \in 0 .. n BY <2>1
    <3>2. Code(First(v, 0), low) = <<>> BY <3>1, CodeNone
    <3> QED BY <3>1, <3>2
  <2>4. ASSUME NEW i \in 1 .. n PROVE h[i] = h[i - 1] + s[i]
    <3>1. PICK j \in 0 .. n - 1 : j = i - 1 /\ i = j + 1 /\ j \in Nat /\ j \in 0 .. n OBVIOUS
    <3>0. /\ First(v, j) \in [1 .. j -> Int] /\ First(v, j + 1) \in [1 .. j + 1 -> Int] /\ v[j + 1] \in Int
          /\ \A k \in 1 .. j : First(v, j + 1)[k] = First(v, j)[k]
          /\ First(v, j + 1)[j + 1] = v[j + 1]
      BY <3>1, FirstFacts
    <3>2. PICK a \in [1 .. j -> Int], b \in [1 .. j + 1 -> Int], x \in Int :
            /\ a = First(v, j) /\ b = First(v, j + 1) /\ b[j + 1] = x /\ x = v[j + 1]
            /\ \A k \in 1 .. j : a[k] = b[k]
      BY <3>0, Zenon
    <3> DEFINE c == Code(a, low)
               e == EncodeOne(x, low)
    <3>3. Code(b, low) = c \o e
      <4>1. Code(b, low) = Code(a, low) \o EncodeOne(b[j + 1], low) BY <3>1, <3>2, CodeMore
      <4> QED BY <3>2, <4>1
    <3>4. c \in BitSeq /\ Len(c) \in Nat BY <3>1, CodeType
    <3>5. e \in BitSeq /\ Len(e) = Quotient(x, low) + 1 + low BY EncodeOneFacts DEF Coded
    <3>6. Len(c \o e) = Len(c) + Len(e) BY <3>4, <3>5, JoinFacts DEF Joined
    <3>7. h[i] = Len(Code(b, low)) /\ h[i - 1] = Len(c) BY <3>1, <3>2
    <3>8. s[i] = Quotient(x, low) + 1 + low BY <3>1, <3>2
    <3> HIDE DEF c, e, h, s
    <3> QED BY <3>3, <3>5, <3>6, <3>7, <3>8
  <2>5. h \in [0 .. n -> Int] BY <2>2
  <2> HIDE DEF h, s
  <2> QED BY <2>3, <2>4, <2>5 DEF PartialSums
<1>4. Sum(s) = h[n]
  <2> HIDE DEF h, s
  <2> QED BY <1>2, <1>3, SumBy
<1>5. h[n] = Len(Code(v, low))
  <2>1. First(v, n) = v /\ n \in 0 .. n BY DEF First
  <2> QED BY <2>1
<1>6. WireBits(v, low) = Sum(s)
  <2>1. DOMAIN v = 1 .. n OBVIOUS
  <2> QED BY <2>1 DEF WireBits
<1> QED BY <1>2, <1>4, <1>5, <1>6

\* Zero in bits.
LEMMA ZeroBits ==
  ASSUME NEW k \in Nat
  PROVE  \A i \in 1 .. k : BitsOf(0, k)[i] = 0
<1> SUFFICES ASSUME NEW i \in 1 .. k PROVE BitsOf(0, k)[i] = 0 OBVIOUS
<1>1. BitsOf(0, k)[i] = Bit(0, i - 1) BY BitsOfFacts
<1>2. PICK p \in Nat \ {0} : p = 2 ^ (i - 1)
  <2>1. i - 1 \in Nat OBVIOUS
  <2> QED BY <2>1, PowerFacts
<1>3. 0 \div p = 0
  <2>1. 0 = p * 0 + 0 /\ 0 \in 0 .. p - 1 OBVIOUS
  <2> QED BY <2>1, DivUnique
<1>4. 0 % 2 = 0 OBVIOUS
<1> QED BY <1>1, <1>2, <1>3, <1>4 DEF Bit

\* The payload of a response.
PayloadOf(v, low) == Code(v, low) \o BitsOf(0, PaddingBits(Len(Code(v, low))))

\* The payload is whole bytes, begins with the code and is padded with zeros;
\* no other sequence of bits is.
LEMMA PayloadFacts ==
  ASSUME NEW n \in Nat, NEW v \in [1 .. n -> Int], NEW low \in Nat
  PROVE  LET c == Code(v, low)
             p == PayloadOf(v, low)
         IN  /\ p \in Payloads /\ Len(c) \in Nat /\ Len(p) = Len(c) + PaddingBits(Len(c))
             /\ Lies(p, 0, c) /\ CanonicalPadding(p, Len(c))
             /\ \A b \in BitSeq : Lies(b, 0, c) /\ CanonicalPadding(b, Len(c)) => b = p
<1> DEFINE c == Code(v, low)
           z == BitsOf(0, PaddingBits(Len(c)))
           p == PayloadOf(v, low)
<1>1. c \in BitSeq /\ Len(c) \in Nat BY CodeType
<1>2. PICK m \in Nat, k \in Nat : m = Len(c) /\ k = PaddingBits(m) /\ (m + k) % ByteBits = 0
  BY <1>1, PadFacts
<1>3. z \in BitSeq /\ Len(z) = k /\ \A i \in 1 .. k : z[i] = 0 BY <1>2, BitsOfFacts, ZeroBits
<1>4. p = c \o z BY DEF PayloadOf
<1> HIDE DEF c, z, p
<1>5. Joined(c, z, p) BY <1>1, <1>3, <1>4, JoinFacts
<1>6. p \in BitSeq /\ Len(p) = m + k /\ (\A i \in 1 .. m : p[i] = c[i]) /\ \A i \in 1 .. k : p[m + i] = 0
  BY <1>2, <1>3, <1>5 DEF Joined
<1>7. p \in Payloads BY <1>2, <1>6 DEF Payloads
<1>8. Lies(p, 0, c)
  <2>1. Lies(p, 0, p)
    <3>1. Len(p) \in Nat /\ \A j \in 1 .. Len(p) : 0 + j = j BY <1>2, <1>6
    <3> QED BY <3>1 DEF Lies
  <2> QED BY <1>1, <1>3, <1>4, <1>6, <2>1, LiesJoin
<1>9. CanonicalPadding(p, Len(c))
  <2>1. ASSUME NEW i \in m + 1 .. m + k PROVE p[i] = 0
    <3>1. i - m \in 1 .. k /\ m + (i - m) = i OBVIOUS
    <3>2. p[m + (i - m)] = 0 BY <1>6, <3>1
    <3> QED BY <3>1, <3>2
  <2> QED BY <1>2, <1>6, <2>1 DEF CanonicalPadding
<1>10. ASSUME NEW b \in BitSeq, Lies(b, 0, c), CanonicalPadding(b, Len(c)) PROVE b = p
  <2>1. Len(b) = m + k /\ \A i \in m + 1 .. m + k : b[i] = 0 BY <1>2, <1>10 DEF CanonicalPadding
  <2>2. \A j \in 1 .. m : b[0 + j] = c[j] BY <1>2, <1>10 DEF Lies
  <2>3. ASSUME NEW i \in 1 .. m + k PROVE b[i] = p[i]
    <3>1. CASE i \in 1 .. m
      <4>1. 0 + i = i OBVIOUS
      <4> QED BY <1>6, <2>2, <3>1, <4>1
    <3>2. CASE ~(i \in 1 .. m)
      <4>1. i \in m + 1 .. m + k /\ i - m \in 1 .. k /\ m + (i - m) = i BY <3>2
      <4>2. p[m + (i - m)] = 0 BY <1>6, <4>1
      <4> QED BY <2>1, <4>1, <4>2
    <3> QED BY <3>1, <3>2
  <2>4. \A x, y \in BitSeq : Len(x) = Len(y) /\ (\A i \in 1 .. Len(x) : x[i] = y[i]) => x = y BY DEF BitSeq
  <2> QED BY <1>6, <2>1, <2>3, <2>4
<1> QED BY <1>2, <1>6, <1>7, <1>8, <1>9, <1>10 DEF c, p

\* golomb_rice_encode_vec returns the payload.
LEMMA EncodeVecIs ==
  ASSUME NEW v, NEW low, NEW w
  PROVE  EncodeVec(v, low, w) = IF \A i \in DOMAIN v : InWidth(v[i], w) THEN Ok(PayloadOf(v, low)) ELSE Refused
BY Zenon DEF EncodeVec, PayloadOf, Code, Codes

\* The scheduled shapes are shapes of groups.
LEMMA GroupFacts ==
  ASSUME NEW s \in TailShapes
  PROVE  IsGroup(Group(s)) /\ Group(s).coords = s[1] /\ s[1] \in Nat
<1>1. s[1] \in Nat /\ s[2] \in Nat \ {0} /\ s[3] \in Nat /\ (s[3] = 0 => s[2] <= I16Max)
      /\ I16Max \in Nat /\ ByteBits \in Nat \ {0}
  BY TailAssumption
<1>2. PICK c \in Nat : c = CapRiceLowBits(s[2])
  <2>1. CASE s[2] <= 1 BY <2>1 DEF CapRiceLowBits
  <2>2. CASE ~(s[2] <= 1)
    <3>1. HighBit(s[2]) \in Nat BY <1>1, HighBitFacts
    <3> QED BY <2>2, <3>1 DEF CapRiceLowBits
  <2> QED BY <2>1, <2>2
<1>3. PICK l \in Nat : l = WireRiceLowBits(s[2])
  <2>1. PICK k \in Int : k = c - 2 OBVIOUS
  <2>2. 0 \in Int OBVIOUS
  <2>3. Max({0, k}) \in {0, k} /\ Max({0, k}) >= 0 BY <2>1, <2>2, MaxPair, Zenon
  <2>4. Max({0, k}) \in Nat BY <2>1, <2>3
  <2>5. WireRiceLowBits(s[2]) = Max({0, k}) BY <1>2, <2>1 DEF WireRiceLowBits
  <2> QED BY <2>4, <2>5
<1>4. PICK b \in Nat : b = PayloadBudget(s[1], s[2])
  <2>1. PICK x \in Nat : x = s[1] * (c + 2)
    <3>1. \A y, z \in Nat : y * (z + 2) \in Nat OBVIOUS
    <3> QED BY <1>1, <3>1
  <2>2. DivCeil(x, ByteBits) \in Nat BY PadFacts
  <2> QED BY <1>2, <2>1, <2>2 DEF PayloadBudget
<1> DEFINE k == IF s[3] = 0 THEN s[2] ELSE NoCap
           g == [coords |-> s[1], cap |-> k, low |-> l, bytes |-> b, energy |-> s[3]]
<1>5. Group(s) = g BY <1>3, <1>4 DEF Group
<1>6. k \in Nat /\ k <= I16Max BY <1>1 DEF NoCap
<1> HIDE DEF k
<1>7. g.coords = s[1] /\ g.cap = k /\ g.low = l /\ g.bytes = b /\ g.energy = s[3] OBVIOUS
<1> HIDE DEF g
<1> QED BY <1>1, <1>5, <1>6, <1>7 DEF IsGroup

\* Quotients grow with the numbers.
LEMMA DivGrows ==
  ASSUME NEW x \in Nat, NEW y \in Nat, x <= y, NEW p \in Nat \ {0}
  PROVE  x \div p <= y \div p
<1>1. PICK a \in Nat : a = x \div p /\ p * a <= x BY DivBack
<1>2. PICK b \in Nat : b = y \div p /\ y < p * b + p BY DivBack
<1>3. ~(b + 1 <= a)
  <2> SUFFICES ASSUME b + 1 <= a PROVE FALSE OBVIOUS
  <2>1. p * (b + 1) <= p * a BY TimesGrows
  <2>2. p * (b + 1) = p * b + p OBVIOUS
  <2> QED BY <1>1, <1>2, <2>1, <2>2
<1> QED BY <1>1, <1>2, <1>3

\* An odd number has the quotient of the even one below it.
LEMMA DivOdd ==
  ASSUME NEW b \in Nat, NEW p \in Nat \ {0}
  PROVE  (2 * b + 1) \div (2 * p) = (2 * b) \div (2 * p)
<1>1. PICK q \in Nat, r \in 0 .. p - 1 : b = p * q + r
  <2>1. b \div p \in Nat /\ b % p \in 0 .. p - 1 /\ b = p * (b \div p) + (b % p) BY DivBack
  <2> QED BY <2>1
<1>2. PICK d \in Nat \ {0}, e \in Nat : d = 2 * p /\ e = p * q OBVIOUS
<1>3. d * q = 2 * e BY <1>2
<1>4. 2 * b = d * q + 2 * r /\ 2 * b + 1 = d * q + (2 * r + 1) BY <1>1, <1>2, <1>3
<1>5. 2 * r \in 0 .. d - 1 /\ 2 * r + 1 \in 0 .. d - 1 /\ 2 * b \in Int /\ 2 * b + 1 \in Int /\ q \in Int
  BY <1>1, <1>2
<1>6. (2 * b) \div d = q /\ (2 * b + 1) \div d = q BY <1>4, <1>5, DivUnique
<1> QED BY <1>2, <1>6

\* A coefficient that the prover's search accepts.
Accepts(x, g) == IF g.cap # NoCap THEN Abs(x) <= g.cap ELSE x \in -(I16Max + 1) .. I16Max

\* It has a code, and fits in 16 bits.
LEMMA AcceptedFits ==
  ASSUME NEW g, IsGroup(g), NEW x \in Int, Accepts(x, g)
  PROVE  InWidth(x, Width(g)) /\ Converts(x, g)
<1>0. I16Max \in Nat /\ g.cap \in Nat /\ g.cap <= I16Max BY TailAssumption DEF IsGroup
<1>1. PICK b \in Nat : b = WireAbsBound(g) BY LimitNat
<1>2. -(b + 1) <= x /\ x <= b
  <2>1. CASE g.cap # NoCap BY <1>0, <1>1, <2>1 DEF Accepts, WireAbsBound, Abs
  <2>2. CASE g.cap = NoCap BY <1>0, <1>1, <2>2 DEF Accepts, WireAbsBound
  <2> QED BY <2>1, <2>2
<1>3. PICK w \in Nat \ {0}, p \in Nat : w = Width(g) /\ p = 2 ^ (w - 1) /\ b + 1 <= p
  <2>1. CASE b = 0
    <3>1. Width(g) = 1 BY <1>1, <2>1 DEF Width, ZigzagWidth
    <3>2. 2 ^ 0 = 1 BY PowerFacts
    <3>3. 1 - 1 = 0 /\ 1 \in Nat \ {0} OBVIOUS
    <3>4. 2 ^ (1 - 1) = 1 BY <3>2, <3>3, Zenon
    <3>5. PICK y \in Nat \ {0} : y = 1 OBVIOUS
    <3>6. PICK z \in Nat : z = 1 OBVIOUS
    <3>7. y = Width(g) /\ z = 2 ^ (y - 1) /\ b + 1 <= z BY <2>1, <3>1, <3>4, <3>5, <3>6
    <3> HIDE <3>5, <3>6
    <3> QED BY <3>7, Zenon
  <2>2. CASE b # 0
    <3>1. PICK h \in Nat : h = HighBit(b) /\ b < 2 ^ (h + 1) BY <2>2, HighBitFacts
    <3>2. Width(g) = h + 2 BY <1>1, <2>2, <3>1 DEF Width, ZigzagWidth
    <3>3. h + 1 \in Nat /\ (h + 2) - 1 = h + 1 /\ h + 2 \in Nat \ {0} OBVIOUS
    <3>4. PICK p \in Nat : p = 2 ^ (h + 1) BY <3>3, PowerFacts
    <3> QED BY <3>1, <3>2, <3>3, <3>4
  <2> QED BY <2>1, <2>2
<1>4. InWidth(x, Width(g)) BY <1>2, <1>3 DEF InWidth
<1>5. Converts(x, g)
  <2>1. CASE g.cap # NoCap BY <1>0, <2>1 DEF Accepts, Converts, Abs
  <2>2. CASE g.cap = NoCap BY <1>0, <2>2 DEF Accepts, Converts
  <2> QED BY <2>1, <2>2
<1> QED BY <1>4, <1>5

\* Its quotient is within the limit of the decoder, but for i16::MIN on the
\* L2 route without low bits.
LEMMA AcceptedQuotient ==
  ASSUME NEW g, IsGroup(g), NEW x \in Int, Accepts(x, g), ~(g.cap = NoCap /\ g.low = 0 /\ x = -(I16Max + 1))
  PROVE  Quotient(x, g.low) <= LimitOf(g)
<1>0. I16Max \in Nat /\ g.cap \in Nat BY TailAssumption DEF IsGroup
<1>1. PICK b \in Nat : b = WireAbsBound(g) BY LimitNat
<1>2. PICK low \in Nat : low = g.low BY DEF IsGroup
<1>3. PICK p \in Nat \ {0} : p = 2 ^ low BY PowerFacts
<1>4. LimitOf(g) = (2 * b) \div p BY <1>1, <1>2, <1>3 DEF LimitOf, QuotientLimit, Quotient, Zigzag
<1>5. PICK z \in Nat : z = Zigzag(x) BY ZigzagFacts
<1>6. Quotient(x, g.low) = z \div p BY <1>2, <1>3, <1>5 DEF Quotient
<1>7. CASE z <= 2 * b
  <2>1. 2 * b \in Nat OBVIOUS
  <2>2. z \div p <= (2 * b) \div p BY <1>7, <2>1, DivGrows
  <2> QED BY <1>4, <1>6, <2>2
<1>8. CASE ~(z <= 2 * b)
  <2>1. g.cap = NoCap /\ x = -(I16Max + 1) /\ b = I16Max
    <3>1. CASE g.cap # NoCap
      <4>1. b = g.cap /\ Abs(x) <= b BY <1>0, <1>1, <3>1 DEF Accepts, WireAbsBound
      <4> QED BY <1>5, <1>8, <4>1 DEF Zigzag, Abs
    <3>2. CASE g.cap = NoCap
      <4>1. b = I16Max /\ -(b + 1) <= x /\ x <= b BY <1>0, <1>1, <3>2 DEF Accepts, WireAbsBound
      <4> QED BY <1>5, <1>8, <3>2, <4>1 DEF Zigzag
    <3> QED BY <3>1, <3>2
  <2>2. low # 0 BY <1>2, <2>1
  <2>3. z = 2 * b + 1 BY <1>5, <2>1 DEF Zigzag
  <2>4. PICK d \in Nat \ {0} : p = 2 * d
    <3>1. low - 1 \in Nat /\ (low - 1) + 1 = low BY <2>2
    <3>2. 2 ^ (low - 1) \in Nat \ {0} /\ 2 ^ ((low - 1) + 1) = 2 * 2 ^ (low - 1) BY <3>1, PowerFacts
    <3> QED BY <1>3, <3>1, <3>2
  <2>5. (2 * b + 1) \div (2 * d) = (2 * b) \div (2 * d) BY DivOdd
  <2>6. (2 * b) \div p \in Nat
    <3>1. 2 * b \in Nat OBVIOUS
    <3> QED BY <3>1, DivBack
  <2> QED BY <1>4, <1>6, <2>3, <2>4, <2>5, <2>6
<1> QED BY <1>7, <1>8

\* A response that the search accepts is encoded within its budget.
LEMMA AcceptedBuilt ==
  ASSUME NEW g, IsGroup(g), NEW v \in [1 .. g.coords -> Int], SearchAccepts(v, g)
  PROVE  /\ BuildPayload(v, g) = Ok(PayloadOf(v, g.low))
         /\ PayloadOf(v, g.low) \in Payloads /\ Len(PayloadOf(v, g.low)) <= g.bytes * ByteBits
<1>1. PICK n \in Nat, low \in Nat, k \in Nat : n = g.coords /\ low = g.low /\ k = g.bytes BY DEF IsGroup
<1>2. v \in [1 .. n -> Int] /\ DOMAIN v = 1 .. n /\ Len(v) = n BY <1>1
<1> DEFINE c == Code(v, low)
           p == PayloadOf(v, low)
<1>3. p \in Payloads /\ Len(c) \in Nat /\ Len(p) = Len(c) + PaddingBits(Len(c)) BY <1>1, <1>2, PayloadFacts
<1>4. \A i \in 1 .. n : Accepts(v[i], g) BY <1>2 DEF SearchAccepts, Accepts
<1>5. \A i \in 1 .. n : InWidth(v[i], Width(g))
  <2> SUFFICES ASSUME NEW i \in 1 .. n PROVE InWidth(v[i], Width(g)) OBVIOUS
  <2>1. v[i] \in Int /\ Accepts(v[i], g) BY <1>2, <1>4
  <2> QED BY <2>1, AcceptedFits
<1>6. WireBits(v, low) <= k * ByteBits BY <1>1 DEF SearchAccepts
<1>7. WireBits(v, low) = Len(c) BY <1>1, <1>2, LenCode, ZenonT(30)
<1>8. Len(p) <= k * ByteBits
  <2> HIDE DEF c, p
  <2>1. Len(c) + PaddingBits(Len(c)) <= k * ByteBits BY <1>3, <1>6, <1>7, PadFacts
  <2> QED BY <1>3, <2>1
<1>9. WithinCap(v, g) BY <1>2, <1>4 DEF WithinCap, Accepts
<1>10. EncodeVec(v, g.low, Width(g)) = Ok(p) BY <1>1, <1>2, <1>5, EncodeVecIs
<1> DEFINE e == EncodeVec(v, g.low, Width(g))
<1>11. BuildPayload(v, g) = IF /\ Len(v) = g.coords /\ WithinCap(v, g) /\ e # Refused
                               /\ Len(e[1]) <= g.bytes * ByteBits
                            THEN e ELSE Refused
  BY Zenon DEF BuildPayload
<1> HIDE DEF p, e
<1>12. e = Ok(p) /\ e # Refused /\ e[1] = p BY <1>10, OkFacts DEF e
<1>13. BuildPayload(v, g) = Ok(p) BY <1>1, <1>2, <1>8, <1>9, <1>11, <1>12
<1> QED BY <1>1, <1>3, <1>8, <1>13 DEF p

\* And decoded to the same values.
LEMMA AcceptedDecoded ==
  ASSUME NEW g, IsGroup(g), NEW v \in [1 .. g.coords -> Int], SearchAccepts(v, g), ~BeyondLimit(v, g)
  PROVE  VerifierTakes(PayloadOf(v, g.low), g) = Ok(v)
<1>1. PICK n \in Nat, low \in Nat : n = g.coords /\ low = g.low BY DEF IsGroup
<1>2. v \in [1 .. n -> Int] /\ DOMAIN v = 1 .. n BY <1>1
<1> DEFINE p == PayloadOf(v, low)
<1>3. p \in Payloads /\ Lies(p, 0, Code(v, low)) /\ CanonicalPadding(p, Len(Code(v, low)))
  BY <1>1, <1>2, PayloadFacts
<1>4. Len(p) <= g.bytes * ByteBits BY <1>1, AcceptedBuilt
<1>5. AllTaken(v, g)
  <2> SUFFICES ASSUME NEW i \in 1 .. n PROVE Takes(v[i], g) BY <1>2 DEF AllTaken
  <2>1. v[i] \in Int /\ Accepts(v[i], g) BY <1>2 DEF SearchAccepts, Accepts
  <2>2. ~(g.cap = NoCap /\ g.low = 0 /\ v[i] = -(I16Max + 1)) BY <1>2 DEF BeyondLimit
  <2>3. InWidth(v[i], Width(g)) /\ Converts(v[i], g) BY <2>1, AcceptedFits
  <2>4. Quotient(v[i], g.low) <= LimitOf(g) BY <2>1, <2>2, AcceptedQuotient
  <2> QED BY <2>3, <2>4 DEF Takes
<1>6. Good(p, g, v) BY <1>1, <1>3, <1>5 DEF Good
<1>7. DecodePayload(p, g) = Ok(v)
  <2> HIDE DEF p
  <2> QED BY <1>1, <1>3, <1>4, <1>6, DecodePayloadExact
<1>8. g.energy # 0 => Energy(v) <= g.energy BY DEF SearchAccepts
<1> DEFINE z == DecodePayload(p, g)
<1>9. VerifierTakes(p, g) = IF z # Refused /\ (g.energy # 0 => Energy(z[1]) <= g.energy) THEN z ELSE Refused
  BY Zenon DEF VerifierTakes
<1> HIDE DEF p, z
<1>10. z # Refused /\ z[1] = v /\ z = Ok(v) BY <1>7, OkFacts DEF z
<1>11. VerifierTakes(p, g) = Ok(v) BY <1>8, <1>9, <1>10
<1> QED BY <1>1, <1>11 DEF p

\* What the verifier takes is the payload of what it decodes.
LEMMA TakenCanonical ==
  ASSUME NEW bits \in Payloads, NEW g, IsGroup(g), VerifierTakes(bits, g) # Refused
  PROVE  EncodeVec(VerifierTakes(bits, g)[1], g.low, Width(g)) = Ok(bits)
<1>1. PICK n \in Nat, low \in Nat : n = g.coords /\ low = g.low BY DEF IsGroup
<1> DEFINE z == DecodePayload(bits, g)
<1>2. VerifierTakes(bits, g) = IF z # Refused /\ (g.energy # 0 => Energy(z[1]) <= g.energy) THEN z ELSE Refused
  BY Zenon DEF VerifierTakes
<1>3. z # Refused /\ VerifierTakes(bits, g) = z BY <1>2
<1>4. PICK v \in [1 .. g.coords -> Int] :
        /\ Good(bits, g, v) /\ CanonicalPadding(bits, Len(Code(v, g.low))) /\ z = Ok(v)
  BY <1>3, DecodePayloadExact
<1>5. v \in [1 .. n -> Int] /\ DOMAIN v = 1 .. n BY <1>1, <1>4
<1>6. bits = PayloadOf(v, low)
  <2>1. bits \in BitSeq BY DEF Payloads
  <2>2. Lies(bits, 0, Code(v, low)) /\ CanonicalPadding(bits, Len(Code(v, low))) BY <1>1, <1>4 DEF Good
  <2> QED BY <1>1, <1>5, <2>1, <2>2, PayloadFacts
<1>7. \A i \in DOMAIN v : InWidth(v[i], Width(g)) BY <1>4 DEF Good, AllTaken, Takes
<1>8. EncodeVec(v, g.low, Width(g)) = Ok(bits) BY <1>1, <1>6, <1>7, EncodeVecIs
<1>9. VerifierTakes(bits, g)[1] = v BY <1>3, <1>4, OkFacts
<1> QED BY <1>8, <1>9

\* A square is not negative.
LEMMA SquareNat ==
  ASSUME NEW x \in Int
  PROVE  x * x \in Nat /\ Abs(x) * Abs(x) = x * x
<1>1. CASE x >= 0 BY <1>1 DEF Abs
<1>2. CASE x < 0
  <2>1. PICK y \in Nat : x = -y BY <1>2
  <2>2. x * x = y * y BY <2>1
  <2>3. Abs(x) = y BY <1>2, <2>1 DEF Abs
  <2> QED BY <2>2, <2>3
<1> QED BY <1>1, <1>2

\* One step of the inequality of Cauchy and Schwarz.
LEMMA SquareStep ==
  ASSUME NEW i \in Nat, NEW s \in Int, NEW q \in Nat, s * s <= i * q, NEW x \in Int
  PROVE  (s + x) * (s + x) <= (i + 1) * (q + x * x)
<1>1. PICK ss \in Nat : ss = s * s BY SquareNat
<1>2. PICK xx \in Nat : xx = x * x BY SquareNat
<1>3. PICK sx \in Int : sx = s * x OBVIOUS
<1>4. PICK iq \in Nat, ixx \in Nat : iq = i * q /\ ixx = i * xx OBVIOUS
<1>5. (s + x) * (s + x) = ss + 2 * sx + xx
  <2>1. (s + x) * (s + x) = s * s + 2 * (s * x) + x * x OBVIOUS
  <2> QED BY <1>1, <1>2, <1>3, <2>1
<1>6. (i + 1) * (q + xx) = iq + ixx + q + xx BY <1>4
<1>7. ss <= iq BY <1>1, <1>4
<1>8. CASE i = 0
  <2>1. iq = 0 /\ ixx = 0 BY <1>4, <1>8
  <2>2. ss = 0 BY <1>7, <2>1
  <2>3. s = 0
    <3>1. CASE s > 0
      <4>1. s * s > 0 BY <3>1
      <4> QED BY <1>1, <2>2, <4>1
    <3>2. CASE s < 0
      <4>1. PICK y \in Nat \ {0} : s = -y BY <3>2
      <4>2. s * s = y * y /\ y * y > 0 BY <4>1
      <4> QED BY <1>1, <2>2, <4>2
    <3> QED BY <3>1, <3>2
  <2>4. sx = 0 BY <1>3, <2>3
  <2> QED BY <1>2, <1>5, <1>6, <2>1, <2>2, <2>4
<1>9. CASE i # 0
  <2>1. PICK t \in Int : t = ixx + q - 2 * sx OBVIOUS
  <2>2. PICK iixx \in Int, isx \in Int : iixx = i * ixx /\ isx = i * sx OBVIOUS
  <2>3. i * t = iixx + iq - 2 * isx
    <3>1. i * (ixx + q - 2 * sx) = i * ixx + i * q - 2 * (i * sx) OBVIOUS
    <3> QED BY <1>4, <2>1, <2>2, <3>1
  <2>4. iixx + ss - 2 * isx >= 0
    <3>1. PICK y \in Int : y = i * x - s OBVIOUS
    <3>2. y * y \in Nat BY SquareNat
    <3>3. y * y = (i * x) * (i * x) - 2 * ((i * x) * s) + s * s
      <4>1. PICK u \in Int : u = i * x OBVIOUS
      <4>2. (u - s) * (u - s) = u * u - 2 * (u * s) + s * s OBVIOUS
      <4> QED BY <3>1, <4>1, <4>2
    <3>4. (i * x) * (i * x) = i * (i * (x * x)) /\ (i * x) * s = i * (s * x) OBVIOUS
    <3>5. y * y = iixx - 2 * isx + ss BY <1>1, <1>2, <1>3, <1>4, <2>2, <3>3, <3>4
    <3> QED BY <3>2, <3>5
  <2>5. i * t >= 0 BY <1>7, <2>3, <2>4
  <2>6. t >= 0
    <3> SUFFICES ASSUME t <= -1 PROVE FALSE OBVIOUS
    <3>1. i * t <= i * (-1) BY TimesGrows
    <3>2. i * (-1) = -i OBVIOUS
    <3> QED BY <1>9, <2>5, <3>1, <3>2
  <2> QED BY <1>2, <1>5, <1>6, <1>7, <2>1, <2>6
<1> QED BY <1>8, <1>9

\* The inequality of Cauchy and Schwarz against a list of ones.
LEMMA CauchySchwarz ==
  ASSUME NEW n \in Nat, NEW a \in [1 .. n -> Nat], NEW q \in [1 .. n -> Nat],
         \A i \in 1 .. n : q[i] = a[i] * a[i]
  PROVE  Sum(a) \in Nat /\ Sum(q) \in Nat /\ Sum(a) * Sum(a) <= n * Sum(q)
<1>0. a \in [1 .. n -> Int] /\ q \in [1 .. n -> Int] OBVIOUS
<1>1. /\ \A m \in 0 .. n : SumTo(a, m) \in Int
      /\ SumTo(a, 0) = 0 /\ SumTo(a, n) = Sum(a)
      /\ \A m \in 1 .. n : SumTo(a, m) = SumTo(a, m - 1) + a[m]
  BY <1>0, SumToSums
<1>2. /\ SumTo(q, 0) = 0 /\ SumTo(q, n) = Sum(q)
      /\ \A m \in 1 .. n : SumTo(q, m) = SumTo(q, m - 1) + q[m]
  BY <1>0, SumToSums
<1>3. \A m \in 0 .. n : SumTo(q, m) \in Nat /\ SumTo(a, m) \in Nat
  <2>1. 0 \in 0 .. n OBVIOUS
  <2> QED BY <2>1, SumToGrows
<1> DEFINE T == {i \in 0 .. n : SumTo(a, i) * SumTo(a, i) <= i * SumTo(q, i)}
<1>4. 0 \in T BY <1>1, <1>2
<1>5. ASSUME NEW i \in 0 .. n - 1, i \in T PROVE i + 1 \in T
  <2>1. i + 1 \in 1 .. n /\ (i + 1) - 1 = i /\ i + 1 \in 0 .. n /\ i \in 0 .. n /\ i \in Nat OBVIOUS
  <2>2. PICK s \in Int, y \in Nat, x \in Int : s = SumTo(a, i) /\ y = SumTo(q, i) /\ x = a[i + 1]
    <3>1. a[i + 1] \in Int BY <1>0, <2>1
    <3>2. SumTo(a, i) \in Int BY <1>1, <2>1
    <3>3. SumTo(q, i) \in Nat BY <1>3, <2>1
    <3> QED BY <3>1, <3>2, <3>3
  <2>3. s * s <= i * y BY <1>5, <2>2
  <2>4. (s + x) * (s + x) <= (i + 1) * (y + x * x) BY <2>1, <2>3, SquareStep
  <2>5. SumTo(a, i + 1) = s + x /\ SumTo(q, i + 1) = y + x * x BY <1>1, <1>2, <2>1, <2>2
  <2> QED BY <2>1, <2>4, <2>5
<1>6. \A i \in 0 .. n : i \in T
  <2> HIDE DEF T
  <2> QED BY <1>4, <1>5, UpTo
<1>7. n \in 0 .. n OBVIOUS
<1> QED BY <1>1, <1>2, <1>3, <1>6, <1>7

\* The integer square root.
LEMMA ISqrtFacts ==
  ASSUME NEW x \in Nat
  PROVE  ISqrt(x) \in Nat /\ \A s \in Nat : s * s <= x => s <= ISqrt(x)
<1> DEFINE T == {r \in Nat : x < (r + 1) * (r + 1)}
<1>1. x \in T
  <2>1. (x + 1) * (x + 1) = x * x + 2 * x + 1 /\ x * x \in Nat OBVIOUS
  <2>2. x < x * x + 2 * x + 1
    <3>1. PICK y \in Nat : y = x * x BY <2>1
    <3> QED BY <3>1
  <2> QED BY <2>1, <2>2
<1>2. PICK m \in T : \A k \in T : m <= k BY <1>1, LeastNumber
<1>3. m \in 0 .. x /\ x < (m + 1) * (m + 1) BY <1>1, <1>2
<1>4. m * m <= x
  <2>1. CASE m = 0 BY <2>1
  <2>2. CASE m # 0
    <3>1. m - 1 \in Nat /\ (m - 1) + 1 = m /\ m - 1 \notin T BY <1>2, <1>3, <2>2
    <3>2. ~(x < ((m - 1) + 1) * ((m - 1) + 1)) BY <3>1
    <3>3. ~(x < m * m) BY <3>1, <3>2
    <3>4. m * m \in Int OBVIOUS
    <3> QED BY <3>3, <3>4
  <2> QED BY <2>1, <2>2
<1> DEFINE r == CHOOSE k \in 0 .. x : k * k <= x /\ x < (k + 1) * (k + 1)
<1>5. r \in 0 .. x /\ r * r <= x /\ x < (r + 1) * (r + 1) BY <1>3, <1>4, Zenon
<1>6. ISqrt(x) = r BY DEF ISqrt
<1> HIDE DEF r
<1>7. ASSUME NEW s \in Nat, s * s <= x, ~(s <= r) PROVE FALSE
  <2>1. r \in Nat /\ r + 1 <= s BY <1>5, <1>7
  <2>2. (r + 1) * (r + 1) <= (r + 1) * s BY <2>1, TimesGrows
  <2>3. s * (r + 1) <= s * s BY <2>1, TimesGrows
  <2>4. (r + 1) * s = s * (r + 1) BY <2>1
  <2>5. PICK a \in Int, b \in Int, c \in Int : a = (r + 1) * (r + 1) /\ b = s * (r + 1) /\ c = s * s BY <2>1
  <2> QED BY <1>5, <1>7, <2>2, <2>3, <2>4, <2>5
<1> QED BY <1>5, <1>6, <1>7

\* Quotients of a sum.
LEMMA DivSum ==
  ASSUME NEW x \in Nat, NEW y \in Nat, NEW p \in Nat \ {0}
  PROVE  (x \div p) + (y \div p) <= (x + y) \div p
<1>1. PICK a \in Nat : a = x \div p /\ p * a <= x BY DivBack
<1>2. PICK b \in Nat : b = y \div p /\ p * b <= y BY DivBack
<1>3. PICK c \in Nat : c = (x + y) \div p /\ x + y < p * c + p
  <2>1. x + y \in Nat OBVIOUS
  <2> QED BY <2>1, DivBack
<1>4. ~(c + 1 <= a + b)
  <2> SUFFICES ASSUME c + 1 <= a + b PROVE FALSE OBVIOUS
  <2>1. p * (c + 1) <= p * (a + b) BY TimesGrows
  <2>2. p * (c + 1) = p * c + p /\ p * (a + b) = p * a + p * b OBVIOUS
  <2> QED BY <1>1, <1>2, <1>3, <2>1, <2>2
<1> QED BY <1>1, <1>2, <1>3, <1>4

\* The length of the code against the sizes of the coefficients.
LEMMA WireBound ==
  ASSUME NEW n \in Nat, NEW v \in [1 .. n -> Int], NEW low \in Nat, NEW a \in [1 .. n -> Nat],
         \A i \in 1 .. n : a[i] = Abs(v[i])
  PROVE  Sum(a) \in Nat /\ WireBits(v, low) <= n * (low + 1) + ((2 * Sum(a)) \div 2 ^ low)
<1> DEFINE w == [i \in 1 .. n |-> Quotient(v[i], low) + 1 + low]
<1>0. w \in [1 .. n -> Nat] /\ w \in [1 .. n -> Int] /\ a \in [1 .. n -> Int]
  <2>1. w \in [1 .. n -> Nat] BY LenCode
  <2> HIDE DEF w
  <2> QED BY <2>1
<1>1. WireBits(v, low) = Sum(w)
  <2>1. DOMAIN v = 1 .. n OBVIOUS
  <2> QED BY <2>1 DEF WireBits
<1>2. \A i \in 1 .. n : w[i] = Quotient(v[i], low) + 1 + low OBVIOUS
<1> HIDE DEF w
<1>3. PICK p \in Nat \ {0} : p = 2 ^ low BY PowerFacts
<1>4. /\ \A m \in 0 .. n : SumTo(w, m) \in Int
      /\ SumTo(w, 0) = 0 /\ SumTo(w, n) = Sum(w)
      /\ \A m \in 1 .. n : SumTo(w, m) = SumTo(w, m - 1) + w[m]
  BY <1>0, SumToSums
<1>5. /\ SumTo(a, 0) = 0 /\ SumTo(a, n) = Sum(a)
      /\ \A m \in 1 .. n : SumTo(a, m) = SumTo(a, m - 1) + a[m]
  BY <1>0, SumToSums
<1>6. \A m \in 0 .. n : SumTo(a, m) \in Nat
  <2>1. 0 \in 0 .. n OBVIOUS
  <2> QED BY <2>1, SumToGrows
<1> DEFINE T == {i \in 0 .. n : SumTo(w, i) <= i * (low + 1) + ((2 * SumTo(a, i)) \div p)}
<1>7. 0 \in T
  <2>1. (2 * 0) \div p = 0
    <3>1. 0 = p * 0 + 0 /\ 0 \in 0 .. p - 1 /\ 2 * 0 = 0 OBVIOUS
    <3> QED BY <3>1, DivUnique
  <2>2. 0 * (low + 1) = 0 OBVIOUS
  <2> QED BY <1>4, <1>5, <2>1, <2>2
<1>8. ASSUME NEW i \in 0 .. n - 1, i \in T PROVE i + 1 \in T
  <2>1. i + 1 \in 1 .. n /\ (i + 1) - 1 = i /\ i + 1 \in 0 .. n /\ i \in 0 .. n /\ i \in Nat OBVIOUS
  <2>2. PICK s \in Int : s = SumTo(w, i) BY <1>4, <2>1
  <2>3. PICK y \in Nat : y = SumTo(a, i) BY <1>6, <2>1
  <2>4. PICK x \in Int : x = v[i + 1] BY <2>1
  <2>5. PICK z \in Nat, b \in Nat : z = Zigzag(x) /\ b = Abs(x) /\ z <= 2 * b BY ZigzagFacts
  <2>6. PICK q \in Nat : q = z \div p /\ q = Quotient(x, low)
    <3>1. z \div p \in Nat BY DivBack
    <3> QED BY <1>3, <2>5, <3>1 DEF Quotient
  <2>7. PICK d \in Nat, e \in Nat, f \in Nat : d = (2 * y) \div p /\ e = (2 * b) \div p /\ f = (2 * y + 2 * b) \div p
    <3>1. 2 * y \in Nat /\ 2 * b \in Nat /\ 2 * y + 2 * b \in Nat OBVIOUS
    <3>2. (2 * y) \div p \in Nat /\ (2 * b) \div p \in Nat /\ (2 * y + 2 * b) \div p \in Nat BY <3>1, DivBack
    <3> QED BY <3>2
  <2>8. q <= e
    <3>1. 2 * b \in Nat OBVIOUS
    <3> QED BY <2>5, <2>6, <2>7, <3>1, DivGrows
  <2>9. d + e <= f
    <3>1. 2 * y \in Nat /\ 2 * b \in Nat OBVIOUS
    <3>2. ((2 * y) \div p) + ((2 * b) \div p) <= (2 * y + 2 * b) \div p BY <3>1, DivSum
    <3> QED BY <2>7, <3>2
  <2>10. SumTo(w, i + 1) = s + (q + 1 + low) BY <1>2, <1>4, <2>1, <2>2, <2>4, <2>6
  <2>11. SumTo(a, i + 1) = y + b BY <1>5, <2>1, <2>3, <2>4, <2>5
  <2>12. PICK k \in Nat : k = i * (low + 1) BY <2>1
  <2>13. (i + 1) * (low + 1) = k + low + 1 BY <2>12
  <2>14. s <= k + d BY <1>8, <2>2, <2>3, <2>7, <2>12
  <2>15. s + (q + 1 + low) <= (k + low + 1) + f BY <2>8, <2>9, <2>14
  <2>16. (2 * (y + b)) \div p = f
    <3>1. 2 * (y + b) = 2 * y + 2 * b OBVIOUS
    <3> QED BY <2>7, <3>1
  <2> QED BY <2>1, <2>10, <2>11, <2>13, <2>15, <2>16
<1>9. \A i \in 0 .. n : i \in T
  <2> HIDE DEF T
  <2> QED BY <1>7, <1>8, UpTo
<1>10. n \in 0 .. n OBVIOUS
<1>11. SumTo(w, n) <= n * (low + 1) + ((2 * SumTo(a, n)) \div p) BY <1>9, <1>10
<1> QED BY <1>1, <1>3, <1>4, <1>5, <1>6, <1>10, <1>11

\* golomb_rice_l2_planner_payload_bytes covers every response within the
\* energy cap.
LEMMA EnergyCovers ==
  ASSUME NEW n \in Nat, NEW v \in [1 .. n -> Int], NEW low \in Nat, NEW cap \in Nat, Energy(v) <= cap
  PROVE  /\ L2PlannerBytes(n, cap, low) \in Nat
         /\ WireBits(v, low) <= L2PlannerBytes(n, cap, low) * ByteBits
<1> DEFINE a == [i \in 1 .. n |-> Abs(v[i])]
           q == [i \in 1 .. n |-> v[i] * v[i]]
<1>1. ASSUME NEW i \in 1 .. n PROVE Abs(v[i]) \in Nat /\ v[i] * v[i] \in Nat /\ Abs(v[i]) * Abs(v[i]) = v[i] * v[i]
  <2>1. PICK x \in Int : x = v[i] OBVIOUS
  <2>2. Abs(x) \in Nat BY ZigzagFacts
  <2> QED BY <2>1, <2>2, SquareNat
<1>2. a \in [1 .. n -> Nat] /\ q \in [1 .. n -> Nat] BY <1>1
<1>3. \A i \in 1 .. n : q[i] = a[i] * a[i] /\ a[i] = Abs(v[i]) BY <1>1
<1>4. Energy(v) = Sum(q)
  <2>1. DOMAIN v = 1 .. n OBVIOUS
  <2> QED BY <2>1 DEF Energy
<1> HIDE DEF a, q
<1>5. PICK s \in Nat, e \in Nat : s = Sum(a) /\ e = Sum(q) /\ s * s <= n * e /\ e <= cap
  BY <1>2, <1>3, <1>4, CauchySchwarz
<1>6. PICK x \in Nat : x = n * cap OBVIOUS
<1>7. s * s <= x
  <2>1. n * e <= n * cap BY <1>5, TimesGrows
  <2>2. PICK y \in Int, z \in Int : y = n * e /\ z = s * s OBVIOUS
  <2> QED BY <1>5, <1>6, <2>1, <2>2
<1>8. PICK r \in Nat : r = ISqrt(x) /\ s <= r BY <1>7, ISqrtFacts
<1>9. PICK p \in Nat \ {0} : p = 2 ^ low BY PowerFacts
<1>10. PICK d \in Nat, f \in Nat : d = (2 * s) \div p /\ f = (2 * r) \div p /\ d <= f
  <2>1. 2 * s \in Nat /\ 2 * r \in Nat /\ 2 * s <= 2 * r BY <1>8
  <2>2. (2 * s) \div p \in Nat /\ (2 * r) \div p \in Nat BY <2>1, DivBack
  <2>3. (2 * s) \div p <= (2 * r) \div p BY <2>1, DivGrows
  <2> QED BY <2>2, <2>3
<1>11. PICK k \in Nat : k = n * (low + 1) OBVIOUS
<1>12. WireBits(v, low) <= k + d BY <1>2, <1>3, <1>5, <1>9, <1>10, <1>11, WireBound
<1>13. k + f \in Nat OBVIOUS
<1>14. PICK t \in Nat, u \in Nat : /\ t = PaddingBits(k + f) /\ u = DivCeil(k + f, ByteBits)
                                   /\ (k + f) + t = u * ByteBits
  BY <1>13, PadFacts
<1>15. L2PlannerBytes(n, cap, low) = u BY <1>6, <1>8, <1>9, <1>10, <1>11, <1>14 DEF L2PlannerBytes
<1>16. PICK w \in Nat : w = WireBits(v, low)
  <2>1. WireBits(v, low) = Len(Code(v, low)) /\ Len(Code(v, low)) \in Nat BY LenCode, CodeType
  <2> QED BY <2>1
<1>17. w <= u * ByteBits
  <2>1. w <= (k + f) + t BY <1>10, <1>12, <1>16
  <2> QED BY <1>14, <2>1
<1> QED BY <1>15, <1>16, <1>17

\* The planner's price covers what is built.
LEMMA AcceptedPriced ==
  ASSUME NEW g, IsGroup(g), NEW v \in [1 .. g.coords -> Int], SearchAccepts(v, g)
  PROVE  Len(PayloadOf(v, g.low)) <= PlannerBytes(g) * ByteBits
<1>1. PICK n \in Nat, low \in Nat, k \in Nat, cap \in Nat :
        n = g.coords /\ low = g.low /\ k = g.bytes /\ cap = g.energy
  BY DEF IsGroup
<1>2. v \in [1 .. n -> Int] BY <1>1
<1>3. PICK len \in Nat, m \in Nat : /\ len = Len(PayloadOf(v, low)) /\ m = Len(Code(v, low))
                                    /\ len = m + PaddingBits(m) /\ len <= k * ByteBits
  <2>1. PayloadOf(v, low) \in Payloads /\ Len(PayloadOf(v, low)) <= k * ByteBits BY <1>1, AcceptedBuilt
  <2>2. Len(PayloadOf(v, low)) \in Nat BY <2>1 DEF Payloads, BitSeq
  <2>3. Len(Code(v, low)) \in Nat /\ Len(PayloadOf(v, low)) = Len(Code(v, low)) + PaddingBits(Len(Code(v, low)))
    BY <1>1, <1>2, PayloadFacts
  <2> QED BY <2>1, <2>2, <2>3
<1>4. CASE cap = 0
  <2>1. PlannerBytes(g) = k BY <1>1, <1>4 DEF PlannerBytes
  <2> QED BY <1>1, <1>3, <2>1
<1>5. CASE cap # 0
  <2>1. Energy(v) <= cap BY <1>1, <1>5 DEF SearchAccepts
  <2>2. PICK b \in Nat : b = L2PlannerBytes(n, cap, low) /\ WireBits(v, low) <= b * ByteBits
    BY <1>2, <2>1, EnergyCovers
  <2>3. m <= b * ByteBits
    <3>1. WireBits(v, low) = Len(Code(v, low)) BY <1>2, LenCode
    <3> QED BY <1>3, <2>2, <3>1
  <2>4. len <= b * ByteBits BY <1>3, <2>3, PadFacts
  <2>5. PlannerBytes(g) = Min({b, k}) BY <1>1, <1>5, <2>2 DEF PlannerBytes
  <2>6. Min({b, k}) \in {b, k}
    <3>1. b \in Int /\ k \in Int OBVIOUS
    <3> QED BY <3>1, MaxPair, Zenon
  <2>7. PlannerBytes(g) = b \/ PlannerBytes(g) = k BY <2>5, <2>6
  <2> QED BY <1>1, <1>3, <2>4, <2>7
<1> QED BY <1>4, <1>5

\* The stages of the two calls.
TailCall(g, v, o) ==
  /\ IsGroup(g) /\ v \in [1 .. g.coords -> Int]
  /\ call = [fn |-> "tail", arg |-> [group |-> g, values |-> v], out |-> o]
  /\ \/ o = <<>>
     \/ /\ SearchAccepts(v, g)
        /\ LET p == PayloadOf(v, g.low)
           IN  o \in {<<Ok(v)>>, <<Ok(v), Ok(p)>>, <<Ok(v), Ok(p), VerifierTakes(p, g)>>}

WireCall(g, bits, o) ==
  /\ IsGroup(g) /\ bits \in Payloads
  /\ call = [fn |-> "wire", arg |-> [group |-> g, bits |-> bits], out |-> o]
  /\ o \in {<<>>, <<VerifierTakes(bits, g)>>}

TailInv == (\E g, v, o : TailCall(g, v, o)) \/ (\E g, bits, o : WireCall(g, bits, o))

\* The responses are sequences of integers.
LEMMA ResponseType ==
  ASSUME NEW n \in Nat, NEW v \in Responses(n)
  PROVE  v \in [1 .. n -> Int]
<1>1. TailValues \subseteq Int BY TailAssumption
<1>2. CASE n <= TailDense
  <2>1. v \in [1 .. n -> TailValues] BY <1>2 DEF Responses
  <2> QED BY <1>1, <2>1
<1>3. CASE ~(n <= TailDense)
  <2>1. PICK k \in 1 .. n, x \in TailValues : v = [i \in 1 .. n |-> IF i = k THEN x ELSE 0] BY <1>3 DEF Responses
  <2>2. x \in Int BY <1>1
  <2> QED BY <2>1, <2>2
<1> QED BY <1>2, <1>3

\* The first states.
LEMMA TailInit == StartTail => TailInv
<1> SUFFICES ASSUME StartTail PROVE TailInv OBVIOUS
<1>1. CASE \E s \in TailShapes : \E values \in Responses(s[1]) :
              Starts("tail", [group |-> Group(s), values |-> values])
  <2>0. PICK s \in TailShapes : \E values \in Responses(s[1]) :
           Starts("tail", [group |-> Group(s), values |-> values])
    BY <1>1, Zenon
  <2>1. PICK v \in Responses(s[1]) : Starts("tail", [group |-> Group(s), values |-> v]) BY <2>0, Zenon
  <2>2. PICK g : g = Group(s) OBVIOUS
  <2>3. IsGroup(g) /\ g.coords = s[1] /\ s[1] \in Nat BY <2>2, GroupFacts
  <2>4. v \in [1 .. g.coords -> Int] BY <2>1, <2>3, ResponseType
  <2>5. TailCall(g, v, <<>>) BY <2>1, <2>2, <2>3, <2>4, Zenon DEF TailCall, Starts
  <2> QED BY <2>5 DEF TailInv
<1>2. CASE \E s \in TailShapes, n \in 0 .. TailBytes :
              \E bits \in [1 .. n * ByteBits -> {0, 1}] :
                 Starts("wire", [group |-> Group(s), bits |-> bits])
  <2>0. PICK s \in TailShapes, n \in 0 .. TailBytes :
           \E bits \in [1 .. n * ByteBits -> {0, 1}] :
              Starts("wire", [group |-> Group(s), bits |-> bits])
    BY <1>2, Zenon
  <2>1. PICK b \in [1 .. n * ByteBits -> {0, 1}] : Starts("wire", [group |-> Group(s), bits |-> b])
    BY <2>0, Zenon
  <2>2. PICK g : g = Group(s) OBVIOUS
  <2>3. IsGroup(g) BY <2>2, GroupFacts
  <2>4. b \in Payloads
    <3>1. ByteBits \in Nat \ {0} /\ n \in Nat BY TailAssumption
    <3>2. PICK m \in Nat : m = n * ByteBits BY <3>1
    <3>3. m % ByteBits = 0
      <4>1. n * ByteBits = ByteBits * n /\ n \in Int BY <3>1
      <4>2. (ByteBits * n) % ByteBits = 0 BY <3>1, <4>1, Multiple
      <4> QED BY <3>2, <4>1, <4>2
    <3>4. b \in [1 .. m -> {0, 1}] BY <2>1, <3>2
    <3>5. b \in BitSeq /\ Len(b) = m BY <3>4 DEF BitSeq
    <3> QED BY <3>3, <3>5 DEF Payloads
  <2>5. WireCall(g, b, <<>>) BY <2>1, <2>2, <2>3, <2>4, Zenon DEF WireCall, Starts
  <2> QED BY <2>5 DEF TailInv
<1> QED BY <1>1, <1>2 DEF StartTail

\* Equality of sequences.
LEMMA SameSeq ==
  ASSUME NEW S, NEW a \in Seq(S), NEW b \in Seq(S), Len(a) = Len(b), \A i \in 1 .. Len(a) : a[i] = b[i]
  PROVE  a = b
OBVIOUS

\* A sequence and one more entry.
LEMMA AppendIs ==
  ASSUME NEW S, NEW s \in Seq(S), NEW e \in S
  PROVE  /\ Append(s, e) \in Seq(S) /\ Len(Append(s, e)) = Len(s) + 1 /\ Append(s, e)[Len(s) + 1] = e
         /\ \A i \in 1 .. Len(s) : Append(s, e)[i] = s[i]
OBVIOUS

\* Lists of up to three entries.
LEMMA ListFacts ==
  ASSUME NEW x, NEW y, NEW z
  PROVE  /\ Len(<<>>) = 0 /\ Len(<<x>>) = 1 /\ Len(<<x, y>>) = 2 /\ Len(<<x, y, z>>) = 3
         /\ <<x>>[1] = x /\ <<x, y>>[1] = x /\ <<x, y>>[2] = y
         /\ <<x, y, z>>[1] = x /\ <<x, y, z>>[2] = y /\ <<x, y, z>>[3] = z
OBVIOUS

\* The results of the stages, one more.
LEMMA AppendOne ==
  ASSUME NEW x, NEW y, NEW z
  PROVE  Append(<<>>, x) = <<x>> /\ Append(<<x>>, y) = <<x, y>> /\ Append(<<x, y>>, z) = <<x, y, z>>
<1> DEFINE S == {x, y, z}
<1>1. <<>> \in Seq(S) /\ <<x>> \in Seq(S) /\ <<x, y>> \in Seq(S)
  OBVIOUS
<1>2. <<x, y, z>> \in Seq(S) OBVIOUS
<1>3. x \in S /\ y \in S /\ z \in S OBVIOUS
<1> HIDE DEF S
<1>4. PICK a \in Seq(S), b \in Seq(S), c \in Seq(S) : a = <<x>> /\ b = <<x, y>> /\ c = <<x, y, z>>
  BY <1>1, <1>2, Zenon
<1>5. /\ Len(a) = 1 /\ Len(b) = 2 /\ Len(c) = 3 /\ a[1] = x /\ b[1] = x /\ b[2] = y
      /\ c[1] = x /\ c[2] = y /\ c[3] = z
  BY <1>4, ListFacts, Zenon
<1>6. Append(a, y) = b
  <2>1. /\ Append(a, y) \in Seq(S) /\ Len(Append(a, y)) = 2
        /\ Append(a, y)[1] = x /\ Append(a, y)[2] = y
    <3>1. /\ Append(a, y) \in Seq(S) /\ Len(Append(a, y)) = Len(a) + 1 /\ Append(a, y)[Len(a) + 1] = y
          /\ \A i \in 1 .. Len(a) : Append(a, y)[i] = a[i]
      BY <1>3, AppendIs
    <3>2. Len(a) + 1 = 2 /\ 1 \in 1 .. Len(a) BY <1>5
    <3> QED BY <1>5, <3>1, <3>2, Zenon
  <2>2. \A i \in 1 .. 2 : i = 1 \/ i = 2 OBVIOUS
  <2>3. \A i \in 1 .. 2 : Append(a, y)[i] = b[i] BY <1>5, <2>1, <2>2
  <2> QED BY <1>5, <2>1, <2>3, SameSeq
<1>7. Append(b, z) = c
  <2>1. /\ Append(b, z) \in Seq(S) /\ Len(Append(b, z)) = 3
        /\ Append(b, z)[1] = x /\ Append(b, z)[2] = y /\ Append(b, z)[3] = z
    <3>1. /\ Append(b, z) \in Seq(S) /\ Len(Append(b, z)) = Len(b) + 1 /\ Append(b, z)[Len(b) + 1] = z
          /\ \A i \in 1 .. Len(b) : Append(b, z)[i] = b[i]
      BY <1>3, AppendIs
    <3>2. Len(b) + 1 = 3 /\ 1 \in 1 .. Len(b) /\ 2 \in 1 .. Len(b) BY <1>5
    <3> QED BY <1>5, <3>1, <3>2, Zenon
  <2>2. \A i \in 1 .. 3 : i = 1 \/ i = 2 \/ i = 3 OBVIOUS
  <2>3. \A i \in 1 .. 3 : Append(b, z)[i] = c[i] BY <1>5, <2>1, <2>2
  <2> QED BY <1>5, <2>1, <2>3, SameSeq
<1>8. Append(<<>>, x) = <<x>> OBVIOUS
<1> QED BY <1>4, <1>6, <1>7, <1>8, Zenon

\* A stage adds its result to the call.
LEMMA CallNow ==
  ASSUME NEW fn, NEW arg, NEW o, call = [fn |-> fn, arg |-> arg, out |-> o], NEW r, Returns(r)
  PROVE  call' = [fn |-> fn, arg |-> arg, out |-> Append(o, r)]
<1>1. call' = [call EXCEPT !.out = Append(call.out, r)] BY DEF Returns
<1>2. call.out = o OBVIOUS
<1> QED BY <1>1, <1>2

\* The four stages keep the invariant.
LEMMA TailStep == TailInv /\ [TailNext]_call => TailInv'
<1> SUFFICES ASSUME TailInv, [TailNext]_call PROVE TailInv' OBVIOUS
<1>1. CASE UNCHANGED call BY <1>1 DEF TailInv, TailCall, WireCall
<1>2. ASSUME NEW g, NEW v, NEW o, TailCall(g, v, o), TailNext PROVE TailInv'
  <2> DEFINE p == PayloadOf(v, g.low)
             a == [group |-> g, values |-> v]
  <2>0. IsGroup(g) /\ v \in [1 .. g.coords -> Int] BY <1>2 DEF TailCall
  <2>1. call = [fn |-> "tail", arg |-> a, out |-> o] BY <1>2 DEF TailCall
  <2>2. call.fn = "tail" /\ call.arg = a /\ call.out = o /\ a.group = g /\ a.values = v BY <2>1
  <2>3. o = <<>> \/ (SearchAccepts(v, g) /\ o \in {<<Ok(v)>>, <<Ok(v), Ok(p)>>, <<Ok(v), Ok(p), VerifierTakes(p, g)>>})
    BY <1>2, Zenon DEF TailCall
  <2> HIDE DEF p, a
  <2>4. CASE Search
    <3>1. SearchAccepts(v, g) /\ Returns(Ok(v)) /\ Len(o) = 0 BY <2>2, <2>4 DEF Search, At
    <3>2. o = <<>> BY <2>3, <3>1
    <3>3. call' = [fn |-> "tail", arg |-> a, out |-> Append(o, Ok(v))] BY <2>1, <3>1, CallNow
    <3>4. Append(o, Ok(v)) = <<Ok(v)>> BY <3>2
    <3>5. TailCall(g, v, <<Ok(v)>>)' BY <2>0, <3>1, <3>3, <3>4 DEF TailCall, a
    <3> QED BY <3>5 DEF TailInv
  <2>5. CASE Build
    <3>1. Len(o) = 1 /\ Returns(BuildPayload(o[1][1], g)) BY <2>2, <2>5 DEF Build, At
    <3>2. o = <<Ok(v)>> /\ SearchAccepts(v, g) BY <2>3, <3>1
    <3>3. o[1][1] = v BY <3>2, OkFacts
    <3>4. BuildPayload(v, g) = Ok(p) BY <2>0, <3>2, AcceptedBuilt DEF p
    <3>5. Returns(Ok(p)) BY <3>1, <3>3, <3>4
    <3>6. call' = [fn |-> "tail", arg |-> a, out |-> Append(o, Ok(p))] BY <2>1, <3>5, CallNow
    <3>7. Append(o, Ok(p)) = <<Ok(v), Ok(p)>> BY <3>2, AppendOne, Zenon
    <3>8. TailCall(g, v, <<Ok(v), Ok(p)>>)' BY <2>0, <3>2, <3>6, <3>7 DEF TailCall, a, p
    <3> QED BY <3>8 DEF TailInv
  <2>6. CASE DecodeBuilt
    <3>1. Len(o) = 2 /\ Returns(VerifierTakes(o[2][1], g)) BY <2>2, <2>6 DEF DecodeBuilt, At
    <3>2. o = <<Ok(v), Ok(p)>> /\ SearchAccepts(v, g) BY <2>3, <3>1
    <3>3. o[2][1] = p BY <3>2, OkFacts
    <3> DEFINE t == VerifierTakes(p, g)
    <3>4. Returns(t) BY <3>1, <3>3
    <3> HIDE DEF t
    <3>5. call' = [fn |-> "tail", arg |-> a, out |-> Append(o, t)] BY <2>1, <3>4, CallNow
    <3>6. Append(o, t) = <<Ok(v), Ok(p), t>> BY <3>2, AppendOne, Zenon
    <3>7. TailCall(g, v, <<Ok(v), Ok(p), t>>)' BY <2>0, <3>2, <3>5, <3>6 DEF TailCall, a, p, t
    <3> QED BY <3>7 DEF TailInv
  <2>7. CASE DecodeWire BY <2>2, <2>7 DEF DecodeWire, At
  <2> QED BY <1>2, <2>4, <2>5, <2>6, <2>7 DEF TailNext
<1>3. ASSUME NEW g, NEW bits, NEW o, WireCall(g, bits, o), TailNext PROVE TailInv'
  <2> DEFINE a == [group |-> g, bits |-> bits]
             t == VerifierTakes(bits, g)
  <2>0. IsGroup(g) /\ bits \in Payloads BY <1>3 DEF WireCall
  <2>1. call = [fn |-> "wire", arg |-> a, out |-> o] /\ o \in {<<>>, <<t>>} BY <1>3 DEF WireCall
  <2>2. call.fn = "wire" /\ call.arg = a /\ call.out = o /\ a.group = g /\ a.bits = bits BY <2>1
  <2> HIDE DEF a
  <2>3. DecodeWire BY <1>3, <2>2 DEF TailNext, Search, Build, DecodeBuilt, At
  <2>4. Len(o) = 0 /\ Returns(t) BY <2>2, <2>3 DEF DecodeWire, At
  <2> HIDE DEF t
  <2>5. o = <<>> BY <2>1, <2>4
  <2>6. call' = [fn |-> "wire", arg |-> a, out |-> Append(o, t)] BY <2>1, <2>4, CallNow
  <2>7. Append(o, t) = <<t>> BY <2>5
  <2>8. WireCall(g, bits, <<t>>)' BY <2>0, <2>6, <2>7 DEF WireCall, a, t
  <2> QED BY <2>8 DEF TailInv
<1> QED BY <1>1, <1>2, <1>3 DEF TailInv

\* The stages of a call return what TailInv says: after the search every result
\* of build_terminal_response is the payload of the accepted response, and what
\* follows is the verifier's answer to it.
THEOREM TailResponsesHold == TailSpec => []TailInv
BY TailInit, TailStep, PTL DEF TailSpec

\* TailDelivered from the invariant.
LEMMA TailInvDelivered == TailInv => TailDelivered
<1> SUFFICES ASSUME TailInv, call.fn = "tail"
             PROVE  /\ Len(call.out) >= 2 => call.out[2] # Refused
                    /\ Len(call.out) = 3 /\ ~BeyondLimit(call.arg.values, call.arg.group)
                          => call.out[3] = Ok(call.arg.values)
  BY DEF TailDelivered
<1>1. PICK g, v, o : TailCall(g, v, o)
  <2>1. ASSUME NEW g, NEW bits, NEW o, WireCall(g, bits, o) PROVE FALSE
    <3>1. call.fn = "wire" BY <2>1 DEF WireCall
    <3> QED BY <3>1
  <2> QED BY <2>1 DEF TailInv
<1> DEFINE p == PayloadOf(v, g.low)
           t == VerifierTakes(p, g)
<1>2. call.out = o /\ call.arg.values = v /\ call.arg.group = g BY <1>1 DEF TailCall
<1>3. IsGroup(g) /\ v \in [1 .. g.coords -> Int] BY <1>1 DEF TailCall
<1>4. o = <<>> \/ (SearchAccepts(v, g) /\ o \in {<<Ok(v)>>, <<Ok(v), Ok(p)>>, <<Ok(v), Ok(p), t>>})
  BY <1>1, Zenon DEF TailCall
<1>5. ASSUME SearchAccepts(v, g), ~BeyondLimit(v, g) PROVE t = Ok(v) BY <1>3, <1>5, AcceptedDecoded
<1> HIDE DEF p, t
<1>6. Len(o) >= 2 => o[2] # Refused BY <1>4, OkFacts
<1>7. ASSUME Len(o) = 3, ~BeyondLimit(v, g) PROVE o[3] = Ok(v)
  <2>1. PICK x, y : x = Ok(v) /\ y = Ok(p) OBVIOUS
  <2>2. Len(<<>>) = 0 /\ Len(<<x>>) = 1 /\ Len(<<x, y>>) = 2 BY ListFacts, Zenon
  <2>3. SearchAccepts(v, g) /\ o = <<x, y, t>>
    <3>1. o # <<>> /\ o # <<x>> /\ o # <<x, y>>
      <4>1. 0 # 3 /\ 1 # 3 /\ 2 # 3 OBVIOUS
      <4> QED BY <1>7, <2>2, <4>1, Zenon
    <3> QED BY <1>4, <2>1, <3>1, Zenon
  <2>4. o[3] = t BY <2>3, ListFacts, Zenon
  <2> QED BY <1>5, <1>7, <2>3, <2>4
<1> QED BY <1>2, <1>6, <1>7

\* For every byte width, coefficient range and schedule: a response that
\* sample_terminal_fold_response accepts is encoded within the scheduled budget
\* and decoded by the verifier to the same values, but for i16::MIN on the L2
\* route without low bits.
THEOREM TailIsDelivered == TailSpec => []TailDelivered
BY TailResponsesHold, TailInvDelivered, PTL

\* TailPriced from the invariant.
LEMMA TailInvPriced == TailInv => TailPriced
<1> SUFFICES ASSUME TailInv, call.fn = "tail", Len(call.out) >= 2
             PROVE  Len(call.out[2][1]) <= PlannerBytes(call.arg.group) * ByteBits
  BY DEF TailPriced
<1>1. PICK g, v, o : TailCall(g, v, o)
  <2>1. ASSUME NEW g, NEW bits, NEW o, WireCall(g, bits, o) PROVE FALSE
    <3>1. call.fn = "wire" BY <2>1 DEF WireCall
    <3> QED BY <3>1
  <2> QED BY <2>1 DEF TailInv
<1> DEFINE p == PayloadOf(v, g.low)
           t == VerifierTakes(p, g)
<1>2. call.out = o /\ call.arg.group = g BY <1>1 DEF TailCall
<1>3. IsGroup(g) /\ v \in [1 .. g.coords -> Int] BY <1>1 DEF TailCall
<1>4. o = <<>> \/ (SearchAccepts(v, g) /\ o \in {<<Ok(v)>>, <<Ok(v), Ok(p)>>, <<Ok(v), Ok(p), t>>})
  BY <1>1, Zenon DEF TailCall
<1>5. ASSUME SearchAccepts(v, g) PROVE Len(p) <= PlannerBytes(g) * ByteBits BY <1>3, <1>5, AcceptedPriced
<1> HIDE DEF p, t
<1>6. SearchAccepts(v, g) /\ o[2] = Ok(p) BY <1>2, <1>4
<1>7. o[2][1] = p BY <1>6, OkFacts
<1> QED BY <1>2, <1>5, <1>6, <1>7

\* golomb_rice_l2_planner_payload_bytes never prices a response below the payload
\* that is built for it: the inequality of Cauchy and Schwarz, the integer square
\* root and the rounding to bytes, for every number of coefficients.
THEOREM TailIsPriced == TailSpec => []TailPriced
BY TailResponsesHold, TailInvPriced, PTL

\* TailCanonical from the invariant.
LEMMA TailInvCanonical == TailInv => TailCanonical
<1> SUFFICES ASSUME TailInv, call.fn = "wire", Len(call.out) = 1, call.out[1] # Refused
             PROVE  EncodeVec(call.out[1][1], call.arg.group.low, Width(call.arg.group)) = Ok(call.arg.bits)
  BY DEF TailCanonical
<1>1. PICK g, bits, o : WireCall(g, bits, o)
  <2>1. ASSUME NEW g, NEW v, NEW o, TailCall(g, v, o) PROVE FALSE
    <3>1. call.fn = "tail" BY <2>1 DEF TailCall
    <3> QED BY <3>1
  <2> QED BY <2>1 DEF TailInv
<1> DEFINE t == VerifierTakes(bits, g)
<1>2. call.out = o /\ call.arg.group = g /\ call.arg.bits = bits BY <1>1 DEF WireCall
<1>3. IsGroup(g) /\ bits \in Payloads /\ o \in {<<>>, <<t>>} BY <1>1 DEF WireCall
<1>4. o[1] = t
  <2> HIDE DEF t
  <2>1. Len(<<>>) = 0 /\ Len(o) = 1 BY <1>2
  <2>2. o = <<t>> BY <1>3, <2>1
  <2> QED BY <2>2, ListFacts, Zenon
<1>5. t # Refused BY <1>2, <1>4
<1>6. EncodeVec(t[1], g.low, Width(g)) = Ok(bits) BY <1>3, <1>5, TakenCanonical
<1> QED BY <1>2, <1>4, <1>6

\* Every payload that the verifier accepts is, padding included, the one that
\* golomb_rice_encode_vec writes for the decoded values.
THEOREM TailIsCanonical == TailSpec => []TailCanonical
BY TailResponsesHold, TailInvCanonical, PTL
=============================================================================
