--------------------------- MODULE VerifierNttProofs ---------------------------
(***************************************************************************)
(* No verification fails for its NTT cache and every product is exact, for *)
(* any number of verifications and installations, any widths and heights   *)
(* and any thresholds of the two backends with IFMA52 below scalar.        *)
(*                                                                         *)
(* The argument: a slot may hold a prefix of either backend, but a width   *)
(* that needs no tail on this machine's plan needs none on the other, so   *)
(* that a prefix as long as the plan asks for is long enough for whichever *)
(* product reads it.                                                       *)
(***************************************************************************)
EXTENDS VerifierNtt, TLAPS

USE DEF Backends

\* The product of two positive numbers is positive.
LEMMA PositiveProduct == \A m, n \in Nat \ {0} : m * n \in Nat \ {0}
  OBVIOUS

\* A row has a positive length, and the thresholds are numbers.
LEMMA RowFacts ==
  ASSUME NEW r \in Rows
  PROVE  /\ r.width \in Widths /\ r.width \in Nat \ {0}
         /\ Length(r) \in Nat \ {0}
  BY NttAssumption, PositiveProduct DEF Rows, Length

\* The plan is a backend; what it asks for of a row is all or nothing.
LEMMA PlanFacts ==
  ASSUME host \in Backends, NEW w \in Widths
  PROVE  /\ Plan(w) \in Backends
         /\ Supported(Plan(w), w) => Supported("scalar", w)
         /\ ~NeedsTail(Plan(w), w) => ~NeedsTail("scalar", w)
         /\ Plan(w) = "ifma52" => Supported("ifma52", w)
  BY NttAssumption DEF Plan, Supported, NeedsTail

\* A prefix that fits a row is enough for the product that reads it.
LEMMA FitsMultiplies ==
  ASSUME host \in Backends, NEW r \in Rows, NEW p \in Prefixes, Fits(p, r)
  PROVE  Multiplies(p, r)
<1> USE NttAssumption, RowFacts, PlanFacts
<1>1. p.base \in Nat /\ p.tail \in Nat /\ p.backend \in Backends
  BY DEF Prefixes
<1>2. p.base >= Length(r) /\ p.tail >= WantedTail(r) /\ Sound(p, r.width)
  BY DEF Fits
<1>3. CASE NeedsTail(Plan(r.width), r.width)
  <2>1. p.tail >= Length(r) /\ p.tail > 0
    BY <1>1, <1>2, <1>3 DEF WantedTail
  <2>2. QED
    BY <1>2, <2>1 DEF Multiplies
<1>4. CASE ~NeedsTail(Plan(r.width), r.width)
  <2>1. p.tail = 0 /\ ~NeedsTail("scalar", r.width)
    BY <1>2, <1>4 DEF Sound
  <2>2. p.backend = "ifma52" => ~NeedsTail("ifma52", r.width)
    BY <1>2, <1>4 DEF Sound
  <2>3. p.backend \in {"ifma52", "scalar"}
    BY <1>1
  <2>4. ~UsesTail(p, r.width)
    BY <2>1, <2>3 DEF UsesTail
  <2>5. QED
    BY <1>2, <2>2, <2>4 DEF Multiplies
<1>5. QED
  BY <1>3, <1>4

\* A prefix that fits a row has the primes its width needs, on its backend.
LEMMA FitsExact ==
  ASSUME host \in Backends, NEW r \in Rows, NEW p \in Prefixes, Fits(p, r)
  PROVE  Exact(p, r) /\ p.from = "own"
<1> USE NttAssumption, RowFacts, PlanFacts
<1>1. p.backend \in {"ifma52", "scalar"} /\ p.tail >= WantedTail(r) /\ Sound(p, r.width)
  BY DEF Fits, Prefixes
<1>2. NeedsTail(p.backend, r.width) => NeedsTail(Plan(r.width), r.width)
  BY <1>1 DEF Sound
<1>3. QED
  BY <1>1, <1>2 DEF Exact, Sound, WantedTail

\* What prepare builds in place of a slot fits, and keeps what the slot had.
LEMMA RebuiltFits ==
  ASSUME host \in Backends, NEW r \in Rows, Valid(r), NEW slot \in Prefixes \cup {None},
         slot # None => Sound(slot, r.width)
  PROVE  Rebuilt(slot, r) \in Prefixes /\ Fits(Rebuilt(slot, r), r)
<1> USE NttAssumption, RowFacts, PlanFacts
<1> DEFINE new == Rebuilt(slot, r)
<1>1. Length(r) \in 1 .. Capacity /\ WantedTail(r) \in {0, Length(r)}
  BY DEF Valid, WantedTail
<1>2. slot # None => slot.base \in 1 .. Capacity /\ slot.tail \in 0 .. Capacity /\ slot.tail <= slot.base
  BY DEF Prefixes
<1>3. /\ new.base \in 1 .. Capacity /\ new.tail \in 0 .. Capacity
      /\ new.tail <= new.base /\ new.base >= Length(r) /\ new.tail >= WantedTail(r)
  BY <1>1, <1>2 DEF Rebuilt, Larger
<1>4. new \in Prefixes
  BY <1>3 DEF Rebuilt, Prefixes
<1>5. Sound(new, r.width)
  <2>1. new.from = "own" /\ new.backend = Plan(r.width)
    BY DEF Rebuilt
  <2>2. Supported(Plan(r.width), r.width)
    BY DEF Valid
  <2>3. ~NeedsTail(Plan(r.width), r.width) => new.tail = 0
    BY DEF Rebuilt, Larger, WantedTail, Sound
  <2>4. QED
    BY <2>1, <2>2, <2>3 DEF Sound
<1>6. QED
  BY <1>3, <1>4, <1>5 DEF Fits

\* What prepare returns fits the row.
LEMMA ServedFits ==
  ASSUME IInv, NEW r \in Rows, Valid(r)
  PROVE  Served(r) \in Prefixes /\ Fits(Served(r), r)
<1> DEFINE slot == slots[r.width]
<1>1. host \in Backends /\ slot \in Prefixes \cup {None} /\ (slot # None => Sound(slot, r.width))
  BY RowFacts DEF IInv, TypeOK, SlotsSound
<1>2. CASE Covers(slot, r)
  BY <1>1, <1>2 DEF Served, Covers, Fits
<1>3. CASE ~Covers(slot, r)
  BY <1>1, <1>3, RebuiltFits DEF Served
<1>4. QED
  BY <1>2, <1>3

\* The entry of an artifact that decodes is sound for its width, whatever the
\* slot held and whichever backend this machine has.
LEMMA InstalledSound ==
  ASSUME host \in Backends, NEW w \in Widths, NEW r \in Rows, NEW a \in Headers(w), Decodes(a, w, r)
  PROVE  LET p == [base |-> a.base, tail |-> a.tail, backend |-> "scalar", from |-> a.from]
         IN  p \in Prefixes /\ Sound(p, w)
  BY NttAssumption, PlanFacts DEF Headers, Decodes, BoundTo, Prefixes, Sound

\* The initial state satisfies the inductive invariant.
LEMMA InitIInv == Init => IInv
  BY NttAssumption DEF Init, IInv, TypeOK, SlotsSound, CallsFit

\* Every step preserves the inductive invariant.
LEMMA NextIInv == IInv /\ [Next]_vars => IInv'
<1> SUFFICES ASSUME IInv, [Next]_vars PROVE IInv'
  OBVIOUS
<1>t. TypeOK /\ SlotsSound /\ CallsFit
  BY DEF IInv
<1>s. \A r \in Rows : Valid(r) => Served(r) \in Prefixes /\ Fits(Served(r), r)
  BY ServedFits
<1>1. CASE UNCHANGED vars
  BY <1>1, <1>t DEF vars, IInv, TypeOK, SlotsSound, CallsFit, Sound, Fits, Valid, WantedTail, Plan
<1>2. ASSUME NEW c \in Calls, Warm(c) PROVE IInv'
  <2>1. row[c] \in Rows /\ row[c].width \in Widths /\ Served(row[c]) \in Prefixes
        /\ Fits(Served(row[c]), row[c])
    BY <1>2, <1>s, <1>t, RowFacts DEF Warm, TypeOK
  <2>2. UNCHANGED <<host, row, held, missed, installs>>
    BY <1>2 DEF Warm
  <2>3. TypeOK'
    BY <1>2, <1>t, <2>1 DEF Warm, TypeOK
  <2>4. SlotsSound'
    BY <1>2, <1>t, <2>1, <2>2 DEF Warm, TypeOK, SlotsSound, Fits, Sound, Plan
  <2>5. CallsFit'
    BY <1>2, <1>t, <2>2 DEF Warm, TypeOK, CallsFit, Fits, Sound, Valid, WantedTail, Plan
  <2>6. QED
    BY <2>3, <2>4, <2>5 DEF IInv
<1>3. ASSUME NEW c \in Calls, LookUp(c) PROVE IInv'
  <2>1. row[c] \in Rows /\ row[c].width \in Widths /\ Served(row[c]) \in Prefixes
        /\ Fits(Served(row[c]), row[c])
    BY <1>3, <1>s, <1>t, RowFacts DEF LookUp, TypeOK, CallsFit
  <2>2. UNCHANGED <<host, row, installs>>
    BY <1>3 DEF LookUp
  <2>3. TypeOK'
    BY <1>3, <1>t, <2>1 DEF LookUp, TypeOK
  <2>4. SlotsSound'
    BY <1>3, <1>t, <2>1, <2>2 DEF LookUp, TypeOK, SlotsSound, Fits, Sound, Plan
  <2>5. CallsFit'
    BY <1>3, <1>t, <2>1, <2>2 DEF LookUp, TypeOK, CallsFit, Fits, Sound, Valid, WantedTail, Plan
  <2>6. QED
    BY <2>3, <2>4, <2>5 DEF IInv
<1>4. ASSUME NEW c \in Calls, Multiply(c) PROVE IInv'
  <2>1. UNCHANGED <<host, row, slots, held, missed, installs>>
    BY <1>4 DEF Multiply
  <2>2. held[c] \in Prefixes
    BY <1>4, <1>t DEF Multiply, CallsFit, TypeOK
  <2>3. Multiplies(held[c], row[c])
    BY <1>4, <1>t, <2>2, FitsMultiplies DEF Multiply, CallsFit, TypeOK
  <2>4. pc' = [pc EXCEPT ![c] = "done"]
    BY <1>4, <2>3 DEF Multiply
  <2>5. TypeOK' /\ SlotsSound'
    BY <1>t, <2>1, <2>4 DEF TypeOK, SlotsSound, Sound, Plan
  <2>6. CallsFit'
    BY <1>4, <1>t, <2>1, <2>4 DEF Multiply, TypeOK, CallsFit, Fits, Sound, Valid, WantedTail, Plan
  <2>7. QED
    BY <2>5, <2>6 DEF IInv
<1>5. ASSUME NEW w \in Widths, NEW r \in Rows, NEW a \in Headers(w), Install(w, r, a) PROVE IInv'
  <2> DEFINE p == [base |-> a.base, tail |-> a.tail, backend |-> "scalar", from |-> a.from]
  <2>1. p \in Prefixes /\ Sound(p, w)
    BY <1>5, <1>t, InstalledSound DEF Install, TypeOK
  <2>2. slots' = [slots EXCEPT ![w] = p] /\ UNCHANGED <<host, row, pc, held, missed>>
    BY <1>5 DEF Install
  <2>3. TypeOK'
    BY <1>5, <1>t, <2>1, <2>2, NttAssumption DEF Install, TypeOK
  <2>4. SlotsSound'
    BY <1>t, <2>1, <2>2 DEF TypeOK, SlotsSound, Sound, Plan
  <2>5. CallsFit'
    BY <1>t, <2>2 DEF TypeOK, CallsFit, Fits, Sound, Valid, WantedTail, Plan
  <2>6. QED
    BY <2>3, <2>4, <2>5 DEF IInv
<1>6. QED
  BY <1>1, <1>2, <1>3, <1>4, <1>5 DEF Next

\* The inductive invariant holds of every run of the verifier's cache.
THEOREM VerifierNttInvariant == Spec => []IInv
  BY InitIInv, NextIInv, PTL DEF Spec

\* No verification fails for its cache, whatever is installed between its steps.
THEOREM VerifierNttServes == Spec => []NoCallFails
<1>1. IInv => NoCallFails
  BY DEF IInv, CallsFit, NoCallFails
<1>2. QED
  BY VerifierNttInvariant, <1>1, PTL

\* Every finished product had enough primes for its width, of the own setup.
THEOREM VerifierNttExact == Spec => []ProductsExact
<1>1. IInv => ProductsExact
  <2> SUFFICES ASSUME IInv, NEW c \in Calls, pc[c] = "done"
               PROVE  Exact(held[c], row[c]) /\ held[c].from = "own"
    BY DEF ProductsExact
  <2>1. host \in Backends /\ row[c] \in Rows
    BY DEF IInv, TypeOK
  <2>2. held[c] \in Prefixes /\ Fits(held[c], row[c])
    BY DEF IInv, CallsFit
  <2>3. QED
    BY <2>1, <2>2, FitsExact
<1>2. QED
  BY VerifierNttInvariant, <1>1, PTL
=============================================================================
