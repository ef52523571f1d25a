------------------------------ MODULE OffsetEq ------------------------------
(***************************************************************************)
(* Sums of equality-polynomial values over strided address families        *)
(* (akita-algebra/src/offset_eq.rs), the verifier's replacement for tables *)
(* over whole domains.  eval_affine_digit_intervals chooses between a      *)
(* bit-aligned path, summaries of the low address bits (identity,          *)
(* geometric or general) and, above them, a bucketed or a direct pass over *)
(* the rows, with the equality values tabulated or computed one by one.    *)
(* Whatever the path, the result is the direct sum.                        *)
(*                                                                         *)
(* Field elements are integers modulo the prime P; weights are scalars.    *)
(* Vectors are sequences, indices count from 0 as in the code: At0(s, i).  *)
(***************************************************************************)
EXTENDS Calls, Arith

CONSTANTS
    P,              \* the field's modulus
    LowBitsCap,     \* OFFSET_EQ_LOW_BITS_CAP
    HighBitsCap,    \* OFFSET_EQ_HIGH_BITS_CAP
    FastRowsMin,    \* FAST_HIGH_ROWS_MIN
    MaxTerms,       \* MAX_COMPACT_STRIDE_TERMS
    AffineInputs    \* calls of eval_affine_digit_intervals

ASSUME FieldAssumption ==
    /\ P \in Nat \ {0, 1} /\ \A d \in 2 .. P - 1 : P % d # 0
    /\ {LowBitsCap, HighBitsCap, FastRowsMin, MaxTerms} \subseteq Nat

At0(s, i) == s[i + 1]

FSum(S, f(_)) == MapThenSumSet(LAMBDA x : f(x) % P, S) % P

FInverse(x) == CHOOSE y \in 1 .. P - 1 : (x * y) % P = 1

FPow(x, k) == Product([i \in 1 .. k |-> x]) % P

PowerOfTwo(n) == n > 0 /\ n = 2 ^ HighBit(n)

\* checked_next_power_of_two.
NextPowerOfTwo(n) == IF PowerOfTwo(n) THEN n ELSE 2 ^ (HighBit(n) + 1)

-----------------------------------------------------------------------------
(* The equality polynomial. *)

\* eq_eval_at_index: 0 outside the domain of the challenges.
EqAt(cs, i) ==
    IF i >= 2 ^ Len(cs) THEN 0
    ELSE Product([k \in DOMAIN cs |-> IF Bit(i, k - 1) = 1 THEN cs[k]
                                      ELSE (1 - cs[k]) % P]) % P

\* EqPolynomial::evals: the table doubles with every challenge, the upper
\* half taking the challenge's share of the lower.
EqTable(cs) ==
    FoldLeft(LAMBDA table, r :
                 LET upper == [i \in DOMAIN table |-> (table[i] * r) % P]
                 IN  [i \in DOMAIN table |-> (table[i] - upper[i]) % P] \o upper,
             <<1>>, cs)

\* OffsetEqWindow::split_low_bits.
SplitLowBits(n, cap) ==
    LET low == Min({cap, LowBitsCap})
    IN  IF n <= low + HighBitsCap
        THEN Min({Max({DivCeil(n, 2), n - HighBitsCap}), low})
        ELSE Min({n, low})

\* OffsetEqWindow::with_low_bits and eval: a table of the low bits and, when
\* few enough are left, one of the high bits.
WindowEval(cs, i) ==
    LET low  == SplitLowBits(Len(cs), LowBitsCap)
        rest == SubSeq(cs, low + 1, Len(cs))
        l    == At0(EqTable(SubSeq(cs, 1, low)), i % 2 ^ low)
        hi   == i \div 2 ^ low
    IN  IF l = 0 THEN 0
        ELSE IF Len(rest) <= HighBitsCap
        THEN IF hi < 2 ^ Len(rest) THEN (l * At0(EqTable(rest), hi)) % P ELSE 0
        ELSE (l * EqAt(rest, hi)) % P

\* AmortizedOffsetEq: a window only when it pays for its tables.
AmortizedEval(cs, evaluations, i) ==
    LET low == SplitLowBits(Len(cs), LowBitsCap)
        hi  == Len(cs) - low
        materialized == 2 ^ low + (IF hi <= HighBitsCap THEN 2 ^ hi ELSE 0)
    IN  IF cs = <<>> \/ evaluations < materialized
        THEN EqAt(cs, i) ELSE WindowEval(cs, i)

-----------------------------------------------------------------------------
(* eval_affine_digit_intervals.  A call a is a record of its arguments:    *)
(* cs, bases, start, live, ostride, dstride, digits, high, low, scales.    *)

LowLen(a)    == Max({Len(a.low), 1})
DigitSpan(a) == (Len(a.digits) - 1) * a.dstride
Scale(a, b)  == IF a.scales = <<>> THEN 1 ELSE a.scales[b]

\* The early returns, in their order.
Geometry(a) ==
    /\ a.scales = <<>> \/ Len(a.scales) = Len(a.bases)
    /\ a.digits # <<>>
    /\ PowerOfTwo(LowLen(a)) /\ a.dstride # 0 /\ a.ostride > DigitSpan(a)
    /\ LowLen(a) <= 2 ^ Len(a.cs)
    /\ a.start + a.live <= Len(a.high) * LowLen(a)
    /\ \A b \in DOMAIN a.bases :
          a.bases[b] + a.ostride * (a.live - 1) + DigitSpan(a) < 2 ^ Len(a.cs)

\* try_eval_bit_aligned_digit_intervals, where it applies: a digit carries at
\* most once into the bits above the stride.
Aligned(a) ==
    LET lowBits  == HighBit(a.ostride)
        lowCs    == SubSeq(a.cs, 1, lowBits)
        highCs   == SubSeq(a.cs, lowBits + 1, Len(a.cs))
        shifted(b, d) == (a.bases[b] % a.ostride) + d * a.dstride
        digitSum(b, carry) ==
            FSum({d \in 0 .. Len(a.digits) - 1 : shifted(b, d) \div a.ostride = carry},
                 LAMBDA d : At0(a.digits, d) * EqAt(lowCs, shifted(b, d) % a.ostride))
        outerSum(b, carry) ==
            FSum(0 .. a.live - 1,
                 LAMBDA k : At0(a.high, a.start + k)
                              * WindowEval(highCs, (a.bases[b] \div a.ostride) + carry + k))
    IN  FSum((DOMAIN a.bases) \X {0, 1},
             LAMBDA t : ((digitSum(t[1], t[2]) * Scale(a, t[1])) % P) * outerSum(t[1], t[2]))

\* The prefix row, the full rows and the suffix row of the outer window, each
\* with the first row, the span of low indices and the number of rows.
RowBlocks(a) ==
    LET n    == LowLen(a)
        end  == a.start + a.live
        pre  == IF a.start % n = 0 THEN a.start
                ELSE Min({end, a.start + n - (a.start % n)})
        full == (Min({Max({end - (end % n), pre}), end}) - pre) \div n
        suf  == pre + full * n
        blocks == << [first |-> a.start \div n, from |-> a.start % n,
                      to |-> (a.start % n) + (pre - a.start), rows |-> 1],
                     [first |-> pre \div n, from |-> 0, to |-> n, rows |-> full],
                     [first |-> suf \div n, from |-> 0, to |-> end - suf, rows |-> 1] >>
    IN  SelectSeq(blocks, LAMBDA b : b.to > b.from /\ b.rows > 0)

\* The work bound of the general path.
RowWork(a) ==
    LET blocks == RowBlocks(a)
    IN  Len(a.bases)
          * (Len(a.digits) * Sum([i \in DOMAIN blocks |-> blocks[i].to - blocks[i].from])
             + Sum([i \in DOMAIN blocks |-> blocks[i].rows]) * (a.ostride + 1))

\* The address of the block's first element in family b.
FirstAddress(a, block, b) ==
    a.bases[b] + a.ostride * (block.first * LowLen(a) + block.from - a.start)

CarryCount(a, block, addressLow) ==
    (addressLow + a.ostride * (block.to - block.from - 1) + DigitSpan(a)) \div LowLen(a) + 1

LowCs(a)  == SubSeq(a.cs, 1, HighBit(LowLen(a)))
HighCs(a) == SubSeq(a.cs, HighBit(LowLen(a)) + 1, Len(a.cs))

\* The general branch of build_affine_low_summaries, and its identity branch:
\* with no low weights the low domain is a point and the carry the digit.
PlainSummary(a, block, addressLow, carry) ==
    LET n == LowLen(a)
        shifted(t) == addressLow + a.ostride * (t[1] - block.from) + a.dstride * t[2]
        factor(l) == IF a.low = <<>> THEN 1 ELSE At0(a.low, l)
    IN  FSum({t \in (block.from .. block.to - 1) \X (0 .. Len(a.digits) - 1) :
                shifted(t) \div n = carry},
             LAMBDA t : factor(t[1])
                          * ((At0(a.digits, t[2]) * EqAt(LowCs(a), shifted(t) % n)) % P))

\* The digit weights are a geometric progression and the span is wide enough.
Geometric(a, block) ==
    LET k == Len(a.digits)
    IN  /\ a.low # <<>> /\ a.dstride = 1 /\ Len(LowCs(a)) <= LowBitsCap
        /\ k <= LowLen(a) /\ (block.to - block.from) * k >= LowLen(a)
        /\ a.digits[1] % P # 0
        /\ k >= 2 => a.digits[2] % P # 0
        /\ \A i \in 2 .. k : (a.digits[i] * a.digits[1]) % P = (a.digits[i - 1] * a.digits[2]) % P

Ratio(a) == IF Len(a.digits) >= 2 THEN (a.digits[2] * FInverse(a.digits[1])) % P ELSE 1

\* build_geometric_low_summaries: a run of digits is a difference of prefix
\* sums of r^u eq(u); the part that wraps goes to the next carry.
GeometricSummary(a, block, addressLow, carry) ==
    LET n == LowLen(a)
        r == Ratio(a)
        table == EqTable(LowCs(a))
        prefix(u) == FSum(0 .. u - 1, LAMBDA i : FPow(r, i) * At0(table, i))
        start(l) == addressLow + a.ostride * (l - block.from)
        head(l)  == Min({Len(a.digits), n - (start(l) % n)})
        inHead(l) == (((a.digits[1] * FPow(FInverse(r), start(l) % n)) % P)
                        * (prefix((start(l) % n) + head(l)) - prefix(start(l) % n))) % P
        inTail(l) == (((a.digits[1] * FPow(r, head(l))) % P)
                        * prefix(Len(a.digits) - head(l))) % P
    IN  (FSum({l \in block.from .. block.to - 1 : start(l) \div n = carry},
              LAMBDA l : At0(a.low, l) * inHead(l))
         + FSum({l \in block.from .. block.to - 1 : start(l) \div n = carry - 1},
                LAMBDA l : At0(a.low, l) * inTail(l))) % P

Summary(a, block, addressLow, carry) ==
    IF Geometric(a, block) THEN GeometricSummary(a, block, addressLow, carry)
    ELSE PlainSummary(a, block, addressLow, carry)

\* bucketed_high_rows_plan: the window of low row-address bits, or 0.
BucketWindow(totalRows, carries, highBits) ==
    LET window == NextPowerOfTwo(carries)
        bits   == HighBit(window)
        split  == highBits - bits
        tables == 2 ^ (split \div 2) + 2 ^ (split - (split \div 2))
    IN  IF /\ totalRows >= FastRowsMin /\ bits <= LowBitsCap
           /\ split >= 0 /\ split <= 2 * HighBitsCap
           /\ totalRows * 2 + carries * window + window * 3 + tables < totalRows * carries
        THEN window ELSE 0

\* Address bits above the low domain of row r of family b.
RowHigh(a, block, b, r) ==
    (FirstAddress(a, block, b) \div LowLen(a)) + a.ostride * r

\* A carry never leaves the window.
SameBlock(shifted, window) == 0

\* Whether a carry takes a row to the next block of the window.
NextBlock(shifted, window) == shifted \div window

\* accumulate_high_rows_bucketed: rows meet in the bucket of their low
\* window bits, once for their block and once for the next one; a carry
\* shifts the buckets and moves those that leave the window to the next
\* block.
BucketedRows(a, block, group, summaries, window) ==
    LET bits == HighBit(window)
        table == EqTable(SubSeq(HighCs(a), 1, bits))
        eqBlock(k) == EqAt(SubSeq(HighCs(a), bits + 1, Len(HighCs(a))), k)
        buckets == [next \in 0 .. 1 |-> [pos \in 0 .. window - 1 |->
            FSum({t \in group \X (0 .. block.rows - 1) :
                    RowHigh(a, block, t[1], t[2]) % window = pos},
                 LAMBDA t : At0(a.high, block.first + t[2])
                    * ((eqBlock((RowHigh(a, block, t[1], t[2]) \div window) + next)
                          * Scale(a, t[1])) % P))]]
        phi(carry) ==
            FSum(0 .. window - 1,
                 LAMBDA pos : buckets[NextBlock(pos + carry, window)][pos]
                                * At0(table, (pos + carry) % window))
    IN  FSum(0 .. Len(summaries) - 1, LAMBDA c : phi(c) * At0(summaries, c))

DirectRows(a, block, group, summaries) ==
    LET evaluations == Cardinality(group) * block.rows * Len(summaries)
    IN  FSum(group \X (0 .. block.rows - 1) \X (0 .. Len(summaries) - 1),
             LAMBDA t : ((At0(a.high, block.first + t[2]) * At0(summaries, t[3])) % P)
                * ((AmortizedEval(HighCs(a), evaluations, RowHigh(a, block, t[1], t[2]) + t[3])
                      * Scale(a, t[1])) % P))

\* accumulate_affine_rows: families whose first address has the same low part
\* share their summaries.
AccumulateRows(a, block) ==
    LET lowOf(b) == FirstAddress(a, block, b) % LowLen(a)
        ofGroup(addressLow) ==
            LET group == {b \in DOMAIN a.bases : lowOf(b) = addressLow}
                carries == CarryCount(a, block, addressLow)
                summaries == [c \in 1 .. carries |-> Summary(a, block, addressLow, c - 1)]
                window == BucketWindow(block.rows * Cardinality(group), carries, Len(HighCs(a)))
            IN  IF window # 0 THEN BucketedRows(a, block, group, summaries, window)
                ELSE DirectRows(a, block, group, summaries)
    IN  FSum({lowOf(b) : b \in DOMAIN a.bases}, ofGroup)

EvalAffine(a) ==
    LET blocks == RowBlocks(a)
        aligned == a.low = <<>> /\ PowerOfTwo(a.ostride) /\ a.ostride <= 2 ^ Len(a.cs)
        alignedWork == Len(a.bases) * (a.live * 2 + Len(a.digits))
    IN  CASE a.high = <<>> /\ a.low = <<>> -> Refused
          [] (a.high # <<>> \/ a.low # <<>>) /\ (a.live = 0 \/ a.bases = <<>>) -> Ok(0)
          [] OTHER ->
                IF ~Geometry(a) \/ (IF aligned THEN alignedWork ELSE RowWork(a)) > MaxTerms
                THEN Refused
                ELSE IF aligned THEN Ok(Aligned(a))
                ELSE Ok(FSum(DOMAIN blocks, LAMBDA i : AccumulateRows(a, blocks[i])))

-----------------------------------------------------------------------------
(* The calls. *)

StartAffine == \E a \in AffineInputs : Starts("affine", a)

EvaluateAffine == At("affine", 0) /\ Returns(EvalAffine(call.arg))

-----------------------------------------------------------------------------
(* Properties. *)

\* The definition: every digit of every outer index of every family.
AffineSum(a) ==
    FSum((DOMAIN a.bases) \X (0 .. a.live - 1) \X (0 .. Len(a.digits) - 1),
         LAMBDA t : ((((At0(a.digits, t[3]) * Scale(a, t[1])) % P)
                        * EqAt(a.cs, a.bases[t[1]] + a.ostride * t[2] + a.dstride * t[3])) % P)
            * ((At0(a.high, (a.start + t[2]) \div LowLen(a))
                  * (IF a.low = <<>> THEN 1
                     ELSE At0(a.low, (a.start + t[2]) % LowLen(a)))) % P))

\* Whatever path offset_eq.rs takes (aligned, prefix, full and suffix rows,
\* geometric summaries, buckets, amortized windows), the value is the direct
\* sum over all addresses.
AffineExact ==
    call.fn = "affine" /\ call.out # <<>> /\ call.out[1] # Refused
        => call.out[1] = Ok(AffineSum(call.arg))
=============================================================================
