----------------------------- MODULE TensorPair -----------------------------
(***************************************************************************)
(* Sums of products of two basis polynomials over tensor families of       *)
(* address pairs (akita-algebra/src/offset_eq/tensor_pair), with which the *)
(* verifier evaluates its setup and relation weights.  A family walks the  *)
(* coordinates of its axes, each with a stride on either side and a weight *)
(* (unit, dense or a product over the coordinate's bits).  The evaluator   *)
(* uses bit-aligned factors, a recurrence over the address bits with the   *)
(* carries of several axes as its states, or power-of-two blocks of one    *)
(* streamed axis; the materializer fills intervals, contracts onto one     *)
(* axis or visits every coordinate.                                        *)
(*                                                                         *)
(* The cap on the work, which only turns a value into an error, is left    *)
(* out.                                                                    *)
(***************************************************************************)
EXTENDS OffsetEq

CONSTANTS
    PairInputs,   \* calls: lcs, rcs, lmono, rmono, families
    LeftInputs    \* calls: cs, families, len

-----------------------------------------------------------------------------
(* Families. *)

\* coordinate_weight; bit products hold a pair of factors per bit.
Weight(axis, c) ==
    CASE axis.kind = "unit"  -> 1
      [] axis.kind = "dense" -> At0(axis.w, c)
      [] axis.kind = "bits"  ->
            Product([k \in DOMAIN axis.w |-> axis.w[k][Bit(c, k - 1) + 1]]) % P

AxisFits(axis) ==
    /\ axis.len > 0
    /\ axis.kind = "dense" => Len(axis.w) = axis.len
    /\ axis.kind = "bits" => 2 ^ Len(axis.w) = axis.len

\* Two unit axes of which the outer continues the strides of the inner.
Continues(inner, axis) ==
    /\ inner.kind = "unit" /\ axis.kind = "unit"
    /\ inner.ls * inner.len = axis.ls /\ inner.rs * inner.len = axis.rs

\* EqPairTensorFamily::new: axes of length 1 become scalars, a vanishing one
\* ends the scan with the zero family, and unit axes merge.
NewFamily(f) ==
    LET Take(acc, axis) ==
            IF axis.len = 1 THEN [acc EXCEPT !.scalar = (@ * Weight(axis, 0)) % P]
            ELSE IF acc.axes # <<>> /\ Continues(Last(acc.axes), axis)
            THEN [acc EXCEPT !.axes[Len(acc.axes)].len = @ * axis.len]
            ELSE [acc EXCEPT !.axes = Append(@, axis)]
        vanishing == {i \in DOMAIN f.axes : /\ AxisFits(f.axes[i]) /\ f.axes[i].len = 1
                                            /\ Weight(f.axes[i], 0) = 0}
        scanned == Min(vanishing \cup {Len(f.axes)})
    IN  CASE \E i \in 1 .. scanned : ~AxisFits(f.axes[i]) -> Refused
          [] vanishing # {} /\ (\A i \in 1 .. scanned : AxisFits(f.axes[i])) ->
                Ok([f EXCEPT !.scalar = 0, !.axes = <<>>])
          [] OTHER -> Ok(FoldLeft(Take, [f EXCEPT !.axes = <<>>], f.axes))

\* Coordinates of a family, 0 on the axes in still.
Coordinates(f, still) ==
    {c \in [DOMAIN f.axes -> 0 .. Max({0} \cup {f.axes[i].len : i \in DOMAIN f.axes})] :
        \A i \in DOMAIN f.axes : c[i] < IF i \in still THEN 1 ELSE f.axes[i].len}

LeftOf(f, c)  == f.lo + Sum([i \in DOMAIN f.axes |-> f.axes[i].ls * c[i]])
RightOf(f, c) == f.ro + Sum([i \in DOMAIN f.axes |-> f.axes[i].rs * c[i]])

\* The weight of a coordinate over all axes but those in still.
WeightOf(f, c, still) ==
    (f.scalar * Product([i \in DOMAIN f.axes |->
                            IF i \in still THEN 1 ELSE Weight(f.axes[i], c[i])])) % P

\* basis_bit_factor; past the challenges only a 0 bit has a factor.
BitFactor(cs, mono, k, bit) ==
    IF k > Len(cs) THEN 1 - bit
    ELSE IF bit = 1 THEN cs[k] ELSE IF mono THEN 1 ELSE (1 - cs[k]) % P

\* basis_eval_at_index.
BasisAt(cs, mono, i) ==
    IF i >= 2 ^ Len(cs) THEN 0
    ELSE Product([k \in DOMAIN cs |-> BitFactor(cs, mono, k, Bit(i, k - 1))]) % P

\* merge_pair_states: the items of T by their carries, without zero weights.
Merge(T, key(_), weight(_)) ==
    LET all == [k \in {key(t) : t \in T} |->
                   FSum({t \in T : key(t) = k}, weight)]
    IN  [k \in {j \in DOMAIN all : all[j] # 0} |-> all[k]]

-----------------------------------------------------------------------------
(* Bit-aligned families (try_eval_aligned_family). *)

TwoPower(s) == s = 0 \/ PowerOfTwo(s)

\* Bit positions an axis occupies on a side of stride s.
AxisBits(axis, s) ==
    IF s = 0 THEN {} ELSE HighBit(s) .. HighBit(s) + HighBit(axis.len) - 1

Occupied(f, stride(_)) == UNION {AxisBits(f.axes[i], stride(f.axes[i])) : i \in DOMAIN f.axes}

SideAligned(cs, f, stride(_), offset) ==
    /\ \A i, j \in DOMAIN f.axes :
          i # j => AxisBits(f.axes[i], stride(f.axes[i]))
                     \cap AxisBits(f.axes[j], stride(f.axes[j])) = {}
    /\ \A k \in Occupied(f, stride) : k < Len(cs) /\ Bit(offset, k) = 0
    /\ offset < 2 ^ Len(cs)

LeftStride(axis)  == axis.ls
RightStride(axis) == axis.rs

IsAligned(q, f) ==
    /\ \A i \in DOMAIN f.axes :
          PowerOfTwo(f.axes[i].len) /\ TwoPower(f.axes[i].ls) /\ TwoPower(f.axes[i].rs)
    /\ SideAligned(q.lcs, f, LeftStride, f.lo)
    /\ SideAligned(q.rcs, f, RightStride, f.ro)

\* Fixed bits contribute their factor; an axis sums over its own bits.
EvalAligned(q, f) ==
    LET fixed(cs, mono, offset, taken) ==
            Product([k \in DOMAIN cs |->
                IF k - 1 \in taken THEN 1 ELSE BitFactor(cs, mono, k, Bit(offset, k - 1))]) % P
        side(cs, mono, s, axis, c) ==
            IF s = 0 THEN 1
            ELSE Product([b \in 1 .. HighBit(axis.len) |->
                            BitFactor(cs, mono, HighBit(s) + b, Bit(c, b - 1))]) % P
        axisSum(axis) ==
            FSum(0 .. axis.len - 1,
                 LAMBDA c : ((Weight(axis, c) * side(q.lcs, q.lmono, axis.ls, axis, c)) % P)
                               * side(q.rcs, q.rmono, axis.rs, axis, c))
    IN  (f.scalar * ((fixed(q.lcs, q.lmono, f.lo, Occupied(f, LeftStride))
                        * fixed(q.rcs, q.rmono, f.ro, Occupied(f, RightStride))) % P)
                  * (Product([i \in DOMAIN f.axes |-> axisSum(f.axes[i])]) % P)) % P

-----------------------------------------------------------------------------
(* The recurrence over address bits (eval_multi_axis_families). *)

RecurrenceAxes(f) ==
    {i \in DOMAIN f.axes : /\ f.axes[i].kind \in {"unit", "bits"}
                           /\ PowerOfTwo(f.axes[i].len)
                           /\ f.axes[i].ls # 0 \/ f.axes[i].rs # 0}

TrailingZeros(x) == CHOOSE k \in 0 .. x : x % 2 ^ k = 0 /\ Bit(x, k) = 1

\* The coordinate bits of the recurrence axes.
Introductions(f) ==
    UNION {{<<i, b>> : b \in 0 .. HighBit(f.axes[i].len) - 1} : i \in RecurrenceAxes(f)}

StartBit(f, t) ==
    Min({TrailingZeros(s * 2 ^ t[2]) : s \in {f.axes[t[1]].ls, f.axes[t[1]].rs} \ {0}})

IntroFactor(f, t, bit) ==
    IF f.axes[t[1]].kind = "unit" THEN 1 ELSE f.axes[t[1]].w[t[2] + 1][bit + 1]

\* One address bit: every state takes every choice of the coordinate bits
\* that start here (bit_axis_choices), pays for its low bit and carries on.
BitStep(q, f, states, bit) ==
    LET here == {t \in Introductions(f) : StartBit(f, t) = bit}
        add(chosen, stride(_)) ==
            MapThenSumSet(LAMBDA t : (stride(f.axes[t[1]]) * 2 ^ t[2]) \div 2 ^ bit, chosen)
        paid(chosen) ==
            FoldSet(LAMBDA t, acc : (acc * IntroFactor(f, t, IF t \in chosen THEN 1 ELSE 0)) % P,
                    1, here)
        left(x)  == x[1][1] + add(x[2], LeftStride)
        right(x) == x[1][2] + add(x[2], RightStride)
    IN  Merge((DOMAIN states) \X SUBSET here,
              LAMBDA x : <<left(x) \div 2, right(x) \div 2>>,
              LAMBDA x : ((states[x[1]] * paid(x[2])) % P)
                           * ((BitFactor(q.lcs, q.lmono, bit + 1, left(x) % 2)
                               * BitFactor(q.rcs, q.rmono, bit + 1, right(x) % 2)) % P))

\* fams share their recurrence axes; the residual axes seed the states.  A
\* coordinate bit past both sides must be 0.
EvalMultiAxis(q, fams) ==
    LET f    == q.families[Min(fams)]
        bits == Max({Len(q.lcs), Len(q.rcs)})
        forced == FoldSet(LAMBDA t, acc : (acc * IntroFactor(f, t, 0)) % P, 1,
                          {t \in Introductions(f) : StartBit(f, t) >= bits})
        fam(t) == q.families[t[1]]
        seeds == Merge(UNION {{g} \X Coordinates(q.families[g], RecurrenceAxes(f)) : g \in fams},
                       LAMBDA t : <<LeftOf(fam(t), t[2]), RightOf(fam(t), t[2])>>,
                       LAMBDA t : WeightOf(fam(t), t[2], RecurrenceAxes(f)) * forced)
        last == FoldLeft(LAMBDA states, b : BitStep(q, f, states, b - 1), seeds,
                         [b \in 1 .. bits |-> b])
    IN  IF <<0, 0>> \in DOMAIN last THEN last[<<0, 0>>] ELSE 0

-----------------------------------------------------------------------------
(* One streamed axis (eval_tensor_seed_batch). *)

\* The longest unit axis that moves on both sides, the last of equals; 0 if
\* there is none.
StreamAxis(f) ==
    LET moving == {i \in DOMAIN f.axes : /\ f.axes[i].kind = "unit"
                                         /\ f.axes[i].ls # 0 /\ f.axes[i].rs # 0}
        longest == {i \in moving : \A j \in moving : f.axes[j].len <= f.axes[i].len}
    IN  Max({0} \cup longest)

\* Coordinates of the axis that stay in both domains.
LiveLen(q, axis, l, r) ==
    IF l >= 2 ^ Len(q.lcs) \/ r >= 2 ^ Len(q.rcs) THEN 0
    ELSE Min({axis.len, (2 ^ Len(q.lcs) - 1 - l) \div axis.ls + 1,
              (2 ^ Len(q.rcs) - 1 - r) \div axis.rs + 1})

\* An offset that counts the block itself.
BlockBaseAfter(n, k) == (n \div 2 ^ k) * 2 ^ k

\* Offset of the block of 2^k coordinates in the binary splitting of n,
\* largest blocks first.
BlockBase(n, k) == (n \div 2 ^ (k + 1)) * 2 ^ (k + 1)

\* basis_carry_step.
CarryFactor(cs, mono, k, carry) ==
    IF k > Len(cs) THEN (IF carry = 0 THEN 1 ELSE 0) ELSE BitFactor(cs, mono, k, carry % 2)

\* finish_seed_states: states are stepped over the bits above a block while
\* several are left, so that they merge; the last ones are evaluated.
RECURSIVE FinishStates(_, _, _)
FinishStates(q, states, bit) ==
    LET above(cs) == SubSeq(cs, bit + 1, Len(cs))
    IN  IF Cardinality(DOMAIN states) > 1 /\ bit < Max({Len(q.lcs), Len(q.rcs)})
        THEN FinishStates(q,
                Merge(DOMAIN states, LAMBDA s : <<s[1] \div 2, s[2] \div 2>>,
                      LAMBDA s : states[s]
                                   * ((CarryFactor(q.lcs, q.lmono, bit + 1, s[1])
                                       * CarryFactor(q.rcs, q.rmono, bit + 1, s[2])) % P)),
                bit + 1)
        ELSE FSum(DOMAIN states,
                  LAMBDA s : states[s] * ((BasisAt(above(q.lcs), q.lmono, s[1])
                                             * BasisAt(above(q.rcs), q.rmono, s[2])) % P))

\* fams stream an axis of the same strides and length.
EvalStream(q, fams, axis) ==
    LET fam(t)   == q.families[t[1]]
        stepped(states, bit) ==
            LET left(x)  == x[1][1] + x[2] * axis.ls
                right(x) == x[1][2] + x[2] * axis.rs
            IN  Merge((DOMAIN states) \X {0, 1},
                      LAMBDA x : <<left(x) \div 2, right(x) \div 2>>,
                      LAMBDA x : states[x[1]]
                                   * ((BitFactor(q.lcs, q.lmono, bit, left(x) % 2)
                                       * BitFactor(q.rcs, q.rmono, bit, right(x) % 2)) % P))
        seeds == UNION {{g} \X Coordinates(q.families[g], {StreamAxis(q.families[g])}) : g \in fams}
        live(t) == LiveLen(q, axis, LeftOf(fam(t), t[2]), RightOf(fam(t), t[2]))
        block(k) ==
            LET base(t) == BlockBase(live(t), k)
                states == Merge({t \in seeds : Bit(live(t), k) = 1},
                                LAMBDA t : <<LeftOf(fam(t), t[2]) + axis.ls * base(t),
                                             RightOf(fam(t), t[2]) + axis.rs * base(t)>>,
                                LAMBDA t : WeightOf(fam(t), t[2], {StreamAxis(fam(t))}))
            IN  FinishStates(q, FoldLeft(stepped, states, [b \in 1 .. k |-> b]), k)
    IN  FSum(0 .. HighBit(axis.len), block)

\* Scalar seeds: a family without a streamed axis, coordinate by coordinate.
EvalScalars(q, f) ==
    FSum(Coordinates(f, {}),
         LAMBDA c : WeightOf(f, c, {}) * ((BasisAt(q.lcs, q.lmono, LeftOf(f, c))
                                             * BasisAt(q.rcs, q.rmono, RightOf(f, c))) % P))

\* eval_boolean_pair_tensor_families on normalized families.
EvalPairs(q) ==
    LET live == {g \in DOMAIN q.families : q.families[g].scalar # 0}
        fam(g) == q.families[g]
        aligned == {g \in live : IsAligned(q, fam(g))}
        factored(g) == \E i \in RecurrenceAxes(fam(g)) : fam(g).axes[i].kind = "bits"
        multi == {g \in live \ aligned :
                    Cardinality(RecurrenceAxes(fam(g))) >= 2 \/ factored(g)}
        geometry(g) == [i \in RecurrenceAxes(fam(g)) |->
                          <<fam(g).axes[i].len, fam(g).axes[i].ls, fam(g).axes[i].rs>>]
        shared == {{h \in multi : ~factored(h) /\ geometry(h) = geometry(g)} :
                     g \in {h \in multi : ~factored(h)}}
        streamed == {g \in live \ (aligned \cup multi) : StreamAxis(fam(g)) # 0}
        streamOf(g) == fam(g).axes[StreamAxis(fam(g))]
    IN  (FSum(aligned, LAMBDA g : EvalAligned(q, fam(g)))
         + FSum({{g} : g \in {h \in multi : factored(h)}} \cup shared,
                LAMBDA fams : EvalMultiAxis(q, fams))
         + FSum({streamOf(g) : g \in streamed},
                LAMBDA axis : EvalStream(q, {g \in streamed : streamOf(g) = axis}, axis))
         + FSum(live \ (aligned \cup multi \cup streamed),
                LAMBDA g : EvalScalars(q, fam(g)))) % P

-----------------------------------------------------------------------------
(* materialize_eq_tensor_left: q has the challenges cs, families and the   *)
(* length len of the output.                                               *)

\* OffsetEqWindow::fill_interval, block by block of the low table.
RECURSIVE FillInterval(_, _, _)
FillInterval(cs, start, n) ==
    LET low  == SplitLowBits(Len(cs), LowBitsCap)
        rest == SubSeq(cs, low + 1, Len(cs))
        take == Min({2 ^ low - (start % 2 ^ low), n})
        hi   == start \div 2 ^ low
    IN  IF Len(rest) > HighBitsCap
        THEN [k \in 1 .. n |-> WindowEval(cs, start + k - 1)]
        ELSE IF n = 0 \/ hi >= 2 ^ Len(rest) THEN [k \in 1 .. n |-> 0]
        ELSE [k \in 1 .. take |-> (At0(EqTable(SubSeq(cs, 1, low)), (start % 2 ^ low) + k - 1)
                                      * At0(EqTable(rest), hi)) % P]
               \o FillInterval(cs, start + take, n - take)

\* A unit interval copied one to one.
IsInterval(f) ==
    /\ f.scalar = 1 /\ Len(f.axes) = 1
    /\ f.axes[1].kind = "unit" /\ f.axes[1].ls = 1 /\ f.axes[1].rs = 1

Span(f) == f.lo .. f.lo + f.axes[1].len - 1

Write(out, from, values) ==
    [i \in DOMAIN out |-> IF i \in from + 1 .. from + Len(values) THEN values[i - from] ELSE out[i]]

\* The intervals are taken to be disjoint.
DisjointUnchecked(fs) ==
    \A g \in DOMAIN fs : fs[g].scalar # 0 => IsInterval(fs[g])

\* materialize_disjoint_unit_intervals applies.
Disjoint(fs) ==
    LET live == {g \in DOMAIN fs : fs[g].scalar # 0}
    IN  /\ \A g \in live : IsInterval(fs[g])
        /\ \A g, h \in live : g # h => Span(fs[g]) \cap Span(fs[h]) = {}

\* dense_left_destination_axis: the only axis that moves on the left, a unit
\* axis of stride 1; 0 if there is none.
DestinationAxis(f) ==
    LET moving == {i \in DOMAIN f.axes : f.axes[i].ls # 0}
    IN  IF /\ Cardinality(moving) = 1
           /\ \A i \in moving : f.axes[i].ls = 1 /\ f.axes[i].kind = "unit"
        THEN Max(moving) ELSE 0

\* materialize_dense_left_overlap measures the first family, whatever its weight,
\* before it looks at the others.
FirstLeaves(q) ==
    LET f == q.families[1]
        d == DestinationAxis(f)
    IN  d # 0 /\ f.lo + f.axes[d].len > q.len

\* materialize_dense_left_overlap applies: one destination for all families.
SameDestination(fs) ==
    \A g \in DOMAIN fs :
        /\ DestinationAxis(fs[g]) # 0
        /\ fs[g].lo = fs[1].lo
        /\ fs[g].axes[DestinationAxis(fs[g])].len = fs[1].axes[DestinationAxis(fs[1])].len

ContractOnto(q, coordinate) ==
    FSum(DOMAIN q.families,
         LAMBDA g : LET f == q.families[g]
                        d == DestinationAxis(f)
                    IN  FSum(Coordinates(f, {d}),
                             LAMBDA c : WeightOf(f, c, {d})
                                * WindowEval(q.cs, RightOf(f, c) + f.axes[d].rs * coordinate)))

\* The general path, one family at a time.
AddFamily(q, out, f) ==
    LET visited == {c \in Coordinates(f, {}) : WeightOf(f, c, {}) # 0}
        clean == \A l \in Span(f) : out[1][l + 1] = 0
    IN  CASE out = Refused \/ \E c \in visited : LeftOf(f, c) >= q.len -> Refused
          [] OTHER ->
             IF IsInterval(f) /\ clean
             THEN Ok(Write(out[1], f.lo, FillInterval(q.cs, f.ro, f.axes[1].len)))
             ELSE Ok([i \in DOMAIN out[1] |->
                    (out[1][i] + FSum({c \in visited : LeftOf(f, c) = i - 1},
                                      LAMBDA c : WeightOf(f, c, {})
                                                   * WindowEval(q.cs, RightOf(f, c)))) % P])

MaterializeLeft(q) ==
    LET fs   == q.families
        zero == [i \in 1 .. q.len |-> 0]
        live == SelectSeq(fs, LAMBDA f : f.scalar # 0)
        first == fs[1].axes[DestinationAxis(fs[1])]
    IN  IF Disjoint(fs)
        THEN IF \E i \in DOMAIN live : live[i].lo + live[i].axes[1].len > q.len THEN Refused
             ELSE Ok(FoldLeft(LAMBDA out, f : Write(out, f.lo, FillInterval(q.cs, f.ro, f.axes[1].len)),
                              zero, live))
        ELSE IF FirstLeaves(q) THEN Refused
        ELSE IF SameDestination(fs)
        THEN Ok(Write(zero, fs[1].lo, [c \in 1 .. first.len |-> ContractOnto(q, c - 1)]))
        ELSE FoldLeft(LAMBDA out, f : AddFamily(q, out, f), Ok(zero), fs)

-----------------------------------------------------------------------------
(* The calls. *)

StartTensor ==
    \/ \E q \in PairInputs : Starts("pair", q)
    \/ \E q \in LeftInputs : Starts("left", q)

\* Both callers build their families with EqPairTensorFamily::new.
Normalize ==
    /\ At("pair", 0) \/ At("left", 0)
    /\ LET built == [g \in DOMAIN call.arg.families |-> NewFamily(call.arg.families[g])]
       IN  Returns(IF \E g \in DOMAIN built : built[g] = Refused THEN Refused
                   ELSE Ok([g \in DOMAIN built |-> built[g][1]]))

EvaluatePairs ==
    /\ At("pair", 1) /\ call.out[1] # Refused
    /\ Returns(EvalPairs([call.arg EXCEPT !.families = call.out[1][1]]))

Materialize ==
    /\ At("left", 1) /\ call.out[1] # Refused
    /\ Returns(MaterializeLeft([call.arg EXCEPT !.families = call.out[1][1]]))

TensorNext == Normalize \/ EvaluatePairs \/ Materialize

-----------------------------------------------------------------------------
(* Properties. *)

\* The evaluator returns the sum over all coordinates of the families as
\* given, whichever of its paths a family takes after normalization; an
\* address outside a side's domain counts 0 (evaluate.rs).
PairExact ==
    call.fn = "pair" /\ Len(call.out) = 2 =>
        call.out[2] = FSum(DOMAIN call.arg.families,
                           LAMBDA g : EvalScalars(call.arg, call.arg.families[g]))

\* The materialized vector holds at every left address the sum of the
\* families' weighted equality values.  A call is refused when an address that
\* has weight lies outside the output, and otherwise at most for an address of
\* the first family, which the shared-destination path measures before it knows
\* its weight (materialize.rs).
LeftExact ==
    call.fn = "left" /\ Len(call.out) = 2 =>
        LET q == call.arg
            hits == UNION {{<<g, c>> : c \in {d \in Coordinates(q.families[g], {}) :
                                                WeightOf(q.families[g], d, {}) # 0}} :
                             g \in DOMAIN q.families}
            left(t) == LeftOf(q.families[t[1]], t[2])
        IN  IF \E t \in hits : left(t) >= q.len THEN call.out[2] = Refused
            ELSE \/ /\ call.out[2] = Refused
                    /\ \E c \in Coordinates(q.families[1], {}) : LeftOf(q.families[1], c) >= q.len
                 \/ call.out[2] = Ok([i \in 1 .. q.len |->
                         FSum({t \in hits : left(t) = i - 1},
                              LAMBDA t : WeightOf(q.families[t[1]], t[2], {})
                                           * EqAt(q.cs, RightOf(q.families[t[1]], t[2])))])
=============================================================================
