---------------------------- MODULE DecomposeFold ----------------------------
(***************************************************************************)
(* The prover's fold of digit planes by sparse challenges                  *)
(* (akita-prover/src/backend/poly_helpers): every block of rings is        *)
(* multiplied by its challenge in Z[X]/(X^D + 1) and the blocks are summed *)
(* position by position.  Each challenge gets a plan: a table of its       *)
(* rotations, 16-bit accumulation that is flushed into the 32-bit sum      *)
(* before it can overflow, 16-bit accumulation of chunks of its terms, or  *)
(* 32-bit accumulation.                                                    *)
(*                                                                         *)
(* A source is its digit planes, num_digits of them per ring (the          *)
(* decomposition is that of Digits); a call folds one tile of positions,   *)
(* the part of the result one task of the thread pool owns.  A vector      *)
(* kernel does what the scalar one does.                                   *)
(***************************************************************************)
EXTENDS Calls, Arith

CONSTANTS
    RingDim,        \* D
    NarrowMax,      \* i16::MAX
    RotatedWeight,  \* terms from which a challenge is expanded
    FoldSources,    \* sources: bound, planes, digits, positions, tile
    FoldChallenges, \* challenges
    FoldBlocks      \* blocks folded together

Rings == [1 .. RingDim -> Int]

\* Positions of a challenge are distinct, as the samplers draw them; a
\* source's bound holds for its digits; its tile starts inside a block.
ASSUME FoldAssumption ==
    /\ FoldBlocks \in Nat /\ RingDim \in Nat /\ NarrowMax \in Nat /\ RotatedWeight \in Nat
    /\ \A a \in FoldSources :
          /\ a.digits \in Nat \ {0} /\ a.positions \in Nat \ {0} /\ a.bound \in Nat
          /\ a.tile.len \in Nat /\ a.tile.start \in 0 .. a.positions - 1
          /\ a.planes \in Seq(Rings) /\ Len(a.planes) % a.digits = 0
          /\ \A i \in DOMAIN a.planes : \A k \in 1 .. RingDim : Abs(a.planes[i][k]) <= a.bound
    /\ \A c \in FoldChallenges :
          /\ c \in Seq([pos : 0 .. RingDim - 1, coeff : Int])
          /\ IsInjective([t \in DOMAIN c |-> c[t].pos])

-----------------------------------------------------------------------------
(* Plans.  A challenge is a sequence of terms [pos, coeff]. *)

Mass(terms) == Sum([t \in DOMAIN terms |-> Abs(terms[t].coeff)])

\* Consecutive chunks of the terms, each within the mass: <<first, last>>.
ChunkRanges(terms, mass) ==
    LET Take(acc, t) ==
            IF acc.mass + Abs(terms[t].coeff) > mass
            THEN [mass |-> Abs(terms[t].coeff), first |-> t,
                  ranges |-> Append(acc.ranges, <<acc.first, t - 1>>)]
            ELSE [acc EXCEPT !.mass = @ + Abs(terms[t].coeff)]
        taken[t \in 0 .. Len(terms)] ==
            IF t = 0 THEN [mass |-> 0, first |-> 1, ranges |-> <<>>] ELSE Take(taken[t - 1], t)
        done == taken[Len(terms)]
    IN  IF done.first <= Len(terms) THEN Append(done.ranges, <<done.first, Len(terms)>>)
        ELSE done.ranges

\* prepare_challenge.
Plan(bound, terms) ==
    LET chunk == NarrowMax \div bound
    IN  CASE Len(terms) >= RotatedWeight -> [kind |-> "rotated"]
          [] Len(terms) < RotatedWeight /\ bound = 0 -> [kind |-> "full", bound |-> 0]
          [] Len(terms) < RotatedWeight /\ bound > 0 ->
                CASE \E t \in DOMAIN terms : Abs(terms[t].coeff) > chunk -> [kind |-> "wide"]
                  [] (\A t \in DOMAIN terms : Abs(terms[t].coeff) <= chunk)
                     /\ bound * Mass(terms) <= NarrowMax ->
                        [kind |-> "full", bound |-> bound * Mass(terms)]
                  [] OTHER -> [kind |-> "chunked", ranges |-> ChunkRanges(terms, chunk)]

-----------------------------------------------------------------------------
(* Kernels.  A ring is a sequence of RingDim coefficients. *)

Zero == [k \in 1 .. RingDim |-> 0]

\* Coefficient k (from 0) of the plane times X^pos.
Rotate(plane, pos, k) == IF k >= pos THEN plane[k - pos + 1] ELSE -plane[RingDim - pos + k + 1]

\* sparse_mul_acc in 32 and in 16 bits: the latter wraps at every step.
MulAcc(plane, terms, acc) ==
    [k \in 1 .. RingDim |->
        acc[k] + Sum([t \in DOMAIN terms |-> terms[t].coeff * Rotate(plane, terms[t].pos, k - 1)])]

Narrow(x) == ((x + NarrowMax + 1) % (2 * (NarrowMax + 1))) - NarrowMax - 1

NarrowMulAcc(plane, terms, acc) ==
    LET after[t \in 0 .. Len(terms)] ==
            IF t = 0 THEN acc
            ELSE [k \in 1 .. RingDim |->
                     Narrow(after[t - 1][k]
                            + Narrow(terms[t].coeff * Rotate(plane, terms[t].pos, k - 1)))]
    IN  after[Len(terms)]

\* fill_rotated_challenge and accumulate_rotated_digit_plane.
RotatedRows(terms) ==
    LET dense == [k \in 1 .. RingDim |->
                     Sum([t \in DOMAIN terms |-> IF terms[t].pos = k - 1 THEN terms[t].coeff ELSE 0])]
    IN  [i \in 1 .. RingDim |-> [k \in 1 .. RingDim |-> Rotate(dense, i - 1, k - 1)]]

RotatedAcc(plane, terms, acc) ==
    LET rows == RotatedRows(terms)
    IN  [k \in 1 .. RingDim |-> acc[k] + Sum([i \in 1 .. RingDim |-> plane[i] * rows[i][k]])]

-----------------------------------------------------------------------------
(* One tile: the 16-bit and the 32-bit accumulators and the bound on the    *)
(* former.                                                                  *)

NewTile(a) ==
    LET elems == Min({a.tile.len, a.positions - a.tile.start})
    IN  [ narrow |-> [i \in 1 .. elems * a.digits |-> Zero],
          wide   |-> [i \in 1 .. elems * a.digits |-> Zero],
          bound  |-> 0 ]

Flush(s) ==
    [ narrow |-> [i \in DOMAIN s.narrow |-> Zero],
      wide   |-> [i \in DOMAIN s.wide |-> [k \in 1 .. RingDim |-> s.wide[i][k] + s.narrow[i][k]]],
      bound  |-> 0 ]

\* The flush whenever something may have been accumulated.
FlushPending(s) == IF s.bound # 0 THEN Flush(s) ELSE s

\* The next block would take the 16-bit sum past its range; without its own
\* contribution one block too late.
ExceedsLate(bound, contribution) == bound > NarrowMax
Exceeds(bound, contribution) == bound + contribution > NarrowMax

NumRings(a) == Len(a.planes) \div a.digits

\* Slots of the tile for which block b has a ring, with the plane of each.
SlotPlane(a, b, slot) == a.planes[((b - 1) * a.positions + a.tile.start) * a.digits + slot]
Slots(a, b, s) ==
    LET first == (b - 1) * a.positions + a.tile.start
    IN  {i \in DOMAIN s.wide : first * a.digits + i <= NumRings(a) * a.digits}

\* accumulate_ring_chunked_narrow: every chunk is flushed at once.
ChunkedAcc(plane, terms, ranges, narrow, wide) ==
    LET Chunk(acc, r) ==
            LET n == NarrowMulAcc(plane, SubSeq(terms, r[1], r[2]), acc.narrow)
            IN  [narrow |-> Zero, wide |-> [k \in 1 .. RingDim |-> acc.wide[k] + n[k]]]
        after[i \in 0 .. Len(ranges)] ==
            IF i = 0 THEN [narrow |-> narrow, wide |-> wide] ELSE Chunk(after[i - 1], ranges[i])
    IN  after[Len(ranges)]

\* The body of the loop over the blocks of a tile.
FoldBlock(a, b, s) ==
    LET terms == a.challenges[b]
        plan  == Plan(a.bound, terms)
        slots == Slots(a, b, s)
        full  == IF Exceeds(s.bound, plan.bound) THEN Flush(s) ELSE s
        clean == FlushPending(s)
        Chunk(i) == ChunkedAcc(SlotPlane(a, b, i), terms, plan.ranges, clean.narrow[i], clean.wide[i])
        Wide(i) == IF plan.kind = "rotated" THEN RotatedAcc(SlotPlane(a, b, i), terms, clean.wide[i])
                   ELSE MulAcc(SlotPlane(a, b, i), terms, clean.wide[i])
        On(old, New(_)) == [i \in DOMAIN old |-> IF i \in slots THEN New(i) ELSE old[i]]
    IN  CASE slots = {} -> s
          [] slots # {} /\ plan.kind = "full" ->
                [ narrow |-> On(full.narrow, LAMBDA i :
                                    NarrowMulAcc(SlotPlane(a, b, i), terms, full.narrow[i])),
                  wide   |-> full.wide,
                  bound  |-> full.bound + plan.bound ]
          [] slots # {} /\ plan.kind = "chunked" ->
                [ narrow |-> On(clean.narrow, LAMBDA i : Chunk(i).narrow),
                  wide   |-> On(clean.wide, LAMBDA i : Chunk(i).wide),
                  bound  |-> clean.bound ]
          [] OTHER ->
                [ narrow |-> clean.narrow, wide |-> On(clean.wide, Wide), bound |-> clean.bound ]

-----------------------------------------------------------------------------
(* The calls: the tile after each block, and its last flush. *)

StartFold ==
    \E a \in FoldSources, cs \in [1 .. FoldBlocks -> FoldChallenges] :
        Starts("fold", [ bound |-> a.bound, planes |-> a.planes, digits |-> a.digits,
                         positions |-> a.positions, tile |-> a.tile, challenges |-> cs ])

Blocks == Len(call.arg.challenges)
TileNow == IF call.out = <<>> THEN NewTile(call.arg) ELSE Last(call.out)

NextBlockOfTile ==
    /\ call.fn = "fold" /\ Len(call.out) < Blocks
    /\ Returns(FoldBlock(call.arg, Len(call.out) + 1, TileNow))

FinishTile == At("fold", Blocks) /\ Returns(FlushPending(TileNow))

FoldNext == NextBlockOfTile \/ FinishTile

FoldSpec == StartFold /\ [][FoldNext]_call

-----------------------------------------------------------------------------

\* Coefficient k of the product of a challenge and the plane of position p,
\* digit d, of block b, in Z[X]/(X^D + 1).
ProductAt(a, b, p, d, k) ==
    LET ring == (b - 1) * a.positions + p
        plane == a.planes[ring * a.digits + d]
        One(t, j) == CASE t.pos + j = k -> t.coeff * plane[j + 1]
                       [] t.pos + j = RingDim + k -> -(t.coeff * plane[j + 1])
                       [] OTHER -> 0
    IN  IF ring >= NumRings(a) THEN 0
        ELSE Sum([t \in DOMAIN a.challenges[b] |->
                     Sum([j \in 1 .. RingDim |-> One(a.challenges[b][t], j - 1)])])

\* The fold of a tile is the sum of challenge times plane over the blocks,
\* whichever plans meet in it and whichever blocks are cut short: no 16-bit
\* sum wraps, and nothing that waits in one is dropped or counted twice.
FoldExact ==
    call.fn = "fold" /\ Len(call.out) = Blocks + 1 =>
        LET a == call.arg
            wide == Last(call.out).wide
        IN  \A e \in 0 .. Min({a.tile.len, a.positions - a.tile.start}) - 1, d \in 1 .. a.digits :
                \A k \in 1 .. RingDim :
                    wide[e * a.digits + d][k] =
                        Sum([b \in 1 .. Blocks |-> ProductAt(a, b, a.tile.start + e, d, k - 1)])
=============================================================================
