---------------------------- MODULE WitnessLayout ----------------------------
(***************************************************************************)
(* The address of every coefficient of a fold's witness                    *)
(* (akita-types/src/witness.rs).  The witness of the next level holds, for *)
(* every chunk of blocks and every opening group, the digits of the folded *)
(* response Z, of the folded openings E and of the inner rows T; behind    *)
(* them the digits of the relation's quotients R and, when commitments are *)
(* compressed, the bits of every map of the compression chains.  The       *)
(* prover emits it front to back into the packed writer; the verifier only *)
(* computes addresses; the planner only computes the length.               *)
(*                                                                         *)
(* A level is the parameters of one fold:                                  *)
(*   groups      opening groups, the final one last: ring dimensions da,   *)
(*               db, claims, blocks, positions, digit counts inner, outer, *)
(*               open, fold, rows na, nb, slices of B, and the dimension   *)
(*               of the challenge subring (0 for an evaluation trace)      *)
(*   nd, dd      rows and ring dimension of D                              *)
(*   chunks      chunks of blocks                                          *)
(*   depth       digits of a quotient, 0 in the reduced-evaluation mode    *)
(*   compressed  commitments are compressed                                *)
(*   ext         degree of the extension                                   *)
(* A digit is the tuple that says which one it is.  Groups, rows and maps  *)
(* count from 1, everything else from 0 as in the code.  Source 0 of a     *)
(* compression chain is the opening, source g the commitment of group g.   *)
(***************************************************************************)
EXTENDS Calls, Arith

CONSTANTS
    Ladder,         \* ring dimensions of the compression maps
    LayoutBits,     \* bits of a field element
    WitnessLevels   \* levels a call may start with

\* The ladder halves; schedules keep the other ring dimensions above it.
ASSUME LayoutAssumption ==
    /\ LayoutBits \in Nat \ {0}
    /\ Ladder[1] = 2 * Ladder[2]
    /\ \A l \in WitnessLevels :
          /\ l.groups # <<>> /\ l.nd > 0 /\ l.dd % Ladder[1] = 0
          /\ \A g \in Range(l.groups) :
                /\ g.claims > 0 /\ g.blocks > 0 /\ g.slices <= g.blocks
                /\ g.db % Ladder[1] = 0 /\ g.da % g.db = 0 /\ g.da % l.dd = 0
                /\ l.compressed \/ g.slices = 1

-----------------------------------------------------------------------------
(* Loops.  Coordinate i of nested loops over 0 .. dims[j] - 1. *)

Coord(dims, i) ==
    [j \in DOMAIN dims |-> (i \div Product(SubSeq(dims, j + 1, Len(dims)))) % dims[j]]

Loop(dims, body(_)) == [i \in 1 .. Product(dims) |-> body(Coord(dims, i - 1))]

\* A range of addresses is <<first, end>>.
RangeLen(r) == r[2] - r[1]
RangeFrom(start, len) == <<start, start + len>>
AlignUp(n, to) == DivCeil(n, to) * to

-----------------------------------------------------------------------------
(* Rows of the relation (akita-types/src/proof/relation.rs). *)

\* root_group_order: the final group first.
GroupOrder(l) ==
    LET n == Len(l.groups)
    IN  <<n>> \o [i \in 1 .. n - 1 |-> i]

Native(dim) == [modulus |-> dim, planes |-> 1]
RowWidth(geometry) == geometry.modulus * geometry.planes

\* opening_row_geometry.
OpeningGeometry(l, g) ==
    IF g.subring = 0 THEN Native(g.da) ELSE [modulus |-> g.subring, planes |-> l.ext]

\* SubringCoefficientPackingGeometry::try_new.
Packs(l, g) == g.subring # 0 => g.da % (l.ext * g.subring) = 0

LogicalRows(g) == g.nb * g.slices

RowFamily(what, geometry) == [what |-> what, geometry |-> geometry]

\* The rows of one group and all rows of the relation, in their order.
GroupFamilies(l, n) ==
    LET g == l.groups[n]
    IN  <<RowFamily(<<"consistency", n>>, OpeningGeometry(l, g))>>
        \o [r \in 1 .. g.na |-> RowFamily(<<"inner", n, r>>, Native(g.da))]
        \o Loop(<<g.slices, g.nb>>, LAMBDA c : RowFamily(<<"outer", n, c[1], c[2]>>, Native(g.db)))

RowFamilies(l) ==
    LET order == GroupOrder(l)
        chains == Append(order, 0)
    IN  FlattenSeq([i \in DOMAIN order |-> GroupFamilies(l, order[i])])
        \o [r \in 1 .. l.nd |-> RowFamily(<<"opening", r>>, Native(l.dd))]
        \o IF ~l.compressed THEN <<>>
           ELSE Loop(<<Len(Ladder), Len(chains)>>,
                     LAMBDA c : RowFamily(<<"map", chains[c[2] + 1], c[1] + 1>>, Native(Ladder[c[1] + 1])))

IsMapRow(row) == row.what[1] = "map"

\* relation_coefficient_block_len.
RelationBlock(l) ==
    Min({row.geometry.modulus : row \in {r \in Range(RowFamilies(l)) : ~IsMapRow(r)}})

\* relation_matrix_row_count, computed from the parameters.
RowCount(l) ==
    Sum([n \in DOMAIN l.groups |-> 1 + l.groups[n].na + LogicalRows(l.groups[n])]) + l.nd
    + IF l.compressed THEN (Len(l.groups) + 1) * Len(Ladder) ELSE 0

\* group_a_start and the ranges derived from it, as the prover and the
\* verifier's weights use them (rows from 1); the first counts the rows of
\* one slice only.
RowsBefore(l, n) == IF n = Len(l.groups) THEN {} ELSE {Len(l.groups)} \cup 1 .. n - 1

GroupAStartUnsliced(l, n) ==
    2 + MapThenSumSet(LAMBDA m : 1 + l.groups[m].na + l.groups[m].nb, RowsBefore(l, n))
GroupAStart(l, n) ==
    2 + MapThenSumSet(LAMBDA m : 1 + l.groups[m].na + LogicalRows(l.groups[m]), RowsBefore(l, n))

ConsistencyRow(l, n) == GroupAStart(l, n) - 1
ARow(l, n, r) == GroupAStart(l, n) + r - 1
BRow(l, n, j) == GroupAStart(l, n) + l.groups[n].na + j

\* The first row of D is found in the families.
DRow(l, r) ==
    LET families == RowFamilies(l)
    IN  (CHOOSE i \in DOMAIN families : families[i].what = <<"opening", 1>>) + r - 1

-----------------------------------------------------------------------------
(* The layout. *)

Chains(l) == Append(GroupOrder(l), 0)

SourceCoefficients(l, s) ==
    IF s = 0 THEN l.nd * l.dd ELSE LogicalRows(l.groups[s]) * l.groups[s].db

\* A map takes the bits of its input coefficients, in rings of its dimension.
MapPlan(l, s, m) ==
    LET input == IF m = 1 THEN SourceCoefficients(l, s) ELSE Ladder[m - 1]
    IN  [input |-> input, ring |-> Ladder[m], width |-> DivCeil(input * LayoutBits, Ladder[m])]

PaddedDigits(map) == map.width * map.ring

\* dyadic_block_ranges.
Boundary(blocks, parts, i) == (blocks \div parts) * i + ((blocks % parts) * i) \div parts
BlockRanges(blocks, parts) ==
    [i \in 1 .. parts |-> <<Boundary(blocks, parts, i - 1), Boundary(blocks, parts, i)>>]

\* witness_unit_lengths, of Z, E and T.
UnitLengths(l, g, blocks) ==
    << g.positions * g.inner * g.fold * g.da,
       g.claims * blocks * g.open * RowWidth(OpeningGeometry(l, g)),
       g.claims * blocks * g.na * g.outer * g.da >>

\* Chunk-major, the groups of a chunk in their order.
Units(l) ==
    LET order == GroupOrder(l)
        shapes == Loop(<<l.chunks, Len(order)>>, LAMBDA c : <<c[1], order[c[2] + 1]>>)
        BlocksOf(s) == BlockRanges(l.groups[s[2]].blocks, l.chunks)[s[1] + 1]
        Lengths(s) == UnitLengths(l, l.groups[s[2]], RangeLen(BlocksOf(s)))
        start == [i \in DOMAIN shapes |-> Sum([j \in 1 .. i - 1 |-> Sum(Lengths(shapes[j]))])]
    IN  [i \in DOMAIN shapes |->
           LET s == shapes[i]
               len == Lengths(s)
           IN  [ group |-> s[2], chunk |-> s[1], blocks |-> BlocksOf(s),
                 z |-> RangeFrom(start[i], len[1]),
                 e |-> RangeFrom(start[i] + len[1], len[2]),
                 t |-> RangeFrom(start[i] + len[1] + len[2], len[3]) ]]

\* resolve: the calls of the sink that places or measures the tail.
AlignCall(to) == [op |-> "align", to |-> to]
SpanCall(l, s, m) == [op |-> "span", source |-> s, map |-> m, len |-> PaddedDigits(MapPlan(l, s, m))]
RowCall(l, i) == [op |-> "row", row |-> i, len |-> l.depth * RowWidth(RowFamilies(l)[i].geometry)]

SuccessorAlign(l) ==
    IF Len(l.groups) > 1 THEN Max({g.da : g \in Range(l.groups)}) ELSE RelationBlock(l)

Resolve(l) ==
    LET chains == Chains(l)
        first == Len(SelectSeq(RowFamilies(l), LAMBDA r : ~IsMapRow(r)))
        Rows(from, count) == IF l.depth = 0 THEN <<>> ELSE [i \in 1 .. count |-> RowCall(l, from + i)]
        Layer(m) ==
            <<AlignCall(Max({MapPlan(l, s, m).ring : s \in Range(chains)}))>>
            \o [i \in DOMAIN chains |-> SpanCall(l, chains[i], m)]
            \o Rows(first + (m - 1) * Len(chains), Len(chains))
    IN  Rows(0, first)
        \o IF ~l.compressed THEN <<>>
           ELSE <<AlignCall(RelationBlock(l))>>
                \o FlattenSeq([m \in DOMAIN Ladder |-> Layer(m)])
                \o <<AlignCall(SuccessorAlign(l))>>

\* MaterializingTailSink.
PlaceCall(t, c) ==
    LET at == RangeFrom(t.cursor, c.len)
        to == AlignUp(t.cursor, c.to)
    IN  CASE c.op = "align" -> [t EXCEPT !.cursor = to,
                                         !.gaps = IF to = t.cursor THEN @ ELSE @ \cup {<<t.cursor, to>>}]
          [] c.op = "span"  -> [t EXCEPT !.cursor = at[2],
                                         !.spans = @ \cup {[source |-> c.source, map |-> c.map, range |-> at]}]
          [] c.op = "row"   -> [t EXCEPT !.cursor = at[2], !.rows = @ @@ (c.row :> at)]

\* MeasuringTailSink, and one that measures without aligning.
MeasureUnaligned(cursor, c) == IF c.op = "align" THEN cursor ELSE cursor + c.len
MeasureCall(cursor, c) == IF c.op = "align" THEN AlignUp(cursor, c.to) ELSE cursor + c.len

BodyLen(units) == units[Len(units)].t[2]

\* RelationRhsLayout::validate, then WitnessLayout::new.
NewLayout(l) ==
    LET units == Units(l)
        start == BodyLen(units)
        tail == FoldLeft(PlaceCall, [cursor |-> start, spans |-> {}, rows |-> <<>>, gaps |-> {}], Resolve(l))
    IN  IF \E g \in Range(l.groups) : RowWidth(OpeningGeometry(l, g)) % l.dd # 0 \/ ~Packs(l, g) THEN Refused
        ELSE Ok([units |-> units, spans |-> tail.spans, rows |-> tail.rows, gaps |-> tail.gaps,
                 tail |-> <<start, tail.cursor>>])

SpanOf(w, s, m) == (CHOOSE sp \in w.spans : sp.source = s /\ sp.map = m).range

\* What the planner computes without a layout: the body of a group, and the
\* length of a witness with one group.
GroupedBody(l, n) ==
    LET g == l.groups[n]
        parts == BlockRanges(g.blocks, l.chunks)
    IN  Sum([i \in DOMAIN parts |-> Sum(UnitLengths(l, g, RangeLen(parts[i])))])

ScalarLiveLen(l) == FoldLeft(MeasureCall, GroupedBody(l, 1), Resolve(l))

-----------------------------------------------------------------------------
(* Addresses; Refused where the code returns an error. *)

CheckedIndex(range, local) ==
    IF range[1] + local < range[2] THEN Ok(range[1] + local) ELSE Refused

\* projected_coefficient_index: a source ring holds rings of a role, and the
\* digits of one role ring come before the next.
ProjectedIndex(range, source, role, count, digits, semantic, sub, digit, k) ==
    IF /\ source % role = 0 /\ RangeLen(range) = count * digits * source
       /\ semantic < count /\ sub < source \div role /\ digit < digits /\ k < role
    THEN CheckedIndex(range, ((semantic * (source \div role) + sub) * digits + digit) * role + k)
    ELSE Refused

Owns(u, block) == u.blocks[1] <= block /\ block < u.blocks[2]
BlockClaim(u, claim, block) == claim * RangeLen(u.blocks) + block - u.blocks[1]

EIndex(l, u, claim, block, sub, digit, k) ==
    LET g == l.groups[u.group]
    IN  IF ~Owns(u, block) \/ claim >= g.claims THEN Refused
        ELSE ProjectedIndex(u.e, RowWidth(OpeningGeometry(l, g)), l.dd, g.claims * RangeLen(u.blocks),
                            g.open, BlockClaim(u, claim, block), sub, digit, k)

TIndex(l, u, claim, block, arow, sub, digit, k) ==
    LET g == l.groups[u.group]
    IN  IF ~Owns(u, block) \/ claim >= g.claims \/ arow >= g.na THEN Refused
        ELSE ProjectedIndex(u.t, g.da, g.db, g.claims * RangeLen(u.blocks) * g.na, g.outer,
                            g.na * BlockClaim(u, claim, block) + arow, sub, digit, k)

ZIndex(l, u, position, inner, fold, k) ==
    LET g == l.groups[u.group]
    IN  IF position < g.positions /\ inner < g.inner /\ fold < g.fold /\ k < g.da
        THEN CheckedIndex(u.z, (g.fold * (g.inner * position + inner) + fold) * g.da + k)
        ELSE Refused

RIndex(l, w, row, digit, plane, k) ==
    LET geometry == RowFamilies(l)[row].geometry
    IN  IF row \in DOMAIN w.rows /\ digit < l.depth /\ plane < geometry.planes /\ k < geometry.modulus
        THEN CheckedIndex(w.rows[row], digit * RowWidth(geometry) + plane * geometry.modulus + k)
        ELSE Refused

-----------------------------------------------------------------------------
(* What the prover holds before it emits the witness: planes of digits, in   *)
(* the order in which they were computed.                                    *)

ESubs(l, g) == RowWidth(OpeningGeometry(l, g)) \div l.dd
TSubs(g) == g.da \div g.db

EDigit(n, claim, block, coefficient, digit) == <<"e", n, claim, block, coefficient, digit>>
TDigit(n, claim, block, arow, coefficient, digit) == <<"t", n, claim, block, arow, coefficient, digit>>
ZDigit(n, chunk, position, inner, fold, k) == <<"z", n, chunk, position, inner, fold, k>>
RDigit(what, digit, k) == <<"r", what, digit, k>>
BitOf(what, k, bit) == <<"b", what, k, bit>>
NoDigit == <<"zero">>

EHat(l, n) ==
    LET g == l.groups[n]
    IN  Loop(<<g.claims, g.blocks, ESubs(l, g), g.open>>,
             LAMBDA c : [k \in 1 .. l.dd |-> EDigit(n, c[1], c[2], c[3] * l.dd + k - 1, c[4])])

THat(l, n) ==
    LET g == l.groups[n]
    IN  Loop(<<g.claims, g.blocks, g.na, TSubs(g), g.outer>>,
             LAMBDA c : [k \in 1 .. g.db |-> TDigit(n, c[1], c[2], c[3], c[4] * g.db + k - 1, c[5])])

ZPlanes(l, n, chunk) ==
    LET g == l.groups[n]
    IN  Loop(<<g.positions, g.inner, g.fold>>,
             LAMBDA c : [k \in 1 .. g.da |-> ZDigit(n, chunk, c[1], c[2], c[3], k - 1)])

\* compute_multi_group_relation_quotient puts every quotient in the slot of its
\* row; a consistency row refuses a slot that is taken, an empty slot is refused.
Placement(row, what, geometry) == [row |-> row, is |-> RowFamily(what, geometry)]
GroupPlacements(l, n) ==
    LET g == l.groups[n]
    IN  <<Placement(ConsistencyRow(l, n), <<"consistency", n>>, OpeningGeometry(l, g))>>
        \o [r \in 1 .. g.na |-> Placement(ARow(l, n, r), <<"inner", n, r>>, Native(g.da))]
        \o Loop(<<g.slices, g.nb>>,
                LAMBDA c : Placement(BRow(l, n, c[1] * g.nb + c[2]), <<"outer", n, c[1], c[2]>>, Native(g.db)))
MapPlacements(families) ==
    SelectSeq([i \in DOMAIN families |-> [row |-> i, is |-> families[i]]], LAMBDA p : IsMapRow(p.is))

Placements(l) ==
    FlattenSeq([i \in DOMAIN l.groups |-> GroupPlacements(l, GroupOrder(l)[i])])
    \o [r \in 1 .. l.nd |-> Placement(DRow(l, r), <<"opening", r>>, Native(l.dd))]
    \o MapPlacements(RowFamilies(l))

InRow(placed, i) == {j \in DOMAIN placed : placed[j].row = i}
FilledSlots(placed, rows) ==
    IF \/ \E i \in rows : InRow(placed, i) = {}
       \/ \E j \in DOMAIN placed :
             \/ placed[j].row \notin rows
             \/ placed[j].is.what[1] = "consistency" /\ \E i \in InRow(placed, placed[j].row) : i < j
    THEN Refused
    ELSE Ok([i \in rows |-> placed[Max(InRow(placed, i))].is])
QuotientSlots(l) == FilledSlots(Placements(l), DOMAIN RowFamilies(l))

\* The row and the coefficient of the row that a map's input coefficient is.
InputCoefficient(l, s, m, c) ==
    CASE m > 1 -> <<<<"map", s, m - 1>>, c>>
      [] m = 1 /\ s = 0 -> <<<<"opening", c \div l.dd + 1>>, c % l.dd>>
      [] m = 1 /\ s > 0 -> LET g == l.groups[s]
                               j == c \div g.db
                           IN  <<<<"outer", s, j \div g.nb, j % g.nb>>, c % g.db>>

\* PackedNegativeBinary: bit-major over the input coefficients.
PackedBits(l, s, m) ==
    LET map == MapPlan(l, s, m)
    IN  [x \in 1 .. PaddedDigits(map) |->
           IF x > map.input * LayoutBits THEN NoDigit
           ELSE LET from == InputCoefficient(l, s, m, (x - 1) % map.input)
                IN  BitOf(from[1], from[2], (x - 1) \div map.input)]

-----------------------------------------------------------------------------
(* The prover emits the witness. *)

Put(at, digits) == [at |-> at, digits |-> digits]

\* emit_witness_z_planes, emit_witness_e_planes, emit_witness_t_planes.
EmitZ(l, u) ==
    LET g == l.groups[u.group]
        planes == ZPlanes(l, u.group, u.chunk)
    IN  Loop(<<g.positions, g.inner, g.fold>>,
             LAMBDA c : Put(ZIndex(l, u, c[1], c[2], c[3], 0),
                            planes[(c[1] * g.inner + c[2]) * g.fold + c[3] + 1]))

EmitE(l, u) ==
    LET g == l.groups[u.group]
        subs == ESubs(l, g)
        hat == EHat(l, u.group)
        Source(claim, block, sub, digit) == ((claim * g.blocks + block) * subs + sub) * g.open + digit
    IN  Loop(<<g.claims, RangeLen(u.blocks), subs, g.open>>,
             LAMBDA c : Put(EIndex(l, u, c[1], u.blocks[1] + c[2], c[3], c[4], 0),
                            hat[Source(c[1], u.blocks[1] + c[2], c[3], c[4]) + 1]))

EmitT(l, u) ==
    LET g == l.groups[u.group]
        subs == TSubs(g)
        hat == THat(l, u.group)
        Source(claim, block, arow, sub, digit) ==
            (claim * g.blocks + block) * (g.na * subs * g.outer) + (arow * subs + sub) * g.outer + digit
    IN  Loop(<<g.claims, RangeLen(u.blocks), g.na, subs, g.outer>>,
             LAMBDA c : Put(TIndex(l, u, c[1], u.blocks[1] + c[2], c[3], c[4], c[5], 0),
                            hat[Source(c[1], u.blocks[1] + c[2], c[3], c[4], c[5]) + 1]))

EmitUnit(l, u) == EmitZ(l, u) \o EmitE(l, u) \o EmitT(l, u)

\* emit_witness_tail in the order of the addresses; without quotients
\* emit_reduced_witness_tail, layer by layer.
EmitSpan(l, w, s, m) == Put(Ok(SpanOf(w, s, m)[1]), PackedBits(l, s, m))

EmitRow(l, w, slots, i) ==
    LET width == RowWidth(slots[i].geometry)
    IN  Put(Ok(w.rows[i][1]),
            [x \in 1 .. l.depth * width |-> RDigit(slots[i].what, (x - 1) \div width, (x - 1) % width)])

EmitLayers(l, w, chains) ==
    IF w.spans = {} THEN <<>>
    ELSE Loop(<<Len(Ladder), Len(chains)>>, LAMBDA c : EmitSpan(l, w, chains[c[2] + 1], c[1] + 1))

EmitRows(l, w, slots, families, layers) ==
    IF slots = Refused \/ \E i \in DOMAIN families : slots[1][i].geometry # families[i].geometry
    THEN <<Put(Refused, <<>>)>>
    ELSE SortSeq([i \in DOMAIN families |-> EmitRow(l, w, slots[1], i)] \o layers,
                 LAMBDA a, b : a.at[1] < b.at[1])

EmitTail(l, w, layers) ==
    IF l.depth = 0 THEN layers ELSE EmitRows(l, w, QuotientSlots(l), RowFamilies(l), layers)

\* The writer goes forward only and leaves zeros where nothing is written.
WriterTakes(puts, len) ==
    \A i \in DOMAIN puts :
       /\ puts[i].at # Refused
       /\ puts[i].at[1] + Len(puts[i].digits) <= len
       /\ i > 1 => puts[i].at[1] >= puts[i - 1].at[1] + Len(puts[i - 1].digits)

\* Every nonzero digit with the address it was written to.
WrittenDigits(puts, len) ==
    IF ~WriterTakes(puts, len) THEN Refused
    ELSE Ok({d \in UNION {{<<Ok(p.at[1] + k - 1), p.digits[k]>> : k \in DOMAIN p.digits} : p \in Range(puts)} :
               d[2] # NoDigit})

Emit(l, w) ==
    WrittenDigits(FlattenSeq([i \in DOMAIN w.units |-> EmitUnit(l, w.units[i])])
              \o EmitTail(l, w, EmitLayers(l, w, Chains(l))),
            w.tail[2])

-----------------------------------------------------------------------------
(* Where the relation's weights read them. *)

UnitForBlock(w, n, block) ==
    LET i == CHOOSE i \in DOMAIN w.units : w.units[i].group = n /\ Owns(w.units[i], block)
    IN  w.units[i]

BodyCoordinates(l, w, n) ==
    LET g == l.groups[n]
    IN  {<<EIndex(l, UnitForBlock(w, n, block), claim, block, sub, digit, k),
           EDigit(n, claim, block, sub * l.dd + k, digit)>> :
           claim \in 0 .. g.claims - 1, block \in 0 .. g.blocks - 1, sub \in 0 .. ESubs(l, g) - 1,
           digit \in 0 .. g.open - 1, k \in 0 .. l.dd - 1}
        \cup
        {<<TIndex(l, UnitForBlock(w, n, block), claim, block, arow, sub, digit, k),
           TDigit(n, claim, block, arow, sub * g.db + k, digit)>> :
           claim \in 0 .. g.claims - 1, block \in 0 .. g.blocks - 1, arow \in 0 .. g.na - 1,
           sub \in 0 .. TSubs(g) - 1, digit \in 0 .. g.outer - 1, k \in 0 .. g.db - 1}
        \cup
        {<<ZIndex(l, u, position, inner, fold, k), ZDigit(n, u.chunk, position, inner, fold, k)>> :
           u \in {v \in Range(w.units) : v.group = n}, position \in 0 .. g.positions - 1,
           inner \in 0 .. g.inner - 1, fold \in 0 .. g.fold - 1, k \in 0 .. g.da - 1}

\* evaluate_quotient_tail: a row of its own ring starts at a block of the relation.
PackedRow(l, row) == row.what[1] = "consistency" /\ l.groups[row.what[2]].subring # 0
LaneStarts(l, w, i) ==
    LET row == RowFamilies(l)[i]
    IN  IsMapRow(row) \/ PackedRow(l, row) \/ w.rows[i][1] % RelationBlock(l) = 0

QuotientCoordinates(l, w) ==
    LET families == RowFamilies(l)
        OfRow(i) ==
            LET geometry == families[i].geometry
            IN  {<<IF LaneStarts(l, w, i) THEN RIndex(l, w, i, digit, plane, k) ELSE Refused,
                   RDigit(families[i].what, digit, plane * geometry.modulus + k)>> :
                   digit \in 0 .. l.depth - 1, plane \in 0 .. geometry.planes - 1, k \in 0 .. geometry.modulus - 1}
    IN  UNION {OfRow(i) : i \in DOMAIN w.rows}

\* push_recomposition: row first + r is the sum of the bits of its
\* coefficients, in pieces of the map's ring.
Recomposition(start, ring, source, first, rows) ==
    {[start |-> start + bit * rows * source + r * source + c * ring, count |-> ring, alpha |-> c * ring,
      row |-> first + r, bit |-> bit] :
        bit \in 0 .. LayoutBits - 1, r \in 0 .. rows - 1, c \in 0 .. source \div ring - 1}

\* push_initial_recompositions, then the successor of every map row.
Recompositions(l, w) ==
    LET families == RowFamilies(l)
        OfGroup(n) == Recomposition(SpanOf(w, n, 1)[1], Ladder[1], l.groups[n].db, BRow(l, n, 0), LogicalRows(l.groups[n]))
        OfMap(i) == LET s == families[i].what[2]
                        m == families[i].what[3]
                    IN  IF m = Len(Ladder) THEN {}
                        ELSE Recomposition(SpanOf(w, s, m + 1)[1], Ladder[m + 1], Ladder[m], i, 1)
    IN  IF w.spans = {} THEN {}
        ELSE UNION {OfGroup(n) : n \in DOMAIN l.groups}
             \cup Recomposition(SpanOf(w, 0, 1)[1], Ladder[1], l.dd, DRow(l, 1), l.nd)
             \cup UNION {OfMap(i) : i \in {j \in DOMAIN families : IsMapRow(families[j])}}

\* The checks of CompressionRelationWeights::push.
Pushable(w, e) ==
    LET block == Min(Range(Ladder))
    IN  /\ e.start % block = 0 /\ e.count % block = 0 /\ e.alpha % block = 0
        /\ e.start + e.count <= w.tail[2]

BitCoordinates(l, w) ==
    LET families == RowFamilies(l)
    IN  UNION {{<<IF Pushable(w, e) THEN Ok(e.start + k) ELSE Refused,
                  BitOf(families[e.row].what, e.alpha + k, e.bit)>> : k \in 0 .. e.count - 1} :
               e \in Recompositions(l, w)}

ReadCoordinates(l, w) ==
    UNION {BodyCoordinates(l, w, n) : n \in DOMAIN l.groups}
    \cup QuotientCoordinates(l, w) \cup BitCoordinates(l, w)

-----------------------------------------------------------------------------
(* One level: its layout, the witness emitted into it, and the length the    *)
(* planner expects.                                                          *)

\* negative_binary_support_intervals.
SupportIntervals(l, w) ==
    IF w.spans = {} THEN {}
    ELSE {<<SpanOf(w, Chains(l)[1], m)[1], SpanOf(w, 0, m)[2]>> : m \in DOMAIN Ladder}

StartWitness == \E l \in WitnessLevels : Starts("witness", l)

BuildLayout == At("witness", 0) /\ Returns(NewLayout(call.arg))

EmitWitness ==
    /\ At("witness", 1) /\ call.out[1] # Refused
    /\ Returns(Emit(call.arg, call.out[1][1]))

MeasureWitness ==
    /\ At("witness", 2)
    /\ Returns([ bodies |-> Sum([n \in DOMAIN call.arg.groups |-> GroupedBody(call.arg, n)]),
                 live |-> IF Len(call.arg.groups) = 1 THEN Ok(ScalarLiveLen(call.arg)) ELSE Refused,
                 support |-> SupportIntervals(call.arg, call.out[1][1]) ])

WitnessNext == BuildLayout \/ EmitWitness \/ MeasureWitness

-----------------------------------------------------------------------------
(* Properties. *)

\* The packed writer takes everything the prover emits, and every digit of E,
\* T, Z and R and every bit of a commitment is exactly where the weights of
\* the relation look for it, for the row it belongs to; every other address
\* of the witness is zero.
WitnessPlaced ==
    call.fn = "witness" /\ Len(call.out) >= 2 =>
        call.out[2] = Ok(ReadCoordinates(call.arg, call.out[1][1]))

Addresses(r) == r[1] .. r[2] - 1

\* The ranges of a layout tile the witness, the planner's lengths are those of
\* the layout, and the addresses checked for negative bits are those of the
\* compression spans.
WitnessMeasured ==
    call.fn = "witness" /\ Len(call.out) >= 3 =>
        LET w == call.out[1][1]
            spans == {sp.range : sp \in w.spans}
            ranges == UNION {{u.z, u.e, u.t} : u \in Range(w.units)} \cup Range(w.rows) \cup spans \cup w.gaps
        IN  /\ UNION {Addresses(r) : r \in ranges} = 0 .. w.tail[2] - 1
            /\ MapThenSumSet(RangeLen, ranges) = w.tail[2]
            /\ call.out[3].bodies = w.tail[1]
            /\ call.out[3].live \in {Refused, Ok(w.tail[2])}
            /\ UNION {Addresses(r) : r \in call.out[3].support} = UNION {Addresses(r) : r \in spans}
            /\ RowCount(call.arg) = Len(RowFamilies(call.arg))

-----------------------------------------------------------------------------
=============================================================================
