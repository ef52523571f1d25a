---------------------------- MODULE SetupWeights ----------------------------
(***************************************************************************)
(* Which cell of the setup multiplies which plane of the witness, and in   *)
(* which row of the relation.  The matrices A, B and D of every group are  *)
(* views of one vector of setup coefficients, each with its own ring, its  *)
(* own width and, for B, slices that share one physical matrix.  The       *)
(* prover multiplies them with its planes (1) and compiles the same        *)
(* products into weights of the relation (2).  The verifier has three      *)
(* descriptions of them: families of tensors (3), a scan of packed         *)
(* segments (4) and the weight of a single setup index (5).                *)
(*                                                                         *)
(* A term is <<cell, lane, address, row, fold>>: cell of the smallest ring *)
(* of the level, the lane of the native ring it is, the address at which   *)
(* the plane of the witness starts, the row of the relation, and the fold  *)
(* digit that scales it (NoFold outside A).  The values of rows, folds and *)
(* powers of alpha are left out, and A has exactly the columns it needs.   *)
(***************************************************************************)
EXTENDS WitnessLayout

CONSTANT ScanJob   \* SETUP_SCAN_JOB_RINGS

ASSUME ScanAssumption == ScanJob \in Nat \ {0}

NoFold == -1

-----------------------------------------------------------------------------
(* Geometry shared by both sides. *)

\* SetupProjectionGeometry::from_groups.
SetupBase(l) == Min({l.dd} \cup UNION {{g.da, g.db} : g \in Range(l.groups)})
RoleRatio(l, dim) == dim \div SetupBase(l)
Bridge(l) == SetupBase(l) \div RelationBlock(l)

\* A term of a native ring, on the cells of the smallest ring.
OnBase(l, dim, cell, address, row, fold) ==
    [i \in 1 .. RoleRatio(l, dim) |-> <<cell * RoleRatio(l, dim) + i - 1, i - 1, address, row, fold>>]

\* CommitmentSliceGeometry::try_new.
SliceRanges(g) == BlockRanges(g.blocks, g.slices)
MaxBlocks(g) == Max({RangeLen(r) : r \in Range(SliceRanges(g))})
PerBlock(g) == g.na * TSubs(g) * g.outer
PhysicalWidth(g) == PerBlock(g) * MaxBlocks(g) * g.claims
LogicalWidth(g) == PerBlock(g) * g.blocks * g.claims
LogicalRow(g, slice, row) == slice * g.nb + row

ZCols(g) == g.positions * g.inner
DWidth(l, g) == g.claims * g.blocks * ESubs(l, g) * g.open
DCols(l) == Sum([n \in DOMAIN l.groups |-> DWidth(l, l.groups[n])])

\* The columns of D belong to the groups in their order.
DStart(l, n) == MapThenSumSet(LAMBDA m : DWidth(l, l.groups[m]), RowsBefore(l, n))

-----------------------------------------------------------------------------
(* (1) The products of the prover, with the plane for its address and the    *)
(* name of the row for its number.                                           *)

\* concatenate_group_d_inputs.
DInput(l) ==
    LET order == GroupOrder(l)
    IN  FlattenSeq([i \in DOMAIN order |-> EHat(l, order[i])])

\* for_each_outer_slice_input: the blocks of a slice, polynomial after
\* polynomial, each padded to the longest slice.
SliceInput(l, n, slice) ==
    LET g == l.groups[n]
        hat == THat(l, n)
        range == SliceRanges(g)[slice + 1]
        Planes(claim) == SubSeq(hat, (claim * g.blocks + range[1]) * PerBlock(g) + 1,
                                     (claim * g.blocks + range[2]) * PerBlock(g))
        padding == [i \in 1 .. (MaxBlocks(g) - RangeLen(range)) * PerBlock(g) |-> <<NoDigit>>]
    IN  FlattenSeq([c \in 1 .. g.claims |-> Planes(c - 1) \o padding])

\* Rows of a matrix times one input.
Rows(l, dim, rows, input, what(_), fold) ==
    FlattenSeq(Loop(<<rows, Len(input)>>,
                    LAMBDA c : IF input[c[2] + 1] = <<NoDigit>> THEN <<>>
                               ELSE OnBase(l, dim, c[1] * Len(input) + c[2], input[c[2] + 1][1],
                                                what(c[1]), fold)))

ProductTerms(l) ==
    LET OfGroup(n) ==
            LET g == l.groups[n]
                Outer(s) == Rows(l, g.db, g.nb, SliceInput(l, n, s), LAMBDA r : <<"outer", n, s, r>>, NoFold)
                Inner(chunk, fold) ==
                    LET planes == ZPlanes(l, n, chunk)
                    IN  Rows(l, g.da, g.na, [i \in 1 .. ZCols(g) |-> planes[(i - 1) * g.fold + fold + 1]],
                             LAMBDA r : <<"inner", n, r + 1>>, fold)
            IN  FlattenSeq([s \in 1 .. g.slices |-> Outer(s - 1)])
                \o FlattenSeq(Loop(<<l.chunks, g.fold>>, LAMBDA c : Inner(c[1], c[2])))
    IN  Rows(l, l.dd, l.nd, DInput(l), LAMBDA r : <<"opening", r + 1>>, NoFold)
        \o FlattenSeq([n \in DOMAIN l.groups |-> OfGroup(n)])

\* The address the plane was emitted to, and the number of the row.
Located(l, emitted, terms) ==
    LET heads == {t[3] : t \in Range(terms)}
        families == RowFamilies(l)
        at == [h \in heads |-> (CHOOSE e \in emitted : e[2] = h)[1][1]]
        row == [what \in {families[i].what : i \in DOMAIN families} |->
                  CHOOSE i \in DOMAIN families : families[i].what = what]
    IN  [i \in DOMAIN terms |-> <<terms[i][1], terms[i][2], at[terms[i][3]], row[terms[i][4]], terms[i][5]>>]

-----------------------------------------------------------------------------
(* (2) The prover's weights of the relation. *)

\* matching_row_range.
FirstRow(l, kind, n) ==
    LET families == RowFamilies(l)
    IN  Min({i \in DOMAIN families : families[i].what[1] = kind /\ families[i].what[2] = n})

\* compile_group_et_addresses and compile_group_z_addresses, with the rows that
\* contract_setup_columns sums over.
CompiledE(l, w, n) ==
    LET g == l.groups[n]
        first == FirstRow(l, "opening", 1)
        Column(c) == ((c[1] * g.blocks + c[2]) * ESubs(l, g) + c[4]) * g.open + c[3]
    IN  FlattenSeq(Loop(<<g.claims, g.blocks, g.open, ESubs(l, g), l.nd>>,
            LAMBDA c : OnBase(l, l.dd, c[5] * DCols(l) + DStart(l, n) + Column(c),
                                   EIndex(l, UnitForBlock(w, n, c[2]), c[1], c[2], c[4], c[3], 0)[1],
                                   first + c[5], NoFold)))

SliceOf(g, block) == (CHOOSE s \in DOMAIN SliceRanges(g) : block \in Addresses(SliceRanges(g)[s])) - 1

CompiledT(l, w, n) ==
    LET g == l.groups[n]
        first == FirstRow(l, "outer", n)
        Local(block) == block - SliceRanges(g)[SliceOf(g, block) + 1][1]
        Column(c) == ((g.na * (MaxBlocks(g) * c[1] + Local(c[2])) + c[3]) * TSubs(g) + c[5]) * g.outer + c[4]
    IN  FlattenSeq(Loop(<<g.claims, g.blocks, g.na, g.outer, TSubs(g), g.nb>>,
            LAMBDA c : OnBase(l, g.db, c[6] * PhysicalWidth(g) + Column(c),
                                   TIndex(l, UnitForBlock(w, n, c[2]), c[1], c[2], c[3], c[5], c[4], 0)[1],
                                   first + LogicalRow(g, SliceOf(g, c[2]), c[6]), NoFold)))

UnitsOf(w, n) == SelectSeq(w.units, LAMBDA u : u.group = n)

CompiledZ(l, w, n) ==
    LET g == l.groups[n]
        first == FirstRow(l, "inner", n)
        units == UnitsOf(w, n)
    IN  FlattenSeq(Loop(<<Len(units), g.positions, g.inner, g.fold, g.na>>,
            LAMBDA c : OnBase(l, g.da, c[5] * ZCols(g) + c[2] * g.inner + c[3],
                                   ZIndex(l, units[c[1] + 1], c[2], c[3], c[4], 0)[1],
                                   first + c[5], c[4])))

CompiledTerms(l, w) ==
    FlattenSeq([n \in DOMAIN l.groups |-> CompiledE(l, w, n) \o CompiledT(l, w, n) \o CompiledZ(l, w, n)])

-----------------------------------------------------------------------------
(* (3) The verifier's families of tensors.  A family pairs a setup cell, its *)
(* left offset, with a lane of the relation, its right offset; every axis    *)
(* moves both.  The weights of an axis are the rows or the folds they are.   *)

UnitAxis(len, left, right) == [len |-> len, left |-> left, right |-> right, is |-> "unit", of |-> <<>>]
RowAxis(left, rows) == [len |-> Len(rows), left |-> left, right |-> 0, is |-> "row", of |-> rows]
FoldAxis(right, folds) ==
    [len |-> folds, left |-> 0, right |-> right, is |-> "fold", of |-> [i \in 1 .. folds |-> i - 1]]
Tensor(left, right, axes) == [left |-> left, right |-> right, axes |-> axes]

\* What a family stands for: [cell, lane, row, fold] for every point.
TensorPoints(t) ==
    LET dims == [j \in DOMAIN t.axes |-> t.axes[j].len]
        Moved(c, offset, side) == offset + Sum([j \in DOMAIN dims |-> c[j] * side[j]])
        Label(c, kind, none) ==
            LET js == {j \in DOMAIN dims : t.axes[j].is = kind}
            IN  IF js = {} THEN none ELSE LET j == Min(js) IN t.axes[j].of[c[j] + 1]
    IN  Loop(dims, LAMBDA c : [ cell |-> Moved(c, t.left, [j \in DOMAIN dims |-> t.axes[j].left]),
                                lane |-> Moved(c, t.right[1], [j \in DOMAIN dims |-> t.axes[j].right]),
                                row |-> Label(c, "row", 0), fold |-> Label(c, "fold", NoFold) ])

\* divide_aligned.
LaneOf(l, index) ==
    IF index = Refused \/ index[1] % RelationBlock(l) # 0 THEN Refused ELSE Ok(index[1] \div RelationBlock(l))

Lanes(l, dim) == dim \div RelationBlock(l)

\* build_group_role_tensors: one family per unit and claim; a unit without
\* blocks has none for D and B.
Owners(w, n) == SelectSeq(UnitsOf(w, n), LAMBDA u : RangeLen(u.blocks) > 0)

DTensors(l, w, n) ==
    LET g == l.groups[n]
        subs == ESubs(l, g)
        units == Owners(w, n)
        Of(u, claim) ==
            Tensor((claim * g.blocks + u.blocks[1]) * subs * g.open, LaneOf(l, EIndex(l, u, claim, u.blocks[1], 0, 0, 0)),
                   <<UnitAxis(g.open, 1, Lanes(l, l.dd)), UnitAxis(subs, g.open, g.open * Lanes(l, l.dd)),
                     UnitAxis(RangeLen(u.blocks), subs * g.open, g.open * subs * Lanes(l, l.dd))>>)
    IN  Loop(<<Len(units), g.claims>>, LAMBDA c : Of(units[c[1] + 1], c[2]))

\* The axes of B below its rows.
BAxes(l, g, blocks) ==
    <<UnitAxis(g.outer, 1, Lanes(l, g.db)), UnitAxis(TSubs(g), g.outer, g.outer * Lanes(l, g.db)),
      UnitAxis(g.na, g.outer * TSubs(g), g.outer * Lanes(l, g.da)),
      UnitAxis(blocks, PerBlock(g), g.na * g.outer * Lanes(l, g.da))>>

TLane(l, u, claim, block) == LaneOf(l, TIndex(l, u, claim, block, 0, 0, 0, 0))

BTensors(l, w, n) ==
    LET g == l.groups[n]
        units == Owners(w, n)
        Of(u, claim) == Tensor((claim * g.blocks + u.blocks[1]) * PerBlock(g), TLane(l, u, claim, u.blocks[1]),
                               BAxes(l, g, RangeLen(u.blocks)))
    IN  Loop(<<Len(units), g.claims>>, LAMBDA c : Of(units[c[1] + 1], c[2]))

ATensors(l, w, n) ==
    LET g == l.groups[n]
        units == UnitsOf(w, n)
        Of(u) == Tensor(0, LaneOf(l, ZIndex(l, u, 0, 0, 0, 0)),
                        <<UnitAxis(ZCols(g), 1, g.fold * Lanes(l, g.da)), FoldAxis(Lanes(l, g.da), g.fold)>>)
    IN  [i \in DOMAIN units |-> Of(units[i])]

\* build_group_b_setup_tensors: a unit meets several slices, a slice several
\* units; the start of their common blocks counts from the slice's own start.
LocalStartGlobal(both, slice) == both[1]
LocalStart(both, slice) == both[1] - slice[1]

BSetupTensors(l, w, n) ==
    LET g == l.groups[n]
        units == UnitsOf(w, n)
        Common(u, slice) == <<Max({u.blocks[1], slice[1]}), Min({u.blocks[2], slice[2]})>>
        BRows(s) == [r \in 1 .. g.nb |-> BRow(l, n, LogicalRow(g, s, r - 1))]
        Of(u, s, claim) ==
            LET both == Common(u, SliceRanges(g)[s + 1])
            IN  IF both[1] >= both[2] THEN <<>>
                ELSE <<Tensor(claim * MaxBlocks(g) * PerBlock(g) + LocalStart(both, SliceRanges(g)[s + 1]) * PerBlock(g),
                              TLane(l, u, claim, both[1]),
                              BAxes(l, g, RangeLen(both)) \o <<RowAxis(PhysicalWidth(g), BRows(s))>>)>>
    IN  FlattenSeq(Loop(<<Len(units), g.slices, g.claims>>, LAMBDA c : Of(units[c[1] + 1], c[2], c[3])))

\* lift_role_tensor.
Lift(t, left, stride, rows) == Tensor(t.left + left, t.right, Append(t.axes, RowAxis(stride, rows)))

\* compact_affine_unit_families: units that follow one another in equal steps
\* become an axis.
Compact(families, lanes) ==
    LET units == Len(families) \div lanes
        Nth(unit, lane) == families[unit * lanes + lane]
        Step(lane) == <<Nth(1, lane).left - Nth(0, lane).left, Nth(1, lane).right[1] - Nth(0, lane).right[1]>>
        Even(lane) ==
            /\ Step(lane)[1] >= 0 /\ Step(lane)[2] >= 0
            /\ \A u \in 1 .. units - 1 :
                  Nth(u, lane) = Tensor(Nth(0, lane).left + u * Step(lane)[1],
                                       Ok(Nth(0, lane).right[1] + u * Step(lane)[2]), Nth(0, lane).axes)
    IN  IF units <= 1 \/ \E lane \in 1 .. lanes : ~Even(lane) THEN families
        ELSE [lane \in 1 .. lanes |->
                Tensor(Nth(0, lane).left, Nth(0, lane).right,
                       Append(Nth(0, lane).axes, UnitAxis(units, Step(lane)[1], Step(lane)[2])))]

\* rebase_relation_tensor: from lanes of the relation to cells of the setup.
Rebase(l, t) ==
    IF t.right[1] % Bridge(l) # 0 \/ \E a \in Range(t.axes) : a.right % Bridge(l) # 0
    THEN Tensor(t.left, Refused, t.axes)
    ELSE Tensor(t.left, Ok(t.right[1] \div Bridge(l)),
                [j \in DOMAIN t.axes |-> [t.axes[j] EXCEPT !.right = @ \div Bridge(l)]])

\* append_d_tensors, append_b_tensors, append_a_tensors.
SetupTensors(l, w, n) ==
    LET g == l.groups[n]
        dRows == [r \in 1 .. l.nd |-> DRow(l, r)]
        aRows == [r \in 1 .. g.na |-> ARow(l, n, r)]
        LiftAll(families, left, stride, rows) ==
            [i \in DOMAIN families |-> Lift(families[i], left, stride, rows)]
        b == BSetupTensors(l, w, n)
    IN  [ d |-> Compact(LiftAll(DTensors(l, w, n), DStart(l, n), DCols(l), dRows), g.claims),
          b |-> IF g.slices > 1 THEN b ELSE Compact(b, g.claims),
          a |-> Compact(LiftAll(ATensors(l, w, n), 0, ZCols(g), aRows), 1) ]

Families(l, w, n) == DTensors(l, w, n) \o BTensors(l, w, n) \o ATensors(l, w, n) \o BSetupTensors(l, w, n)
Misplaced(families) == \E t \in Range(families) : t.right = Refused

\* The products a role's families stand for.
PointTerms(l, dim, points) ==
    FlattenSeq([i \in DOMAIN points |->
        OnBase(l, dim, points[i].cell, points[i].lane * SetupBase(l), points[i].row, points[i].fold)])
BasedTerms(l, dim, based) ==
    IF Misplaced(based) THEN <<Refused>>
    ELSE PointTerms(l, dim, FlattenSeq([i \in DOMAIN based |-> TensorPoints(based[i])]))
RoleTerms(l, dim, families) == BasedTerms(l, dim, [i \in DOMAIN families |-> Rebase(l, families[i])])

GroupTerms(l, g, t) == RoleTerms(l, l.dd, t.d) \o RoleTerms(l, g.db, t.b) \o RoleTerms(l, g.da, t.a)
TensorTerms(l, w) ==
    FlattenSeq([n \in DOMAIN l.groups |-> GroupTerms(l, l.groups[n], SetupTensors(l, w, n))])

-----------------------------------------------------------------------------
(* (4), (5) Both work from the weight of every native column: the lanes and  *)
(* folds it stands for.                                                      *)

\* materialize_role_tensor_weights; an index beyond the columns is an error.
Columns(families, len) ==
    LET points == FlattenSeq([i \in DOMAIN families |-> TensorPoints(families[i])])
    IN  [c \in 0 .. len - 1 |-> SelectSeq(points, LAMBDA p : p.cell = c)]
NoColumn == <<[cell |-> -1, lane |-> -1, row |-> 0, fold |-> NoFold]>>
Column(columns, i) == IF i \in DOMAIN columns THEN columns[i] ELSE NoColumn

GroupColumns(l, w, n) ==
    LET g == l.groups[n]
    IN  [ e |-> Columns(DTensors(l, w, n), DWidth(l, g)), t |-> Columns(BTensors(l, w, n), LogicalWidth(g)),
          z |-> Columns(ATensors(l, w, n), ZCols(g)) ]

\* A setup index sees a column of a role through the lane it is.
Weighted(l, idx, dim, column, row) ==
    [i \in DOMAIN column |-> <<idx, idx % RoleRatio(l, dim), column[i].lane * RelationBlock(l), row, column[i].fold>>]

Adjacent(points) == {b \in points \X points : b[1] < b[2] /\ ~\E p \in points : b[1] < p /\ p < b[2]}
Joined(parts(_), S) == FoldSet(LAMBDA x, acc : acc \o parts(x), <<>>, S)

\* build_physical_b_weight_segments: between two slice widths a cell of B is
\* used by the same slices.
BSegments(l, n) ==
    LET g == l.groups[n]
        Width(s) == RangeLen(SliceRanges(g)[s + 1]) * PerBlock(g)
        slices == 0 .. g.slices - 1
        Terms(r, p, b) ==
            {[ logical |-> (p * g.blocks + SliceRanges(g)[s + 1][1]) * PerBlock(g) + b[1],
               row |-> BRow(l, n, LogicalRow(g, s, r)) ] : s \in {s \in slices : Width(s) >= b[2]}}
    IN  {[ start |-> r * PhysicalWidth(g) + p * MaxBlocks(g) * PerBlock(g) + b[1], len |-> b[2] - b[1],
           terms |-> Terms(r, p, b) ] :
           r \in 0 .. g.nb - 1, p \in 0 .. g.claims - 1, b \in Adjacent({0} \cup {Width(s) : s \in slices})}

InSegment(segment, i) == segment.start <= i /\ i < segment.start + segment.len

\* projected_b_role_weight_at, contract_logical_column_weights.
SegmentTerms(l, n, idx, columns, segment) ==
    LET dim == l.groups[n].db
        local == idx \div RoleRatio(l, dim) - segment.start
        Of(t) == Weighted(l, idx, dim, Column(columns.t, t.logical + local), t.row)
    IN  Joined(Of, segment.terms)

\* The base cells each role of a group takes.
DExtent(l) == l.nd * DCols(l) * RoleRatio(l, l.dd)
BExtent(l, n) == l.groups[n].nb * PhysicalWidth(l.groups[n]) * RoleRatio(l, l.groups[n].db)
AExtent(l, n) == l.groups[n].na * ZCols(l.groups[n]) * RoleRatio(l, l.groups[n].da)
Required(l) == Max({DExtent(l)} \cup UNION {{BExtent(l, n), AExtent(l, n)} : n \in DOMAIN l.groups})

\* build_packed_segments: no role changes its row or its columns inside one.
DBoundaries(l, n) ==
    LET end == DStart(l, n) + DWidth(l, l.groups[n])
    IN  UNION {{(r + 1) * DCols(l), r * DCols(l) + DStart(l, n), r * DCols(l) + end} : r \in 0 .. l.nd - 1}

ABoundaries(g) == {r * ZCols(g) : r \in 1 .. g.na}

Endpoints(l, n) ==
    LET g == l.groups[n]
        b == UNION {{s.start, s.start + s.len} : s \in BSegments(l, n)}
    IN  {0, Max({DExtent(l), BExtent(l, n), AExtent(l, n)})}
        \cup {x * RoleRatio(l, l.dd) : x \in DBoundaries(l, n)} \cup {x * RoleRatio(l, g.db) : x \in b}
        \cup {x * RoleRatio(l, g.da) : x \in ABoundaries(g)}

PackedSegment(l, n, b) ==
    LET g == l.groups[n]
        d == b[1] \div RoleRatio(l, l.dd)
        col == d % DCols(l)
        a == b[1] \div RoleRatio(l, g.da)
    IN  [ lo |-> b[1], hi |-> b[2],
          d |-> IF b[1] < DExtent(l) /\ DStart(l, n) <= col /\ col < DStart(l, n) + DWidth(l, g)
                THEN {[start |-> (d \div DCols(l)) * DCols(l) + DStart(l, n), row |-> DRow(l, d \div DCols(l) + 1)]}
                ELSE {},
          b |-> {s \in BSegments(l, n) : InSegment(s, b[1] \div RoleRatio(l, g.db))},
          a |-> IF b[1] < AExtent(l, n)
                THEN {[start |-> (a \div ZCols(g)) * ZCols(g), row |-> ARow(l, n, a \div ZCols(g) + 1)]}
                ELSE {} ]

Jobs(l, n) ==
    LET Split(s) == {[s EXCEPT !.lo = s.lo + i * ScanJob, !.hi = Min({s.lo + (i + 1) * ScanJob, s.hi})] :
                        i \in 0 .. (s.hi - s.lo - 1) \div ScanJob}
    IN  UNION {Split(PackedSegment(l, n, b)) : b \in Adjacent(Endpoints(l, n))}

\* base_ring_segment_weight_at.
JobTerms(l, n, columns, job, idx) ==
    LET g == l.groups[n]
        D(r) == Weighted(l, idx, l.dd, Column(columns.e, idx \div RoleRatio(l, l.dd) - r.start), r.row)
        B(s) == SegmentTerms(l, n, idx, columns, s)
        A(r) == Weighted(l, idx, g.da, Column(columns.z, idx \div RoleRatio(l, g.da) - r.start), r.row)
    IN  Joined(D, job.d) \o Joined(B, job.b) \o Joined(A, job.a)

SpanTerms(l, n, columns, job, span) ==
    FlattenSeq([i \in 1 .. RangeLen(span) |-> JobTerms(l, n, columns, job, span[1] + i - 1)])

\* evaluate_base_ring_direct: the jobs of the only group.
DirectScan(l, n, columns, jobs) ==
    LET OfJob(job) == SpanTerms(l, n, columns, job, <<job.lo, job.hi>>)
    IN  Joined(OfJob, jobs)

\* evaluate_groups_fused: several groups are scanned window by window of the
\* setup, each with the parts of its jobs that lie in the window.
Windows(l) ==
    {<<i * ScanJob, Min({(i + 1) * ScanJob, Required(l)})>> : i \in 0 .. DivCeil(Required(l), ScanJob) - 1}
Overlap(window, job) == <<Max({window[1], job.lo}), Min({window[2], job.hi})>>
FusedScan(l, n, columns, jobs) ==
    LET OfWindow(window) ==
            LET OfJob(job) == SpanTerms(l, n, columns, job, Overlap(window, job))
            IN  Joined(OfJob, {job \in jobs : job.hi > window[1] /\ job.lo < window[2]})
    IN  Joined(OfWindow, Windows(l))

ScanTerms(l, w) ==
    FlattenSeq([n \in DOMAIN l.groups |->
        IF Len(l.groups) > 1 THEN FusedScan(l, n, GroupColumns(l, w, n), Jobs(l, n))
        ELSE DirectScan(l, n, GroupColumns(l, w, n), Jobs(l, n))])

\* setup_index_weight_at.
IndexTerms(l, n, columns, idx) ==
    LET g == l.groups[n]
        d == idx \div RoleRatio(l, l.dd)
        b == idx \div RoleRatio(l, g.db)
        a == idx \div RoleRatio(l, g.da)
        OfD == IF d < l.nd * DCols(l) /\ d % DCols(l) \in Addresses(RangeFrom(DStart(l, n), DWidth(l, g)))
               THEN Weighted(l, idx, l.dd, Column(columns.e, (d % DCols(l)) - DStart(l, n)), DRow(l, d \div DCols(l) + 1))
               ELSE <<>>
        OfB(s) == SegmentTerms(l, n, idx, columns, s)
        OfA == IF a < g.na * ZCols(g)
               THEN Weighted(l, idx, g.da, Column(columns.z, a % ZCols(g)), ARow(l, n, a \div ZCols(g) + 1))
               ELSE <<>>
    IN  OfD \o Joined(OfB, {s \in BSegments(l, n) : InSegment(s, b)}) \o OfA

GroupIndexed(l, n, columns) == FlattenSeq([i \in 1 .. Required(l) |-> IndexTerms(l, n, columns, i - 1)])
IndexedTerms(l, w) == FlattenSeq([n \in DOMAIN l.groups |-> GroupIndexed(l, n, GroupColumns(l, w, n))])

-----------------------------------------------------------------------------
(* The last stage of a call of WitnessLayout. *)

PairSetup ==
    /\ At("witness", 3)
    /\ LET l == call.arg
           w == call.out[1][1]
       IN  Returns(IF \E n \in DOMAIN l.groups : Misplaced(Families(l, w, n)) THEN Refused
                   ELSE Ok([ product |-> Located(l, call.out[2][1], ProductTerms(l)),
                             compiled |-> CompiledTerms(l, w), tensors |-> TensorTerms(l, w),
                             scanned |-> ScanTerms(l, w), indexed |-> IndexedTerms(l, w) ]))

\* No level is refused, and the prover's products, its weights of the relation
\* and the verifier's three descriptions pair the same setup cells with the
\* same planes of the witness in the same rows, each pair once.
SetupPaired ==
    call.fn = "witness" /\ Len(call.out) >= 4 =>
        /\ call.out[4] # Refused
        /\ LET views == call.out[4][1]
               pairs == Range(views.product)
           IN  \A v \in DOMAIN views : Range(views[v]) = pairs /\ Len(views[v]) = Cardinality(pairs)

-----------------------------------------------------------------------------
=============================================================================
