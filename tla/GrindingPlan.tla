----------------------------- MODULE GrindingPlan -----------------------------
(***************************************************************************)
(* Fold schedules and the transcript-grinding plan that is derived from    *)
(* them (akita-types/src/schedule.rs, transcript_grinding_plan.rs).        *)
(*                                                                         *)
(* A schedule is the public shape of one proof: the nonterminal fold       *)
(* levels, the root first, and the terminal fold.  Level l here is the     *)
(* code's absolute level l - 1.  The plan lists, in the order in which     *)
(* both sides must make them, every Fiat-Shamir query of the protocol.     *)
(***************************************************************************)
EXTENDS Naturals, Sequences, FiniteSets, SequencesExt

CONSTANTS
  Schedules,    \* the schedules under study
  MaxVars       \* bound on the arity of an opening point

Methods == {"packing", "trace"}
Routes == {"linf", "l2direct", "l2gram"}

\* A commitment group opened by a level: its polynomials, their arity and its
\* live fold blocks.
Groups == [polys : Nat \ {0}, vars : 1 .. MaxVars, blocks : Nat \ {0}]

\* CommittedGroupParams of a nonterminal level.  The groups stand in canonical
\* transcript order: earlier groups or the setup prefix first, the level's own
\* group last.  "rounds" is the arity of the relation point, hence of the
\* opening its successor receives.
Levels == [method : Methods, groups : Seq(Groups), prefix : BOOLEAN,
           compressed : BOOLEAN, route : Routes, products : Nat, rounds : 1 .. MaxVars]

LevelCount(s) == Len(s.levels)
Terminal(s) == LevelCount(s) + 1

\* extension_degree.trailing_zeros(): the variables the reduction splits off.  The
\* degree is a power of two, 2^split: 1 for the base field itself, 2 for a
\* quadratic tower, 4 for the fp32 preset.
SplitBits(s) == s.split

\* requires_extension_opening_reduction
Reduces(s, l) ==
  SplitBits(s) > 0 /\ (l = Terminal(s) \/ s.levels[l].method = "trace")

\* The groups a level opens; the terminal opens the last level's witness alone.
OpenedGroups(s, l) ==
  IF l = Terminal(s)
    THEN <<[polys |-> 1, vars |-> s.levels[l - 1].rounds, blocks |-> s.blocks]>>
    ELSE s.levels[l].groups

\* validate_structure and validate_nonterminal_opening_execution; a level on the
\* L2 route opens one scalar group (the fold response search refuses others).  A
\* level that reduces opens no point shorter than the split: append_eor refuses
\* the schedule, and both sides refuse the point.
Legal(s) ==
  LET L == s.levels
      n == Len(L)
      raw(l) == \E k \in 1 .. l - 1 : ~L[k].compressed
  IN  /\ n > 0
      /\ \A l \in 1 .. n : L[l].groups # <<>>
      /\ ~L[1].prefix /\ L[1].compressed
      /\ \A l \in 1 .. n : (L[l].method = "packing") <=> (l <= 2)
      /\ \A l \in 1 .. n : L[l].method = "packing" => L[l].route = "linf"
      /\ \A l \in 2 .. n :
           /\ Len(L[l].groups) = IF L[l].prefix THEN 2 ELSE 1
           /\ \A g \in 1 .. Len(L[l].groups) : L[l].groups[g].polys = 1
           /\ Last(L[l].groups).vars = L[l - 1].rounds
           /\ L[l].route # "linf" => ~L[l].prefix
           /\ l = 2 \/ L[l].prefix => L[l].compressed
           /\ raw(l) => ~L[l].compressed
      /\ \A l \in 1 .. n + 1 :
           Reduces(s, l) => \A g \in DOMAIN OpenedGroups(s, l) :
                             OpenedGroups(s, l)[g].vars >= SplitBits(s)

\* Both sides work from a schedule that validate_structure accepted; "blocks"
\* are the terminal's live fold blocks.
ASSUME ScheduleAssumption ==
  /\ MaxVars \in Nat
  /\ \A s \in Schedules :
       /\ s \in [split : Nat, levels : Seq(Levels), blocks : Nat \ {0}]
       /\ Legal(s)
-----------------------------------------------------------------------------
PolyCount(s, l) ==
  LET groups == OpenedGroups(s, l)
      sum[g \in 0 .. Len(groups)] == IF g = 0 THEN 0 ELSE sum[g - 1] + groups[g].polys
  IN  sum[Len(groups)]

\* requires_row_batch_challenge
RowBatch(s, l) == PolyCount(s, l) > 1

MaxArity(s, l) ==
  Max({OpenedGroups(s, l)[g].vars : g \in DOMAIN OpenedGroups(s, l)})

EorRounds(s, l) == MaxArity(s, l) - SplitBits(s)

\* The fold that produces a witness defers its setup contribution exactly when
\* the consumer opens a setup prefix (predecessor_setup_contribution_mode).
Defers(s, l) == l < LevelCount(s) /\ s.levels[l + 1].prefix
PrefixVars(s, l) == OpenedGroups(s, l + 1)[1].vars

\* A place of the protocol: level, name, stage or group index, round.
Site(l, name, i, r) == <<l, name, i, r>>
At(l, name) == <<Site(l, name, 0, 0)>>
When(cond, seq) == IF cond THEN seq ELSE <<>>
Rounds(l, name, i, n) == [r \in 1 .. n |-> Site(l, name, i, r)]
-----------------------------------------------------------------------------
\* append_eor
EorPlan(s, l) ==
  At(l, "ExtensionOpeningPoint")
  \o When(RowBatch(s, l), At(l, "ExtensionOpeningClaimBatch"))
  \o Rounds(l, "Eor", 0, EorRounds(s, l))

\* append_fold_queries: the response nonce, then one run per group over its
\* polynomials' blocks.
FoldPlan(s, l) ==
  At(l, "FoldResponse")
  \o [g \in DOMAIN OpenedGroups(s, l) |->
       Site(l, "FoldChallengeGroup", g,
            OpenedGroups(s, l)[g].polys * OpenedGroups(s, l)[g].blocks)]

\* A faulty variant: the leaf stage stays in the plan on the L2 route.
Stage1PlanWithLeaf(s, l) ==
  LET p == s.levels[l]
  IN  FlattenSeq([j \in 1 .. p.products |->
        Rounds(l, "Stage1", j, p.rounds)
        \o <<Site(l, "Stage1InterstageBatch", j, 0)>>])
      \o Rounds(l, "Stage1", p.products + 1, p.rounds)

\* proof_shapes_for_route: the product stages, then the leaf stage, which the
\* L2 route replaces by the norm proof.
Stage1Plan(s, l) ==
  LET p == s.levels[l]
  IN  FlattenSeq([j \in 1 .. p.products |->
        Rounds(l, "Stage1", j, p.rounds)
        \o <<Site(l, "Stage1InterstageBatch", j, 0)>>])
      \o When(p.route = "linf", Rounds(l, "Stage1", p.products + 1, p.rounds))

NormPlan(s, l) ==
  When(s.levels[l].route = "l2gram", At(l, "L2SubclaimBatch"))
  \o At(l, "L2NormMerge")
  \o Rounds(l, "PhysicalL2", 0, s.levels[l].rounds)
  \o At(l, "L2VirtualBatch")

\* append_nonterminal
NonterminalPlan(s, l) ==
  When(Reduces(s, l), EorPlan(s, l))
  \o When(RowBatch(s, l), At(l, "EvaluationBatch"))
  \o FoldPlan(s, l)
  \o At(l, "RingSwitchAlpha") \o At(l, "Tau0Point") \o At(l, "Tau1Point")
  \o Stage1Plan(s, l)
  \o When(s.levels[l].route # "linf", NormPlan(s, l))
  \o When(s.levels[l].compressed, At(l, "CompressionBinary"))
  \o At(l, "Stage2Batch")
  \o Rounds(l, "Stage2", 0, s.levels[l].rounds)
  \o When(Defers(s, l), Rounds(l, "Stage3", 0, PrefixVars(s, l)))

\* append_terminal
TerminalPlan(s) ==
  When(Reduces(s, Terminal(s)), EorPlan(s, Terminal(s))) \o FoldPlan(s, Terminal(s))

\* derive_transcript_grinding_plan
Plan(s) ==
  FlattenSeq([l \in 1 .. LevelCount(s) |-> NonterminalPlan(s, l)]) \o TerminalPlan(s)
=============================================================================
