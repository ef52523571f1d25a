------------------------------ MODULE FoldProver ------------------------------
(***************************************************************************)
(* The proving side of the fold protocol (akita-prover/src/protocol).      *)
(*                                                                         *)
(* The prover runs the levels of its schedule in order.  Every step        *)
(* absorbs messages into the transcript and makes queries; a query must be *)
(* the next one of the grinding plan, or the nonce writer fails.  Messages *)
(* of the honest prover carry the value "good", and the proof is the set   *)
(* of the messages it ships.                                               *)
(***************************************************************************)
EXTENDS GrindingPlan

CONSTANT MaxTries  \* bound on fold-response nonces tried (2^12 in the code)

ASSUME TriesAssumption == MaxTries \in Nat \ {0}

VARIABLES
  sched,   \* the schedule, known to both sides
  plan,    \* the grinding plan both sides derive from it
  ppc,     \* the prover's next step
  plevel,  \* the level it is at
  ptr,     \* its transcript: the events so far
  pcur,    \* queries of the plan consumed by the nonce writer
  ptries,  \* fold-response nonces tried at this level
  proof    \* the messages written into the proof

pvars == <<sched, plan, ppc, plevel, ptr, pcur, ptries, proof>>

Event(op, site, val) == <<op, site, val>>
\* Messages that are shipped or known to both sides, and points both derive
\* from challenges they have drawn.
Says(sites) == [i \in DOMAIN sites |-> Event("absorb", sites[i], "good")]
Derives(sites) == [i \in DOMAIN sites |-> Event("absorb", sites[i], "drawn")]
Asks(sites) == [i \in DOMAIN sites |-> Event("draw", sites[i], "good")]
IsDraw(e) == e[1] = "draw"

\* One sumcheck: each round absorbs its polynomial and draws its challenge.
SaysRounds(l, name, i, n) ==
  FlattenSeq([r \in 1 .. n |-> Says(<<Site(l, name, i, r)>>) \o Asks(<<Site(l, name, i, r)>>)])

DrawCount(events) == Cardinality({i \in DOMAIN events : IsDraw(events[i])})

\* The place in the plan of a query among these events, the cursor being at cur.
PlanIndex(cur, events, i) == cur + DrawCount(SubSeq(events, 1, i))

\* The queries of these events are the next ones of the plan.
OnPlan(cur, events) ==
  \A i \in DOMAIN events : IsDraw(events[i]) =>
    /\ PlanIndex(cur, events, i) <= Len(plan)
    /\ plan[PlanIndex(cur, events, i)] = events[i][2]

Sites(seq) == {seq[i] : i \in DOMAIN seq}
-----------------------------------------------------------------------------
PInit ==
  /\ sched \in Schedules /\ plan = Plan(sched)
  /\ ppc = "root" /\ plevel = 1
  /\ ptr = Says(At(0, "descriptor"))
  /\ pcur = 0 /\ ptries = 0 /\ proof = {}

\* A step of the prover: its events, the messages it ships, where it goes.
PStep(from, to, events, shipped) ==
  /\ ppc = from
  /\ ptr' = ptr \o events
  /\ pcur' = pcur + DrawCount(events)
  /\ proof' = proof \cup shipped
  /\ ppc' = IF OnPlan(pcur, events) THEN to ELSE "off_plan"

ClaimSites(s, l) == [i \in 1 .. PolyCount(s, l) |-> Site(l, "values", i, 0)]
RootCommitments(s) == [g \in DOMAIN OpenedGroups(s, 1) |-> Site(1, "commitment", g, 0)]
RootEvents(s) ==
  Says(At(1, "shape")) \o Says(RootCommitments(s)) \o Says(At(1, "points")) \o Says(ClaimSites(s, 1))

\* prove_root and prepare_root: bind the batch shape, the commitments, the
\* points and the claimed values.
ProveRoot ==
  /\ PStep("root", "payload", RootEvents(sched), {})
  /\ UNCHANGED <<sched, plan, plevel, ptries>>

\* Where a level goes once its claims are bound.
AfterClaims(s, l) == IF l = Terminal(s) THEN "ehat" ELSE "payload"

\* The incoming witness; the points precede the values unless the level
\* reduces an extension opening.
ClaimEvents(s, l) ==
  Says(At(l, "commitment")) \o When(~Reduces(s, l), Derives(At(l, "points")))
  \o Says(ClaimSites(s, l))

\* prepare_suffix and prove_terminal_suffix: rebind the incoming witness.
ProveClaims ==
  /\ PStep("claims", IF Reduces(sched, plevel) THEN "eor" ELSE AfterClaims(sched, plevel),
           ClaimEvents(sched, plevel), {})
  /\ UNCHANGED <<sched, plan, plevel, ptries>>

FinalClaims(s, l) == [i \in 1 .. PolyCount(s, l) |-> Site(l, "eor_final", i, 0)]
EorEvents(s, l) ==
  Says(At(l, "eor_partials")) \o Asks(At(l, "ExtensionOpeningPoint"))
  \o When(RowBatch(s, l), Asks(At(l, "ExtensionOpeningClaimBatch")))
  \o SaysRounds(l, "Eor", 0, EorRounds(s, l))
  \o Says(FinalClaims(s, l)) \o Derives(At(l, "points"))
EorFields(s, l) ==
  Sites(At(l, "eor_partials")) \cup Sites(Rounds(l, "Eor", 0, EorRounds(s, l)))
  \cup Sites(FinalClaims(s, l))

\* prove_extension_opening_reduction, then the reduced points.
ProveEor ==
  /\ PStep("eor", AfterClaims(sched, plevel), EorEvents(sched, plevel), EorFields(sched, plevel))
  /\ UNCHANGED <<sched, plan, plevel, ptries>>

\* The opening payload, then the row batching challenge of the claims.
PayloadEvents(s, l) ==
  Says(At(l, "payload")) \o When(RowBatch(s, l), Asks(At(l, "EvaluationBatch")))

BindPayload ==
  /\ PStep("payload", "grind", PayloadEvents(sched, plevel), Sites(At(plevel, "payload")))
  /\ UNCHANGED <<sched, plan, plevel, ptries>>

\* The terminal absorbs its folded opening instead of a payload.
BindTerminalEHat ==
  /\ PStep("ehat", "grind", Says(At(plevel, "e_hat")), Sites(At(plevel, "e_hat")))
  /\ UNCHANGED <<sched, plan, plevel, ptries>>

\* first_jointly_accepted_nonce: a previewed response is too large; nothing of
\* the preview reaches the transcript.
RejectNonce ==
  /\ ppc = "grind" /\ ptries < MaxTries
  /\ ptries' = ptries + 1
  /\ ppc' = IF ptries' = MaxTries THEN "failed" ELSE "grind"
  /\ UNCHANGED <<sched, plan, plevel, ptr, pcur, proof>>

FoldGroups(s, l) ==
  [g \in DOMAIN OpenedGroups(s, l) |->
    Site(l, "FoldChallengeGroup", g, OpenedGroups(s, l)[g].polys * OpenedGroups(s, l)[g].blocks)]
FoldEvents(s, l) == Asks(At(l, "FoldResponse")) \o Asks(FoldGroups(s, l))

\* The accepted nonce is committed and the challenges of every group are drawn
\* from the live transcript.
CommitNonce ==
  /\ PStep("grind", IF plevel = Terminal(sched) THEN "response" ELSE "bind",
           FoldEvents(sched, plevel), {})
  /\ ptries' = 0
  /\ UNCHANGED <<sched, plan, plevel>>

\* The next witness is bound: its outer commitment, or the terminal's inner
\* state, which travels in the terminal response.
NextWitness(s, l) ==
  IF l < LevelCount(s) THEN Site(l, "next_payload", 0, 0) ELSE Site(Terminal(s), "t_fields", 0, 0)

BindNextWitness ==
  /\ PStep("bind", "switch", Says(At(plevel, "next_binding")), {NextWitness(sched, plevel)})
  /\ UNCHANGED <<sched, plan, plevel, ptries>>

\* ring_switch_finalize
SwitchEvents(l) ==
  Asks(At(l, "RingSwitchAlpha")) \o Asks(At(l, "Tau0Point")) \o Asks(At(l, "Tau1Point"))

SwitchRing ==
  /\ PStep("switch", "stage1", SwitchEvents(plevel), {})
  /\ UNCHANGED <<sched, plan, plevel, ptries>>

\* The product tree of the digit-range proof, each stage bound before the next
\* is batched.
ProductEvents(s, l) ==
  FlattenSeq([j \in 1 .. s.levels[l].products |->
    SaysRounds(l, "Stage1", j, s.levels[l].rounds)
    \o Says(<<Site(l, "child_claims", j, 0)>>)
    \o Asks(<<Site(l, "Stage1InterstageBatch", j, 0)>>)])
\* The leaf, which the norm proof replaces on the L2 route, and the range image.
LeafEvents(s, l) ==
  SaysRounds(l, "Stage1", s.levels[l].products + 1, s.levels[l].rounds)
  \o Says(At(l, "range_image"))
Stage1Events(s, l) ==
  ProductEvents(s, l) \o When(s.levels[l].route = "linf", LeafEvents(s, l))
ChildClaims(s, l) == {Site(l, "child_claims", j, 0) : j \in 1 .. s.levels[l].products}
Stage1Polys(s, l) ==
  LET p == s.levels[l]
  IN  {Site(l, "Stage1", j, r) :
         j \in 1 .. p.products + (IF p.route = "linf" THEN 1 ELSE 0), r \in 1 .. p.rounds}
Stage1Fields(s, l) == Stage1Polys(s, l) \cup ChildClaims(s, l) \cup Sites(At(l, "range_image"))

\* prove_stage1
ProveStage1 ==
  /\ PStep("stage1", IF sched.levels[plevel].route = "linf" THEN "stage2" ELSE "norm",
           Stage1Events(sched, plevel), Stage1Fields(sched, plevel))
  /\ UNCHANGED <<sched, plan, plevel, ptries>>

NormEvents(s, l) ==
  Says(At(l, "norm_integer"))
  \o When(s.levels[l].route = "l2gram",
          Says(At(l, "norm_subclaims")) \o Asks(At(l, "L2SubclaimBatch")))
  \o Asks(At(l, "L2NormMerge"))
  \o SaysRounds(l, "PhysicalL2", 0, s.levels[l].rounds)
  \o Says(At(l, "norm_virtual")) \o Says(At(l, "range_image")) \o Asks(At(l, "L2VirtualBatch"))
NormFields(s, l) ==
  Sites(At(l, "norm_integer"))
  \cup (IF s.levels[l].route = "l2gram" THEN Sites(At(l, "norm_subclaims")) ELSE {})
  \cup Sites(Rounds(l, "PhysicalL2", 0, s.levels[l].rounds)) \cup Sites(At(l, "norm_virtual"))

\* prove_physical_l2_norm: the integer norm, its subclaims, the fused sumcheck.
ProveNorm ==
  /\ PStep("norm", "stage2", NormEvents(sched, plevel), NormFields(sched, plevel))
  /\ UNCHANGED <<sched, plan, plevel, ptries>>

Stage2Events(s, l) ==
  When(s.levels[l].compressed, Asks(At(l, "CompressionBinary")))
  \o Asks(At(l, "Stage2Batch"))
  \o SaysRounds(l, "Stage2", 0, s.levels[l].rounds)
  \o Says(At(l, "next_w_eval"))
Stage2Fields(s, l) ==
  Sites(Rounds(l, "Stage2", 0, s.levels[l].rounds)) \cup Sites(At(l, "next_w_eval"))

\* prove_stage2: batch the relation, range and compression claims, reduce them
\* to one evaluation of the next witness.
ProveStage2 ==
  /\ PStep("stage2", IF Defers(sched, plevel) THEN "stage3" ELSE "advance",
           Stage2Events(sched, plevel), Stage2Fields(sched, plevel))
  /\ UNCHANGED <<sched, plan, plevel, ptries>>

Stage3Events(s, l) ==
  Says(At(l, "prefix_slot")) \o Says(At(l, "setup_claim"))
  \o SaysRounds(l, "Stage3", 0, PrefixVars(s, l))
SetupFields(s, l) ==
  Sites(At(l, "setup_claim")) \cup Sites(Rounds(l, "Stage3", 0, PrefixVars(s, l)))
  \cup Sites(At(l, "setup_prefix_eval"))

\* prove_stage3: defer the setup contribution to the successor's setup prefix.
ProveStage3 ==
  /\ PStep("stage3", "advance", Stage3Events(sched, plevel), SetupFields(sched, plevel))
  /\ UNCHANGED <<sched, plan, plevel, ptries>>

\* The loop of prove_suffix moves on to the successor.
AdvanceProver ==
  /\ ppc = "advance"
  /\ plevel' = plevel + 1
  /\ ppc' = "claims"
  /\ UNCHANGED <<sched, plan, ptr, pcur, ptries, proof>>

\* The clear terminal response closes the transcript.
RespondTerminal ==
  /\ PStep("response", "finish", Says(At(plevel, "w_remainder")), Sites(At(plevel, "w_remainder")))
  /\ UNCHANGED <<sched, plan, plevel, ptries>>

\* The nonce writer must have spent the whole plan.
FinishProof ==
  /\ ppc = "finish"
  /\ ppc' = IF pcur = Len(plan) THEN "proved" ELSE "off_plan"
  /\ UNCHANGED <<sched, plan, plevel, ptr, pcur, ptries, proof>>

ProverNext ==
  \/ ProveRoot \/ ProveClaims \/ ProveEor \/ BindPayload \/ BindTerminalEHat
  \/ RejectNonce \/ CommitNonce \/ BindNextWitness \/ SwitchRing
  \/ ProveStage1 \/ ProveNorm \/ ProveStage2 \/ ProveStage3 \/ AdvanceProver
  \/ RespondTerminal \/ FinishProof
=============================================================================
