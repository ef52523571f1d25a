----------------------------- MODULE FoldVerifier -----------------------------
(***************************************************************************)
(* The verifying side of the fold protocol (akita-verifier/src).           *)
(*                                                                         *)
(* The verifier replays the transcript from what it was given: the public  *)
(* statement, the messages of the proof and the nonce stream, each either  *)
(* what the prover meant ("good") or not ("bad").  Once it has used        *)
(* anything bad, its equations and proof-of-work checks may pass or fail;  *)
(* before that they pass.                                                  *)
(***************************************************************************)
EXTENDS FoldProver

VARIABLES
  given,    \* value of every statement item and proof message
  nonces,   \* the nonce stream of the proof, one entry per query
  folds,    \* how many fold levels the proof has
  binding,  \* kind of next-witness binding each of its levels carries
  vpc,      \* the verifier's next step
  vlevel,   \* the level it is at
  vtr,      \* its transcript
  vcur,     \* queries of the plan consumed by the nonce reader
  vwitness, \* SuffixVerifierState: what the current witness was bound by
  vprefix,  \* SuffixVerifierState: whether a setup-prefix opening is pending
  vtaint    \* it has used something bad

wire == <<given, nonces, folds, binding>>
vvars == <<vpc, vlevel, vtr, vcur, vwitness, vprefix, vtaint>>

Bindings == {"outer", "terminal"}
ScheduledBinding(l) == IF l < LevelCount(sched) THEN "outer" ELSE "terminal"

Has(site) == site \in DOMAIN given
HasEor(l) == Has(Site(l, "eor_partials", 0, 0))
HasNorm(l) == Has(Site(l, "norm_integer", 0, 0))
HasStage3(l) == Has(Site(l, "setup_claim", 0, 0))

Val(site) == IF Has(site) THEN given[site] ELSE "bad"
\* Absorb messages under their own names, or one message under another name.
Hears(sites) == [i \in DOMAIN sites |-> Event("absorb", sites[i], Val(sites[i]))]
HearsAs(site, source) == <<Event("absorb", site, Val(source))>>
HearsRounds(l, name, i, n) ==
  FlattenSeq([r \in 1 .. n |-> Hears(<<Site(l, name, i, r)>>) \o Asks(<<Site(l, name, i, r)>>)])

\* Each query reads the next nonce of the stream.
WithNonces(events) ==
  [i \in DOMAIN events |->
    IF IsDraw(events[i])
      THEN Event("draw", events[i][2], nonces[PlanIndex(vcur, events, i)])
      ELSE events[i]]

VInit ==
  /\ vpc = "wait" /\ vlevel = 1 /\ vtr = <<>> /\ vcur = 0
  /\ vwitness = "none" /\ vprefix = FALSE /\ vtaint = FALSE

Reject == vpc' = "rejected" /\ UNCHANGED <<vlevel, vtr, vcur, vwitness, vprefix, vtaint>>

\* A step of the verifier: what it absorbs and asks, and the messages its
\* equations use besides those.
VStep(from, to, events, uses) ==
  /\ vpc = from
  /\ IF ~OnPlan(vcur, events)
       THEN vpc' = "off_plan" /\ UNCHANGED <<vtr, vcur, vtaint>>
       ELSE /\ vtaint' = \/ vtaint
                         \/ \E i \in DOMAIN events : WithNonces(events)[i][3] = "bad"
                         \/ \E f \in uses : Val(f) = "bad"
            /\ \/ /\ vpc' = to
                  /\ vtr' = vtr \o WithNonces(events)
                  /\ vcur' = vcur + DrawCount(events)
               \/ vtaint' /\ vpc' = "rejected" /\ UNCHANGED <<vtr, vcur>>
-----------------------------------------------------------------------------
\* validate_proof_against_schedule: the level count, the kind of every
\* next-witness binding, and no reduction at a packing level.
VerifyShape ==
  /\ vpc = "shape"
  /\ IF /\ folds = LevelCount(sched)
        /\ \A l \in 1 .. folds : binding[l] = ScheduledBinding(l)
        /\ \A l \in 1 .. folds : sched.levels[l].method = "packing" => ~HasEor(l)
       THEN vpc' = "stream" /\ UNCHANGED <<vlevel, vtr, vcur, vwitness, vprefix, vtaint>>
       ELSE Reject

\* The nonce reader takes only a stream of exactly the plan's length.
OpenNonceStream ==
  /\ vpc = "stream"
  /\ IF Len(nonces) = Len(plan)
       THEN /\ vpc' = "root"
            /\ vtr' = Hears(At(0, "descriptor"))
            /\ vtaint' = (Val(Site(0, "descriptor", 0, 0)) = "bad")
            /\ UNCHANGED <<vlevel, vcur, vwitness, vprefix>>
       ELSE Reject

\* Faulty variants: the proof alone decides whether there is a setup sumcheck, or the
\* level's own prefix does instead of its successor's.
Stage3AsShipped(l) == TRUE
Stage3ByOwnPrefix(l) == HasStage3(l) = sched.levels[l].prefix

\* stage3_for_mode: a setup sumcheck is there exactly when the successor opens
\* a setup prefix.
Stage3Scheduled(l) == HasStage3(l) = Defers(sched, l)

\* The level carries the kind of next-witness binding its successor needs.
NextWitnessScheduled(l) == binding[l] = ScheduledBinding(l)

RootReplay ==
  Hears(At(1, "shape")) \o Hears(RootCommitments(sched))
  \o Hears(At(1, "points")) \o Hears(ClaimSites(sched, 1))

\* verify_root
VerifyRoot ==
  /\ vpc = "root"
  /\ IF Stage3Scheduled(1) /\ NextWitnessScheduled(1) /\ ~HasEor(1)
       THEN /\ VStep("root", "payload", RootReplay, {})
            /\ UNCHANGED <<vlevel, vwitness, vprefix>>
       ELSE Reject

\* A faulty variant: the setup-prefix evaluation is opened but never absorbed.
IncomingWitnessOnly(l, prefix) ==
  HearsAs(Site(l, "values", 1, 0), Site(l - 1, "next_w_eval", 0, 0))

\* The claims a level opens: the pending setup-prefix opening first, then the
\* evaluation its predecessor left.
IncomingValues(l, prefix) ==
  LET evals == When(prefix, At(l - 1, "setup_prefix_eval")) \o At(l - 1, "next_w_eval")
  IN  [i \in DOMAIN evals |-> Event("absorb", Site(l, "values", i, 0), Val(evals[i]))]

\* Reduced levels derive their points from the reduction.
ClaimsReplay(l, witness, prefix) ==
  HearsAs(Site(l, "commitment", 0, 0), witness)
  \o When(~Reduces(sched, l), Derives(At(l, "points")))
  \o IncomingValues(l, prefix)

\* verify_suffix and prepare_fold_replay, up to the opening payload.
VerifyClaims ==
  /\ vpc = "claims" /\ vlevel < Terminal(sched)
  /\ IF /\ vwitness = "outer"
        /\ Stage3Scheduled(vlevel) /\ NextWitnessScheduled(vlevel)
        /\ vprefix = sched.levels[vlevel].prefix
        /\ HasEor(vlevel) = Reduces(sched, vlevel)
       THEN /\ VStep("claims", IF Reduces(sched, vlevel) THEN "eor" ELSE "payload",
                     ClaimsReplay(vlevel, Site(vlevel - 1, "next_payload", 0, 0), vprefix), {})
            /\ UNCHANGED <<vlevel, vwitness, vprefix>>
       ELSE Reject

\* verify_terminal_suffix, up to the terminal's folded opening.
VerifyTerminalClaims ==
  /\ vpc = "claims" /\ vlevel = Terminal(sched)
  /\ IF vwitness = "terminal" /\ ~vprefix /\ HasEor(vlevel) = Reduces(sched, vlevel)
       THEN /\ VStep("claims", IF Reduces(sched, vlevel) THEN "eor" ELSE "ehat",
                     ClaimsReplay(vlevel, Site(vlevel, "t_fields", 0, 0), FALSE), {})
            /\ UNCHANGED <<vlevel, vwitness, vprefix>>
       ELSE Reject

EorReplay(l) ==
  Hears(At(l, "eor_partials")) \o Asks(At(l, "ExtensionOpeningPoint"))
  \o When(RowBatch(sched, l), Asks(At(l, "ExtensionOpeningClaimBatch")))
  \o HearsRounds(l, "Eor", 0, EorRounds(sched, l))
  \o Hears(FinalClaims(sched, l)) \o Derives(At(l, "points"))

\* verify_eor_sumcheck, then the reduced points.
VerifyEor ==
  /\ VStep("eor", AfterClaims(sched, vlevel), EorReplay(vlevel), {})
  /\ UNCHANGED <<vlevel, vwitness, vprefix>>

\* A faulty variant: the claims are batched before the opening payload is bound.
BatchBeforePayload ==
  /\ VStep("payload", "fold",
           When(RowBatch(sched, vlevel), Asks(At(vlevel, "EvaluationBatch")))
           \o Hears(At(vlevel, "payload")), {})
  /\ UNCHANGED <<vlevel, vwitness, vprefix>>

\* bind_opening_payload_and_finalize_claims
VerifyPayload ==
  /\ VStep("payload", "fold",
           Hears(At(vlevel, "payload"))
           \o When(RowBatch(sched, vlevel), Asks(At(vlevel, "EvaluationBatch"))), {})
  /\ UNCHANGED <<vlevel, vwitness, vprefix>>

\* prepare_terminal_witness_replay
VerifyTerminalEHat ==
  /\ VStep("ehat", "fold", Hears(At(vlevel, "e_hat")), {})
  /\ UNCHANGED <<vlevel, vwitness, vprefix>>

\* read_fold_response and the fold challenges of every group.
DrawFoldChallenges ==
  /\ VStep("fold", IF vlevel = Terminal(sched) THEN "response" ELSE "bind",
           Asks(At(vlevel, "FoldResponse")) \o Asks(FoldGroups(sched, vlevel)), {})
  /\ UNCHANGED <<vlevel, vwitness, vprefix>>

\* Absorb the next witness in the form the proof carries it.
VerifyNextWitness ==
  /\ VStep("bind", "switch",
           HearsAs(Site(vlevel, "next_binding", 0, 0),
                   IF binding[vlevel] = "outer"
                     THEN Site(vlevel, "next_payload", 0, 0)
                     ELSE Site(Terminal(sched), "t_fields", 0, 0)), {})
  /\ UNCHANGED <<vlevel, vwitness, vprefix>>

\* ring_switch_verifier
VerifyRingSwitch ==
  /\ VStep("switch", "stage1",
           Asks(At(vlevel, "RingSwitchAlpha")) \o Asks(At(vlevel, "Tau0Point"))
           \o Asks(At(vlevel, "Tau1Point")), {})
  /\ UNCHANGED <<vlevel, vwitness, vprefix>>
-----------------------------------------------------------------------------
VLevel == sched.levels[vlevel]

\* verify_product_prefix
ProductPrefix(l) ==
  FlattenSeq([j \in 1 .. sched.levels[l].products |->
    HearsRounds(l, "Stage1", j, sched.levels[l].rounds)
    \o Hears(<<Site(l, "child_claims", j, 0)>>)
    \o Asks(<<Site(l, "Stage1InterstageBatch", j, 0)>>)])

LeafReplay(l) ==
  HearsRounds(l, "Stage1", sched.levels[l].products + 1, sched.levels[l].rounds)
  \o Hears(At(l, "range_image"))

\* A faulty variant: an unsolicited norm proof is ignored.
VerifyStage1IgnoringNorm ==
  /\ vpc = "stage1" /\ VLevel.route = "linf"
  /\ VStep("stage1", "stage2", ProductPrefix(vlevel) \o LeafReplay(vlevel), {})
  /\ UNCHANGED <<vlevel, vwitness, vprefix>>

\* verify_stage1 on the L-infinity route; a norm proof is there exactly on the
\* L2 route.
VerifyStage1 ==
  /\ vpc = "stage1" /\ VLevel.route = "linf"
  /\ IF ~HasNorm(vlevel)
       THEN /\ VStep("stage1", "stage2", ProductPrefix(vlevel) \o LeafReplay(vlevel), {})
            /\ UNCHANGED <<vlevel, vwitness, vprefix>>
       ELSE Reject

NormReplay(l) ==
  Hears(At(l, "norm_integer"))
  \o When(sched.levels[l].route = "l2gram",
          Hears(At(l, "norm_subclaims")) \o Asks(At(l, "L2SubclaimBatch")))
  \o Asks(At(l, "L2NormMerge"))
  \o HearsRounds(l, "PhysicalL2", 0, sched.levels[l].rounds)
  \o Hears(At(l, "norm_virtual")) \o Hears(At(l, "range_image")) \o Asks(At(l, "L2VirtualBatch"))

\* verify_stage1 and verify_physical_l2_norm on the L2 route.
VerifyNormStage1 ==
  /\ vpc = "stage1" /\ VLevel.route # "linf"
  /\ IF HasNorm(vlevel)
       THEN /\ VStep("stage1", "stage2", ProductPrefix(vlevel) \o NormReplay(vlevel), {})
            /\ UNCHANGED <<vlevel, vwitness, vprefix>>
       ELSE Reject

Stage2Replay(l) ==
  When(sched.levels[l].compressed, Asks(At(l, "CompressionBinary")))
  \o Asks(At(l, "Stage2Batch"))
  \o HearsRounds(l, "Stage2", 0, sched.levels[l].rounds)
  \o Hears(At(l, "next_w_eval"))

\* verify_stage2: the setup claim of a deferred level enters its equation
\* before stage 3 binds it.
VerifyStage2 ==
  /\ VStep("stage2", IF HasStage3(vlevel) THEN "stage3" ELSE "advance", Stage2Replay(vlevel),
           IF HasStage3(vlevel) THEN Sites(At(vlevel, "setup_claim")) ELSE {})
  /\ vprefix' = FALSE
  /\ UNCHANGED <<vlevel, vwitness>>

Stage3Replay(l) ==
  Hears(At(l, "prefix_slot")) \o Hears(At(l, "setup_claim"))
  \o HearsRounds(l, "Stage3", 0, PrefixVars(sched, l))

\* verify_stage3: its final equation uses the setup-prefix evaluation, which
\* only the successor absorbs.
VerifyStage3 ==
  /\ VStep("stage3", "advance", Stage3Replay(vlevel), Sites(At(vlevel, "setup_prefix_eval")))
  /\ vprefix' = TRUE
  /\ UNCHANGED <<vlevel, vwitness>>

\* The next SuffixVerifierState.
AdvanceVerifier ==
  /\ vpc = "advance"
  /\ vlevel' = vlevel + 1
  /\ vwitness' = binding[vlevel]
  /\ vpc' = "claims"
  /\ UNCHANGED <<vtr, vcur, vprefix, vtaint>>

\* The clear response, the terminal ring relations and the terminal trace.
VerifyTerminalResponse ==
  /\ VStep("response", "finish", Hears(At(vlevel, "w_remainder")),
           Sites(At(vlevel, "t_fields")) \cup Sites(At(vlevel, "e_hat")))
  /\ UNCHANGED <<vlevel, vwitness, vprefix>>

\* The nonce reader must have consumed the plan and the stream.
FinishVerification ==
  /\ vpc = "finish"
  /\ vpc' = IF vcur = Len(plan) THEN "accepted" ELSE "off_plan"
  /\ UNCHANGED <<vlevel, vtr, vcur, vwitness, vprefix, vtaint>>

VerifierNext ==
  \/ VerifyShape \/ OpenNonceStream \/ VerifyRoot \/ VerifyClaims
  \/ VerifyTerminalClaims \/ VerifyEor \/ VerifyPayload \/ VerifyTerminalEHat
  \/ DrawFoldChallenges \/ VerifyNextWitness \/ VerifyRingSwitch
  \/ VerifyStage1 \/ VerifyNormStage1 \/ VerifyStage2 \/ VerifyStage3
  \/ AdvanceVerifier \/ VerifyTerminalResponse \/ FinishVerification
=============================================================================
