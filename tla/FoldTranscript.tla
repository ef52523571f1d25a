---------------------------- MODULE FoldTranscript ----------------------------
(***************************************************************************)
(* The transcript an honest run writes, as one expression of the schedule, *)
(* and the inductive invariant of the fold protocol that compares what the *)
(* prover and the verifier have done with it.                              *)
(***************************************************************************)
EXTENDS FoldProtocol

\* The names of messages and queries, and the events of a transcript.
Names == {
  "CompressionBinary", "Eor", "EvaluationBatch", "ExtensionOpeningClaimBatch",
  "ExtensionOpeningPoint", "FoldChallengeGroup", "FoldResponse", "L2NormMerge",
  "L2SubclaimBatch", "L2VirtualBatch", "PhysicalL2", "RingSwitchAlpha", "Stage1",
  "Stage1InterstageBatch", "Stage2", "Stage2Batch", "Stage3", "Tau0Point",
  "Tau1Point", "child_claims", "commitment", "descriptor", "e_hat", "eor_final",
  "eor_partials", "next_binding", "next_payload", "next_w_eval", "norm_integer",
  "norm_subclaims", "norm_virtual", "payload", "points", "prefix_slot", "range_image",
  "setup_claim", "setup_prefix_eval", "shape", "t_fields", "values", "w_remainder" }
Places == Nat \X Names \X Nat \X Nat
EventSet == {"absorb", "draw"} \X Places \X {"good", "bad", "drawn"}
-----------------------------------------------------------------------------
\* The events of a level up to each of its steps: every section is the one
\* before it and the events of one more step.
LevelStart(s, l) == IF l = 1 THEN RootEvents(s) ELSE ClaimEvents(s, l)
Opened(s, l) == LevelStart(s, l) \o When(Reduces(s, l), EorEvents(s, l))
Bound(s, l) ==
  Opened(s, l) \o (IF l = Terminal(s) THEN Says(At(l, "e_hat")) ELSE PayloadEvents(s, l))
Folded(s, l) == Bound(s, l) \o FoldEvents(s, l)
Rebound(s, l) == Folded(s, l) \o Says(At(l, "next_binding"))
Switched(s, l) == Rebound(s, l) \o SwitchEvents(l)
Ranged(s, l) == Switched(s, l) \o Stage1Events(s, l)
Normed(s, l) == Ranged(s, l) \o When(s.levels[l].route # "linf", NormEvents(s, l))
Related(s, l) == Normed(s, l) \o Stage2Events(s, l)
LevelEvents(s, l) == Related(s, l) \o When(Defers(s, l), Stage3Events(s, l))
Ended(s) == Folded(s, Terminal(s)) \o Says(At(Terminal(s), "w_remainder"))

Before(s, l) ==
  Says(At(0, "descriptor")) \o FlattenSeq([k \in 1 .. l - 1 |-> LevelEvents(s, k)])
Full(s) == Before(s, Terminal(s)) \o Ended(s)

\* The steps a side may be at on a level of the schedule.
Located(s, l, pc) ==
  \/ pc = "root" /\ l = 1
  \/ pc = "claims" /\ l \in 2 .. Terminal(s)
  \/ pc = "eor" /\ l \in 2 .. Terminal(s) /\ Reduces(s, l)
  \/ pc \in {"payload", "bind", "switch", "stage1", "stage2", "advance"} /\ l \in 1 .. LevelCount(s)
  \/ pc = "norm" /\ l \in 1 .. LevelCount(s) /\ s.levels[l].route # "linf"
  \/ pc = "stage3" /\ l \in 1 .. LevelCount(s) /\ Defers(s, l)
  \/ pc \in {"grind", "fold", "failed"} /\ l \in 1 .. Terminal(s)
  \/ pc \in {"ehat", "response", "finish", "proved", "accepted"} /\ l = Terminal(s)

\* What a level has contributed when a side is at a step of it.
Section(s, l, pc) ==
  CASE pc \in {"root", "claims"} -> <<>>
    [] pc = "eor" -> LevelStart(s, l)
    [] pc \in {"payload", "ehat"} -> Opened(s, l)
    [] pc \in {"grind", "fold", "failed"} -> Bound(s, l)
    [] pc \in {"bind", "response"} -> Folded(s, l)
    [] pc = "switch" -> Rebound(s, l)
    [] pc = "stage1" -> Switched(s, l)
    [] pc = "norm" -> Ranged(s, l)
    [] pc = "stage2" -> Normed(s, l)
    [] pc = "stage3" -> Related(s, l)
    [] pc = "advance" -> LevelEvents(s, l)
    [] OTHER -> Ended(s)

Reached(s, l, pc) == Before(s, l) \o Section(s, l, pc)
-----------------------------------------------------------------------------
\* The order of the steps of a level.
Rank(pc) ==
  CASE pc \in {"root", "claims"} -> 0
    [] pc = "eor" -> 1
    [] pc \in {"payload", "ehat"} -> 2
    [] pc \in {"grind", "fold", "failed"} -> 3
    [] pc \in {"bind", "response"} -> 4
    [] pc = "switch" -> 5
    [] pc = "stage1" -> 6
    [] pc = "norm" -> 7
    [] pc = "stage2" -> 8
    [] pc = "stage3" -> 9
    [] OTHER -> 10

\* Step x of level k is scheduled and lies before step pc of level l.
Due(s, l, pc, k, x) == Located(s, k, x) /\ (k < l \/ (k = l /\ Rank(x) < Rank(pc)))

\* The messages the prover ships at a step.
ShipSteps == {"eor", "payload", "ehat", "bind", "stage1", "norm", "stage2", "stage3", "response"}
FieldsAt(s, l, pc) ==
  CASE pc = "eor" -> EorFields(s, l)
    [] pc = "payload" -> Sites(At(l, "payload"))
    [] pc = "ehat" -> Sites(At(l, "e_hat"))
    [] pc = "bind" -> {NextWitness(s, l)}
    [] pc = "stage1" -> Stage1Fields(s, l)
    [] pc = "norm" -> NormFields(s, l)
    [] pc = "stage2" -> Stage2Fields(s, l)
    [] pc = "stage3" -> SetupFields(s, l)
    [] pc = "response" -> Sites(At(l, "w_remainder"))
    [] OTHER -> {}
Sent(s, l, pc) ==
  UNION {FieldsAt(s, z[1], z[2]) : z \in {y \in (1 .. l) \X ShipSteps : Due(s, l, pc, y[1], y[2])}}

\* The statement items and messages the verifier absorbs at a step: most where
\* the prover shipped them, the evaluations of a level and its next witness
\* (again) when the successor opens them.
HearSteps ==
  {"root", "claims", "eor", "payload", "ehat", "bind", "stage1", "stage2", "stage3", "response"}
RootSources(s) ==
  Sites(At(1, "shape")) \cup Sites(RootCommitments(s))
  \cup Sites(At(1, "points")) \cup Sites(ClaimSites(s, 1))
ClaimSources(s, l) ==
  {NextWitness(s, l - 1)} \cup Sites(At(l - 1, "next_w_eval"))
  \cup (IF Defers(s, l - 1) THEN Sites(At(l - 1, "setup_prefix_eval")) ELSE {})
Stage1Sources(s, l) ==
  Stage1Fields(s, l) \cup (IF s.levels[l].route # "linf" THEN NormFields(s, l) ELSE {})
Stage3Sources(s, l) ==
  Sites(At(l, "prefix_slot")) \cup Sites(At(l, "setup_claim"))
  \cup Sites(Rounds(l, "Stage3", 0, PrefixVars(s, l)))
SourcesAt(s, l, pc) ==
  CASE pc = "root" -> RootSources(s)
    [] pc = "claims" -> ClaimSources(s, l)
    [] pc = "stage1" -> Stage1Sources(s, l)
    [] pc = "stage3" -> Stage3Sources(s, l)
    [] OTHER -> FieldsAt(s, l, pc)
Heard(s, l, pc) ==
  Sites(At(0, "descriptor")) \cup
  UNION {SourcesAt(s, z[1], z[2]) : z \in {y \in (1 .. l) \X HearSteps : Due(s, l, pc, y[1], y[2])}}
-----------------------------------------------------------------------------
\* The prover has written the honest transcript up to its step, and shipped
\* what was due by then.
ProverAt ==
  /\ sched \in Schedules /\ plan = Plan(sched)
  /\ Located(sched, plevel, ppc)
  /\ ptr = Reached(sched, plevel, ppc)
  /\ pcur = DrawCount(ptr)
  /\ proof = Sent(sched, plevel, ppc)

\* What the channel may hand over.
Verdicts == {"good", "bad"}
WireInv ==
  /\ tamper \in Tampers
  /\ vpc = "wait" => tamper = "none"
  /\ vpc # "wait" =>
       /\ ppc = "proved"
       /\ given \in [DOMAIN given -> Verdicts] /\ nonces \in Seq(Verdicts)
       /\ binding \in [1 .. folds -> Bindings]
       /\ tamper # "part" => DOMAIN given = Honest
       /\ tamper = "part" => \E part \in Parts, l \in 1 .. Terminal(sched) :
            (l = Terminal(sched) => part = "eor") /\ DOMAIN given = Toggled(part, l)
       /\ tamper # "stream" => Len(nonces) = PlanLen
       /\ tamper = "none" =>
            (\A f \in Honest : given[f] = "good") /\ (\A k \in DOMAIN nonces : nonces[k] = "good")
       /\ tamper = "message" => \E f \in Honest : given[f] = "bad"
       /\ tamper = "nonce" => \E k \in 1 .. PlanLen : nonces[k] = "bad"

\* Two lists of the same events up to their values.
Same(v, e) ==
  /\ v \in Seq(EventSet) /\ e \in Seq(EventSet) /\ Len(v) = Len(e)
  /\ \A i \in 1 .. Len(e) : v[i][1] = e[i][1] /\ v[i][2] = e[i][2]
Bad(v) == \E i \in DOMAIN v : v[i][3] = "bad"

\* The verifier's transcript is the honest one up to a step but for what it
\* was given, and anything bad it has read shows in it.
ReplayAt(l, pc) ==
  /\ Located(sched, l, pc)
  /\ Same(vtr, Reached(sched, l, pc))
  /\ vcur = DrawCount(vtr)
  /\ ~Bad(vtr) => vtr = Reached(sched, l, pc)
  /\ Bad(vtr) <=> \/ \E f \in Heard(sched, l, pc) : Val(f) = "bad"
                  \/ \E k \in 1 .. vcur : nonces[k] = "bad"

VerifierAt ==
  \/ vpc \in {"wait", "shape", "stream"} /\ vlevel = 1 /\ vtr = <<>> /\ vcur = 0
  \/ /\ vpc = "rejected"
     /\ \/ vtr = <<>>
        \/ \E l \in 1 .. Terminal(sched), pc \in HearSteps \cup {"fold", "switch"} : ReplayAt(l, pc)
  \/ ReplayAt(vlevel, vpc)

Started == vpc \notin {"wait", "shape", "stream", "rejected"}
\* The levels whose claims, and whose range proof, have been checked.
ClaimsPast(k) == k < vlevel \/ (k = vlevel /\ vpc \notin {"root", "claims"})
RangePast(k) == k < vlevel \/ (k = vlevel /\ Rank(vpc) > 7)

\* Every part of the proof the verifier went past is there exactly if the
\* schedule calls for it, and the state it carries is the one its successor expects.
CheckedInv ==
  /\ vpc = "stream" \/ Started => folds = LevelCount(sched) /\ binding = HonestBinding
  /\ Started =>
       /\ Len(nonces) = PlanLen
       /\ \A k \in 1 .. Terminal(sched) : ClaimsPast(k) =>
            /\ HasEor(k) = Reduces(sched, k)
            /\ k <= LevelCount(sched) => HasStage3(k) = Defers(sched, k)
       /\ \A k \in 1 .. LevelCount(sched) : RangePast(k) =>
            HasNorm(k) = (sched.levels[k].route # "linf")
       /\ vpc = "advance" => vprefix = Defers(sched, vlevel)
       /\ vpc = "claims" =>
            vprefix = Defers(sched, vlevel - 1) /\ vwitness = ScheduledBinding(vlevel - 1)

IInv == ProverAt /\ WireInv /\ VerifierAt /\ CheckedInv
=============================================================================
