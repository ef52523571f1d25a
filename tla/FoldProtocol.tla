----------------------------- MODULE FoldProtocol -----------------------------
(***************************************************************************)
(* A prover, a channel and a verifier: the fold protocol from end to end.  *)
(*                                                                         *)
(* The channel hands the finished proof over as it is or with one change:  *)
(* a different value of a message, of a statement item or of a nonce, an   *)
(* optional part dropped or added, the other kind of next-witness binding, *)
(* another number of levels or of nonces.                                  *)
(***************************************************************************)
EXTENDS FoldVerifier

CONSTANT TamperLevels  \* proofs of more levels than this reach the verifier unchanged

VARIABLE tamper  \* what the channel did

vars == <<pvars, wire, vvars, tamper>>

Tampers == {"none", "message", "nonce", "part", "binding", "stream", "folds"}

\* Everything both sides know before the proof: the instance descriptor, the
\* opening claims and the setup-prefix slots.
Statement ==
  Sites(At(0, "descriptor")) \cup Sites(At(1, "shape")) \cup Sites(At(1, "points"))
  \cup Sites(ClaimSites(sched, 1)) \cup Sites(RootCommitments(sched))
  \cup {Site(l, "prefix_slot", 0, 0) : l \in {k \in 1 .. LevelCount(sched) : Defers(sched, k)}}

Honest == Statement \cup proof

Init ==
  /\ PInit /\ VInit
  /\ given = <<>> /\ nonces = <<>> /\ folds = 0 /\ binding = <<>>
  /\ tamper = "none"

\* Optional parts of a level by their messages; the first one is the marker
\* whose presence the decoder turns into Some.
Parts == {"eor", "norm", "stage3"}
Marker(part, l) ==
  CASE part = "eor" -> Site(l, "eor_partials", 0, 0)
    [] part = "norm" -> Site(l, "norm_integer", 0, 0)
    [] part = "stage3" -> Site(l, "setup_claim", 0, 0)
PartNames(part) ==
  CASE part = "eor" -> {"eor_partials", "Eor", "eor_final"}
    [] part = "norm" -> {"norm_integer", "norm_subclaims", "PhysicalL2", "norm_virtual"}
    [] part = "stage3" -> {"setup_claim", "Stage3", "setup_prefix_eval"}

Toggled(part, l) ==
  IF Marker(part, l) \in Honest
    THEN {f \in Honest : f[1] # l \/ f[2] \notin PartNames(part)}
    ELSE Honest \cup {Marker(part, l)}

Values(bad) == [f \in Honest |-> IF f \in bad THEN "bad" ELSE "good"]
Stream(n, bad) == [k \in 1 .. n |-> IF k \in bad THEN "bad" ELSE "good"]
PlanLen == Len(plan)
HonestBinding == [l \in 1 .. LevelCount(sched) |-> ScheduledBinding(l)]
OtherBinding(b) == IF b = "outer" THEN "terminal" ELSE "outer"
\* One level more than scheduled repeats the last kind; one fewer drops it.
ResizedBinding(n) == [l \in 1 .. n |-> IF l < LevelCount(sched) THEN "outer" ELSE "terminal"]

Deliver(kind, values, stream, n, kinds) ==
  /\ ppc = "proved" /\ vpc = "wait"
  /\ tamper' = kind
  /\ given' = values /\ nonces' = stream /\ folds' = n /\ binding' = kinds
  /\ vpc' = "shape"
  /\ UNCHANGED <<pvars, vlevel, vtr, vcur, vwitness, vprefix, vtaint>>

Ship == Deliver("none", Values({}), Stream(PlanLen, {}), LevelCount(sched), HonestBinding)

AlterMessage ==
  /\ Len(sched.levels) <= TamperLevels
  /\ \E f \in Honest :
       Deliver("message", Values({f}), Stream(PlanLen, {}), LevelCount(sched), HonestBinding)

AlterNonce ==
  /\ Len(sched.levels) <= TamperLevels
  /\ \E k \in 1 .. PlanLen :
       Deliver("nonce", Values({}), Stream(PlanLen, {k}), LevelCount(sched), HonestBinding)

TogglePart ==
  /\ Len(sched.levels) <= TamperLevels
  /\ \E part \in Parts, l \in 1 .. Terminal(sched) :
       /\ l = Terminal(sched) => part = "eor"
       /\ Deliver("part", [f \in Toggled(part, l) |-> "good"], Stream(PlanLen, {}),
                  LevelCount(sched), HonestBinding)

SwapBinding ==
  /\ Len(sched.levels) <= TamperLevels
  /\ \E l \in 1 .. LevelCount(sched) :
       Deliver("binding", Values({}), Stream(PlanLen, {}), LevelCount(sched),
               [HonestBinding EXCEPT ![l] = OtherBinding(@)])

ResizeStream ==
  /\ Len(sched.levels) <= TamperLevels
  /\ \E n \in {PlanLen - 1, PlanLen + 1} :
       Deliver("stream", Values({}), Stream(n, {}), LevelCount(sched), HonestBinding)

ResizeFolds ==
  /\ Len(sched.levels) <= TamperLevels
  /\ \E n \in {LevelCount(sched) - 1, LevelCount(sched) + 1} :
       Deliver("folds", Values({}), Stream(PlanLen, {}), n, ResizedBinding(n))

Prove == ProverNext /\ UNCHANGED <<wire, vvars, tamper>>
Verify == VerifierNext /\ UNCHANGED <<pvars, wire, tamper>>

Next ==
  \/ Prove \/ Verify
  \/ Ship \/ AlterMessage \/ AlterNonce \/ TogglePart \/ SwapBinding
  \/ ResizeStream \/ ResizeFolds

Spec == Init /\ [][Next]_vars

\* The prover and the verifier are straight-line programs that run once
\* started, and an honest proof is handed over.  Nothing is promised to the
\* verification of a changed proof.
FairSpec == Spec /\ WF_vars(tamper = "none" /\ Next)
-----------------------------------------------------------------------------
TypeOK ==
  /\ Legal(sched) /\ \A l \in 1 .. LevelCount(sched) : sched.levels[l] \in Levels
  /\ plevel \in 1 .. Terminal(sched) /\ vlevel \in 1 .. Terminal(sched)
  /\ pcur \in 0 .. PlanLen /\ vcur \in 0 .. PlanLen
  /\ ptries \in 0 .. MaxTries
  /\ vwitness \in Bindings \cup {"none"}
  /\ vprefix \in BOOLEAN /\ vtaint \in BOOLEAN
  /\ tamper \in Tampers

\* Neither side ever makes a query that is not the next one of the derived
\* plan, and both end exactly at its end: GrindingPlanCursor never reports a
\* mismatch, not even to a verifier that is given a changed proof.
NeverOffPlan == ppc # "off_plan" /\ vpc # "off_plan"

\* On an unchanged proof the verifier's transcript is at every moment a prefix
\* of the prover's, event for event, and equal to it on acceptance, so both
\* draw the same challenges.
Lockstep ==
  tamper = "none" =>
    /\ IsPrefix(vtr, ptr)
    /\ vpc = "accepted" => vtr = ptr /\ vcur = pcur

\* An unchanged proof is eventually accepted.
HonestAccepted ==
  (ppc = "proved" /\ tamper = "none") ~> (vpc = "accepted" \/ tamper # "none")

\* Which challenge is drawn only after which message of the same level.
MustPrecede == {
  <<"commitment", "FoldResponse">>, <<"values", "FoldResponse">>, <<"points", "FoldResponse">>,
  <<"values", "ExtensionOpeningPoint">>, <<"eor_partials", "ExtensionOpeningPoint">>,
  <<"eor_partials", "ExtensionOpeningClaimBatch">>, <<"eor_final", "EvaluationBatch">>,
  <<"values", "EvaluationBatch">>, <<"payload", "EvaluationBatch">>,
  <<"payload", "FoldResponse">>, <<"e_hat", "FoldResponse">>,
  <<"next_binding", "RingSwitchAlpha">>, <<"next_binding", "Tau0Point">>,
  <<"norm_subclaims", "L2SubclaimBatch">>, <<"norm_integer", "L2NormMerge">>,
  <<"norm_virtual", "L2VirtualBatch">>, <<"range_image", "L2VirtualBatch">>,
  <<"range_image", "Stage2Batch">>, <<"setup_claim", "Stage3">> }

\* Messages and queries share a site for a sumcheck round, and an index for
\* the child claims of a product stage.
Answers(msg, query) ==
  /\ msg[1] = query[1]
  /\ \/ <<msg[2], query[2]>> \in MustPrecede
     \/ msg = query
     \/ msg[2] = "child_claims" /\ query[2] = "Stage1InterstageBatch" /\ msg[3] = query[3]

\* In every accepted transcript each challenge comes after the messages it is
\* meant to test, at every level and in every shape of schedule.
BoundBeforeDrawn ==
  vpc = "accepted" =>
    \A i, j \in DOMAIN vtr :
      vtr[i][1] = "absorb" /\ vtr[j][1] = "draw" /\ Answers(vtr[i][2], vtr[j][2]) => i < j

\* A proof with a changed message, statement item or nonce is accepted only if
\* the change entered the transcript before a challenge that had to come out
\* right; the terminal response alone has no challenge after it, and is tested
\* by the terminal relations themselves.
ChangeIsBound ==
  vpc = "accepted" /\ tamper \in {"message", "nonce"} =>
    \E i \in DOMAIN vtr :
      /\ vtr[i][3] = "bad"
      /\ \/ \E j \in i .. Len(vtr) : IsDraw(vtr[j])
         \/ vtr[i][2][2] = "w_remainder"

\* An accepted proof has exactly the parts its schedule calls for: no missing
\* and no unsolicited reduction, norm proof or setup sumcheck, the scheduled
\* kinds of binding, the scheduled levels and the planned nonces.
AcceptedShape ==
  vpc = "accepted" =>
    /\ DOMAIN given = Honest
    /\ binding = HonestBinding
    /\ Len(nonces) = PlanLen

\* A level finds a pending setup-prefix opening exactly if it opens one, and
\* a commitment exactly if it is not the terminal: the verifier never has to
\* refuse a state it handed over itself.
HandoverFits ==
  vpc = "claims" =>
    /\ vprefix = (vlevel < Terminal(sched) /\ sched.levels[vlevel].prefix)
    /\ vwitness = ScheduledBinding(vlevel - 1)
=============================================================================
