---------------------------- MODULE SuffixSearch ----------------------------
(***************************************************************************)
(* The planner's search for a fold schedule                                *)
(* (akita-planner/src/planner.rs and schedule_params/): a depth-first      *)
(* dynamic program over suffix states.  A state is expanded over fold      *)
(* candidates, each joined to its successor by a direct or by an offloaded *)
(* edge; per successor geometry a frontier keeps the schedules no other    *)
(* one dominates, finished states are memoised in a bounded cache, and     *)
(* lower bounds prune edges before their children are searched.            *)
(*                                                                         *)
(* Which candidates a level offers, and their sizes, is the input of a     *)
(* run: the formulas that produce them are not modelled.  A candidate is a *)
(* number into input.folds, numbered in the order of its descriptor bytes. *)
(* It names what the formulas are given of the state: level, witness       *)
(* length, inner basis and the source moments it is derived under.         *)
(* The policies are "Payload" (MinEstimatedProofPayloadV2), "SetupFirst"   *)
(* (MinFirstDirectSetupThenPayloadV2) and "Envelope"                       *)
(* (MinPaddedSetupEnvelopeThenFirstDirectThenPayloadV3), the only one that *)
(* plans offloaded edges (validate_policy).                                *)
(***************************************************************************)
EXTENDS Integers, Sequences, FiniteSets, SequencesExt, FiniteSetsExt, TLC

CONSTANTS
  Inputs,            \* the searches to run: [policy, budget, childFold, modeled, folds, terminals]
  MaxDepth,          \* MAX_RECURSION_DEPTH
  DirectCapacity,    \* MAX_DIRECT_SUFFIX_CACHE_ENTRIES
  PrefixedCapacity,  \* MAX_PREFIXED_SUFFIX_CACHE_ENTRIES
  MaxProbes,         \* MAX_SECOND_CHANCE_PROBES
  SearchLevels,      \* num_search_levels of the adaptive dimension mode
  SuffixDims,        \* suffix_dimensions
  TopDim,            \* the initial dimension ceiling
  OffloadLevels,     \* levels whose edges may be offloaded
  Contraction,       \* min_offloaded_witness_contraction
  FieldBits,         \* bits of a field element
  NextMoment(_, _, _), \* response_model::next_source_moment of a fold, the moment
                     \* of its source and the incoming prefix
  PaddedLengths,     \* the powers of two
  None

ASSUME CapacityAssumption ==
  DirectCapacity \in Nat \ {0} /\ PrefixedCapacity \in Nat \ {0} /\ MaxProbes \in Nat

ASSUME PaddedAssumption == PaddedLengths \subseteq Nat

\* What prune::level_candidates takes for granted: modes, dimension, opening
\* method, security route, bases and output of a candidate determine its grinding
\* and its Stage-3 payload, and its bytes but for the D image and the reduction.
ASSUME GeometryAssumption ==
  \A in \in Inputs : \A i, j \in DOMAIN in.folds :
    LET f == in.folds[i]
        g == in.folds[j]
        same(field) == f[field] = g[field]
    IN (\A x \in {"level", "len", "dim", "next", "compressed", "reduced",
                  "packs", "route", "inner", "basis"} : same(x))
         /\ (f.stage3 > 0) = (g.stage3 > 0)
         => /\ same("nonce") /\ same("stage3") /\ same("vars")
            /\ f.dout <= g.dout /\ f.eor <= g.eor => f.bytes <= g.bytes

VARIABLES
  input,     \* the search that runs
  call,      \* the suffix state about to be derived, or None
  stack,     \* the states under expansion, the innermost last
  memo,      \* ScheduleMemo.entries
  order,     \* the two insertion-order queues
  selected   \* None, then the set holding the selected schedule, if any

searchVars == <<input, call, stack, memo, order, selected>>

Projections == {"setup", "payload"}
SetupAware == input.policy \in {"SetupFirst", "Envelope"}
Fold(i) == input.folds[i]
Terminal(i) == input.terminals[i]

-----------------------------------------------------------------------------
(* Costs and objectives.                                                    *)

\* padded_setup_prefix_len: the next power of two.
Padded(n) == Min({p \in PaddedLengths : p >= n})

\* Sequences of numbers in the order of their first difference.
LexLess(s, t) ==
  \E i \in 1..(Len(s) + 1) :
    /\ i <= Len(t)
    /\ \A j \in 1..(i - 1) : s[j] = t[j]
    /\ i <= Len(s) => s[i] < t[i]
LexLeq(s, t) == s = t \/ LexLess(s, t)

\* Payload bytes, plus the packed nonce bits of all edges rounded up once.
ProofBytes(c) == c.bytes + (c.nonce + 7) \div 8

\* The first remainder of a parent's nonce bits that costs another byte.
Jump(c) ==
  LET r == c.nonce % 8 IN IF r = 0 THEN 1 ELSE IF r = 1 THEN 8 ELSE 9 - r

NeverWorse(c, d) ==
  \/ ProofBytes(c) < ProofBytes(d)
  \/ ProofBytes(c) = ProofBytes(d) /\ Jump(c) >= Jump(d)

\* The same at a parent that adds no nonce bits only.
StrictlyBetterUnaligned(c, d) == ProofBytes(c) < ProofBytes(d)

StrictlyBetter(c, d) ==
  /\ ProofBytes(c) < ProofBytes(d)
  /\ ProofBytes(c) + 1 < ProofBytes(d) \/ Jump(c) >= Jump(d)

\* The first direct fold's setup scan, padded.
Capacity(c) == Padded(c.direct)

\* CompleteObjectiveBound::for_direct_edge, in its derived order.
Objective(capacity, out, bytes, setup) ==
  CASE input.policy = "Payload"    -> <<bytes, setup>>
    [] input.policy = "SetupFirst" -> <<capacity, bytes, setup>>
    [] input.policy = "Envelope"   -> <<Padded(setup), capacity, bytes, out>>

ObjectiveOf(c) == Objective(Capacity(c), c.out, ProofBytes(c), c.setup)

\* candidate_schedule_descriptor_bytes: the payload modes of the first two
\* folds are moved in front of the folds.
Descriptor(folds, terminal) ==
  IF folds = <<>> THEN <<terminal>>
  ELSE LET n == Min({2, Len(folds)})
           tag(i) == IF Fold(folds[i]).compressed THEN 1 ELSE 2
           step(i) == <<IF i <= n THEN 1 ELSE tag(i), folds[i]>>
       IN  <<n>> \o [i \in 1..n |-> tag(i)] \o step(1) \o <<Len(folds) - 1>>
             \o FlattenSeq([i \in 1..(Len(folds) - 1) |-> step(i + 1)]) \o <<terminal>>

\* complete_schedule_score: the objective, the root's output and the descriptor.
NumericScore(c) ==
  ObjectiveOf(c) \o (IF input.policy = "Envelope" THEN <<>> ELSE <<Fold(c.folds[1]).next>>)
Score(c) == NumericScore(c) \o Descriptor(c.folds, c.terminal)

-----------------------------------------------------------------------------
(* Suffix states and the candidates they admit.                             *)

DirectTopology(payload, relation) == [prefix |-> 0, payload |-> payload, relation |-> relation]
PrefixedTopology(n) == [prefix |-> n, payload |-> "compressed", relation |-> "quotient"]
Prefixed(s) == s.topology.prefix > 0
Root == [level |-> 0, len |-> input.len, lb |-> 0, moment |-> None, dim |-> TopDim,
         topology |-> DirectTopology("compressed", "quotient")]

\* suffix_dimension_ceiling.
SuffixCeiling(dim) ==
  LET under == {d \in SuffixDims : d <= dim} IN IF under = {} THEN 0 ELSE Max(under)

\* dimension_candidates, as a test of one dimension.
DimensionAdmitted(s, dim) ==
  IF s.level >= SearchLevels THEN dim \in SuffixDims /\ dim <= SuffixCeiling(s.dim)
                             ELSE dim <= s.dim

\* CommitmentPayloadPhase::candidate_modes and RingRelationPhase::candidate_modes.
ModesAdmitted(s, f) ==
  LET early == s.level < 2 \/ Prefixed(s) IN
  /\ IF early THEN f.compressed ELSE s.topology.payload = "raw" => ~f.compressed
  /\ IF early THEN ~f.reduced ELSE s.topology.relation = "reduced" => f.reduced

\* InnerBasisSource::search_range and opening_basis_range: below the root the inner
\* basis is the one the witness was opened in, and no opening basis is smaller.
BasesAdmitted(s, f) == (s.level > 0 => f.inner = s.lb) /\ f.basis >= s.lb

\* Candidates are derived with the moment of the source, which caps their response.
SourceAdmitted(s, f) == s.moment \in f.moments

FoldsAt(s) ==
  {i \in DOMAIN input.folds :
     LET f == Fold(i) IN
     /\ f.level = s.level /\ f.len = s.len
     /\ BasesAdmitted(s, f) /\ SourceAdmitted(s, f)
     /\ (f.stage3 > 0) = Prefixed(s)
     /\ DimensionAdmitted(s, f.dim)
     /\ ModesAdmitted(s, f)}

\* state_allows_terminal_seed: no terminal at the root or under a prefix.
TerminalsAt(s) ==
  IF s.level = 0 \/ Prefixed(s) THEN {}
  ELSE {t \in DOMAIN input.terminals :
          /\ Terminal(t).level = s.level /\ Terminal(t).len = s.len
          /\ BasesAdmitted(s, Terminal(t)) /\ SourceAdmitted(s, Terminal(t))
          /\ DimensionAdmitted(s, Terminal(t).dim)}

\* SuffixState::memo_key: level, length, basis, moment and topology, and past the
\* searched levels the ceiling projected to the largest suffix dimension under it.
MemoKey(s) ==
  IF s.level >= SearchLevels /\ SuffixCeiling(s.dim) > 0
  THEN [s EXCEPT !.dim = SuffixCeiling(s.dim)] ELSE s

\* offloaded_witness_contracts, in bits.
Contracts(s, f) ==
  s.len * s.lb + Padded(s.topology.prefix) * FieldBits >= f.next * f.basis * Contraction

\* attach_source_moments: only the response model follows moments.
MomentAfter(s, f) ==
  IF input.modeled THEN NextMoment(f, s.moment, s.topology.prefix) ELSE None

\* plan_candidate_children: the state below a candidate.
Successor(s, f, topology) ==
  [level |-> s.level + 1, len |-> f.next, lb |-> f.basis, moment |-> MomentAfter(s, f),
   dim |-> f.dim, topology |-> topology]
DirectChild(s, f) ==
  Successor(s, f, DirectTopology(IF f.compressed THEN s.topology.payload ELSE "raw",
                                 IF f.reduced THEN "reduced" ELSE "quotient"))
OffloadedChild(s, f) == Successor(s, f, PrefixedTopology(f.natural))

\* plan_candidate_children: the edges that are searched below a candidate.
DirectAdmissible(s, f) == Prefixed(s) => Padded(f.natural) < Padded(s.topology.prefix)
OffloadSearched(s, f) ==
  /\ input.policy = "Envelope" /\ s.level \in OffloadLevels
  /\ s.level + 2 < MaxDepth
  /\ f.compressed /\ ~f.reduced

-----------------------------------------------------------------------------
(* Schedules and the frontier.                                              *)

\* ParentObservableKey: all a parent's price depends on.
KeyOf(c) ==
  IF c.folds = <<>>
  THEN [outer |-> 0, stage3 |-> 0, dim |-> Terminal(c.terminal).dim, vars |-> Terminal(c.terminal).vars]
  ELSE LET f == Fold(c.folds[1])
       IN  [outer |-> f.outer, stage3 |-> f.stage3, dim |-> f.dim, vars |-> f.vars]

TerminalSchedule(t) ==
  [direct |-> Terminal(t).natural, out |-> 0, bytes |-> Terminal(t).bytes, nonce |-> 0,
   setup |-> Terminal(t).setup, folds |-> <<>>, terminal |-> t]

\* ParentAdmissionClass.
Depth(c) == Min({2, Len(c.folds)})
AdmitsEveryParentOf(c, d) == Depth(c) >= Depth(d) /\ Capacity(c) <= Capacity(d)

\* is_admitted_by, and the setup budget.
Admitted(s, f, offloaded, c) ==
  /\ s.level = 0 /\ input.childFold => Depth(c) >= 1
  /\ offloaded => Depth(c) >= 2 /\ Capacity(c) < Padded(f.natural)
  /\ SetupAware /\ input.budget > 0 => Max({f.setup, c.setup}) <= input.budget

\* child_choice: one fold in front of a suffix.
Prepend(i, offloaded, c) ==
  LET f == Fold(i)
      k == KeyOf(c)
  IN [direct |-> IF offloaded THEN c.direct ELSE f.natural,
      out |-> IF offloaded THEN c.out ELSE f.next,
      bytes |-> c.bytes + f.bytes + k.dim + k.outer + k.stage3,
      nonce |-> c.nonce + f.nonce + k.vars,
      setup |-> Max({f.setup, c.setup}),
      folds |-> <<i>> \o c.folds,
      terminal |-> c.terminal]

\* The candidates one edge yields from the schedules of its child.
EdgeSchedules(s, i, offloaded, suffixes) ==
  {d \in {Prepend(i, offloaded, c) : c \in {e \in suffixes : Admitted(s, Fold(i), offloaded, e)}} :
     Prefixed(s) => Len(d.folds) > 1 /\ Capacity(d) < Padded(s.topology.prefix)}

\* Equal contexts compare descriptors the way every parent does.
CanonicallyLeq(c, d) ==
  /\ Len(c.folds) = Len(d.folds)
  /\ c.folds = <<>> \/ c.folds[1] = d.folds[1]
  /\ LexLeq(Descriptor(c.folds, c.terminal), Descriptor(d.folds, d.terminal))

\* setup_envelope_score.
EnvelopeScore(c) == IF input.policy = "Envelope" THEN Padded(c.setup) ELSE c.setup

\* setup_projection_dominates (its strict form, tested first, is a special case).
SetupDominates(c, d) ==
  /\ AdmitsEveryParentOf(c, d)
  /\ IF input.policy = "Envelope"
     THEN /\ EnvelopeScore(c) <= EnvelopeScore(d)
          /\ \/ Capacity(c) < Capacity(d)
             \/ Capacity(c) = Capacity(d)
                /\ \/ StrictlyBetter(c, d)
                   \/ NeverWorse(c, d) /\ c.out < d.out
                   \/ NeverWorse(c, d) /\ c.out = d.out /\ CanonicallyLeq(c, d)
     ELSE \/ Capacity(c) < Capacity(d)
          \/ Capacity(c) = Capacity(d)
             /\ \/ StrictlyBetter(c, d)
                \/ NeverWorse(c, d) /\ CanonicallyLeq(c, d) /\ c.setup <= d.setup

\* payload_projection_dominates.
PayloadDominates(c, d) ==
  /\ AdmitsEveryParentOf(c, d)
  /\ input.policy = "Envelope" => EnvelopeScore(c) <= EnvelopeScore(d)
  /\ \/ StrictlyBetter(c, d)
     \/ NeverWorse(c, d) /\ EnvelopeScore(c) <= EnvelopeScore(d) /\ CanonicallyLeq(c, d)

Dominates(p, c, d) == IF p = "setup" THEN SetupDominates(c, d) ELSE PayloadDominates(c, d)

NoChoices == [p \in Projections |-> {}]
ChoicesAt(front, k) == IF k \in DOMAIN front THEN front[k] ELSE NoChoices

\* ProjectedFrontier::consider and consider_pending.
Consider(front, c, projections) ==
  LET k == KeyOf(c)
      old == ChoicesAt(front, k)
      kept == {p \in projections :
                 /\ p = "setup" => SetupAware
                 /\ \A e \in old[p] : ~Dominates(p, e, c)}
  IN IF kept = {} THEN front
     ELSE (k :> [p \in Projections |->
                   IF p \in kept THEN {e \in old[p] : ~Dominates(p, c, e)} \cup {c} ELSE old[p]]) @@ front

ConsiderAll(front, cands, projections) ==
  FoldSet(LAMBDA c, acc : Consider(acc, c, projections), front, cands)

Retained(front, p) == UNION {front[k][p] : k \in DOMAIN front}

\* Only prefixed states and the root are read through the setup projection.
RetainsSetup(s) == Prefixed(s) \/ s.level = 0
DirectProjections(s) == IF RetainsSetup(s) THEN Projections ELSE {"payload"}

\* finish_state.
Finished(s, front) ==
  IF RetainsSetup(s) THEN front
  ELSE [k \in {j \in DOMAIN front : front[j].payload # {}} |-> [front[k] EXCEPT !.setup = {}]]

-----------------------------------------------------------------------------
(* Lower bounds.                                                            *)

\* direct_edge_lower_bound: the smallest successor, without its payload and
\* without the extension-opening reduction.
LowerBytes(f) == f.bytes - f.eor
LowerBound(f) == Objective(Padded(f.natural), f.next, LowerBytes(f), f.setup)

\* candidate_traversal: the order of a guided level.
Guided(s) == s.level = 0 \/ Prefixed(s)
Traversal(s, batch) ==
  LET rank(i) == LowerBound(Fold(i)) \o <<Fold(i).next, i>>
  IN  IF Guided(s) THEN SetToSortSeq(batch, LAMBDA i, j : LexLess(rank(i), rank(j)))
                   ELSE SetToSortSeq(batch, <)

\* complete_root_setup_bound_is_strictly_worse.
EnvelopePruned(s, f, front) ==
  /\ input.policy = "Envelope" /\ s.level = 0
  /\ \E c \in Retained(front, "setup") : Padded(f.setup) > Padded(c.setup)

\* complete_root_bound_is_strictly_worse.
RootBoundPruned(f, front) ==
  \E c \in Retained(front, IF SetupAware THEN "setup" ELSE "payload") :
    LexLess(ObjectiveOf(c), LowerBound(f))

\* recursive_direct_bound_is_dominated: for both projections a retained
\* schedule that every parent of the edge admits is better.
PrefixBoundPruned(f, front) ==
  LET choices == ChoicesAt(front, [outer |-> f.outer, stage3 |-> f.stage3, dim |-> f.dim, vars |-> f.vars])
      admits(c) == Depth(c) >= 2 /\ Capacity(c) <= Padded(f.natural)
  IN /\ \E c \in choices.setup :
          /\ admits(c) /\ Padded(f.setup) >= Padded(c.setup)
          /\ LexLess(<<Capacity(c), ProofBytes(c), c.out>>, <<Padded(f.natural), LowerBytes(f), f.next>>)
     /\ \E c \in choices.payload :
          /\ admits(c) /\ Padded(f.setup) >= Padded(c.setup)
          /\ LowerBytes(f) > ProofBytes(c)

\* direct_edge_bound_is_strictly_worse.
DirectPruned(s, f, front) ==
  /\ Guided(s) /\ DirectAdmissible(s, f)
  /\ IF s.level = 0 THEN RootBoundPruned(f, front) ELSE PrefixBoundPruned(f, front)

\* prune::level_candidates: of two candidates with the same modes, dimension,
\* opening method, security route and outgoing state, the one no larger in every
\* coordinate; equal ones are settled by their descriptors.
LevelDominates(s, i, j) ==
  LET f == Fold(i)
      g == Fold(j)
      coords(h) == <<Padded(h.natural), h.setup, h.outer, h.bout, h.dout, h.eor>>
  IN /\ f.compressed = g.compressed /\ f.reduced = g.reduced
     /\ f.dim = g.dim /\ f.packs = g.packs /\ f.route = g.route
     /\ f.next = g.next /\ MomentAfter(s, f) = MomentAfter(s, g)
     /\ \A n \in 1..6 : coords(f)[n] <= coords(g)[n]
     /\ coords(f) # coords(g) \/ i < j
LevelCandidates(s, batch) ==
  IF s.level = 0 THEN batch ELSE {j \in batch : ~\E i \in batch : i # j /\ LevelDominates(s, i, j)}

-----------------------------------------------------------------------------
(* The search.                                                              *)

Top == stack[Len(stack)]
SetTop(frame) == stack' = [stack EXCEPT ![Len(stack)] = frame]

Queue(key) == IF key.topology.prefix > 0 THEN "prefixed" ELSE "direct"
Quota(q) == IF q = "prefixed" THEN PrefixedCapacity ELSE DirectCapacity

\* An eviction that leaves the victim's entry in the map.
EvictKeepingEntry(queue, entries) == [queue |-> Tail(queue), entries |-> entries]

\* evict_suffix_entry: referenced entries go to the back, at most MaxProbes.
Probed(queue, entries) ==
  LET idle == {n \in 0..(Len(queue) - 1) : n >= MaxProbes \/ ~entries[queue[n + 1]].referenced}
  IN  IF idle = {} THEN Len(queue) ELSE Min(idle)
Evict(queue, entries) ==
  LET n == Probed(queue, entries)
      rotated == SubSeq(queue, n + 1, Len(queue)) \o SubSeq(queue, 1, n)
      probed == {queue[m] : m \in 1..n}
  IN [queue |-> Tail(rotated),
      entries |-> [k \in DOMAIN entries \ {Head(rotated)} |->
                     IF k \in probed THEN [entries[k] EXCEPT !.referenced = FALSE] ELSE entries[k]]]

\* ScheduleMemo::insert.
Insert(key, result) ==
  LET q == Queue(key)
      base == IF Len(order[q]) >= Quota(q) THEN Evict(order[q], memo)
                                           ELSE [queue |-> order[q], entries |-> memo]
  IN IF key \in DOMAIN memo
     THEN /\ memo' = [memo EXCEPT ![key] = [result |-> result, referenced |-> TRUE]]
          /\ UNCHANGED order
     ELSE /\ memo' = [k \in {key} \cup DOMAIN base.entries |->
                        IF k = key THEN [result |-> result, referenced |-> FALSE] ELSE base.entries[k]]
          /\ order' = [order EXCEPT ![q] = Append(base.queue, key)]

\* The caller's frame takes the result of the child it waits for.
Receive(frame, result) ==
  IF frame.phase = "direct" THEN [frame EXCEPT !.direct = result, !.phase = "offload"]
                            ELSE [frame EXCEPT !.offloaded = result, !.phase = "price"]

SearchInit ==
  /\ input \in Inputs
  /\ call = Root
  /\ stack = <<>>
  /\ memo = <<>>
  /\ order = [q \in {"direct", "prefixed"} |-> <<>>]
  /\ selected = None

\* derive_selected_suffix_schedule finds the state in the memo.
Hit ==
  /\ call # None /\ MemoKey(call) \in DOMAIN memo
  /\ LET key == MemoKey(call) IN
     /\ memo' = [memo EXCEPT ![key].referenced = TRUE]
     /\ SetTop(Receive(Top, memo[key].result))
  /\ call' = None
  /\ UNCHANGED <<input, order, selected>>

\* One batch per opening basis; visit_root_batches divides the root's further, by
\* inner basis and opening work, which fixes the dimensions.
BatchOf(s, f) == IF s.level = 0 THEN <<f.basis, f.inner, f.dim>> ELSE <<f.basis>>

\* The state is not in the memo: prepare the candidate domain.
Enter ==
  /\ call # None /\ MemoKey(call) \notin DOMAIN memo
  /\ stack' = Append(stack,
       [state |-> call, phase |-> "batch",
        batches |-> {BatchOf(call, Fold(i)) : i \in FoldsAt(call)}
                      \cup {BatchOf(call, Terminal(t)) : t \in TerminalsAt(call)},
        todo |-> <<>>, fold |-> 0, front |-> <<>>, direct |-> <<>>, offloaded |-> <<>>])
  /\ call' = None
  /\ UNCHANGED <<input, memo, order, selected>>

\* process_candidate_batch: price the terminals, then order the folds.
Batch ==
  /\ stack # <<>> /\ call = None /\ Top.phase = "batch" /\ Top.batches # {}
  /\ LET b == CHOOSE x \in Top.batches : \A y \in Top.batches : LexLeq(x, y)
         s == Top.state
         terminals == {TerminalSchedule(t) : t \in {u \in TerminalsAt(s) : BatchOf(s, Terminal(u)) = b}}
     IN SetTop([Top EXCEPT !.batches = @ \ {b}, !.phase = "visit",
                  !.front = ConsiderAll(@, terminals, DirectProjections(s)),
                  !.todo = Traversal(s, LevelCandidates(s, {i \in FoldsAt(s) : BatchOf(s, Fold(i)) = b}))])
  /\ UNCHANGED <<input, call, memo, order, selected>>

\* price_planned_fold_candidate up to the children: drop the candidate, or
\* decide which edges are searched.
Visit ==
  /\ stack # <<>> /\ call = None /\ Top.phase = "visit" /\ Top.todo # <<>>
  /\ LET s == Top.state
         f == Fold(Head(Top.todo))
         pruned == DirectPruned(s, f, Top.front)
         dropped == \/ Prefixed(s) /\ ~Contracts(s, f)
                    \/ EnvelopePruned(s, f, Top.front)
                    \/ pruned /\ input.policy # "Envelope"
         search == DirectAdmissible(s, f) /\ ~pruned /\ s.level < MaxDepth
     IN SetTop([Top EXCEPT !.todo = Tail(@),
                  !.fold = Head(Top.todo), !.direct = <<>>, !.offloaded = <<>>,
                  !.phase = IF dropped THEN "visit" ELSE IF search THEN "direct" ELSE "offload"])
  /\ UNCHANGED <<input, call, memo, order, selected>>

\* plan_candidate_children.
SearchDirect ==
  /\ stack # <<>> /\ call = None /\ Top.phase = "direct"
  /\ call' = DirectChild(Top.state, Fold(Top.fold))
  /\ UNCHANGED <<input, stack, memo, order, selected>>
SearchOffloaded ==
  /\ stack # <<>> /\ call = None /\ Top.phase = "offload" /\ OffloadSearched(Top.state, Fold(Top.fold))
  /\ call' = OffloadedChild(Top.state, Fold(Top.fold))
  /\ UNCHANGED <<input, stack, memo, order, selected>>

\* price_level_candidate_with_children.
Price ==
  /\ stack # <<>> /\ call = None
  /\ \/ Top.phase = "price"
     \/ Top.phase = "offload" /\ ~OffloadSearched(Top.state, Fold(Top.fold))
  /\ LET s == Top.state
         edges(offloaded, result, p) == EdgeSchedules(s, Top.fold, offloaded, Retained(result, p))
         direct == ConsiderAll(Top.front, edges(FALSE, Top.direct, "payload"), DirectProjections(s))
         setup == ConsiderAll(direct, edges(TRUE, Top.offloaded, "setup"), {"setup"})
     IN SetTop([Top EXCEPT !.phase = "visit", !.fold = 0, !.direct = <<>>, !.offloaded = <<>>,
                  !.front = ConsiderAll(setup, edges(TRUE, Top.offloaded, "payload"), {"payload"})])
  /\ UNCHANGED <<input, call, memo, order, selected>>

NextBatch ==
  /\ stack # <<>> /\ Top.phase = "visit" /\ Top.todo = <<>>
  /\ SetTop([Top EXCEPT !.phase = "batch"])
  /\ UNCHANGED <<input, call, memo, order, selected>>

\* The expansion ends: memoise, and hand the result to the caller or select.
Finish ==
  /\ stack # <<>> /\ call = None /\ Top.phase = "batch" /\ Top.batches = {}
  /\ LET result == Finished(Top.state, Top.front)
         below == Front(stack)
     IN /\ Insert(MemoKey(Top.state), result)
        /\ IF below # <<>>
           THEN /\ stack' = [below EXCEPT ![Len(below)] = Receive(@, result)]
                /\ UNCHANGED selected
           ELSE /\ stack' = <<>>
                /\ LET cands == Retained(result, IF SetupAware THEN "setup" ELSE "payload")
                   IN  selected' = {c \in cands : \A d \in cands : LexLeq(Score(c), Score(d))}
  /\ UNCHANGED <<input, call>>

SearchNext ==
  \/ Hit \/ Enter \/ Batch \/ Visit \/ SearchDirect \/ SearchOffloaded
  \/ Price \/ NextBatch \/ Finish

SearchSpec == SearchInit /\ [][SearchNext]_searchVars

-----------------------------------------------------------------------------
(* Properties.                                                              *)

\* The two queues of the memo name its entries once each and stay within
\* their quotas (ScheduleMemo::insert, evict_suffix_entry): an entry outside
\* its queue could never be evicted.
QueuesNameEntries ==
  /\ \A q \in DOMAIN order :
       /\ Len(order[q]) <= Quota(q)
       /\ IsInjective(order[q])
       /\ \A k \in ToSet(order[q]) : Queue(k) = q
  /\ DOMAIN memo = ToSet(order.direct) \cup ToSet(order.prefixed)
=============================================================================
