---------------------------- MODULE SuffixOptimum ----------------------------
(***************************************************************************)
(* What the search of SuffixSearch has to find: the best of all schedules, *)
(* enumerated by recursion over the suffix states.                         *)
(***************************************************************************)
EXTENDS SuffixSearch

\* The whole domain of a state, or the part prune::level_candidates keeps.
Offered(s, pruned) ==
  {i \in FoldsAt(s) :
     pruned => i \in LevelCandidates(s, {j \in FoldsAt(s) : BatchOf(s, Fold(j)) = BatchOf(s, Fold(i))})}

\* Every schedule of a state over the candidates offered: no bound, no frontier,
\* no memo, every edge.
RECURSIVE AllSchedules(_, _)
AllSchedules(s, pruned) ==
  {TerminalSchedule(t) : t \in TerminalsAt(s)} \cup
  UNION {LET f == Fold(i) IN
           (IF DirectAdmissible(s, f) /\ s.level < MaxDepth
            THEN EdgeSchedules(s, i, FALSE, AllSchedules(DirectChild(s, f), pruned)) ELSE {})
           \cup
           (IF OffloadSearched(s, f)
            THEN EdgeSchedules(s, i, TRUE, AllSchedules(OffloadedChild(s, f), pruned)) ELSE {})
         : i \in {j \in Offered(s, pruned) : Prefixed(s) => Contracts(s, Fold(j))}}

\* find_schedule returns a schedule that no schedule of the whole domain
\* beats by the objective and the root's output, whatever was pruned, memoised
\* and evicted on the way.  Ties go to the descriptor among the schedules of
\* undominated candidates: level pruning may drop a larger candidate whose
\* descriptor is smaller.
OptimumFound ==
  selected # None =>
    LET all == AllSchedules(Root, FALSE)
        kept == AllSchedules(Root, TRUE)
    IN  /\ selected = {c \in kept : \A d \in kept : LexLeq(Score(c), Score(d))}
        /\ \A d \in all : \E c \in selected : LexLeq(NumericScore(c), NumericScore(d))

\* The planner answers UnsupportedSchedule only when no valid complete
\* schedule exists (akita-planner/README.md).
UnsupportedOnlyIfNone == selected = {} => AllSchedules(Root, FALSE) = {}
=============================================================================
