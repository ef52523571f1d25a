------------------------------ MODULE ParallelMap ------------------------------
(***************************************************************************)
(* bounded_parallel_filter_map of the schedule emitter                     *)
(* (akita-planner/src/emit/mod.rs): scoped threads claim indices from a    *)
(* shared counter, each keeps its results, and the caller joins them in    *)
(* the order they were spawned and sorts what they found by index.         *)
(*                                                                         *)
(* An item maps to a value, to nothing, to an error or to a panic; values  *)
(* are named by their index.  A worker that meets an error stops, the      *)
(* others go on.  The caller returns at the first handle that failed, but  *)
(* the scope still waits for the threads it has not joined, and panics     *)
(* itself if one of these panicked.                                        *)
(***************************************************************************)
EXTENDS Naturals, Sequences, Functions

CONSTANTS
  Items,       \* number of items
  MaxWorkers   \* bound on the number of workers

ASSUME MapAssumption == Items \in Nat /\ MaxWorkers \in Nat \ {0}

VARIABLES
  kind,     \* what every item maps to
  workers,  \* number of workers
  next,     \* the shared counter
  thread,   \* where a worker is
  at,       \* the index it has claimed
  local,    \* the indices of the values it has found
  joined,   \* handles joined so far
  output,   \* what the joined workers found
  caller,   \* where the caller is
  result    \* what it returns

mapVars == <<kind, workers, next, thread, at, local, joined, output, caller, result>>

Kinds == {"value", "nothing", "error", "panic"}
Failures == {"error", "panic"}
Stopped == {"ok"} \cup Failures
All == 1 .. workers

MapTypeOK ==
  /\ kind \in [1 .. Items -> Kinds]
  /\ workers \in 1 .. MaxWorkers
  /\ next \in Nat \ {0}
  /\ thread \in [All -> {"claim", "map"} \cup Stopped]
  /\ at \in [All -> Nat]
  /\ local \in [All -> Seq(1 .. Items)]
  /\ joined \in 0 .. workers
  /\ output \in Seq(1 .. Items)
  /\ caller \in {"join", "unwind", "sort", "returned"}
  /\ result \in {"none"} \cup Stopped

MapInit ==
  /\ kind \in [1 .. Items -> Kinds]
  /\ workers \in 1 .. MaxWorkers
  /\ next = 1
  /\ thread = [w \in All |-> "claim"]
  /\ at = [w \in All |-> 0]
  /\ local = [w \in All |-> << >>]
  /\ joined = 0 /\ output = << >>
  /\ caller = "join" /\ result = "none"

\* Without a second worker the caller maps the items itself, one by one in
\* their order; the first error ends the iteration and drops what was found.
Sequential ==
  /\ workers = 1 /\ caller = "join"
  /\ IF next > Items
     THEN caller' = "returned" /\ result' = "ok" /\ UNCHANGED <<next, output>>
     ELSE /\ next' = next + 1
          /\ output' = IF kind[next] = "value" THEN Append(output, next) ELSE output
          /\ IF kind[next] \in Failures
             THEN caller' = "returned" /\ result' = kind[next]
             ELSE UNCHANGED <<caller, result>>
  /\ UNCHANGED <<kind, workers, thread, at, local, joined>>
-----------------------------------------------------------------------------
(* A worker.                                                               *)

\* fetch_add, and the look at the item.
Claim(w) ==
  /\ workers > 1 /\ thread[w] = "claim"
  /\ at' = [at EXCEPT ![w] = next]
  /\ next' = next + 1
  /\ thread' = [thread EXCEPT ![w] = IF next <= Items THEN "map" ELSE "ok"]
  /\ UNCHANGED <<kind, workers, local, joined, output, caller, result>>

\* A faulty variant: a worker that meets an error returns what it has.
MapSwallowing(w) ==
  /\ thread[w] = "map"
  /\ local' = [local EXCEPT ![w] = IF kind[at[w]] = "value" THEN Append(@, at[w]) ELSE @]
  /\ thread' = [thread EXCEPT ![w] = IF kind[at[w]] = "error" THEN "ok"
                             ELSE IF kind[at[w]] = "panic" THEN "panic" ELSE "claim"]
  /\ UNCHANGED <<kind, workers, next, at, joined, output, caller, result>>

\* A faulty variant: a failing item is tried again.
MapRetrying(w) ==
  /\ thread[w] = "map"
  /\ local' = [local EXCEPT ![w] = IF kind[at[w]] = "value" THEN Append(@, at[w]) ELSE @]
  /\ thread' = [thread EXCEPT ![w] = IF kind[at[w]] = "error" THEN "map"
                             ELSE IF kind[at[w]] = "panic" THEN "panic" ELSE "claim"]
  /\ UNCHANGED <<kind, workers, next, at, joined, output, caller, result>>

\* The item is mapped; an error or a panic ends the worker.
Map(w) ==
  /\ thread[w] = "map"
  /\ local' = [local EXCEPT ![w] = IF kind[at[w]] = "value" THEN Append(@, at[w]) ELSE @]
  /\ thread' = [thread EXCEPT ![w] = IF kind[at[w]] \in Stopped THEN kind[at[w]] ELSE "claim"]
  /\ UNCHANGED <<kind, workers, next, at, joined, output, caller, result>>
-----------------------------------------------------------------------------
(* The caller.                                                             *)

\* The next handle; a failed one ends the loop.  A panic is an error, too.
Join ==
  /\ workers > 1 /\ caller = "join" /\ joined < workers
  /\ thread[joined + 1] \in Stopped
  /\ joined' = joined + 1
  /\ IF thread[joined + 1] = "ok"
     THEN /\ output' = output \o local[joined + 1]
          /\ caller' = IF joined + 1 = workers THEN "sort" ELSE "join"
          /\ UNCHANGED result
     ELSE caller' = "unwind" /\ result' = "error" /\ UNCHANGED output
  /\ UNCHANGED <<kind, workers, next, thread, at, local>>

\* The scope ends: it waits for the handles that were not joined.
LeaveScope ==
  /\ caller = "unwind"
  /\ \A w \in All : thread[w] \in Stopped
  /\ caller' = "returned"
  /\ result' = IF \E w \in joined + 1 .. workers : thread[w] = "panic" THEN "panic" ELSE result
  /\ UNCHANGED <<kind, workers, next, thread, at, local, joined, output>>

\* A faulty variant: the results in the order of the workers.
SortNothing ==
  /\ caller = "sort"
  /\ caller' = "returned" /\ result' = "ok"
  /\ UNCHANGED <<kind, workers, next, thread, at, local, joined, output>>

\* sort_by_key: the same entries, their indices ascending.
Sort ==
  /\ caller = "sort"
  /\ \E p \in Bijection(DOMAIN output, DOMAIN output) :
       output' = [i \in DOMAIN output |-> output[p[i]]]
  /\ \A i, j \in DOMAIN output : i < j => output'[i] <= output'[j]
  /\ caller' = "returned" /\ result' = "ok"
  /\ UNCHANGED <<kind, workers, next, thread, at, local, joined>>

WorkerStep(w) == Claim(w) \/ Map(w)
CallerStep == Sequential \/ Join \/ LeaveScope \/ Sort

MapNext == CallerStep \/ \E w \in All : WorkerStep(w)

MapSpec == MapInit /\ [][MapNext]_mapVars

\* Threads that can run do run.
FairMapSpec ==
  /\ MapSpec
  /\ WF_mapVars(CallerStep)
  /\ \A w \in 1 .. MaxWorkers : WF_mapVars(w \in All /\ WorkerStep(w))
-----------------------------------------------------------------------------
(* Properties.                                                             *)

Values == {i \in 1 .. Items : kind[i] = "value"}
Failing == {i \in 1 .. Items : kind[i] \in Failures}
Ascending(seq) == \A i, j \in DOMAIN seq : i < j => seq[i] < seq[j]

\* A successful call returns exactly what mapping the items one by one does,
\* each value once and in the order of the items, whichever worker took which
\* item when.
OrderIsInputOrder ==
  caller = "returned" /\ result = "ok" => Ascending(output) /\ Range(output) = Values

\* No failure is lost: a call succeeds only if no item fails, although the
\* loop stops at one worker and items behind it may never be claimed; and it
\* does not fail, or panic, without an item that does.
FailuresReported ==
  caller = "returned" =>
    /\ result = "ok" <=> Failing = {}
    /\ result = "panic" => \E i \in Failing : kind[i] = "panic"

-----------------------------------------------------------------------------
(* What holds between the steps, for the proofs.                           *)

InFlight(w, i) == thread[w] = "map" /\ at[w] = i
Once(seq) == \A i, j \in DOMAIN seq : seq[i] = seq[j] => i = j

\* A claimed index is in one place: at the worker that maps it or once among
\* the values of one worker.  No claimed value is lost.
ClaimedOnce ==
  /\ \A w \in All : thread[w] = "map" => at[w] <= Items /\ at[w] < next /\ at[w] > 0
  /\ \A w \in All : Once(local[w])
  /\ \A w \in All : \A i \in Range(local[w]) :
       i < next /\ i \in Values /\ \A v \in All : ~InFlight(v, i)
  /\ \A v, w \in All : v # w =>
       /\ Range(local[v]) \cap Range(local[w]) = {}
       /\ thread[v] = "map" /\ thread[w] = "map" => at[v] # at[w]
  /\ workers > 1 =>
       \A i \in Values : i < next => \E w \in All : InFlight(w, i) \/ i \in Range(local[w])

\* A claimed item that fails is still being mapped or has stopped a worker,
\* and only such an item stops one; the others end behind the last item.
FailuresKept ==
  /\ workers > 1 =>
       \A i \in Failing : i < next => \E w \in All : InFlight(w, i) \/ thread[w] \in Failures
  /\ \A w \in All : thread[w] \in Failures => \E i \in Failing : kind[i] = thread[w]
  /\ \A w \in All : thread[w] = "ok" => next > Items

\* The handles joined so far were good ones and the output is theirs; the loop
\* was left at its end or at a handle that failed.
JoinedInv ==
  workers > 1 =>
    /\ caller \in {"join", "sort"} =>
         /\ \A w \in 1 .. joined : thread[w] = "ok"
         /\ Once(output)
         /\ Range(output) = UNION {Range(local[w]) : w \in 1 .. joined}
         /\ result = "none"
    /\ caller = "sort" => joined = workers
    /\ caller = "unwind" => result = "error" /\ \E w \in All : thread[w] \in Failures

\* The caller's own loop: the items before the next one gave the output.
SequentialInv ==
  workers = 1 =>
    /\ caller = "join" =>
         /\ Ascending(output) /\ Range(output) = {i \in Values : i < next}
         /\ \A i \in Failing : i >= next
         /\ result = "none"
    /\ caller \notin {"unwind", "sort"}
    /\ thread = [w \in All |-> "claim"]

MapInv ==
  /\ MapTypeOK /\ ClaimedOnce /\ FailuresKept /\ JoinedInv /\ SequentialInv
  /\ OrderIsInputOrder /\ FailuresReported

\* Every call returns, whatever fails.
CallEnds == <>(caller = "returned")
=============================================================================
