------------------------------ MODULE PreparedNtt ------------------------------
(***************************************************************************)
(* The prover's cache of NTT prefixes                                      *)
(* (akita-prover/src/compute/cpu/prepared.rs): a map from a key to a       *)
(* shared once-cell, under a mutex that is held for the map operations     *)
(* only.  The cell makes the construction of its prefix single-flight.     *)
(*                                                                         *)
(* Calls of prepare_ntt_slot_on_prepared run in any number of threads.  A  *)
(* call takes the smallest entry that covers its request, or inserts an    *)
(* empty cell; it builds the cell, or waits for whoever does; after a      *)
(* success it evicts the smaller entries; after a failure it removes the   *)
(* cell, and tries again if the cell was not for its own key.              *)
(*                                                                         *)
(* One ring dimension and domain are modelled: keys with others never meet *)
(* in any of these steps.  A cell is named by the call that inserted it,   *)
(* which a call does at most once.                                         *)
(***************************************************************************)
EXTENDS Naturals

CONSTANTS
  Calls,      \* the calls of prepare_ntt_slot_on_prepared
  Sizes,      \* numbers of ring elements that are asked for
  Buildable,  \* those that build_ntt_slot_for_key can build
  None,       \* no entry
  MaxDrops    \* bound on the calls of drop_built_ntt_slots

ASSUME NttAssumption ==
  /\ Sizes \subseteq Nat /\ Sizes # {}
  /\ Buildable \subseteq Sizes
  /\ None \notin Calls
  /\ MaxDrops \in Nat

VARIABLES
  want,      \* requested_key of every call
  pc,        \* where every call is
  entry,     \* the cell it holds
  slots,     \* shared_ntt: the cell of every key
  cell,      \* state of every cell
  profiled,  \* the capacity profile of the ring dimension is recorded
  drops      \* releases so far

vars == <<want, pc, entry, slots, cell, profiled, drops>>

Running == {"lookup", "cell", "build", "built", "broken", "profile"}
Finished == {"done", "failed"}
Holding == {"cell", "build", "built", "broken", "profile", "done"}
Live == {"unset", "building", "ok"}

TypeOK ==
  /\ want \in [Calls -> Sizes]
  /\ pc \in [Calls -> {"new"} \cup Running \cup Finished]
  /\ entry \in [Calls -> Calls \cup {None}]
  /\ slots \in [Sizes -> Calls \cup {None}]
  /\ cell \in [Calls -> {"none", "err"} \cup Live]
  /\ profiled \in BOOLEAN
  /\ drops \in 0 .. MaxDrops

Init ==
  /\ want \in [Calls -> Sizes]
  /\ pc = [c \in Calls |-> "new"]
  /\ entry = [c \in Calls |-> None]
  /\ slots = [s \in Sizes |-> None]
  /\ cell = [c \in Calls |-> "none"]
  /\ profiled = FALSE
  /\ drops = 0

Goto(c, from, to) == pc[c] = from /\ pc' = [pc EXCEPT ![c] = to]

\* The key of the cell a call holds.
Key(c) == want[entry[c]]
-----------------------------------------------------------------------------
Begin(c) ==
  /\ Goto(c, "new", "lookup")
  /\ UNCHANGED <<want, entry, slots, cell, profiled, drops>>

\* A faulty variant: the largest entry, whether it covers the request or not.
IsLargest(s, c) == slots[s] # None /\ \A t \in Sizes : slots[t] # None => t <= s

\* The smallest covering entry of the map.
IsBest(s, c) ==
  /\ slots[s] # None /\ s >= want[c]
  /\ \A t \in Sizes : slots[t] # None /\ t >= want[c] => s <= t

Find(c) ==
  /\ Goto(c, "lookup", "cell")
  /\ \E s \in Sizes : IsBest(s, c) /\ entry' = [entry EXCEPT ![c] = slots[s]]
  /\ UNCHANGED <<want, slots, cell, profiled, drops>>

\* A faulty variant: the smaller entries go when the larger one is inserted.
InsertEvicting(c) ==
  /\ Goto(c, "lookup", "cell")
  /\ \A s \in Sizes : s >= want[c] => slots[s] = None
  /\ entry' = [entry EXCEPT ![c] = c]
  /\ slots' = [s \in Sizes |-> IF s = want[c] THEN c ELSE None]
  /\ cell' = [cell EXCEPT ![c] = "unset"]
  /\ UNCHANGED <<want, profiled, drops>>

\* Nothing covers the request: an empty cell is inserted for it.
Insert(c) ==
  /\ Goto(c, "lookup", "cell")
  /\ \A s \in Sizes : s >= want[c] => slots[s] = None
  /\ entry' = [entry EXCEPT ![c] = c]
  /\ slots' = [slots EXCEPT ![want[c]] = c]
  /\ cell' = [cell EXCEPT ![c] = "unset"]
  /\ UNCHANGED <<want, profiled, drops>>

\* get_or_init of an empty cell; the others wait while it is being built.
BeginBuild(c) ==
  /\ Goto(c, "cell", "build")
  /\ cell[entry[c]] = "unset"
  /\ cell' = [cell EXCEPT ![entry[c]] = "building"]
  /\ UNCHANGED <<want, entry, slots, profiled, drops>>

\* build_ntt_slot_for_key: the key alone decides the outcome.
FinishBuild(c) ==
  /\ Goto(c, "build", IF Key(c) \in Buildable THEN "built" ELSE "broken")
  /\ cell' = [cell EXCEPT ![entry[c]] = IF Key(c) \in Buildable THEN "ok" ELSE "err"]
  /\ UNCHANGED <<want, entry, slots, profiled, drops>>

\* get_or_init of a cell that is set.
Join(c) ==
  /\ pc[c] = "cell" /\ cell[entry[c]] \in {"ok", "err"}
  /\ Goto(c, "cell", IF cell[entry[c]] = "ok" THEN "built" ELSE "broken")
  /\ UNCHANGED <<want, entry, slots, cell, profiled, drops>>

\* A faulty variant: nothing is evicted.
RetainAll(c) ==
  /\ Goto(c, "built", "profile")
  /\ UNCHANGED <<want, entry, slots, cell, profiled, drops>>

\* The prefix is there: smaller entries are evicted, built or not.
Retain(c) ==
  /\ Goto(c, "built", "profile")
  /\ slots' = [s \in Sizes |-> IF s < Key(c) THEN None ELSE slots[s]]
  /\ UNCHANGED <<want, entry, cell, profiled, drops>>

\* record_ntt_profile_on_prepared, and the slot is returned.
RecordProfile(c) ==
  /\ Goto(c, "profile", "done")
  /\ profiled' = TRUE
  /\ UNCHANGED <<want, entry, slots, cell, drops>>

\* Faulty variants: no cell is removed; the error of a larger request is
\* returned.
DiscardNothing(c) ==
  /\ Goto(c, "broken", IF Key(c) = want[c] THEN "failed" ELSE "lookup")
  /\ UNCHANGED <<want, entry, slots, cell, profiled, drops>>
DiscardAndFail(c) ==
  /\ Goto(c, "broken", "failed")
  /\ slots' = [slots EXCEPT ![Key(c)] = IF @ = entry[c] THEN None ELSE @]
  /\ UNCHANGED <<want, entry, cell, profiled, drops>>

\* The build failed: this very cell is removed from the map, if it is still
\* there; only a failure of the call's own key is returned.
Discard(c) ==
  /\ Goto(c, "broken", IF Key(c) = want[c] THEN "failed" ELSE "lookup")
  /\ slots' = [slots EXCEPT ![Key(c)] = IF @ = entry[c] THEN None ELSE @]
  /\ UNCHANGED <<want, entry, cell, profiled, drops>>

\* drop_built_ntt_slots, at any moment: readers keep what they hold.
Release ==
  /\ drops < MaxDrops
  /\ drops' = drops + 1
  /\ slots' = [s \in Sizes |-> IF slots[s] # None /\ cell[slots[s]] = "ok"
                               THEN None ELSE slots[s]]
  /\ UNCHANGED <<want, pc, entry, cell, profiled>>

Step(c) ==
  \/ Find(c) \/ Insert(c)
  \/ BeginBuild(c) \/ FinishBuild(c) \/ Join(c)
  \/ Retain(c) \/ RecordProfile(c) \/ Discard(c)

Next == Release \/ \E c \in Calls : Begin(c) \/ Step(c)

Spec == Init /\ [][Next]_vars

\* Threads keep running; the mutex is held for a few map operations only.
FairSpec == Spec /\ \A c \in Calls : WF_vars(Step(c))
-----------------------------------------------------------------------------
(* Properties.                                                             *)

\* A slot that prepare_ntt_slot_on_prepared returns is built and covers the
\* request, whichever call built it and whatever was evicted, removed or
\* released meanwhile.
ReturnedCovers ==
  \A c \in Calls : pc[c] = "done" => cell[entry[c]] = "ok" /\ Key(c) >= want[c] /\ profiled

\* A call fails only if its own key cannot be built: a larger request that
\* fails takes no smaller one with it.
FailureIsOwn == \A c \in Calls : pc[c] = "failed" => want[c] \notin Buildable

\* Unless slots were released, no prefix is ever built twice, nor by two
\* calls at once: failed growth, eviction and removal leave every request
\* with the cell that is being built for it or with a covering slot.
BuiltOnce ==
  drops = 0 =>
    \A c, d \in Calls : want[c] = want[d] /\ cell[c] \in Live /\ cell[d] \in Live => c = d

\* Some built slot of the map covers the size.
Serves(s) == \E t \in Sizes : t >= s /\ slots[t] # None /\ cell[slots[t]] = "ok"

\* Unless slots were released, a size the cache serves is served from then on:
\* no growth, successful or not, leaves a moment without a covering slot.
KeepsServing == [][drops' = 0 => \A s \in Sizes : Serves(s) => Serves(s)']_vars

\* When no call is running, the map holds one slot at most, and it is built,
\* even if slots were released while calls were running.
OneSlotLeft ==
  (\A c \in Calls : pc[c] \notin Running) =>
    /\ \A s \in Sizes : slots[s] # None => cell[slots[s]] = "ok"
    /\ \A s, t \in Sizes : slots[s] # None /\ slots[t] # None => s = t

\* Every call returns: nobody waits for a cell that nobody builds, and no call
\* goes round for ever between failing larger cells.
EveryCallReturns == \A c \in Calls : (pc[c] = "lookup") ~> (pc[c] \in Finished)
-----------------------------------------------------------------------------
(* The inductive invariant.                                                *)

\* The call that inserted a cell holds it from then on.
InserterHolds ==
  \A c \in Calls :
    cell[c] # "none" => entry[c] = c /\ pc[c] \in Holding \cup {"failed"}

\* The map has every cell under its own key.
SlotIsCell ==
  \A s \in Sizes : slots[s] # None => want[slots[s]] = s /\ cell[slots[s]] # "none"

\* A call holds a cell that covers its request.
EntryCovers ==
  \A c \in Calls :
    pc[c] \in Holding => entry[c] \in Calls /\ cell[entry[c]] # "none" /\ Key(c) >= want[c]

\* A cell is set to what its key allows.
CellOutcome ==
  \A c \in Calls :
    /\ cell[c] = "ok" => want[c] \in Buildable
    /\ cell[c] = "err" => want[c] \notin Buildable

\* What a call has seen of its cell is still true.
StepOutcome ==
  \A c \in Calls :
    /\ pc[c] = "build" => cell[entry[c]] = "building"
    /\ pc[c] \in {"built", "profile", "done"} => cell[entry[c]] = "ok"
    /\ pc[c] = "broken" => cell[entry[c]] = "err"
    /\ pc[c] = "done" => profiled

\* One call at most builds a cell.
OneBuilder ==
  \A c, d \in Calls : pc[c] = "build" /\ pc[d] = "build" /\ entry[c] = entry[d] => c = d

\* The cell of a failed call is not in the map any more.
FailedIsGone == \A c \in Calls, s \in Sizes : pc[c] = "failed" => slots[s] # c

\* Below a slot whose inserter has evicted there is nothing.
EvictedBelow ==
  \A s, t \in Sizes :
    s < t /\ slots[t] # None /\ pc[slots[t]] \in {"profile", "done"} => slots[s] = None

\* Unless slots were released, a built cell, and an unfinished one that was
\* evicted, are covered by a built slot of the map.
NothingLost ==
  drops = 0 =>
    \A c \in Calls :
      /\ cell[c] = "ok" => Serves(want[c])
      /\ cell[c] \in {"unset", "building"} /\ slots[want[c]] # c => Serves(want[c])

CellInv == InserterHolds /\ SlotIsCell /\ EntryCovers /\ CellOutcome /\ StepOutcome /\ OneBuilder
SlotInv == FailedIsGone /\ EvictedBelow
IInv == TypeOK /\ CellInv /\ SlotInv /\ FailureIsOwn /\ NothingLost /\ BuiltOnce
=============================================================================
