------------------------------- MODULE SetupStore -------------------------------
(***************************************************************************)
(* The disk cache of the prover setup (akita-setup/src/lib.rs): one public *)
(* matrix file per seed, shared by all requests and kept at the largest    *)
(* size any of them needed, and one setup-prefix registry file per         *)
(* request.  new_prover_setup loads both, repairs a registry that does not *)
(* cover the request, or generates everything and saves it.                *)
(*                                                                         *)
(* Callers are threads or processes.  A save holds a process mutex and a   *)
(* file lock, taken in this order and together one lock, while it inspects *)
(* and replaces the matrix; loads hold none and rely on the atomic rename. *)
(* The registry is replaced after the lock is released.                    *)
(*                                                                         *)
(* A save that opens the matrix and cannot read it through takes it for    *)
(* invalid and overwrites it, even one that is larger.                     *)
(*                                                                         *)
(* The files are not synced: a power loss may leave a renamed file         *)
(* incomplete.  A matrix is its number of field elements, since the seed   *)
(* fixes its values; Bad is any file a load refuses.                       *)
(***************************************************************************)
EXTENDS Naturals

CONSTANTS
  Procs,      \* threads and processes that ask for a setup
  Requests,   \* configuration, max_num_vars and max_num_batched_polys
  Need,       \* field elements a request needs
  Plain,      \* requests whose configuration plans no recursive setup
  Absent,     \* no file
  Bad,        \* a file a load refuses
  Stale,      \* a registry whose slots are not those the request requires
  Good,       \* a registry with exactly the required slots
  Nobody,     \* the lock is free
  MaxCalls,   \* bound on the calls of new_prover_setup
  MaxFaults   \* bound on failed operations, kills and power losses

ASSUME SetupAssumption ==
  /\ Requests # {} /\ Need \in [Requests -> Nat \ {0}]
  /\ Plain \subseteq Requests
  /\ Absent \notin Nat /\ Bad \notin Nat
  /\ Absent # Bad /\ Absent # Stale /\ Absent # Good
  /\ Bad # Stale /\ Bad # Good /\ Stale # Good
  /\ Nobody \notin Procs
  /\ MaxCalls \in Nat /\ MaxFaults \in Nat

Sizes == {Need[r] : r \in Requests}
Matrices == Sizes \cup {Absent, Bad}
Registries == {Absent, Bad, Stale, Good}
Locked == {"inspect", "replace", "overwrite"}
Steps == Locked \cup {"idle", "matrix", "registry", "generate", "lock", "persist"}

VARIABLES
  matrix,    \* the public matrix file
  registry,  \* the registry file of every request
  lock,      \* who holds the matrix lock
  pc,        \* where each caller is
  req,       \* what each caller asks for
  have,      \* size of the matrix each caller has in memory
  covers,    \* the registry in memory has the required slots
  repair,    \* the save is load_prover_setup's own
  ready,     \* callers new_prover_setup has returned a setup to
  calls,     \* calls so far
  faults     \* faults so far

vars == <<matrix, registry, lock, pc, req, have, covers, repair, ready, calls, faults>>

TypeOK ==
  /\ matrix \in Matrices
  /\ registry \in [Requests -> Registries]
  /\ lock \in Procs \cup {Nobody}
  /\ pc \in [Procs -> Steps]
  /\ req \in [Procs -> Requests]
  /\ have \in [Procs -> Sizes \cup {0}]
  /\ covers \in [Procs -> BOOLEAN]
  /\ repair \in [Procs -> BOOLEAN]
  /\ ready \in SUBSET Procs
  /\ calls \in 0 .. MaxCalls
  /\ faults \in 0 .. MaxFaults

\* An empty cache, or what an earlier release left there.
Init ==
  /\ matrix \in Matrices
  /\ registry \in [Requests -> {Absent, Stale}]
  /\ lock = Nobody
  /\ pc = [p \in Procs |-> "idle"]
  /\ req = [p \in Procs |-> CHOOSE r \in Requests : TRUE]
  /\ have = [p \in Procs |-> 0]
  /\ covers = [p \in Procs |-> FALSE]
  /\ repair = [p \in Procs |-> FALSE]
  /\ ready = {}
  /\ calls = 0
  /\ faults = 0

Fault == faults < MaxFaults /\ faults' = faults + 1

Goto(p, from, to) == pc[p] = from /\ pc' = [pc EXCEPT ![p] = to]

\* The smallest size that covers a request, and whether a file has it.
CoversNeed(file, r) == file \in Sizes /\ file >= Need[r]

\* validate_loaded_prefix_registry_coverage of a registry that decoded.
CoversSlots(file, r) == r \in Plain \/ file = Good
-----------------------------------------------------------------------------
(* load_prover_setup.                                                      *)

\* new_prover_setup is called.
Call(p, r) ==
  /\ calls < MaxCalls
  /\ Goto(p, "idle", "matrix")
  /\ req' = [req EXCEPT ![p] = r]
  /\ have' = [have EXCEPT ![p] = 0]
  /\ covers' = [covers EXCEPT ![p] = FALSE]
  /\ ready' = ready \ {p}
  /\ calls' = calls + 1
  /\ UNCHANGED <<matrix, registry, lock, repair, faults>>

\* The cached matrix is read and covers the request.
LoadMatrix(p) ==
  /\ Goto(p, "matrix", "registry")
  /\ CoversNeed(matrix, req[p])
  /\ have' = [have EXCEPT ![p] = matrix]
  /\ UNCHANGED <<matrix, registry, lock, req, covers, repair, ready, calls, faults>>

\* It is absent, refused or too small, or cannot be read.
LoadMatrixFails(p) ==
  /\ Goto(p, "matrix", "generate")
  /\ \/ ~CoversNeed(matrix, req[p]) /\ UNCHANGED faults
     \/ CoversNeed(matrix, req[p]) /\ Fault
  /\ UNCHANGED <<matrix, registry, lock, req, have, covers, repair, ready, calls>>

\* The registry covers the request: the load is done.
LoadRegistry(p) ==
  /\ Goto(p, "registry", "idle")
  /\ registry[req[p]] # Bad
  /\ CoversSlots(registry[req[p]], req[p])
  /\ covers' = [covers EXCEPT ![p] = TRUE]
  /\ ready' = ready \cup {p}
  /\ UNCHANGED <<matrix, registry, lock, req, have, repair, calls, faults>>

\* It decodes, or is absent, and does not: the slots are made again.
RepairRegistry(p) ==
  /\ Goto(p, "registry", "lock")
  /\ registry[req[p]] # Bad
  /\ ~CoversSlots(registry[req[p]], req[p])
  /\ covers' = [covers EXCEPT ![p] = TRUE]
  /\ repair' = [repair EXCEPT ![p] = TRUE]
  /\ UNCHANGED <<matrix, registry, lock, req, have, ready, calls, faults>>

\* It is refused, cannot be read, or the slots cannot be made.
LoadRegistryFails(p) ==
  /\ Goto(p, "registry", "generate")
  /\ \/ registry[req[p]] = Bad /\ UNCHANGED faults
     \/ registry[req[p]] # Bad /\ Fault
  /\ UNCHANGED <<matrix, registry, lock, req, have, covers, repair, ready, calls>>

\* generate_with_capacity and populate_required_setup_prefix_slots.
Generate(p) ==
  /\ Goto(p, "generate", "lock")
  /\ have' = [have EXCEPT ![p] = Need[req[p]]]
  /\ covers' = [covers EXCEPT ![p] = TRUE]
  /\ repair' = [repair EXCEPT ![p] = FALSE]
  /\ UNCHANGED <<matrix, registry, lock, req, ready, calls, faults>>

\* One of its steps fails, and new_prover_setup with it.
GenerateFails(p) ==
  /\ Goto(p, "generate", "idle")
  /\ Fault
  /\ UNCHANGED <<matrix, registry, lock, req, have, covers, repair, ready, calls>>
-----------------------------------------------------------------------------
(* save_prover_setup.                                                      *)

\* A save that does not wait for the lock.
LockNothing(p) ==
  /\ Goto(p, "lock", "inspect")
  /\ lock' = p
  /\ UNCHANGED <<matrix, registry, req, have, covers, repair, ready, calls, faults>>

\* The mutex and then the lock file.
Lock(p) ==
  /\ Goto(p, "lock", "inspect")
  /\ lock = Nobody
  /\ lock' = p
  /\ UNCHANGED <<matrix, registry, req, have, covers, repair, ready, calls, faults>>

\* A valid matrix at least as large stays.
KeepMatrix(p) ==
  /\ Goto(p, "inspect", "persist")
  /\ matrix \in Sizes /\ matrix >= have[p]
  /\ lock' = Nobody
  /\ UNCHANGED <<matrix, registry, req, have, covers, repair, ready, calls, faults>>

\* A matrix of any other size is replaced.
ReplaceWhenDifferent(p) ==
  /\ Goto(p, "inspect", "replace")
  /\ matrix # have[p]
  /\ UNCHANGED <<matrix, registry, lock, req, have, covers, repair, ready, calls, faults>>

\* One that is absent, refused or smaller is to be replaced.
DecideReplace(p) ==
  /\ Goto(p, "inspect", "replace")
  /\ ~(matrix \in Sizes /\ matrix >= have[p])
  /\ UNCHANGED <<matrix, registry, lock, req, have, covers, repair, ready, calls, faults>>

\* So is one that would stay, when it opens and an error strikes while it is read.
\* The code goes on as from DecideReplace; the step has a name of its own
\* because nothing is known of the matrix then.
MisreadMatrix(p) ==
  /\ Goto(p, "inspect", "overwrite")
  /\ matrix \in Sizes /\ matrix >= have[p]
  /\ Fault
  /\ UNCHANGED <<matrix, registry, lock, req, have, covers, repair, ready, calls>>

\* A temporary file is written and renamed over the matrix.
ReplaceMatrix(p) ==
  /\ pc[p] \in {"replace", "overwrite"} /\ pc' = [pc EXCEPT ![p] = "persist"]
  /\ matrix' = have[p]
  /\ lock' = Nobody
  /\ UNCHANGED <<registry, req, have, covers, repair, ready, calls, faults>>

\* The registry file is replaced, without the lock.
SaveRegistry(p) ==
  /\ Goto(p, "persist", "idle")
  /\ registry' = [registry EXCEPT ![req[p]] = Good]
  /\ ready' = ready \cup {p}
  /\ UNCHANGED <<matrix, lock, req, have, covers, repair, calls, faults>>

\* A failed save that keeps the lock.
SaveFailsHoldingLock(p) ==
  /\ pc[p] \in Locked \cup {"lock", "persist"}
  /\ Fault
  /\ IF repair[p] THEN pc' = [pc EXCEPT ![p] = "generate"] /\ UNCHANGED ready
     ELSE pc' = [pc EXCEPT ![p] = "idle"] /\ ready' = ready \cup {p}
  /\ UNCHANGED <<matrix, registry, lock, req, have, covers, repair, calls>>

\* A step of the save fails (at the inspection only the opening of the matrix
\* can): the guards are dropped.  A repair then fails the load, and everything
\* is generated; a fresh setup is returned with a warning.
SaveFails(p) ==
  /\ pc[p] \in Locked \cup {"lock", "persist"}
  /\ Fault
  /\ IF repair[p] THEN pc' = [pc EXCEPT ![p] = "generate"] /\ UNCHANGED ready
     ELSE pc' = [pc EXCEPT ![p] = "idle"] /\ ready' = ready \cup {p}
  /\ lock' = IF lock = p THEN Nobody ELSE lock
  /\ UNCHANGED <<matrix, registry, req, have, covers, repair, calls>>
-----------------------------------------------------------------------------
(* The surroundings.                                                       *)

\* A caller dies: the system frees its lock.
Kill(p) ==
  /\ pc[p] # "idle"
  /\ Fault
  /\ pc' = [pc EXCEPT ![p] = "idle"]
  /\ lock' = IF lock = p THEN Nobody ELSE lock
  /\ UNCHANGED <<matrix, registry, req, have, covers, repair, ready, calls>>

\* Everyone dies and files that were not synced may be incomplete.
PowerLoss ==
  /\ Fault
  /\ pc' = [p \in Procs |-> "idle"]
  /\ lock' = Nobody
  /\ ready' = {}
  /\ matrix' \in {matrix, Bad}
  /\ \E lost \in SUBSET Requests :
       registry' = [r \in Requests |-> IF r \in lost THEN Bad ELSE registry[r]]
  /\ UNCHANGED <<req, have, covers, repair, calls>>

Step(p) ==
  \/ LoadMatrix(p) \/ LoadMatrixFails(p)
  \/ LoadRegistry(p) \/ RepairRegistry(p) \/ LoadRegistryFails(p)
  \/ Generate(p) \/ GenerateFails(p)
  \/ Lock(p) \/ KeepMatrix(p) \/ DecideReplace(p) \/ MisreadMatrix(p) \/ ReplaceMatrix(p)
  \/ SaveRegistry(p) \/ SaveFails(p)

Next ==
  \/ \E p \in Procs : Step(p) \/ Kill(p) \/ \E r \in Requests : Call(p, r)
  \/ PowerLoss

Spec == Init /\ [][Next]_vars

\* Every caller keeps running.  The lock need not be fair: with finitely many
\* calls it is free for good in the end.
FairSpec == Spec /\ \A p \in Procs : WF_vars(Step(p))
-----------------------------------------------------------------------------
(* Properties.                                                             *)

\* A setup that new_prover_setup returned has a matrix that covers its own
\* request and exactly the slots required for it, whatever the cache held.
ReturnedCovers ==
  \A p \in ready : have[p] >= Need[req[p]] /\ covers[p]

\* A valid matrix gives way to a smaller one only to a caller that holds the
\* lock and met a read error on that very matrix: however saves interleave, a
\* caller that read what was there never shrinks it.
ShrinksOnlyUnread ==
  [][(matrix \in Sizes /\ matrix' \in Sizes /\ matrix' < matrix) =>
        \E p \in Procs : lock = p /\ pc[p] = "overwrite" /\ matrix' = have[p]]_vars

\* After a call that met no fault the next one for the same request is served
\* from disk: no other caller has taken the matrix or the registry away.
NextLoadHits ==
  faults = 0 => \A p \in ready : /\ CoversNeed(matrix, req[p])
                                 /\ registry[req[p]] # Bad
                                 /\ CoversSlots(registry[req[p]], req[p])

\* Every call of new_prover_setup returns, or its caller dies.
CallReturns == \A p \in Procs : (pc[p] # "idle") ~> (pc[p] = "idle")

\* What the callers see of the cache: the size of a valid matrix, what they
\* ask for, what they have been handed, and which of them could not read it.
Shared == IF matrix \in Sizes THEN matrix ELSE 0
Asked == [p \in Procs |-> Need[req[p]]]
Granted == [p \in Procs |-> IF p \in ready THEN have[p] ELSE 0]
Unread == IF lock # Nobody /\ pc[lock] = "overwrite" THEN lock ELSE Nobody

\* Callers see grants that cover what they asked for and a shared capacity that
\* grows as long as it can be read, although loads take no lock and saves may
\* fail anywhere; while one of them has failed to read it nobody else changes it.
Capacity == INSTANCE GrowOnly WITH
  Callers <- Procs, Amounts <- Sizes, Nobody <- Nobody,
  capacity <- Shared, asked <- Asked, granted <- Granted, blind <- Unread
ImplementsGrowOnly == Capacity!Spec
-----------------------------------------------------------------------------
(* The inductive invariant.                                                *)

\* Only the holder of the lock inspects and replaces.
LockHeld == \A p \in Procs : pc[p] \in Locked <=> lock = p

\* The inspection is still true when the matrix is replaced.
InspectionHolds ==
  \A p \in Procs : pc[p] = "replace" => ~(matrix \in Sizes /\ matrix >= have[p])

\* What a caller has in memory covers its request from the moment it saves.
MemoryCovers ==
  \A p \in Procs :
    /\ pc[p] \in Locked \cup {"registry", "lock", "persist"} => have[p] >= Need[req[p]]
    /\ pc[p] \in Locked \cup {"registry", "lock", "persist"} => have[p] \in Sizes
    /\ pc[p] \in Locked \cup {"lock", "persist"} => covers[p]

\* A caller that has its setup is not in the middle of a call.
ReadyIdle == \A p \in ready : pc[p] = "idle"

\* Without faults the disk has what every caller has loaded or saved.
DiskCovers ==
  faults = 0 =>
    /\ \A r \in Requests : registry[r] # Bad
    /\ \A p \in Procs : pc[p] # "overwrite"
    /\ \A p \in Procs : pc[p] \in {"registry", "persist"} \/ p \in ready =>
                           matrix \in Sizes /\ matrix >= have[p]
    /\ \A p \in ready : CoversSlots(registry[req[p]], req[p])

IInv ==
  TypeOK /\ LockHeld /\ InspectionHolds /\ MemoryCovers /\ ReadyIdle
  /\ ReturnedCovers /\ DiskCovers
=============================================================================
