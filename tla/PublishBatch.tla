------------------------------ MODULE PublishBatch ------------------------------
(***************************************************************************)
(* The transactional publication of a batch of generated files             *)
(* (akita-planner/src/emit/publish.rs): every output is staged beside its  *)
(* destination, the stage files are formatted and synced, and then each    *)
(* destination is moved to a backup and replaced.  A failure rolls the     *)
(* batch back; a success deletes the backups.                              *)
(*                                                                         *)
(* Any file operation may fail, also while rolling back, and the process   *)
(* may be killed between any two operations.  Nothing recovers a killed    *)
(* batch: a later one runs over what it left behind, and may use the same  *)
(* names for its stage and backup files, for these hold only the process   *)
(* id, a nonce that starts at 0 in every process and the index.            *)
(*                                                                         *)
(* A file's content is the number of the batch that made it, 0 for what    *)
(* was there before.  One batch runs at a time.                            *)
(***************************************************************************)
EXTENDS Naturals

CONSTANTS
  OutputCount, \* outputs of a batch, indexed 1 .. OutputCount
  Keys,        \* process id and nonce pairs, which name a batch's files
  Absent,      \* no file
  MaxBatches,  \* bound on the batches started
  MaxFaults    \* bound on failed operations and kills

ASSUME PublishAssumption ==
  /\ OutputCount \in Nat \ {0} /\ MaxBatches \in Nat /\ MaxFaults \in Nat
  /\ Absent \notin Nat

Outputs == 1 .. OutputCount
Content == 0 .. MaxBatches \cup {Absent}

VARIABLES
  dest,       \* content of every destination
  stage,      \* content of every stage path
  backup,     \* content of every backup path
  pc,         \* step of the running batch
  key,        \* what names its files
  index,      \* the output it is at
  staged,     \* outputs whose StagedOutput is in the vector
  planned,    \* outputs that had a destination when the backups were planned
  held,       \* outputs whose StagedOutput.backup is Some
  published,  \* outputs whose StagedOutput.published is set
  torn,       \* the rollback has collected a failure
  outcome,    \* what the last batch returned
  batch,      \* number of the last batch started
  faults,     \* faults injected so far
  before,     \* history: the destinations when the batch started
  settled     \* history: the destinations the last successful batch left

files == <<dest, stage, backup>>
plan == <<staged, planned, held, published>>
ghosts == <<before, settled>>
vars == <<files, pc, key, index, plan, torn, outcome, batch, faults, ghosts>>

Steps == {"idle", "stage", "format", "plan", "backup", "replace", "rollback", "cleanup", "commit"}
Outcomes == {"none", "running", "ok", "failed", "torn", "killed"}

TypeOK ==
  /\ dest \in [Outputs -> Content]
  /\ stage \in [Keys -> [Outputs -> Content]]
  /\ backup \in [Keys -> [Outputs -> Content]]
  /\ pc \in Steps /\ key \in Keys /\ index \in 0 .. OutputCount + 1
  /\ staged \in SUBSET Outputs /\ planned \in SUBSET Outputs
  /\ held \in SUBSET planned /\ published \in SUBSET staged
  /\ torn \in BOOLEAN /\ outcome \in Outcomes
  /\ batch \in 0 .. MaxBatches /\ faults \in 0 .. MaxFaults
  /\ before \in [Outputs -> Content] /\ settled \in [Outputs -> Content]

Init ==
  /\ dest \in [Outputs -> {0, Absent}]
  /\ stage = [k \in Keys |-> [i \in Outputs |-> Absent]]
  /\ backup = [k \in Keys |-> [i \in Outputs |-> Absent]]
  /\ pc = "idle" /\ key \in Keys /\ index = 0
  /\ staged = {} /\ planned = {} /\ held = {} /\ published = {}
  /\ torn = FALSE /\ outcome = "none" /\ batch = 0 /\ faults = 0
  /\ before = dest /\ settled = dest

Fault == faults < MaxFaults /\ faults' = faults + 1

Put(paths, i, content) == [paths EXCEPT ![key][i] = content]

\* The next output of a loop over the batch, or the step after the loop.
Advance(next) ==
  /\ index' = IF index = OutputCount THEN 1 ELSE index + 1
  /\ pc' = IF index = OutputCount THEN next ELSE pc
-----------------------------------------------------------------------------
\* publish_generated_outputs takes a nonce and starts from an empty vector.
Begin(k) ==
  /\ pc = "idle" /\ batch < MaxBatches
  /\ pc' = "stage" /\ key' = k /\ index' = 1
  /\ staged' = {} /\ planned' = {} /\ held' = {} /\ published' = {}
  /\ torn' = FALSE /\ outcome' = "running" /\ batch' = batch + 1
  /\ before' = dest
  /\ UNCHANGED <<files, faults, settled>>

\* create_new, write_all and sync_all of one stage file.
StageOutput ==
  /\ pc = "stage"
  /\ stage[key][index] = Absent
  /\ stage' = Put(stage, index, batch)
  /\ staged' = staged \cup {index}
  /\ Advance("format")
  /\ UNCHANGED <<dest, backup, key, planned, held, published, torn, outcome, batch, faults, ghosts>>

\* A stage path that is taken, a duplicate or a directory among the
\* destinations, a failed write (removing the half-written file may fail too).
StageFails ==
  /\ pc = "stage"
  /\ \/ stage[key][index] # Absent /\ UNCHANGED <<stage, faults>>
     \/ /\ stage[key][index] = Absent /\ Fault
        /\ \E left \in {Absent, batch} : stage' = Put(stage, index, left)
  /\ pc' = "cleanup"
  /\ UNCHANGED <<dest, backup, key, index, plan, torn, outcome, batch, ghosts>>

\* rustfmt and the second sync of the stage files.
Format ==
  /\ pc = "format"
  /\ \/ pc' = "plan" /\ UNCHANGED faults
     \/ pc' = "cleanup" /\ Fault
  /\ UNCHANGED <<files, key, index, plan, torn, outcome, batch, ghosts>>

Existing == {i \in Outputs : dest[i] # Absent}

\* The backups planned without looking for stale ones.
PlanBackupsUnchecked ==
  /\ pc = "plan"
  /\ planned' = Existing
  /\ pc' = "backup"
  /\ UNCHANGED <<files, key, index, staged, held, published, torn, outcome, batch, faults, ghosts>>

\* The backups planned; a planned path that is taken is a stale backup.
PlanBackups ==
  /\ pc = "plan"
  /\ planned' = Existing
  /\ pc' = IF \E i \in Existing : backup[key][i] # Absent THEN "cleanup" ELSE "backup"
  /\ UNCHANGED <<files, key, index, staged, held, published, torn, outcome, batch, faults, ghosts>>

\* The destination moves to its backup, if one is planned.
BackUp ==
  /\ pc = "backup"
  /\ pc' = "replace"
  /\ IF index \in planned
     THEN /\ backup' = Put(backup, index, dest[index])
          /\ dest' = [dest EXCEPT ![index] = Absent]
          /\ held' = held \cup {index}
     ELSE UNCHANGED <<backup, dest, held>>
  /\ UNCHANGED <<stage, key, index, staged, planned, published, torn, outcome, batch, faults, ghosts>>

\* The stage file moves to the destination.
Replace ==
  /\ pc = "replace"
  /\ dest' = [dest EXCEPT ![index] = stage[key][index]]
  /\ stage' = Put(stage, index, Absent)
  /\ published' = published \cup {index}
  /\ index' = IF index = OutputCount THEN 1 ELSE index + 1
  /\ pc' = IF index = OutputCount THEN "commit" ELSE "backup"
  /\ UNCHANGED <<backup, key, staged, planned, held, torn, outcome, batch, faults, ghosts>>

\* A rename that fails while publishing is passed over.
PublishSkips ==
  /\ pc = "replace" \/ (pc = "backup" /\ index \in planned)
  /\ Fault
  /\ index' = IF index = OutputCount THEN 1 ELSE index + 1
  /\ pc' = IF index = OutputCount THEN "commit" ELSE "backup"
  /\ UNCHANGED <<files, key, plan, torn, outcome, batch, ghosts>>

\* A rename fails while publishing.
PublishFails ==
  /\ pc = "replace" \/ (pc = "backup" /\ index \in planned)
  /\ Fault
  /\ pc' = "rollback" /\ index' = OutputCount
  /\ UNCHANGED <<files, key, plan, torn, outcome, batch, ghosts>>
-----------------------------------------------------------------------------
(* rollback_published_outputs, from the last output to the first.          *)

RollbackNext ==
  /\ index' = index - 1
  /\ pc' = IF index = 1 THEN "cleanup" ELSE pc
  /\ UNCHANGED <<stage, key, staged, planned, outcome, batch, ghosts>>

\* The new file is removed and the backup moved back.
Restore ==
  /\ pc = "rollback"
  /\ dest' = IF index \in held THEN [dest EXCEPT ![index] = backup[key][index]]
             ELSE IF index \in published THEN [dest EXCEPT ![index] = Absent]
             ELSE dest
  /\ backup' = IF index \in held THEN Put(backup, index, Absent) ELSE backup
  /\ published' = published \ {index}
  /\ held' = held \ {index}
  /\ RollbackNext
  /\ UNCHANGED <<torn, faults>>

\* The new file cannot be removed: its backup stays where it is.
RemoveFails ==
  /\ pc = "rollback" /\ index \in published
  /\ Fault
  /\ torn' = TRUE
  /\ RollbackNext
  /\ UNCHANGED <<dest, backup, held, published>>

\* The new file is removed and the backup cannot be moved back.
RestoreFails ==
  /\ pc = "rollback" /\ index \in held
  /\ Fault
  /\ torn' = TRUE
  /\ dest' = IF index \in published THEN [dest EXCEPT ![index] = Absent] ELSE dest
  /\ published' = published \ {index}
  /\ RollbackNext
  /\ UNCHANGED <<backup, held>>

\* cleanup_staged_outputs: failures to remove a stage file are ignored.
Cleanup(kept) ==
  /\ pc = "cleanup"
  /\ kept \subseteq staged
  /\ kept # {} => Fault
  /\ kept = {} => UNCHANGED faults
  /\ stage' = [stage EXCEPT ![key] =
                 [i \in Outputs |-> IF i \in staged \ kept THEN Absent ELSE stage[key][i]]]
  /\ pc' = "idle"
  /\ outcome' = IF torn THEN "torn" ELSE "failed"
  /\ UNCHANGED <<dest, backup, key, index, plan, torn, batch, ghosts>>

\* Every destination is replaced: the backups go, failures ignored.
Commit ==
  /\ pc = "commit"
  /\ \/ backup' = (IF index \in held THEN Put(backup, index, Absent) ELSE backup) /\ UNCHANGED faults
     \/ index \in held /\ Fault /\ UNCHANGED backup
  /\ held' = held \ {index}
  /\ index' = index + 1
  /\ IF index = OutputCount
     THEN pc' = "idle" /\ outcome' = "ok" /\ settled' = dest
     ELSE UNCHANGED <<pc, outcome, settled>>
  /\ UNCHANGED <<dest, stage, key, staged, planned, published, torn, batch, before>>

\* The process is killed.
Kill ==
  /\ pc # "idle"
  /\ Fault
  /\ pc' = "idle" /\ outcome' = "killed"
  /\ settled' = IF pc = "commit" THEN dest ELSE settled
  /\ UNCHANGED <<files, key, index, plan, torn, batch, before>>

Next ==
  \/ \E k \in Keys : Begin(k)
  \/ StageOutput \/ StageFails \/ Format \/ PlanBackups
  \/ BackUp \/ Replace \/ PublishFails
  \/ Restore \/ RemoveFails \/ RestoreFails
  \/ \E kept \in SUBSET Outputs : Cleanup(kept)
  \/ Commit \/ Kill

Spec == Init /\ [][Next]_vars
-----------------------------------------------------------------------------
(* Properties.                                                             *)

\* What the last successful batch left, or the first one found, is never
\* overwritten for good by batches that do not succeed, not even when a new
\* process takes the names of a killed one.
SettledKept ==
  pc # "commit" =>
    \A i \in Outputs : \/ settled[i] = Absent
                       \/ dest[i] = settled[i]
                       \/ \E k \in Keys : backup[k][i] = settled[i]

\* What a reader is to find, and how far the batch is for it.
Visible == IF pc \in {"idle", "commit"} THEN dest ELSE before
Phase == IF pc = "idle" THEN "none" ELSE IF pc = "commit" THEN "switched" ELSE "open"

\* A batch is one step: the last replacement is where all destinations change.
\* Until then what counts is what the batch found, at the destination or in a
\* backup.
Atomic == INSTANCE AtomicBatch WITH
  Names <- Outputs, Missing <- Absent, number <- batch, outcome <- outcome,
  content <- Visible, phase <- Phase
ImplementsAtomicBatch == Atomic!Spec
-----------------------------------------------------------------------------
(* The inductive invariant.                                                *)

Preparing == {"stage", "format", "plan"}
Publishing == {"backup", "replace"}

\* The loops stay within the batch, and the vector of staged outputs is
\* complete from the formatter on.
LoopsFit ==
  /\ pc \in Preparing \cup Publishing \cup {"rollback", "commit"} => index \in Outputs
  /\ pc \in {"format", "plan"} => index = 1
  /\ pc = "stage" => staged = 1 .. index - 1
  /\ pc \in {"format", "plan"} \cup Publishing => staged = Outputs
  /\ pc \in Preparing => planned = {} /\ held = {} /\ published = {}

\* A staged output that is not published is still in its stage file.
StagedWaits ==
  pc \in Preparing \cup Publishing => \A i \in staged \ published : stage[key][i] = batch

\* The outputs before the index are published, the others untouched; their
\* planned backup paths are free.
PublishedSoFar ==
  pc \in Publishing =>
    /\ planned = {i \in Outputs : before[i] # Absent}
    /\ published = 1 .. index - 1
    /\ \A i \in index .. OutputCount : i \in held => pc = "replace" /\ i = index
    /\ pc = "replace" => index \in held \/ before[index] = Absent
    /\ \A i \in planned \ held : backup[key][i] = Absent

\* Where the file an output had before the batch is, by the StagedOutput flags.
Accounted(i) ==
  /\ dest[i] = IF i \in published THEN batch ELSE IF i \in held THEN Absent ELSE before[i]
  /\ i \in held => backup[key][i] = before[i]
  /\ i \in published \ held => before[i] = Absent

\* An output that was rolled back is what it was, unless a failure was collected.
RolledBack(i) ==
  /\ dest[i] \in {before[i], batch, Absent}
  /\ ~torn => dest[i] = before[i]

Recoverable ==
  /\ pc \in Preparing \cup Publishing => ~torn /\ \A i \in Outputs : Accounted(i)
  /\ pc = "rollback" => /\ \A i \in 1 .. index : Accounted(i)
                        /\ \A i \in index + 1 .. OutputCount : RolledBack(i)
  /\ pc = "cleanup" => \A i \in Outputs : RolledBack(i)
  /\ pc = "commit" => \A i \in Outputs : dest[i] = batch

\* What is settled was made by an earlier batch than the one that is open.
SettledIsOld ==
  \A i \in Outputs :
    /\ settled[i] # Absent => settled[i] <= batch
    /\ pc \notin {"idle", "commit"} => settled[i] # batch

IInv ==
  TypeOK /\ LoopsFit /\ StagedWaits /\ PublishedSoFar /\ Recoverable /\ SettledIsOld /\ SettledKept
=============================================================================
