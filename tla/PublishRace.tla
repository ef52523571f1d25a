------------------------------ MODULE PublishRace ------------------------------
(***************************************************************************)
(* Two processes that publish the same destinations at once                *)
(* (akita-planner/src/emit/publish.rs).  Nothing in the code excludes      *)
(* this: there is no lock, and whether a destination exists is looked up   *)
(* for all outputs before the first of them is moved.                      *)
(*                                                                         *)
(* Stage and backup names hold the process id, so the publishers share     *)
(* the destinations only.  Staging, formatting and cleaning up touch no    *)
(* destination and are left to PublishBatch; here a publisher begins with  *)
(* its outputs staged.  A file's content is the publisher that made it, or *)
(* Old.                                                                    *)
(***************************************************************************)
EXTENDS Naturals

CONSTANTS
  Publishers,
  OutputCount, \* outputs of a batch
  Old,         \* the files that were there before
  Absent,
  MaxFaults    \* bound on failed file operations

Outputs == 1 .. OutputCount

VARIABLES
  dest,       \* the destinations
  backup,     \* every publisher's backups
  pc,
  index,      \* the output a publisher is at
  planned,    \* outputs whose destination existed when it looked
  published,  \* outputs it has replaced and not rolled back
  torn,       \* publishers whose rollback failed somewhere
  before,     \* the destinations at the start
  faults

vars == <<dest, backup, pc, index, planned, published, torn, before, faults>>

Init ==
  /\ dest \in [Outputs -> {Old, Absent}]
  /\ backup = [p \in Publishers |-> [i \in Outputs |-> Absent]]
  /\ pc = [p \in Publishers |-> "plan"]
  /\ index = [p \in Publishers |-> 1]
  /\ planned = [p \in Publishers |-> {}]
  /\ published = [p \in Publishers |-> {}]
  /\ torn = {} /\ before = dest /\ faults = 0

Goto(p, step) == pc' = [pc EXCEPT ![p] = step]
Fault == faults < MaxFaults /\ faults' = faults + 1
Held(p) == {i \in Outputs : backup[p][i] # Absent}

PlanBackups(p) ==
  /\ pc[p] = "plan"
  /\ planned' = [planned EXCEPT ![p] = {i \in Outputs : dest[i] # Absent}]
  /\ Goto(p, "backup")
  /\ UNCHANGED <<dest, backup, index, published, torn, before, faults>>

\* The destination moves to the backup, if one is planned.
BackUp(p) ==
  LET i == index[p] IN
  /\ pc[p] = "backup"
  /\ i \in planned[p] => dest[i] # Absent
  /\ IF i \in planned[p]
     THEN /\ backup' = [backup EXCEPT ![p][i] = dest[i]]
          /\ dest' = [dest EXCEPT ![i] = Absent]
     ELSE UNCHANGED <<backup, dest>>
  /\ Goto(p, "replace")
  /\ UNCHANGED <<index, planned, published, torn, before, faults>>

\* The stage file moves to the destination, whatever is there.
Replace(p) ==
  LET i == index[p] IN
  /\ pc[p] = "replace"
  /\ dest' = [dest EXCEPT ![i] = p]
  /\ published' = [published EXCEPT ![p] = @ \cup {i}]
  /\ index' = [index EXCEPT ![p] = IF i = OutputCount THEN 1 ELSE i + 1]
  /\ Goto(p, IF i = OutputCount THEN "commit" ELSE "backup")
  /\ UNCHANGED <<backup, planned, torn, before, faults>>

\* A rename fails: any may, and that of a destination the other has moved does.
PublishFails(p) ==
  /\ \/ pc[p] \in {"backup", "replace"} /\ Fault
     \/ /\ pc[p] = "backup" /\ index[p] \in planned[p] /\ dest[index[p]] = Absent
        /\ UNCHANGED faults
  /\ index' = [index EXCEPT ![p] = OutputCount]
  /\ Goto(p, "rollback")
  /\ UNCHANGED <<dest, backup, planned, published, torn, before>>

\* One output of the rollback: remove what was published, move the backup
\* back.  Removing a destination that is gone is a failure.
Rollback(p) ==
  LET i == index[p]
      gone == i \in published[p] /\ dest[i] = Absent
  IN
  /\ pc[p] = "rollback"
  /\ IF gone
     THEN torn' = torn \cup {p} /\ UNCHANGED <<dest, backup, published>>
     ELSE /\ dest' = [dest EXCEPT ![i] = IF i \in Held(p) THEN backup[p][i]
                                         ELSE IF i \in published[p] THEN Absent ELSE @]
          /\ backup' = [backup EXCEPT ![p][i] = Absent]
          /\ published' = [published EXCEPT ![p] = @ \ {i}]
          /\ UNCHANGED torn
  /\ index' = [index EXCEPT ![p] = i - 1]
  /\ Goto(p, IF i = 1 THEN "failed" ELSE "rollback")
  /\ UNCHANGED <<planned, before, faults>>

\* All replaced: the backups go.
Commit(p) ==
  /\ pc[p] = "commit"
  /\ backup' = [backup EXCEPT ![p] = [i \in Outputs |-> Absent]]
  /\ Goto(p, "ok")
  /\ UNCHANGED <<dest, index, planned, published, torn, before, faults>>

Next ==
  \E p \in Publishers :
    PlanBackups(p) \/ BackUp(p) \/ Replace(p) \/ PublishFails(p) \/ Rollback(p) \/ Commit(p)

Spec == Init /\ [][Next]_vars
-----------------------------------------------------------------------------
\* "A publish failure restores every destination already replaced by this
\* batch" (publish.rs:76): when every publisher has failed, and reported no
\* failure of its rollback, the destinations are what they were.
FailuresRestore ==
  (\A p \in Publishers : pc[p] = "failed" /\ p \notin torn) => dest = before
=============================================================================
