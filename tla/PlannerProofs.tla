----------------------------- MODULE PlannerProofs -----------------------------
(***************************************************************************)
(* Theorems about the planner: the publication of its files, the parallel  *)
(* map of its emitter, and the memo and the costs of its search.           *)
(***************************************************************************)
EXTENDS PublishBatch, ParallelMap, SuffixSearch, TLAPS, NaturalsInduction, WellFoundedInduction

(***************************************************************************)
(* A batch of generated files is published in one step or not at all, for  *)
(* every number of outputs, batches and faults and every set of names.     *)
(*                                                                         *)
(* The argument: the flags of the staged outputs (held, published) always  *)
(* say where the file an output had is, at the destination, in a backup    *)
(* or nowhere, so that the rollback, which follows the flags, finds it;    *)
(* and a backup path is free when a destination moves there.               *)
(***************************************************************************)

USE DEF Preparing, Publishing, Content, Outputs

\* Putting a file at one of the batch's paths changes that path only.
LEMMA PutFacts ==
  ASSUME NEW paths \in [Keys -> [Outputs -> Content]], key \in Keys,
         NEW i \in Outputs, NEW c \in Content
  PROVE  /\ Put(paths, i, c) \in [Keys -> [Outputs -> Content]]
         /\ Put(paths, i, c)[key][i] = c
         /\ \A j \in Outputs \ {i} : Put(paths, i, c)[key][j] = paths[key][j]
         /\ \A k \in Keys \ {key} : Put(paths, i, c)[k] = paths[k]
<1>1. [paths[key] EXCEPT ![i] = c] \in [Outputs -> Content]
  OBVIOUS
<1>2. QED
  BY <1>1 DEF Put

\* The same for the two kinds of files a batch has.
LEMMA PutStage ==
  ASSUME TypeOK, NEW i \in Outputs, NEW c \in Content, stage' = Put(stage, i, c)
  PROVE  stage'[key][i] = c /\ \A j \in Outputs \ {i} : stage'[key][j] = stage[key][j]
  BY PutFacts DEF TypeOK

LEMMA PutBackup ==
  ASSUME TypeOK, NEW i \in Outputs, NEW c \in Content, backup' = Put(backup, i, c)
  PROVE  /\ backup'[key][i] = c
         /\ \A j \in Outputs \ {i} : backup'[key][j] = backup[key][j]
         /\ \A k \in Keys \ {key} : backup'[k] = backup[k]
  BY PutFacts DEF TypeOK

\* The numbers of batches are contents, and no file is not a number.
LEMMA NumberFacts ==
  /\ OutputCount \in Nat /\ OutputCount >= 1 /\ Absent \notin Nat
  /\ TypeOK => batch \in Content /\ batch \in Nat /\ batch # Absent
  /\ Absent \in Content
  BY PublishAssumption DEF TypeOK

\* The initial state satisfies the inductive invariant.
LEMMA InitIInv == Init => IInv
<1> SUFFICES ASSUME Init PROVE IInv
  OBVIOUS
<1> USE PublishAssumption DEF Init
<1>1. TypeOK
  <2>1. /\ dest \in [Outputs -> Content] /\ before \in [Outputs -> Content]
        /\ settled \in [Outputs -> Content]
    OBVIOUS
  <2>2. /\ stage \in [Keys -> [Outputs -> Content]]
        /\ backup \in [Keys -> [Outputs -> Content]]
    OBVIOUS
  <2>3. pc \in Steps /\ outcome \in Outcomes /\ torn \in BOOLEAN
    BY DEF Steps, Outcomes
  <2>4. QED
    BY <2>1, <2>2, <2>3 DEF TypeOK
<1>2. LoopsFit /\ StagedWaits /\ PublishedSoFar /\ Recoverable
  BY DEF LoopsFit, StagedWaits, PublishedSoFar, Recoverable
<1>3. SettledIsOld /\ SettledKept
  BY DEF SettledIsOld, SettledKept
<1>4. QED
  BY <1>1, <1>2, <1>3 DEF IInv

\* Every step keeps the variables in their types.
LEMMA NextTypeOK == IInv /\ [Next]_vars => TypeOK'
<1> SUFFICES ASSUME IInv, [Next]_vars PROVE TypeOK'
  OBVIOUS
<1>t. TypeOK /\ LoopsFit
  BY DEF IInv
<1> USE <1>t, PublishAssumption, NumberFacts DEF TypeOK, Steps, Outcomes, LoopsFit
<1>1. CASE UNCHANGED vars
  BY <1>1 DEF vars, files, plan, ghosts
<1>2. ASSUME NEW k \in Keys, Begin(k) PROVE TypeOK'
  <2>1. batch' \in 0 .. MaxBatches /\ pc' \in Steps /\ outcome' \in Outcomes
    BY <1>2 DEF Begin
  <2>4. torn' \in BOOLEAN
    BY <1>2 DEF Begin
  <2>2. /\ staged' = {} /\ planned' = {} /\ held' = {} /\ published' = {}
        /\ key' \in Keys /\ index' \in 0 .. OutputCount + 1 /\ before' \in [Outputs -> Content]
    BY <1>2 DEF Begin
  <2>3. QED
    BY <1>2, <2>1, <2>2, <2>4 DEF Begin, files
<1>3. CASE StageOutput
  <2>1. stage' \in [Keys -> [Outputs -> Content]]
    BY <1>3, PutFacts DEF StageOutput
  <2>2. QED
    BY <1>3, <2>1 DEF StageOutput, Advance, ghosts
<1>4. CASE StageFails
  <2>1. stage' \in [Keys -> [Outputs -> Content]]
    <3>1. CASE UNCHANGED stage
      BY <3>1
    <3>2. CASE \E left \in {Absent, batch} : stage' = Put(stage, index, left)
      <4>1. PICK left \in {Absent, batch} : stage' = Put(stage, index, left)
        BY <3>2
      <4>2. left \in Content /\ index \in Outputs
        BY <1>4 DEF StageFails
      <4>3. QED
        BY <4>1, <4>2, PutFacts
    <3>3. QED
      BY <1>4, <3>1, <3>2 DEF StageFails
  <2>2. faults' \in 0 .. MaxFaults
    BY <1>4 DEF StageFails, Fault
  <2>3. QED
    BY <1>4, <2>1, <2>2 DEF StageFails, plan, ghosts
<1>5. CASE Format
  <2>1. faults' \in 0 .. MaxFaults
    BY <1>5 DEF Format, Fault
  <2>2. QED
    BY <1>5, <2>1 DEF Format, files, plan, ghosts
<1>6. CASE PlanBackups
  BY <1>6 DEF PlanBackups, Existing, files, ghosts
<1>7. CASE BackUp
  <2>1. backup' \in [Keys -> [Outputs -> Content]]
    <3>1. index \in Outputs /\ dest[index] \in Content
      BY <1>7 DEF BackUp
    <3>2. Put(backup, index, dest[index]) \in [Keys -> [Outputs -> Content]]
      BY <3>1, PutFacts
    <3>3. QED
      BY <1>7, <3>2 DEF BackUp
  <2>2. QED
    BY <1>7, <2>1 DEF BackUp, ghosts
<1>8. CASE Replace
  <2>1. stage' \in [Keys -> [Outputs -> Content]]
    BY <1>8, PutFacts DEF Replace
  <2>2. QED
    BY <1>8, <2>1 DEF Replace, ghosts
<1>9. CASE PublishFails
  BY <1>9 DEF PublishFails, Fault, files, plan, ghosts
<1>10. CASE Restore
  <2>1. backup' \in [Keys -> [Outputs -> Content]]
    BY <1>10, PutFacts DEF Restore
  <2>2. dest' \in [Outputs -> Content]
    BY <1>10 DEF Restore
  <2>3. QED
    BY <1>10, <2>1, <2>2, SMTT(30) DEF Restore, RollbackNext, ghosts
<1>11. CASE RemoveFails
  BY <1>11 DEF RemoveFails, RollbackNext, Fault, ghosts
<1>12. CASE RestoreFails
  <2>1. dest' \in [Outputs -> Content]
    BY <1>12 DEF RestoreFails
  <2>2. QED
    BY <1>12, <2>1 DEF RestoreFails, RollbackNext, Fault, ghosts
<1>13. ASSUME NEW kept \in SUBSET Outputs, Cleanup(kept) PROVE TypeOK'
  <2>1. [i \in Outputs |-> IF i \in staged \ kept THEN Absent ELSE stage[key][i]]
          \in [Outputs -> Content]
    OBVIOUS
  <2>2. stage' \in [Keys -> [Outputs -> Content]]
    BY <1>13, <2>1 DEF Cleanup
  <2>3. faults' \in 0 .. MaxFaults
    BY <1>13 DEF Cleanup, Fault
  <2>4. QED
    BY <1>13, <2>2, <2>3 DEF Cleanup, plan, ghosts
<1>14. CASE Commit
  <2>1. backup' \in [Keys -> [Outputs -> Content]] /\ faults' \in 0 .. MaxFaults
    <3>1. index \in Outputs
      BY <1>14 DEF Commit
    <3>2. Put(backup, index, Absent) \in [Keys -> [Outputs -> Content]]
      BY <3>1, PutFacts
    <3>3. QED
      BY <1>14, <3>2 DEF Commit, Fault
  <2>2. pc' \in Steps /\ outcome' \in Outcomes /\ settled' \in [Outputs -> Content]
    BY <1>14 DEF Commit
  <2>3. QED
    BY <1>14, <2>1, <2>2 DEF Commit
<1>15. CASE Kill
  BY <1>15 DEF Kill, Fault, files, plan
<1>16. QED
  BY <1>1, <1>2, <1>3, <1>4, <1>5, <1>6, <1>7, <1>8, <1>9, <1>10, <1>11, <1>12, <1>13, <1>14, <1>15
     DEF Next

\* The loops of publish_generated_outputs stay within the batch.
LEMMA NextLoopsFit == IInv /\ [Next]_vars => LoopsFit'
<1> SUFFICES ASSUME IInv, [Next]_vars PROVE LoopsFit'
  OBVIOUS
<1> USE PublishAssumption, NumberFacts DEF IInv, TypeOK, LoopsFit
<1>1. CASE UNCHANGED vars
  BY <1>1 DEF vars, files, plan, ghosts
<1>2. ASSUME NEW k \in Keys, Begin(k) PROVE LoopsFit'
  BY <1>2 DEF Begin, files, plan, ghosts
<1>3. CASE StageOutput
  BY <1>3 DEF StageOutput, Advance, files, plan, ghosts
<1>4. CASE StageFails
  BY <1>4 DEF StageFails, files, plan, ghosts
<1>5. CASE Format
  BY <1>5 DEF Format, files, plan, ghosts
<1>6. CASE PlanBackups
  BY <1>6 DEF PlanBackups, files, plan, ghosts
<1>7. CASE BackUp
  BY <1>7 DEF BackUp, files, plan, ghosts
<1>8. CASE Replace
  BY <1>8 DEF Replace, files, plan, ghosts
<1>9. CASE PublishFails
  BY <1>9 DEF PublishFails, files, plan, ghosts
<1>10. CASE Restore
  BY <1>10 DEF Restore, RollbackNext, files, plan, ghosts
<1>11. CASE RemoveFails
  BY <1>11 DEF RemoveFails, RollbackNext, files, plan, ghosts
<1>12. CASE RestoreFails
  BY <1>12 DEF RestoreFails, RollbackNext, files, plan, ghosts
<1>13. ASSUME NEW kept \in SUBSET Outputs, Cleanup(kept) PROVE LoopsFit'
  BY <1>13 DEF Cleanup, files, plan, ghosts
<1>14. CASE Commit
  BY <1>14 DEF Commit, files, plan, ghosts
<1>15. CASE Kill
  BY <1>15 DEF Kill, files, plan, ghosts
<1>16. QED
  BY <1>1, <1>2, <1>3, <1>4, <1>5, <1>6, <1>7, <1>8, <1>9, <1>10, <1>11, <1>12, <1>13, <1>14, <1>15
     DEF Next

\* A stage file is left alone until it moves to its destination.
LEMMA NextStagedWaits == IInv /\ [Next]_vars => StagedWaits'
<1> SUFFICES ASSUME IInv, [Next]_vars PROVE StagedWaits'
  OBVIOUS
<1> USE PublishAssumption, NumberFacts DEF IInv, TypeOK, LoopsFit, StagedWaits
<1>1. CASE UNCHANGED vars
  BY <1>1 DEF vars, files, plan, ghosts
<1>2. ASSUME NEW k \in Keys, Begin(k) PROVE StagedWaits'
  BY <1>2 DEF Begin, files, plan, ghosts
<1>3. CASE StageOutput
  <2>1. index \in Outputs /\ batch \in Content /\ stage' = Put(stage, index, batch)
    BY <1>3 DEF StageOutput
  <2>2. stage'[key][index] = batch /\ \A j \in Outputs \ {index} : stage'[key][j] = stage[key][j]
    BY <2>1, PutStage
  <2>3. staged' = staged \cup {index} /\ UNCHANGED <<key, batch, published>>
    BY <1>3 DEF StageOutput
  <2>4. QED
    BY <1>3, <2>2, <2>3 DEF StageOutput
<1>4. CASE StageFails
  BY <1>4 DEF StageFails, files, plan, ghosts
<1>5. CASE Format
  BY <1>5 DEF Format, files, plan, ghosts
<1>6. CASE PlanBackups
  BY <1>6 DEF PlanBackups, files, plan, ghosts
<1>7. CASE BackUp
  BY <1>7 DEF BackUp, files, plan, ghosts
<1>8. CASE Replace
  <2>1. index \in Outputs /\ stage' = Put(stage, index, Absent)
    BY <1>8 DEF Replace
  <2>2. \A j \in Outputs \ {index} : stage'[key][j] = stage[key][j]
    BY <2>1, PutStage
  <2>3. published' = published \cup {index} /\ UNCHANGED <<key, batch, staged>>
    BY <1>8 DEF Replace
  <2>4. QED
    BY <1>8, <2>2, <2>3 DEF Replace
<1>9. CASE PublishFails
  BY <1>9 DEF PublishFails, files, plan, ghosts
<1>10. CASE Restore
  BY <1>10 DEF Restore, RollbackNext, files, plan, ghosts
<1>11. CASE RemoveFails
  BY <1>11 DEF RemoveFails, RollbackNext, files, plan, ghosts
<1>12. CASE RestoreFails
  BY <1>12 DEF RestoreFails, RollbackNext, files, plan, ghosts
<1>13. ASSUME NEW kept \in SUBSET Outputs, Cleanup(kept) PROVE StagedWaits'
  BY <1>13 DEF Cleanup, files, plan, ghosts
<1>14. CASE Commit
  BY <1>14 DEF Commit, files, plan, ghosts
<1>15. CASE Kill
  BY <1>15 DEF Kill, files, plan, ghosts
<1>16. QED
  BY <1>1, <1>2, <1>3, <1>4, <1>5, <1>6, <1>7, <1>8, <1>9, <1>10, <1>11, <1>12, <1>13, <1>14, <1>15
     DEF Next

\* Destinations are replaced in order, and only into free backup paths.
LEMMA NextPublishedSoFar == IInv /\ [Next]_vars => PublishedSoFar'
<1> SUFFICES ASSUME IInv, [Next]_vars PROVE PublishedSoFar'
  OBVIOUS
<1> USE PublishAssumption, NumberFacts DEF IInv, TypeOK, LoopsFit, PublishedSoFar
<1>1. CASE UNCHANGED vars
  BY <1>1 DEF vars, files, plan, ghosts
<1>2. ASSUME NEW k \in Keys, Begin(k) PROVE PublishedSoFar'
  BY <1>2 DEF Begin, files, plan, ghosts
<1>3. CASE StageOutput
  BY <1>3 DEF StageOutput, Advance, files, plan, ghosts
<1>4. CASE StageFails
  BY <1>4 DEF StageFails, files, plan, ghosts
<1>5. CASE Format
  BY <1>5 DEF Format, files, plan, ghosts
<1>6. CASE PlanBackups
  <2>1. held = {} /\ published = {} /\ index = 1 /\ \A i \in Outputs : dest[i] = before[i]
    BY <1>6 DEF PlanBackups, Recoverable, Accounted
  <2>2. planned' = {i \in Outputs : before[i] # Absent}
    BY <1>6, <2>1 DEF PlanBackups, Existing
  <2>3. pc' = "backup" => \A i \in planned' : backup[key][i] = Absent
    BY <1>6 DEF PlanBackups
  <2>4. pc' \in {"cleanup", "backup"} /\ UNCHANGED <<backup, key, index, held, published, before>>
    BY <1>6 DEF PlanBackups, files, ghosts
  <2>5. QED
    BY <2>1, <2>2, <2>3, <2>4
<1>7. CASE BackUp
  <2>1. index \in Outputs /\ pc = "backup" /\ pc' = "replace"
        /\ UNCHANGED <<key, index, planned, published, before>>
    BY <1>7 DEF BackUp, ghosts
  <2>2. CASE index \in planned
    <3>1. backup' = Put(backup, index, dest[index]) /\ held' = held \cup {index}
          /\ dest[index] \in Content
      BY <1>7, <2>1, <2>2 DEF BackUp
    <3>2. \A j \in Outputs \ {index} : backup'[key][j] = backup[key][j]
      BY <2>1, <3>1, PutBackup
    <3>3. QED
      BY <2>1, <2>2, <3>1, <3>2
  <2>3. CASE index \notin planned
    <3>1. UNCHANGED <<backup, held>>
      BY <1>7, <2>3 DEF BackUp
    <3>2. before[index] = Absent
      BY <2>1, <2>3
    <3>3. QED
      BY <2>1, <3>1, <3>2
  <2>4. QED
    BY <2>2, <2>3
<1>8. CASE Replace
  BY <1>8 DEF Replace, files, plan, ghosts
<1>9. CASE PublishFails
  BY <1>9 DEF PublishFails, files, plan, ghosts
<1>10. CASE Restore
  BY <1>10 DEF Restore, RollbackNext, files, plan, ghosts
<1>11. CASE RemoveFails
  BY <1>11 DEF RemoveFails, RollbackNext, files, plan, ghosts
<1>12. CASE RestoreFails
  BY <1>12 DEF RestoreFails, RollbackNext, files, plan, ghosts
<1>13. ASSUME NEW kept \in SUBSET Outputs, Cleanup(kept) PROVE PublishedSoFar'
  BY <1>13 DEF Cleanup, files, plan, ghosts
<1>14. CASE Commit
  BY <1>14 DEF Commit, files, plan, ghosts
<1>15. CASE Kill
  BY <1>15 DEF Kill, files, plan, ghosts
<1>16. QED
  BY <1>1, <1>2, <1>3, <1>4, <1>5, <1>6, <1>7, <1>8, <1>9, <1>10, <1>11, <1>12, <1>13, <1>14, <1>15
     DEF Next

\* The flags account for every file, so that a rollback finds it.
LEMMA NextRecoverable == IInv /\ [Next]_vars => Recoverable'
<1> SUFFICES ASSUME IInv, [Next]_vars PROVE Recoverable'
  OBVIOUS
<1> USE PublishAssumption, NumberFacts DEF IInv, TypeOK, LoopsFit, Recoverable, Accounted, RolledBack
<1>1. CASE UNCHANGED vars
  BY <1>1 DEF vars, files, plan, ghosts
<1>2. ASSUME NEW k \in Keys, Begin(k) PROVE Recoverable'
  BY <1>2 DEF Begin, files, plan, ghosts
<1>3. CASE StageOutput
  BY <1>3 DEF StageOutput, Advance, files, plan, ghosts
<1>4. CASE StageFails
  BY <1>4 DEF StageFails, files, plan, ghosts
<1>5. CASE Format
  BY <1>5 DEF Format, files, plan, ghosts
<1>6. CASE PlanBackups
  BY <1>6 DEF PlanBackups, files, plan, ghosts
<1>7. CASE BackUp
  <2>1. index \in Outputs /\ pc = "backup" /\ pc' = "replace" /\ ~torn'
        /\ UNCHANGED <<key, index, planned, published, before, batch>>
    BY <1>7 DEF BackUp, ghosts
  <2>2. index \notin published /\ index \notin held /\ dest[index] = before[index]
    BY <2>1 DEF PublishedSoFar
  <2>3. CASE index \in planned
    <3>1. /\ backup' = Put(backup, index, dest[index]) /\ held' = held \cup {index}
          /\ dest' = [dest EXCEPT ![index] = Absent] /\ dest[index] \in Content
      BY <1>7, <2>1, <2>3 DEF BackUp
    <3>2. /\ backup'[key][index] = dest[index]
          /\ \A j \in Outputs \ {index} : backup'[key][j] = backup[key][j]
      BY <2>1, <3>1, PutBackup
    <3>3. Accounted(index)'
      BY <2>1, <2>2, <3>1, <3>2
    <3>4. \A i \in Outputs \ {index} : Accounted(i)'
      BY <2>1, <3>1, <3>2
    <3>5. QED
      BY <2>1, <3>3, <3>4
  <2>4. CASE index \notin planned
    <3>1. UNCHANGED <<backup, dest, held>>
      BY <1>7, <2>4 DEF BackUp
    <3>2. QED
      BY <2>1, <3>1
  <2>5. QED
    BY <2>3, <2>4
<1>8. CASE Replace
  <2>1. /\ index \in Outputs /\ pc = "replace" /\ ~torn' /\ published' = published \cup {index}
        /\ dest' = [dest EXCEPT ![index] = stage[key][index]]
        /\ UNCHANGED <<key, backup, held, before, batch>>
    BY <1>8 DEF Replace, ghosts
  <2>2. published = 1 .. index - 1 /\ (index \in held \/ before[index] = Absent)
    BY <2>1 DEF PublishedSoFar
  <2>3. stage[key][index] = batch
    BY <2>1, <2>2 DEF StagedWaits
  <2>4. \A i \in Outputs : Accounted(i)'
    BY <2>1, <2>2, <2>3
  <2>5. CASE index = OutputCount
    <3>1. pc' = "commit"
      BY <1>8, <2>5 DEF Replace
    <3>2. \A i \in Outputs : dest'[i] = batch'
      BY <2>1, <2>2, <2>3, <2>5
    <3>3. QED
      BY <3>1, <3>2
  <2>6. CASE index # OutputCount
    <3>1. pc' = "backup"
      BY <1>8, <2>6 DEF Replace
    <3>2. QED
      BY <2>1, <2>4, <3>1
  <2>7. QED
    BY <2>5, <2>6
<1>9. CASE PublishFails
  BY <1>9 DEF PublishFails, files, plan, ghosts
<1>10. CASE Restore
  <2>1. /\ index \in Outputs /\ index' = index - 1 /\ pc' = IF index = 1 THEN "cleanup" ELSE "rollback"
        /\ held' = held \ {index} /\ published' = published \ {index}
        /\ UNCHANGED <<key, torn, before, batch>>
    BY <1>10 DEF Restore, RollbackNext, ghosts
  <2>2. Accounted(index)
    BY <1>10, <2>1 DEF Restore
  <2>9. \A j \in Outputs \ {index} : backup'[key][j] = backup[key][j]
    <3>1. CASE index \in held
      <4>1. backup' = Put(backup, index, Absent)
        BY <1>10, <3>1 DEF Restore
      <4>2. QED
        BY <2>1, <4>1, PutBackup
    <3>2. CASE index \notin held
      BY <1>10, <3>2 DEF Restore
    <3>3. QED
      BY <3>1, <3>2
  <2>3. \A j \in Outputs \ {index} : dest'[j] = dest[j] /\ backup'[key][j] = backup[key][j]
    BY <1>10, <2>1, <2>9 DEF Restore
  <2>4. dest'[index] = before[index]
    BY <1>10, <2>1, <2>2 DEF Restore
  <2>5. \A i \in {index} : RolledBack(i)'
    BY <2>1, <2>4
  <2>6. \A i \in 1 .. index - 1 : Accounted(i)'
    BY <1>10, <2>1, <2>3 DEF Restore
  <2>7. \A i \in index + 1 .. OutputCount : RolledBack(i)'
    BY <1>10, <2>1, <2>3 DEF Restore
  <2>8. CASE index = 1
    <3>1. pc' = "cleanup" /\ \A i \in Outputs : RolledBack(i)'
      BY <2>1, <2>5, <2>7, <2>8
    <3>2. QED
      BY <3>1
  <2>10. CASE index # 1
    <3>1. pc' = "rollback" /\ index' = index - 1
      BY <2>1, <2>10
    <3>2. \A i \in index' + 1 .. OutputCount : RolledBack(i)'
      BY <2>1, <2>5, <2>7, <3>1
    <3>3. QED
      BY <2>6, <3>1, <3>2
  <2>11. QED
    BY <2>8, <2>10
<1>11. CASE RemoveFails
  BY <1>11 DEF RemoveFails, RollbackNext, files, plan, ghosts
<1>12. CASE RestoreFails
  BY <1>12 DEF RestoreFails, RollbackNext, files, plan, ghosts
<1>13. ASSUME NEW kept \in SUBSET Outputs, Cleanup(kept) PROVE Recoverable'
  BY <1>13 DEF Cleanup, files, plan, ghosts
<1>14. CASE Commit
  BY <1>14 DEF Commit, files, plan, ghosts
<1>15. CASE Kill
  BY <1>15 DEF Kill, files, plan, ghosts
<1>16. QED
  BY <1>1, <1>2, <1>3, <1>4, <1>5, <1>6, <1>7, <1>8, <1>9, <1>10, <1>11, <1>12, <1>13, <1>14, <1>15
     DEF Next

\* What is settled is older than the batch that is open.
LEMMA NextSettledIsOld == IInv /\ [Next]_vars => SettledIsOld'
<1> SUFFICES ASSUME IInv, [Next]_vars PROVE SettledIsOld'
  OBVIOUS
<1> USE PublishAssumption, NumberFacts DEF IInv, TypeOK, SettledIsOld, Recoverable
<1>1. CASE UNCHANGED vars
  BY <1>1 DEF vars, files, plan, ghosts
<1>2. ASSUME NEW k \in Keys, Begin(k) PROVE SettledIsOld'
  BY <1>2 DEF Begin, files, plan, ghosts
<1>3. CASE StageOutput
  BY <1>3 DEF StageOutput, Advance, files, plan, ghosts
<1>4. CASE StageFails
  BY <1>4 DEF StageFails, files, plan, ghosts
<1>5. CASE Format
  BY <1>5 DEF Format, files, plan, ghosts
<1>6. CASE PlanBackups
  BY <1>6 DEF PlanBackups, files, plan, ghosts
<1>7. CASE BackUp
  BY <1>7 DEF BackUp, files, plan, ghosts
<1>8. CASE Replace
  BY <1>8 DEF Replace, files, plan, ghosts
<1>9. CASE PublishFails
  BY <1>9 DEF PublishFails, files, plan, ghosts
<1>10. CASE Restore
  BY <1>10 DEF Restore, RollbackNext, files, plan, ghosts
<1>11. CASE RemoveFails
  BY <1>11 DEF RemoveFails, RollbackNext, files, plan, ghosts
<1>12. CASE RestoreFails
  BY <1>12 DEF RestoreFails, RollbackNext, files, plan, ghosts
<1>13. ASSUME NEW kept \in SUBSET Outputs, Cleanup(kept) PROVE SettledIsOld'
  BY <1>13 DEF Cleanup, files, plan, ghosts
<1>14. CASE Commit
  BY <1>14 DEF Commit, files, plan, ghosts
<1>15. CASE Kill
  BY <1>15 DEF Kill, files, plan, ghosts
<1>16. QED
  BY <1>1, <1>2, <1>3, <1>4, <1>5, <1>6, <1>7, <1>8, <1>9, <1>10, <1>11, <1>12, <1>13, <1>14, <1>15
     DEF Next

\* What is settled stays at its destination or in a backup.
LEMMA NextSettledKept == IInv /\ [Next]_vars => SettledKept'
<1> SUFFICES ASSUME IInv, [Next]_vars PROVE SettledKept'
  OBVIOUS
<1> USE PublishAssumption, NumberFacts DEF IInv, TypeOK, SettledKept, LoopsFit
<1>1. CASE UNCHANGED vars
  BY <1>1 DEF vars, files, plan, ghosts
<1>2. ASSUME NEW k \in Keys, Begin(k) PROVE SettledKept'
  BY <1>2 DEF Begin, files, plan, ghosts
<1>3. CASE StageOutput
  BY <1>3 DEF StageOutput, Advance, files, plan, ghosts
<1>4. CASE StageFails
  BY <1>4 DEF StageFails, files, plan, ghosts
<1>5. CASE Format
  BY <1>5 DEF Format, files, plan, ghosts
<1>6. CASE PlanBackups
  BY <1>6 DEF PlanBackups, files, plan, ghosts
<1>7. CASE BackUp
  <2>1. index \in Outputs /\ pc = "backup" /\ UNCHANGED settled
    BY <1>7 DEF BackUp, ghosts
  <2>2. CASE index \in planned
    <3>1. /\ backup' = Put(backup, index, dest[index])
          /\ dest' = [dest EXCEPT ![index] = Absent] /\ dest[index] \in Content
      BY <1>7, <2>1, <2>2 DEF BackUp
    <3>2. /\ backup'[key][index] = dest[index]
          /\ \A j \in Outputs \ {index} : backup'[key][j] = backup[key][j]
          /\ \A k \in Keys \ {key} : backup'[k] = backup[k]
      BY <2>1, <3>1, PutBackup
    <3>3. backup[key][index] = Absent
      BY <2>1, <2>2 DEF PublishedSoFar
    <3>4. ASSUME NEW i \in Outputs \ {index}
          PROVE  \/ settled[i] = Absent \/ dest'[i] = settled[i]
                 \/ \E k \in Keys : backup'[k][i] = settled[i]
      <4>1. dest'[i] = dest[i] /\ \A k \in Keys : backup'[k][i] = backup[k][i]
        BY <3>1, <3>2
      <4>2. QED
        BY <2>1, <4>1
    <3>5. \/ settled[index] = Absent
          \/ \E k \in Keys : backup'[k][index] = settled[index]
      <4>1. CASE dest[index] = settled[index]
        BY <3>2, <4>1
      <4>2. CASE \E k \in Keys : backup[k][index] = settled[index]
        <5>1. PICK k \in Keys : backup[k][index] = settled[index]
          BY <4>2
        <5>2. CASE k = key
          BY <3>3, <5>1, <5>2
        <5>3. CASE k # key
          BY <3>2, <5>1, <5>3
        <5>4. QED
          BY <5>2, <5>3
      <4>3. QED
        BY <2>1, <4>1, <4>2
    <3>6. QED
      BY <2>1, <3>4, <3>5
  <2>3. CASE index \notin planned
    BY <1>7, <2>1, <2>3 DEF BackUp
  <2>4. QED
    BY <2>2, <2>3
<1>8. CASE Replace
  <2>1. /\ index \in Outputs /\ pc = "replace" /\ UNCHANGED <<settled, backup>>
        /\ dest' = [dest EXCEPT ![index] = stage[key][index]]
    BY <1>8 DEF Replace, ghosts
  <2>2. dest[index] = Absent
    BY <2>1 DEF PublishedSoFar, Recoverable, Accounted
  <2>3. QED
    BY <2>1, <2>2
<1>9. CASE PublishFails
  BY <1>9 DEF PublishFails, files, plan, ghosts
<1>10. CASE Restore
  <2>1. index \in Outputs /\ pc = "rollback" /\ UNCHANGED settled /\ Accounted(index)
    BY <1>10 DEF Restore, RollbackNext, ghosts, Recoverable
  <2>2. settled[index] # batch
    BY <2>1 DEF SettledIsOld
  <2>3. CASE index \in held
    <3>1. backup' = Put(backup, index, Absent) /\ dest' = [dest EXCEPT ![index] = backup[key][index]]
      BY <1>10, <2>3 DEF Restore
    <3>2. /\ \A j \in Outputs \ {index} : backup'[key][j] = backup[key][j]
          /\ \A k \in Keys \ {key} : backup'[k] = backup[k]
      BY <2>1, <3>1, PutBackup
    <3>3. settled[index] = Absent \/ dest[index] # settled[index]
      BY <2>1, <2>2, <2>3 DEF Accounted
    <3>4. ASSUME NEW i \in Outputs \ {index}
          PROVE  \/ settled[i] = Absent \/ dest'[i] = settled[i]
                 \/ \E k \in Keys : backup'[k][i] = settled[i]
      <4>1. dest'[i] = dest[i] /\ \A k \in Keys : backup'[k][i] = backup[k][i]
        BY <3>1, <3>2
      <4>2. QED
        BY <2>1, <4>1
    <3>5. \/ settled[index] = Absent \/ dest'[index] = settled[index]
          \/ \E k \in Keys : backup'[k][index] = settled[index]
      <4>1. CASE \E k \in Keys : backup[k][index] = settled[index]
        <5>1. PICK k \in Keys : backup[k][index] = settled[index]
          BY <4>1
        <5>2. CASE k = key
          BY <2>1, <3>1, <5>1, <5>2
        <5>3. CASE k # key
          BY <3>2, <5>1, <5>3
        <5>4. QED
          BY <5>2, <5>3
      <4>2. QED
        BY <2>1, <3>3, <4>1
    <3>6. QED
      BY <2>1, <3>4, <3>5
  <2>4. CASE index \notin held
    <3>1. UNCHANGED backup /\ \A j \in Outputs \ {index} : dest'[j] = dest[j]
      BY <1>10, <2>1, <2>4 DEF Restore
    <3>2. dest'[index] = dest[index] \/ dest[index] = batch
      BY <1>10, <2>1, <2>4 DEF Restore, Accounted
    <3>3. QED
      BY <2>1, <2>2, <3>1, <3>2
  <2>5. QED
    BY <2>3, <2>4
<1>11. CASE RemoveFails
  BY <1>11 DEF RemoveFails, RollbackNext, files, plan, ghosts
<1>12. CASE RestoreFails
  <2>1. index \in Outputs /\ pc = "rollback" /\ UNCHANGED <<settled, backup>> /\ Accounted(index)
    BY <1>12 DEF RestoreFails, RollbackNext, ghosts, Recoverable
  <2>2. settled[index] # batch
    BY <2>1 DEF SettledIsOld
  <2>3. /\ \A j \in Outputs \ {index} : dest'[j] = dest[j]
        /\ dest'[index] = dest[index] \/ dest[index] = batch
    BY <1>12, <2>1 DEF RestoreFails, Accounted
  <2>4. QED
    BY <2>1, <2>2, <2>3
<1>13. ASSUME NEW kept \in SUBSET Outputs, Cleanup(kept) PROVE SettledKept'
  BY <1>13 DEF Cleanup, files, plan, ghosts
<1>14. CASE Commit
  BY <1>14 DEF Commit, files, plan, ghosts
<1>15. CASE Kill
  BY <1>15 DEF Kill, files, plan, ghosts
<1>16. QED
  BY <1>1, <1>2, <1>3, <1>4, <1>5, <1>6, <1>7, <1>8, <1>9, <1>10, <1>11, <1>12, <1>13, <1>14, <1>15
     DEF Next

-----------------------------------------------------------------------------
\* The inductive invariant holds of every run of batches.
THEOREM PublishBatchInvariant == Spec => []IInv
<1>1. IInv /\ [Next]_vars => IInv'
  BY NextTypeOK, NextLoopsFit, NextStagedWaits, NextPublishedSoFar, NextRecoverable,
     NextSettledIsOld, NextSettledKept DEF IInv
<1>2. QED
  BY InitIInv, <1>1, PTL DEF Spec

\* No batch that does not succeed destroys what the last successful one left,
\* also when it is killed and its names are taken again (publish.rs: the check
\* for stale backups before any destination moves).
THEOREM PublishBatchKeepsSettled == Spec => []SettledKept
<1>1. IInv => SettledKept
  BY DEF IInv
<1>2. QED
  BY PublishBatchInvariant, <1>1, PTL

\* While a batch is open every destination is what it was, new or missing.
LEMMA OpenMixture ==
  ASSUME IInv, pc \notin {"idle", "commit"}, NEW i \in Outputs
  PROVE  dest[i] \in {before[i], batch, Absent}
  BY NumberFacts DEF IInv, TypeOK, Steps, LoopsFit, Recoverable, Accounted, RolledBack

\* A batch that fails without a torn rollback left every destination as it was.
LEMMA FailureRestores ==
  ASSUME IInv, pc = "cleanup", ~torn
  PROVE  dest = before
<1>1. \A i \in Outputs : dest[i] = before[i]
  BY DEF IInv, Recoverable, RolledBack
<1>2. dest = [i \in Outputs |-> dest[i]] /\ before = [i \in Outputs |-> before[i]]
  BY DEF IInv, TypeOK
<1>3. QED
  BY <1>1, <1>2

\* Staging, backing up, replacing, rolling back and cleaning up look like one
\* step that switches all destinations, or none (publish_generated_outputs).
THEOREM PublishBatchIsAtomic == Spec => ImplementsAtomicBatch
<1>1. Init => Atomic!Init
  BY DEF Init, Atomic!Init, Visible, Phase
<1>2. IInv /\ [Next]_vars => [Atomic!Next]_<<Visible, Phase, outcome, batch>>
  <2> SUFFICES ASSUME IInv, [Next]_vars
               PROVE  [Atomic!Next]_<<Visible, Phase, outcome, batch>>
    OBVIOUS
  <2> USE DEF Visible, Phase
  <2>1. ASSUME NEW k \in Keys, Begin(k) PROVE Atomic!Begin
    BY <2>1 DEF Begin, files, Atomic!Begin
  <2>2. CASE Replace
    <3>1. CASE index = OutputCount
      <4>1. pc = "replace" /\ pc' = "commit" /\ UNCHANGED <<outcome, batch>>
        BY <2>2, <3>1 DEF Replace
      <4>2. dest' \in [Outputs -> Content] /\ \A i \in Outputs : dest'[i] = batch
        BY <2>2, <4>1, NextTypeOK, NextRecoverable DEF TypeOK, Recoverable
      <4>3. dest' = [n \in Outputs |-> batch]
        BY <4>2
      <4>4. Atomic!Switch
        BY <4>1, <4>3 DEF Atomic!Switch
      <4>5. QED
        BY <4>4 DEF Atomic!Next
    <3>2. CASE index # OutputCount
      BY <2>2, <3>2 DEF Replace, ghosts
    <3>3. QED
      BY <3>1, <3>2
  <2>3. ASSUME NEW kept \in SUBSET Outputs, Cleanup(kept) PROVE Atomic!Next
    <3>1. pc = "cleanup" /\ pc' = "idle" /\ UNCHANGED <<dest, before, batch>>
      BY <2>3 DEF Cleanup, ghosts
    <3>2. CASE torn
      <4>1. outcome' = "torn"
        BY <2>3, <3>2 DEF Cleanup
      <4>2. Atomic!Break
        BY <3>1, <4>1, OpenMixture DEF Atomic!Break
      <4>3. QED
        BY <4>2 DEF Atomic!Next
    <3>3. CASE ~torn
      <4>1. outcome' = "failed" /\ dest = before
        BY <2>3, <3>1, <3>3, FailureRestores DEF Cleanup
      <4>2. Atomic!Fail
        BY <3>1, <4>1 DEF Atomic!Fail
      <4>3. QED
        BY <4>2 DEF Atomic!Next
    <3>4. QED
      BY <3>2, <3>3
  <2>4. CASE Commit
    <3>1. CASE index = OutputCount
      BY <2>4, <3>1 DEF Commit, Atomic!Next, Atomic!Succeed
    <3>2. CASE index # OutputCount
      BY <2>4, <3>2 DEF Commit
    <3>3. QED
      BY <3>1, <3>2
  <2>5. CASE Kill
    <3>1. pc # "idle" /\ pc' = "idle" /\ outcome' = "killed" /\ UNCHANGED <<dest, before, batch>>
      BY <2>5 DEF Kill, files
    <3>2. CASE pc = "commit"
      BY <3>1, <3>2 DEF Atomic!Next, Atomic!Succeed
    <3>3. CASE pc # "commit"
      <4>1. Atomic!Break
        BY <3>1, <3>3, OpenMixture DEF Atomic!Break
      <4>2. QED
        BY <4>1 DEF Atomic!Next
    <3>4. QED
      BY <3>2, <3>3
  <2>6. CASE \/ StageOutput \/ StageFails \/ Format \/ PlanBackups \/ BackUp \/ PublishFails
             \/ Restore \/ RemoveFails \/ RestoreFails
    BY <2>6
       DEF StageOutput, StageFails, Format, PlanBackups, BackUp, PublishFails, Restore,
           RemoveFails, RestoreFails, RollbackNext, Advance, ghosts
  <2>7. CASE UNCHANGED vars
    BY <2>7 DEF vars, files, ghosts
  <2>8. QED
    BY <2>1, <2>2, <2>3, <2>4, <2>5, <2>6, <2>7 DEF Next, Atomic!Next
<1>3. QED
  BY PublishBatchInvariant, <1>1, <1>2, PTL DEF Spec, ImplementsAtomicBatch, Atomic!Spec

-----------------------------------------------------------------------------
(***************************************************************************)
(* The parallel map keeps the order of its input and loses no failure, for *)
(* any number of items and workers and every interleaving.                 *)
(***************************************************************************)

\* The entries of a sequence over S are in S.
LEMMA RangeIn ==
  ASSUME NEW S, NEW seq \in Seq(S)
  PROVE  Range(seq) \subseteq S /\ \A i \in DOMAIN seq : seq[i] \in Range(seq)
<1>1. DOMAIN seq = 1 .. Len(seq) /\ \A i \in 1 .. Len(seq) : seq[i] \in S OBVIOUS
<1> QED BY <1>1 DEF Range

\* A function on 1 .. n into S is a sequence over S.
LEMMA IsASeq ==
  ASSUME NEW S, NEW n \in Nat, NEW f, f = [i \in 1 .. n |-> f[i]], \A i \in 1 .. n : f[i] \in S
  PROVE  f \in Seq(S)
OBVIOUS

\* Appending a new entry keeps a sequence free of repetitions.
LEMMA AppendOnce ==
  ASSUME NEW seq \in Seq(1 .. Items), NEW e \in 1 .. Items
  PROVE  /\ Append(seq, e) \in Seq(1 .. Items)
         /\ Range(Append(seq, e)) = Range(seq) \cup {e}
         /\ Once(seq) /\ e \notin Range(seq) => Once(Append(seq, e))
<1>1. /\ Append(seq, e) \in Seq(1 .. Items) /\ DOMAIN Append(seq, e) = 1 .. Len(seq) + 1
      /\ DOMAIN seq = 1 .. Len(seq) /\ Len(seq) \in Nat
      /\ Append(seq, e)[Len(seq) + 1] = e
      /\ \A i \in 1 .. Len(seq) : Append(seq, e)[i] = seq[i]
  OBVIOUS
<1>2. Range(Append(seq, e)) = Range(seq) \cup {e}
  BY <1>1 DEF Range
<1>3. ASSUME Once(seq), e \notin Range(seq) PROVE Once(Append(seq, e))
  BY <1>1, <1>3 DEF Range, Once
<1> QED BY <1>1, <1>2, <1>3

\* Joining two sequences that share no entry keeps them free of repetitions.
LEMMA ConcatOnce ==
  ASSUME NEW S, NEW s \in Seq(S), NEW t \in Seq(S)
  PROVE  /\ s \o t \in Seq(S)
         /\ Range(s \o t) = Range(s) \cup Range(t)
         /\ Once(s) /\ Once(t) /\ Range(s) \cap Range(t) = {} => Once(s \o t)
<1>1. /\ s \o t \in Seq(S) /\ DOMAIN (s \o t) = 1 .. Len(s) + Len(t)
      /\ DOMAIN s = 1 .. Len(s) /\ Len(s) \in Nat
      /\ DOMAIN t = 1 .. Len(t) /\ Len(t) \in Nat
      /\ \A i \in 1 .. Len(s) : (s \o t)[i] = s[i]
      /\ \A i \in Len(s) + 1 .. Len(s) + Len(t) : (s \o t)[i] = t[i - Len(s)]
  OBVIOUS
<1>2. \A i \in 1 .. Len(t) : (s \o t)[i + Len(s)] = t[i]
  BY <1>1
<1>3. Range(s \o t) = Range(s) \cup Range(t)
  <2>1. Range(s \o t) \subseteq Range(s) \cup Range(t) BY <1>1 DEF Range
  <2>2. Range(s) \subseteq Range(s \o t) BY <1>1 DEF Range
  <2>3. ASSUME NEW i \in 1 .. Len(t) PROVE t[i] \in Range(s \o t)
    <3>1. i + Len(s) \in DOMAIN (s \o t) BY <1>1
    <3> QED BY <1>2, <3>1 DEF Range
  <2> QED BY <1>1, <2>1, <2>2, <2>3 DEF Range
<1>4. ASSUME Once(s), Once(t), Range(s) \cap Range(t) = {} PROVE Once(s \o t)
  <2> SUFFICES ASSUME NEW i \in 1 .. Len(s) + Len(t), NEW j \in 1 .. Len(s) + Len(t),
                      (s \o t)[i] = (s \o t)[j]
               PROVE  i = j
    BY <1>1 DEF Once
  <2>1. CASE i <= Len(s) /\ j <= Len(s) BY <1>1, <1>4, <2>1 DEF Once
  <2>2. CASE i <= Len(s) /\ j > Len(s)
    <3>1. i \in DOMAIN s /\ j - Len(s) \in DOMAIN t BY <1>1, <2>2
    <3>2. s[i] \in Range(s) /\ t[j - Len(s)] \in Range(t) BY <3>1 DEF Range
    <3>3. s[i] = t[j - Len(s)] BY <1>1, <2>2
    <3> QED BY <1>4, <3>2, <3>3
  <2>3. CASE i > Len(s) /\ j <= Len(s)
    <3>1. j \in DOMAIN s /\ i - Len(s) \in DOMAIN t BY <1>1, <2>3
    <3>2. s[j] \in Range(s) /\ t[i - Len(s)] \in Range(t) BY <3>1 DEF Range
    <3>3. s[j] = t[i - Len(s)] BY <1>1, <2>3
    <3> QED BY <1>4, <3>2, <3>3
  <2>4. CASE i > Len(s) /\ j > Len(s)
    <3>1. i - Len(s) \in 1 .. Len(t) /\ j - Len(s) \in 1 .. Len(t) BY <1>1, <2>4
    <3>2. t[i - Len(s)] = t[j - Len(s)] BY <1>1, <2>4
    <3>3. i - Len(s) = j - Len(s) BY <1>1, <1>4, <3>1, <3>2 DEF Once
    <3> QED BY <3>3, <1>1
  <2> QED BY <1>1, <2>1, <2>2, <2>3, <2>4
<1> QED BY <1>1, <1>3, <1>4

\* The call starts with nothing claimed.
LEMMA InitInv == MapInit => MapInv
<1> SUFFICES ASSUME MapInit PROVE MapInv OBVIOUS
<1>1. MapTypeOK
  BY MapAssumption DEF MapInit, MapTypeOK, Stopped, All
<1>2. Range(<<>>) = {} /\ Once(<<>>) /\ Ascending(<<>>)
  BY DEF Range, Once, Ascending
<1>3. ClaimedOnce
  BY <1>1, <1>2 DEF MapInit, MapTypeOK, ClaimedOnce, InFlight, Values
<1>4. FailuresKept
  BY <1>1 DEF MapInit, MapTypeOK, FailuresKept, Failing, Failures
<1>5. JoinedInv
  <2>1. UNION {Range(local[w]) : w \in 1 .. joined} = {} BY DEF MapInit
  <2> QED BY <1>1, <1>2, <2>1 DEF MapInit, JoinedInv
<1>6. SequentialInv
  BY <1>1, <1>2 DEF MapInit, MapTypeOK, SequentialInv, Values, Failing
<1>7. OrderIsInputOrder /\ FailuresReported
  BY DEF MapInit, OrderIsInputOrder, FailuresReported
<1> QED BY <1>1, <1>3, <1>4, <1>5, <1>6, <1>7 DEF MapInv

\* Claiming takes an index nobody has.
LEMMA ClaimStep == ASSUME MapInv, NEW w \in All, Claim(w) PROVE MapInv'
<1> USE DEF MapInv, MapTypeOK, Claim, All, Stopped, Failures
<1>1. /\ kind' = kind /\ workers' = workers /\ local' = local /\ joined' = joined
      /\ output' = output /\ caller' = caller /\ result' = result /\ workers > 1
      /\ Values' = Values /\ Failing' = Failing
  BY DEF Values, Failing
<1>2. MapTypeOK' BY MapAssumption
<1>3. ClaimedOnce'
  <2>1. \A i \in Nat : i < next => i < next' /\ i # next BY <1>1
  <2>2. \A v \in All : \A i \in Nat : i < next => (InFlight(v, i)' <=> InFlight(v, i))
    BY <2>1 DEF InFlight, ClaimedOnce
  <2>3. \A v \in All : Range(local[v]) \subseteq Nat
    <3>1. \A v \in All : Range(local[v]) \subseteq 1 .. Items BY RangeIn
    <3> QED BY <3>1, MapAssumption
  <2>4. \A v \in All : thread'[v] = "map" => at'[v] <= Items /\ at'[v] < next' /\ at'[v] > 0
    BY DEF ClaimedOnce
  <2>5. \A v \in All : \A i \in Range(local[v]) :
          i < next' /\ i \in Values /\ \A u \in All : ~InFlight(u, i)'
    BY <2>1, <2>2, <2>3 DEF ClaimedOnce
  <2>6. \A u, v \in All : u # v /\ thread'[u] = "map" /\ thread'[v] = "map" => at'[u] # at'[v]
    BY DEF ClaimedOnce
  <2>7. ASSUME NEW i \in Values, i < next'
        PROVE  \E v \in All : InFlight(v, i)' \/ i \in Range(local[v])
    <3>1. i \in Nat /\ i <= Items BY MapAssumption DEF Values
    <3>2. CASE i < next BY <1>1, <2>2, <3>1, <3>2 DEF ClaimedOnce
    <3>3. CASE i = next BY <3>1, <3>3 DEF InFlight
    <3> QED BY <2>7, <3>1, <3>2, <3>3
  <2> QED BY <1>1, <2>4, <2>5, <2>6, <2>7 DEF ClaimedOnce
<1>4. FailuresKept'
  <2>1. ASSUME NEW i \in Failing, i < next'
        PROVE  \E v \in All : InFlight(v, i)' \/ thread'[v] \in Failures
    <3>1. i \in Nat /\ i <= Items BY MapAssumption DEF Failing
    <3>2. CASE i < next BY <1>1, <3>1, <3>2, ZenonT(30) DEF FailuresKept, InFlight
    <3>3. CASE i = next BY <3>1, <3>3 DEF InFlight
    <3> QED BY <2>1, <3>1, <3>2, <3>3
  <2>2. \A v \in All : thread'[v] \in Failures => \E i \in Failing : kind[i] = thread'[v]
    BY DEF FailuresKept
  <2>3. \A v \in All : thread'[v] = "ok" => next' > Items BY MapAssumption DEF FailuresKept
  <2> HIDE DEF MapInv, MapTypeOK, Claim
  <2> QED BY <1>1, <2>1, <2>2, <2>3 DEF FailuresKept
<1>5. JoinedInv'
  BY <1>1 DEF JoinedInv
<1>6. SequentialInv' /\ OrderIsInputOrder' /\ FailuresReported'
  BY <1>1 DEF SequentialInv, OrderIsInputOrder, FailuresReported
<1> QED BY <1>2, <1>3, <1>4, <1>5, <1>6

\* Mapping moves an index from its worker's hands to its values, or stops the
\* worker.
LEMMA MapStep == ASSUME MapInv, NEW w \in All, Map(w) PROVE MapInv'
<1> USE DEF MapInv, MapTypeOK, Map, All, Stopped, Failures, Kinds
<1>1. /\ kind' = kind /\ workers' = workers /\ joined' = joined /\ at' = at /\ next' = next
      /\ output' = output /\ caller' = caller /\ result' = result
      /\ Values' = Values /\ Failing' = Failing
  BY DEF Values, Failing
<1>2. at[w] \in 1 .. Items /\ workers > 1
  BY MapAssumption DEF ClaimedOnce, SequentialInv
<1>3. /\ local'[w] \in Seq(1 .. Items)
      /\ Range(local'[w]) = Range(local[w]) \cup (IF at[w] \in Values THEN {at[w]} ELSE {})
      /\ Once(local'[w])
  <2>1. Once(local[w]) /\ at[w] \notin Range(local[w]) BY DEF ClaimedOnce, InFlight
  <2>2. CASE kind[at[w]] = "value"
    <3>1. local'[w] = Append(local[w], at[w]) /\ at[w] \in Values BY <1>2, <2>2 DEF Values
    <3>2. local[w] \in Seq(1 .. Items) OBVIOUS
    <3> HIDE DEF MapInv, MapTypeOK, Map
    <3>3. /\ Append(local[w], at[w]) \in Seq(1 .. Items)
          /\ Range(Append(local[w], at[w])) = Range(local[w]) \cup {at[w]}
          /\ Once(Append(local[w], at[w]))
      BY <1>2, <2>1, <3>2, AppendOnce, Zenon
    <3> QED BY <3>1, <3>3
  <2>3. CASE kind[at[w]] # "value"
    <3>1. local'[w] = local[w] /\ at[w] \notin Values BY <2>3 DEF Values
    <3> QED BY <2>1, <3>1
  <2> QED BY <2>2, <2>3
<1>4. \A v \in All : v # w => local'[v] = local[v] /\ thread'[v] = thread[v]
  OBVIOUS
<1>5. thread'[w] \in {"claim"} \cup Failures /\ (thread'[w] \in Failures <=> kind[at[w]] \in Failures)
  BY <1>2
<1>6. MapTypeOK'
  <2>1. thread' \in [All -> {"claim", "map"} \cup Stopped] BY <1>2
  <2>2. local' \in [All -> Seq(1 .. Items)] BY <1>3, <1>4
  <2> QED BY <1>1, <2>1, <2>2
<1>7. ClaimedOnce'
  <2>1. \A v \in All, i \in Nat : InFlight(v, i)' <=> InFlight(v, i) /\ v # w
    BY <1>1, <1>4, <1>5 DEF InFlight
  <2>2. \A v \in All : thread'[v] = "map" => at'[v] <= Items /\ at'[v] < next' /\ at'[v] > 0
    BY <1>1, <1>4, <1>5 DEF ClaimedOnce
  <2>3. \A v \in All : Once(local'[v]) BY <1>3, <1>4 DEF ClaimedOnce
  <2>4. ASSUME NEW v \in All, NEW i \in Range(local'[v])
        PROVE  i < next /\ i \in Values /\ \A u \in All : ~InFlight(u, i)'
    <3>1. CASE i \in Range(local[v])
      BY <2>1, <3>1 DEF ClaimedOnce, Values
    <3>2. CASE i \notin Range(local[v])
      <4>1. v = w /\ i = at[w] /\ i \in Values BY <1>3, <1>4, <3>2
      <4>2. \A u \in All : u # w => ~InFlight(u, i) BY <4>1 DEF ClaimedOnce, InFlight
      <4> QED BY <1>2, <2>1, <4>1, <4>2 DEF ClaimedOnce
    <3> QED BY <3>1, <3>2
  <2>5. ASSUME NEW u \in All, NEW v \in All, u # v
        PROVE  /\ Range(local'[u]) \cap Range(local'[v]) = {}
               /\ thread'[u] = "map" /\ thread'[v] = "map" => at'[u] # at'[v]
    <3>1. Range(local[u]) \cap Range(local[v]) = {} BY <2>5 DEF ClaimedOnce
    <3>2. at[w] \notin Range(local[u]) /\ at[w] \notin Range(local[v]) BY DEF ClaimedOnce, InFlight
    <3> QED BY <1>1, <1>3, <1>4, <1>5, <2>5, <3>1, <3>2, SMTT(30) DEF ClaimedOnce
  <2>6. ASSUME NEW i \in Values, i < next
        PROVE  \E v \in All : InFlight(v, i)' \/ i \in Range(local'[v])
    <3>1. PICK v \in All : InFlight(v, i) \/ i \in Range(local[v])
      BY <1>2, <2>6 DEF ClaimedOnce
    <3>2. CASE v = w /\ InFlight(v, i) BY <1>3, <2>6, <3>2 DEF InFlight
    <3>3. CASE v # w /\ InFlight(v, i) BY <2>1, <3>3 DEF Values
    <3>4. CASE i \in Range(local[v]) BY <1>3, <1>4, <3>4
    <3> QED BY <3>1, <3>2, <3>3, <3>4
  <2> HIDE DEF MapInv, MapTypeOK, Map
  <2> QED BY <1>1, <2>2, <2>3, <2>4, <2>5, <2>6 DEF ClaimedOnce
<1>8. FailuresKept'
  <2>1. ASSUME NEW i \in Failing, i < next
        PROVE  \E v \in All : InFlight(v, i)' \/ thread'[v] \in Failures
    <3>1. PICK v \in All : InFlight(v, i) \/ thread[v] \in Failures
      BY <1>2, <2>1 DEF FailuresKept
    <3>2. CASE v = w BY <1>5, <3>1, <3>2 DEF InFlight, Failing
    <3>3. CASE v # w BY <1>1, <1>4, <3>1, <3>3 DEF InFlight
    <3> QED BY <3>2, <3>3
  <2>2. ASSUME NEW v \in All, thread'[v] \in Failures PROVE \E i \in Failing : kind[i] = thread'[v]
    <3>1. CASE v = w
      <4>1. thread'[w] = kind[at[w]] /\ at[w] \in Failing BY <1>2, <2>2, <3>1 DEF Failing
      <4> QED BY <4>1, <3>1
    <3>2. CASE v # w BY <1>4, <2>2, <3>2 DEF FailuresKept
    <3> QED BY <3>1, <3>2
  <2>3. \A v \in All : thread'[v] = "ok" => next > Items BY <1>4, <1>5 DEF FailuresKept
  <2> HIDE DEF MapInv, MapTypeOK, Map
  <2> QED BY <1>1, <2>1, <2>2, <2>3 DEF FailuresKept
<1>9. JoinedInv'
  <2>1. \A v \in All : thread[v] # "map" => thread'[v] = thread[v] /\ local'[v] = local[v] BY <1>4
  <2>2. \A v \in All : thread[v] \in Failures => thread'[v] \in Failures BY <1>4
  <2>3. ASSUME caller \in {"join", "sort"}
        PROVE  \A v \in 1 .. joined : thread'[v] = thread[v] /\ local'[v] = local[v]
    BY <1>2, <2>1, <2>3 DEF JoinedInv
  <2>4. ASSUME caller \in {"join", "sort"}
        PROVE  UNION {Range(local'[v]) : v \in 1 .. joined} = UNION {Range(local[v]) : v \in 1 .. joined}
    BY <2>3, <2>4
  <2> QED BY <1>1, <1>2, <2>2, <2>3, <2>4 DEF JoinedInv
<1>10. SequentialInv' /\ OrderIsInputOrder' /\ FailuresReported'
  BY <1>1, <1>2 DEF SequentialInv, OrderIsInputOrder, FailuresReported
<1> QED BY <1>6, <1>7, <1>8, <1>9, <1>10

\* The caller's own loop.
LEMMA SequentialStep == ASSUME MapInv, Sequential PROVE MapInv'
<1> USE DEF MapInv, MapTypeOK, Sequential, All, Stopped, Failures, Kinds
<1>1. /\ kind' = kind /\ workers' = workers /\ joined' = joined /\ at' = at /\ thread' = thread
      /\ local' = local /\ Values' = Values /\ Failing' = Failing /\ workers = 1
  BY DEF Values, Failing
<1>2. /\ Ascending(output) /\ Range(output) = {i \in Values : i < next}
      /\ \A i \in Failing : i >= next
      /\ result = "none" /\ thread = [w \in All |-> "claim"]
  BY <1>1 DEF SequentialInv
<1>3. ClaimedOnce'
  <2>1. \A v \in All, i \in Nat : InFlight(v, i)' <=> InFlight(v, i) BY <1>1 DEF InFlight
  <2>2. \A w \in All : thread[w] = "claim" BY <1>2
  <2>3. next' \in Nat /\ next <= next' BY MapAssumption
  <2>4. \A w \in All : Range(local[w]) \subseteq Nat
    <3>1. \A w \in All : Range(local[w]) \subseteq 1 .. Items BY RangeIn
    <3> QED BY <3>1, MapAssumption
  <2>5. \A w \in All : \A i \in Range(local[w]) : i < next'
    BY <2>3, <2>4 DEF ClaimedOnce
  <2> QED BY <1>1, <2>1, <2>2, <2>4, <2>5 DEF ClaimedOnce
<1>4. FailuresKept'
  BY <1>1, <1>2 DEF FailuresKept
<1>5. JoinedInv' BY <1>1 DEF JoinedInv
<1>6. CASE next > Items
  <2>1. /\ caller' = "returned" /\ result' = "ok" /\ next' = next /\ output' = output
    BY <1>6
  <2>2. MapTypeOK' BY <1>1, <2>1
  <2>3. {i \in Values : i < next} = Values /\ Failing = {}
    BY <1>2, <1>6, MapAssumption DEF Values, Failing
  <2>4. SequentialInv' BY <1>1, <1>2, <2>1 DEF SequentialInv
  <2>5. OrderIsInputOrder' /\ FailuresReported'
    BY <1>1, <1>2, <2>1, <2>3 DEF OrderIsInputOrder, FailuresReported
  <2> QED BY <1>3, <1>4, <1>5, <2>2, <2>4, <2>5
<1>7. CASE next <= Items
  <2>1. next \in 1 .. Items /\ next' = next + 1 /\ kind[next] \in Kinds
    BY <1>7, MapAssumption
  <2>2. /\ output' \in Seq(1 .. Items) /\ Ascending(output')
        /\ Range(output') = {i \in Values : i < next'}
    <3>1. CASE kind[next] = "value"
      <4>1. output' = Append(output, next) /\ next \in Values BY <1>7, <2>1, <3>1 DEF Values
      <4>2. output' \in Seq(1 .. Items) /\ Range(output') = Range(output) \cup {next}
        <5>1. output \in Seq(1 .. Items) OBVIOUS
        <5> HIDE DEF MapInv, MapTypeOK, Sequential
        <5>2. /\ Append(output, next) \in Seq(1 .. Items)
              /\ Range(Append(output, next)) = Range(output) \cup {next}
          BY <2>1, <5>1, AppendOnce, Zenon
        <5> QED BY <4>1, <5>2
      <4>3. Ascending(output')
        <5>1. \A i \in 1 .. Len(output) : output[i] < next /\ output[i] \in Nat
          <6>1. \A i \in DOMAIN output : output[i] \in Range(output) BY RangeIn
          <6> QED BY <1>2, <6>1, MapAssumption
        <5> QED BY <1>2, <2>1, <4>1, <5>1 DEF Ascending
      <4>4. Range(output') = {i \in Values : i < next'}
        BY <1>2, <2>1, <4>1, <4>2 DEF Values
      <4> QED BY <4>2, <4>3, <4>4
    <3>2. CASE kind[next] # "value"
      <4>1. output' = output /\ next \notin Values BY <1>7, <2>1, <3>2 DEF Values
      <4> QED BY <1>2, <2>1, <4>1 DEF Values
    <3> QED BY <3>1, <3>2
  <2>3. CASE kind[next] \in Failures
    <3>1. caller' = "returned" /\ result' = kind[next] /\ next \in Failing
      BY <1>7, <2>1, <2>3 DEF Failing
    <3>2. MapTypeOK' BY <1>1, <2>1, <2>2, <2>3, <3>1
    <3>3. SequentialInv' BY <1>1, <1>2, <3>1 DEF SequentialInv
    <3>4. OrderIsInputOrder' /\ FailuresReported'
      BY <1>1, <2>3, <3>1 DEF OrderIsInputOrder, FailuresReported, Failing
    <3> QED BY <1>3, <1>4, <1>5, <3>2, <3>3, <3>4
  <2>4. CASE kind[next] \notin Failures
    <3>1. caller' = caller /\ result' = result /\ caller = "join" BY <1>7, <2>1, <2>4
    <3>2. MapTypeOK' BY <1>1, <2>1, <2>2, <3>1
    <3>3. \A i \in Failing : i >= next' BY <1>2, <2>1, <2>4 DEF Failing
    <3>4. SequentialInv' BY <1>1, <1>2, <2>2, <3>1, <3>3 DEF SequentialInv
    <3>5. OrderIsInputOrder' /\ FailuresReported'
      BY <3>1 DEF OrderIsInputOrder, FailuresReported
    <3> QED BY <1>3, <1>4, <1>5, <3>2, <3>4, <3>5
  <2> QED BY <2>3, <2>4
<1> QED BY <1>6, <1>7, MapAssumption

\* Joining a handle adds what its worker found, or ends the loop.
LEMMA JoinStep == ASSUME MapInv, Join PROVE MapInv'
<1> USE DEF MapInv, MapTypeOK, Join, All, Stopped, Failures
<1>1. /\ kind' = kind /\ workers' = workers /\ next' = next /\ at' = at /\ thread' = thread
      /\ local' = local /\ Values' = Values /\ Failing' = Failing /\ workers > 1
      /\ joined' = joined + 1 /\ joined' \in All /\ joined' \in 0 .. workers
  BY MapAssumption DEF Values, Failing
<1>2. ClaimedOnce' BY <1>1 DEF ClaimedOnce, InFlight
<1>3. FailuresKept' BY <1>1 DEF FailuresKept, InFlight
<1>4. SequentialInv' BY <1>1 DEF SequentialInv
<1>5. CASE thread[joined + 1] = "ok"
  <2>1. /\ output' = output \o local[joined + 1]
        /\ caller' = IF joined + 1 = workers THEN "sort" ELSE "join"
        /\ result' = result /\ result = "none"
    BY <1>1, <1>5 DEF JoinedInv
  <2>2. /\ Once(output) /\ Once(local[joined + 1])
        /\ Range(output) = UNION {Range(local[w]) : w \in 1 .. joined}
    BY <1>1 DEF JoinedInv, ClaimedOnce
  <2>3. \A w \in 1 .. joined : w \in All /\ w # joined + 1 BY <1>1
  <2>4. \A w \in 1 .. joined : Range(local[w]) \cap Range(local[joined + 1]) = {}
    BY <1>1, <2>3 DEF ClaimedOnce
  <2>5. Range(output) \cap Range(local[joined + 1]) = {}
    BY <2>2, <2>4
  <2>6. /\ output' \in Seq(1 .. Items) /\ Once(output')
        /\ Range(output') = Range(output) \cup Range(local[joined + 1])
    BY <1>1, <2>1, <2>2, <2>5, ConcatOnce
  <2>7. 1 .. joined + 1 = (1 .. joined) \cup {joined + 1} BY <1>1
  <2>8. Range(output') = UNION {Range(local[w]) : w \in 1 .. joined + 1}
    BY <2>2, <2>6, <2>7
  <2>9. MapTypeOK' BY <1>1, <2>1, <2>6
  <2>10. \A w \in 1 .. joined + 1 : thread[w] = "ok" BY <1>1, <1>5, <2>7 DEF JoinedInv
  <2>11. JoinedInv' BY <1>1, <2>1, <2>6, <2>8, <2>10 DEF JoinedInv
  <2>12. OrderIsInputOrder' /\ FailuresReported' BY <2>1 DEF OrderIsInputOrder, FailuresReported
  <2> QED BY <1>2, <1>3, <1>4, <2>9, <2>11, <2>12
<1>6. CASE thread[joined + 1] # "ok"
  <2>1. caller' = "unwind" /\ result' = "error" /\ output' = output /\ thread[joined + 1] \in Failures
    BY <1>6
  <2>2. MapTypeOK' BY <1>1, <2>1
  <2>3. JoinedInv' BY <1>1, <2>1 DEF JoinedInv
  <2>4. OrderIsInputOrder' /\ FailuresReported' BY <2>1 DEF OrderIsInputOrder, FailuresReported
  <2> QED BY <1>2, <1>3, <1>4, <2>2, <2>3, <2>4
<1> QED BY <1>5, <1>6

\* Leaving the scope reports a failure there is.
LEMMA LeaveStep == ASSUME MapInv, LeaveScope PROVE MapInv'
<1> USE DEF MapInv, MapTypeOK, LeaveScope, All, Stopped, Failures
<1>1. /\ kind' = kind /\ workers' = workers /\ next' = next /\ at' = at /\ thread' = thread
      /\ local' = local /\ Values' = Values /\ Failing' = Failing
      /\ joined' = joined /\ output' = output /\ caller' = "returned"
  BY DEF Values, Failing
<1>2. workers > 1 BY MapAssumption DEF SequentialInv
<1>3. result = "error" /\ \E w \in All : thread[w] \in Failures BY <1>2 DEF JoinedInv
<1>4. Failing # {} BY <1>3 DEF FailuresKept
<1>5. result' \in Failures BY <1>3
<1>6. ASSUME result' = "panic" PROVE \E i \in Failing : kind[i] = "panic"
  <2>1. PICK w \in joined + 1 .. workers : thread[w] = "panic" BY <1>3, <1>6
  <2>2. w \in All BY <2>1
  <2> QED BY <2>1, <2>2 DEF FailuresKept
<1>7. MapTypeOK' BY <1>1, <1>5
<1>8. ClaimedOnce' /\ FailuresKept' BY <1>1 DEF ClaimedOnce, FailuresKept, InFlight
<1>9. JoinedInv' /\ SequentialInv' BY <1>1, <1>2 DEF JoinedInv, SequentialInv
<1>10. OrderIsInputOrder' /\ FailuresReported'
  BY <1>1, <1>4, <1>5, <1>6 DEF OrderIsInputOrder, FailuresReported
<1> QED BY <1>7, <1>8, <1>9, <1>10

\* Sorting what all workers found gives the input order.
LEMMA SortStep == ASSUME MapInv, Sort PROVE MapInv'
<1> USE DEF MapInv, MapTypeOK, Sort, All, Stopped, Failures
<1>1. /\ kind' = kind /\ workers' = workers /\ next' = next /\ at' = at /\ thread' = thread
      /\ local' = local /\ Values' = Values /\ Failing' = Failing
      /\ joined' = joined /\ caller' = "returned" /\ result' = "ok"
  BY DEF Values, Failing
<1>2. workers > 1 BY MapAssumption DEF SequentialInv
<1>3. /\ joined = workers /\ \A w \in All : thread[w] = "ok"
      /\ Once(output) /\ Range(output) = UNION {Range(local[w]) : w \in All}
  BY <1>2 DEF JoinedInv
<1>4. next > Items BY <1>2, <1>3 DEF FailuresKept
<1>5. Range(output) = Values
  <2>1. \A i \in Values : i < next BY <1>4, MapAssumption DEF Values
  <2>2. \A i \in Values : \E w \in All : i \in Range(local[w])
    BY <1>2, <1>3, <2>1 DEF ClaimedOnce, InFlight
  <2>3. \A w \in All : Range(local[w]) \subseteq Values BY DEF ClaimedOnce
  <2> QED BY <1>3, <2>2, <2>3
<1>6. Failing = {}
  <2>1. \A i \in Failing : i < next BY <1>4, MapAssumption DEF Failing
  <2> QED BY <1>2, <1>3, <2>1 DEF FailuresKept, InFlight
<1>7. PICK p \in Bijection(DOMAIN output, DOMAIN output) :
        output' = [i \in DOMAIN output |-> output[p[i]]]
  OBVIOUS
<1>8. /\ p \in [DOMAIN output -> DOMAIN output]
      /\ \A i, j \in DOMAIN output : p[i] = p[j] => i = j
      /\ \A k \in DOMAIN output : \E i \in DOMAIN output : p[i] = k
  BY <1>7 DEF Bijection, Injection, Surjection, IsInjective
<1>9. output \in Seq(1 .. Items) OBVIOUS
<1>11. \A i, j \in DOMAIN output : i < j => output'[i] <= output'[j] OBVIOUS
<1> HIDE DEF MapInv, MapTypeOK, Sort
<1>10. /\ output' \in Seq(1 .. Items) /\ Range(output') = Range(output) /\ Ascending(output')
  <2>1. /\ Len(output) \in Nat /\ DOMAIN output = 1 .. Len(output)
    BY <1>9
  <2>8. \A i \in 1 .. Len(output) : output[i] \in 1 .. Items
    <3>1. \A i \in DOMAIN output : output[i] \in Range(output) /\ Range(output) \subseteq 1 .. Items
      BY <1>9, RangeIn
    <3> QED BY <2>1, <3>1, Zenon
  <2>2. DOMAIN output' = DOMAIN output /\ \A i \in DOMAIN output : output'[i] = output[p[i]]
    BY <1>7, Zenon
  <2>3. \A i \in DOMAIN output : p[i] \in DOMAIN output /\ output'[i] \in 1 .. Items
    BY <1>8, <2>1, <2>2, <2>8, Zenon
  <2>4. output' \in Seq(1 .. Items)
    <3>1. output' = [i \in 1 .. Len(output) |-> output'[i]] BY <1>7, <2>1, <2>2, Zenon
    <3>2. \A i \in 1 .. Len(output) : output'[i] \in 1 .. Items BY <2>1, <2>3, Zenon
    <3>3. Len(output) \in Nat BY <2>1
    <3> DEFINE S == 1 .. Items
    <3>4. \A i \in 1 .. Len(output) : output'[i] \in S BY <3>2
    <3> HIDE DEF S
    <3>5. ASSUME NEW o, o = [i \in 1 .. Len(output) |-> o[i]], \A i \in 1 .. Len(output) : o[i] \in S
          PROVE  o \in Seq(S)
      BY <3>3, <3>5, IsASeq
    <3>6. output' \in Seq(S) BY <3>1, <3>4, <3>5, Zenon
    <3> QED BY <3>6 DEF S
  <2>5. Range(output') = Range(output)
    <3>1. \A i \in DOMAIN output : output[p[i]] \in Range(output) BY <2>3, Zenon DEF Range
    <3>2. ASSUME NEW k \in DOMAIN output PROVE output[k] \in Range(output')
      <4>1. PICK i \in DOMAIN output : p[i] = k BY <1>8, Zenon
      <4>2. i \in DOMAIN output' /\ output'[i] = output[k] BY <2>2, <4>1, Zenon
      <4> QED BY <4>2 DEF Range
    <3>3. \A i \in DOMAIN output' : output'[i] \in Range(output) BY <2>2, <3>1, Zenon
    <3> QED BY <3>2, <3>3 DEF Range
  <2>6. ASSUME NEW i \in DOMAIN output, NEW j \in DOMAIN output, output'[i] = output'[j]
        PROVE  i = j
    <3>1. output[p[i]] = output[p[j]] BY <2>2, <2>6, Zenon
    <3>2. p[i] = p[j] BY <1>3, <2>3, <3>1, Zenon DEF Once
    <3> QED BY <1>8, <3>2, Zenon
  <2>7. Ascending(output')
    BY <1>11, <2>1, <2>2, <2>3, <2>6, MapAssumption DEF Ascending
  <2> QED BY <2>4, <2>5, <2>7
<1> USE DEF MapInv, MapTypeOK
<1>12. MapTypeOK' BY <1>1, <1>10
<1>13. ClaimedOnce' /\ FailuresKept' BY <1>1 DEF ClaimedOnce, FailuresKept, InFlight
<1>14. JoinedInv' /\ SequentialInv' BY <1>1, <1>2 DEF JoinedInv, SequentialInv
<1>15. OrderIsInputOrder' /\ FailuresReported'
  BY <1>1, <1>5, <1>6, <1>10 DEF OrderIsInputOrder, FailuresReported
<1> QED BY <1>12, <1>13, <1>14, <1>15

\* The invariant holds of every interleaving.
THEOREM Inductive == MapSpec => []MapInv
<1>1. MapInv /\ [MapNext]_mapVars => MapInv'
  <2> SUFFICES ASSUME MapInv, [MapNext]_mapVars PROVE MapInv' OBVIOUS
  <2>1. CASE MapNext
    BY <2>1, ClaimStep, MapStep, SequentialStep, JoinStep, LeaveStep, SortStep
    DEF MapNext, CallerStep, WorkerStep
  <2>2. CASE UNCHANGED mapVars
    BY <2>2 DEF mapVars, MapInv, MapTypeOK, ClaimedOnce, FailuresKept, JoinedInv, SequentialInv,
               OrderIsInputOrder, FailuresReported, InFlight, Values, Failing, All
  <2> QED BY <2>1, <2>2
<1> QED BY <1>1, InitInv, PTL DEF MapSpec

\* bounded_parallel_filter_map returns the values of all items in input order,
\* each once, however the workers divided the items among them.
THEOREM InputOrderKept == MapSpec => []OrderIsInputOrder
<1>1. MapInv => OrderIsInputOrder BY DEF MapInv
<1> QED BY <1>1, Inductive, PTL

\* It succeeds exactly if no item fails, and panics only if an item does, even
\* though the join loop leaves at the first failed handle.
THEOREM NoFailureLost == MapSpec => []FailuresReported
<1>1. MapInv => FailuresReported BY DEF MapInv
<1> QED BY <1>1, Inductive, PTL

-----------------------------------------------------------------------------
(***************************************************************************)
(* The memo of the schedule search: evictions keep its queues and its      *)
(* entries in step, for every capacity and number of probes.               *)
(***************************************************************************)

\* A sequence is what its length and entries make of it.
IsSequence(s) == s \in Seq(ToSet(s))

\* A nonempty set of naturals has a least element.
LEMMA Least ==
  ASSUME NEW T \in SUBSET Nat, T # {}
  PROVE  \E m \in T : \A k \in T : m <= k
<1>1. IsWellFoundedOn(OpToRel(<, Nat), Nat)
  BY NatLessThanWellFounded
<1>2. \E m \in T : \A k \in T : ~(<<k, m>> \in OpToRel(<, Nat))
  BY <1>1, WFMin
<1>3. OpToRel(<, Nat) = {ss \in Nat \X Nat : ss[1] < ss[2]}
  BY Zenon DEF OpToRel
<1>4. \E m \in T : \A k \in T : ~(<<k, m>> \in {ss \in Nat \X Nat : ss[1] < ss[2]})
  BY <1>2, <1>3, Zenon
<1>5. PICK m \in T : \A k \in T : ~(<<k, m>> \in {ss \in Nat \X Nat : ss[1] < ss[2]})
  BY <1>4, Zenon
<1>6. ASSUME NEW k \in T PROVE m <= k
  <2>1. <<k, m>> \in Nat \X Nat /\ <<k, m>>[1] = k /\ <<k, m>>[2] = m OBVIOUS
  <2>2. ~(k < m) BY <1>5, <2>1
  <2> QED BY <2>2
<1> QED BY <1>6, Zenon

\* It is what Min chooses.
LEMMA MinOfNat ==
  ASSUME NEW T \in SUBSET Nat, T # {}
  PROVE  Min(T) \in T /\ \A y \in T : Min(T) <= y
<1>1. \E m \in T : \A k \in T : m <= k BY Least
<1> QED BY <1>1 DEF Min

\* A part of a sequence.
LEMMA SubSeqFacts ==
  ASSUME NEW S, NEW s \in Seq(S), NEW a \in 1 .. Len(s) + 1, NEW b \in a - 1 .. Len(s)
  PROVE  /\ SubSeq(s, a, b) \in Seq(S) /\ Len(SubSeq(s, a, b)) = b - a + 1
         /\ \A i \in 1 .. b - a + 1 : SubSeq(s, a, b)[i] = s[a + i - 1]
OBVIOUS

\* Two sequences in a row.
LEMMA ConcatFacts ==
  ASSUME NEW S, NEW a \in Seq(S), NEW b \in Seq(S)
  PROVE  /\ a \o b \in Seq(S) /\ Len(a) \in Nat /\ Len(b) \in Nat
         /\ Len(a \o b) = Len(a) + Len(b)
         /\ \A i \in 1 .. Len(a) : (a \o b)[i] = a[i]
         /\ \A i \in 1 .. Len(b) : (a \o b)[Len(a) + i] = b[i]
OBVIOUS

\* The number of entries a probe passes over.
LEMMA ProbedBound ==
  ASSUME NEW queue, NEW entries, Len(queue) \in Nat \ {0}
  PROVE  Probed(queue, entries) \in 0 .. Len(queue)
<1> DEFINE idle == {n \in 0..(Len(queue) - 1) : n >= MaxProbes \/ ~entries[queue[n + 1]].referenced}
<1>1. CASE idle = {}
  BY <1>1 DEF Probed
<1>2. CASE idle # {}
  <2>1. idle \in SUBSET Nat OBVIOUS
  <2>2. Min(idle) \in idle BY <1>2, <2>1, MinOfNat
  <2>3. Probed(queue, entries) = Min(idle) BY <1>2 DEF Probed
  <2> QED BY <2>2, <2>3
<1> QED BY <1>1, <1>2

\* An eviction takes one entry out of a full queue and keeps the others.
LEMMA EvictFacts ==
  ASSUME NEW S, NEW queue \in Seq(S), Len(queue) > 0, NEW entries, IsInjective(queue)
  PROVE  \E victim \in ToSet(queue) :
           LET e == Evict(queue, entries) IN
           /\ e.queue \in Seq(S) /\ Len(e.queue) = Len(queue) - 1
           /\ IsInjective(e.queue)
           /\ ToSet(e.queue) = ToSet(queue) \ {victim}
           /\ DOMAIN e.entries = DOMAIN entries \ {victim}
<1> DEFINE n == Probed(queue, entries)
           len == Len(queue)
           rotated == SubSeq(queue, n + 1, Len(queue)) \o SubSeq(queue, 1, n)
           e == Evict(queue, entries)
           victim == Head(rotated)
           place(i) == IF i <= len - n THEN n + i ELSE i - (len - n)
<1>1. n \in 0 .. len BY ProbedBound
<1>2. len \in Nat /\ len > 0 /\ DOMAIN queue = 1 .. len OBVIOUS
<1> HIDE DEF n
<1>3. /\ SubSeq(queue, n + 1, len) \in Seq(S) /\ Len(SubSeq(queue, n + 1, len)) = len - n
      /\ \A i \in 1 .. len - n : SubSeq(queue, n + 1, len)[i] = queue[n + i]
  <2>1. n + 1 \in 1 .. Len(queue) + 1 /\ len \in (n + 1) - 1 .. Len(queue) BY <1>1, <1>2
  <2>2. /\ SubSeq(queue, n + 1, len) \in Seq(S)
        /\ Len(SubSeq(queue, n + 1, len)) = len - (n + 1) + 1
        /\ \A i \in 1 .. len - (n + 1) + 1 : SubSeq(queue, n + 1, len)[i] = queue[(n + 1) + i - 1]
    BY <2>1, SubSeqFacts
  <2>3. len - (n + 1) + 1 = len - n /\ \A i \in 1 .. len - n : (n + 1) + i - 1 = n + i BY <1>1
  <2> QED BY <2>2, <2>3
<1>4. /\ SubSeq(queue, 1, n) \in Seq(S) /\ Len(SubSeq(queue, 1, n)) = n
      /\ \A i \in 1 .. n : SubSeq(queue, 1, n)[i] = queue[i]
  <2>1. 1 \in 1 .. Len(queue) + 1 /\ n \in 1 - 1 .. Len(queue) BY <1>1, <1>2
  <2>2. /\ SubSeq(queue, 1, n) \in Seq(S) /\ Len(SubSeq(queue, 1, n)) = n - 1 + 1
        /\ \A i \in 1 .. n - 1 + 1 : SubSeq(queue, 1, n)[i] = queue[1 + i - 1]
    BY <2>1, SubSeqFacts
  <2>3. n - 1 + 1 = n /\ \A i \in 1 .. n : 1 + i - 1 = i BY <1>1
  <2> QED BY <2>2, <2>3
<1>5. /\ rotated \in Seq(S) /\ Len(rotated) = len
      /\ \A i \in 1 .. len : rotated[i] = queue[place(i)]
  <2> DEFINE a == SubSeq(queue, n + 1, len)
             b == SubSeq(queue, 1, n)
  <2> HIDE DEF a, b
  <2>1. a \in Seq(S) /\ b \in Seq(S) /\ Len(a) = len - n /\ Len(b) = n BY <1>3, <1>4 DEF a, b
  <2>2. a \o b \in Seq(S) /\ Len(a \o b) = len
    <3>1. a \o b \in Seq(S) /\ Len(a \o b) = Len(a) + Len(b) BY <2>1, ConcatFacts
    <3> QED BY <1>1, <1>2, <2>1, <3>1
  <2>3. ASSUME NEW i \in 1 .. len PROVE (a \o b)[i] = queue[place(i)]
    <3>1. CASE i <= len - n
      <4>1. (a \o b)[i] = a[i] BY <1>1, <1>2, <2>1, <3>1
      <4>2. i \in 1 .. len - n BY <1>1, <1>2, <3>1
      <4>3. a[i] = queue[n + i] BY <1>3, <4>2 DEF a
      <4> QED BY <3>1, <4>1, <4>3
    <3>2. CASE ~(i <= len - n)
      <4>1. (a \o b)[i] = b[i - (len - n)] BY <1>1, <1>2, <2>1, <3>2
      <4>2. i - (len - n) \in 1 .. n BY <1>1, <1>2, <3>2
      <4>3. b[i - (len - n)] = queue[i - (len - n)] BY <1>4, <4>2 DEF b
      <4> QED BY <3>2, <4>1, <4>3
    <3> QED BY <3>1, <3>2
  <2> QED BY <2>2, <2>3 DEF a, b
<1>6. \A i \in 1 .. len : place(i) \in 1 .. len /\ \A j \in 1 .. len : place(i) = place(j) => i = j
  BY <1>1, <1>2
<1>7. \A j \in 1 .. len : \E i \in 1 .. len : place(i) = j
  <2> TAKE j \in 1 .. len
  <2>1. CASE j > n
    <3>1. j - n \in 1 .. len /\ place(j - n) = j BY <1>1, <1>2, <2>1
    <3> QED BY <3>1
  <2>2. CASE j <= n
    <3>1. j + (len - n) \in 1 .. len /\ place(j + (len - n)) = j BY <1>1, <1>2, <2>2
    <3> QED BY <3>1
  <2> QED BY <2>1, <2>2, <1>1
<1> HIDE DEF rotated, place
<1>8. \A i, j \in 1 .. len : rotated[i] = rotated[j] => i = j
  BY <1>2, <1>5, <1>6 DEF IsInjective
<1>9. /\ Tail(rotated) \in Seq(S) /\ Len(Tail(rotated)) = len - 1
      /\ \A i \in 1 .. len - 1 : Tail(rotated)[i] = rotated[i + 1]
      /\ victim = rotated[1] /\ DOMAIN Tail(rotated) = 1 .. len - 1
  BY <1>2, <1>5
<1>10. e.queue = Tail(rotated) /\ DOMAIN e.entries = DOMAIN entries \ {victim}
  BY DEF Evict, n, rotated
<1> HIDE DEF e
<1>11. IsInjective(Tail(rotated))
  BY <1>2, <1>8, <1>9 DEF IsInjective
<1>12. ToSet(queue) = {rotated[i] : i \in 1 .. len}
  <2>1. ToSet(queue) = {queue[j] : j \in 1 .. len} BY <1>2 DEF ToSet
  <2>2. \A i \in 1 .. len : rotated[i] \in {queue[j] : j \in 1 .. len} BY <1>5, <1>6
  <2>3. \A j \in 1 .. len : \E i \in 1 .. len : queue[j] = rotated[i] BY <1>5, <1>7
  <2>4. {queue[j] : j \in 1 .. len} \subseteq {rotated[i] : i \in 1 .. len} BY <2>3
  <2>5. {rotated[i] : i \in 1 .. len} \subseteq {queue[j] : j \in 1 .. len} BY <2>2
  <2> HIDE DEF len
  <2> QED BY <2>1, <2>4, <2>5
<1>13. ToSet(Tail(rotated)) = ToSet(queue) \ {victim}
  <2>1. ToSet(Tail(rotated)) = {rotated[i + 1] : i \in 1 .. len - 1}
    BY <1>2, <1>9 DEF ToSet
  <2>2. {rotated[i + 1] : i \in 1 .. len - 1} = {rotated[i] : i \in 2 .. len}
    <3>1. \A i \in 2 .. len : i - 1 \in 1 .. len - 1 /\ (i - 1) + 1 = i BY <1>2
    <3>2. \A i \in 1 .. len - 1 : i + 1 \in 2 .. len BY <1>2
    <3> QED BY <3>1, <3>2
  <2>3. \A i \in 2 .. len : rotated[i] # rotated[1] BY <1>2, <1>8
  <2>4. \A i \in 1 .. len : i = 1 \/ i \in 2 .. len BY <1>2
  <2>5. 1 \in 1 .. len /\ \A i \in 2 .. len : i \in 1 .. len BY <1>2
  <2>6. victim = rotated[1] BY <1>9
  <2> HIDE DEF len, victim
  <2> QED BY <2>6, <1>12, <2>1, <2>2, <2>3, <2>4, <2>5
<1>14. victim \in ToSet(queue)
  BY <1>2, <1>9, <1>12
<1> WITNESS victim \in ToSet(queue)
<1> QED BY <1>9, <1>10, <1>11, <1>13 DEF e

\* A sequence over some set is one over its entries.
LEMMA SelfSequence ==
  ASSUME NEW S, NEW s \in Seq(S)
  PROVE  IsSequence(s)
<1>1. Len(s) \in Nat /\ DOMAIN s = 1 .. Len(s) OBVIOUS
<1>2. \A i \in 1 .. Len(s) : s[i] \in ToSet(s) BY <1>1 DEF ToSet
<1>3. s = [i \in 1 .. Len(s) |-> s[i]] OBVIOUS
<1> DEFINE T == ToSet(s)
<1> HIDE DEF T
<1>4. \A i \in 1 .. Len(s) : s[i] \in T BY <1>2 DEF T
<1>5. s \in Seq(T) BY <1>1, <1>3, <1>4
<1> QED BY <1>5 DEF IsSequence, T

\* The queues of the memo are sequences, and there are two of them.
MemoInv ==
  /\ DOMAIN order = {"direct", "prefixed"}
  /\ order = [q \in {"direct", "prefixed"} |-> order[q]]
  /\ \A q \in {"direct", "prefixed"} : IsSequence(order[q])
  /\ QueuesNameEntries

\* A name that is appended is in its own queue only.
LEMMA AppendFacts ==
  ASSUME NEW s, IsSequence(s), IsInjective(s), NEW name, name \notin ToSet(s)
  PROVE  /\ IsSequence(Append(s, name)) /\ IsInjective(Append(s, name))
         /\ ToSet(Append(s, name)) = ToSet(s) \cup {name}
         /\ Len(Append(s, name)) = Len(s) + 1 /\ Len(s) \in Nat
<1> DEFINE T == ToSet(s) \cup {name}
           t == Append(s, name)
<1>1. s \in Seq(T)
  <2>1. s \in Seq(ToSet(s)) BY DEF IsSequence
  <2> HIDE DEF T
  <2>2. ToSet(s) \subseteq T BY DEF T
  <2> QED BY <2>1, <2>2
<1>2. name \in T OBVIOUS
<1>3. Len(s) \in Nat /\ DOMAIN s = 1 .. Len(s) BY <1>1
<1> HIDE DEF T
<1>4. /\ t \in Seq(T) /\ Len(t) = Len(s) + 1 /\ DOMAIN t = 1 .. Len(s) + 1
      /\ \A i \in 1 .. Len(s) : t[i] = s[i]
      /\ t[Len(s) + 1] = name
  BY <1>1, <1>2
<1> HIDE DEF t
<1>5. \A i \in 1 .. Len(s) : s[i] \in ToSet(s) BY <1>3 DEF ToSet
<1>6. ToSet(t) = T
  <2>1. ToSet(t) = {t[i] : i \in 1 .. Len(s) + 1} BY <1>4 DEF ToSet
  <2>2. \A i \in 1 .. Len(s) + 1 : t[i] \in T
    BY <1>3, <1>4, <1>5 DEF T
  <2>3. ASSUME NEW x \in T PROVE x \in {t[i] : i \in 1 .. Len(s) + 1}
    <3>1. CASE x = name BY <1>3, <1>4, <3>1
    <3>2. CASE x \in ToSet(s)
      <4>1. PICK i \in 1 .. Len(s) : x = s[i] BY <1>3, <3>2 DEF ToSet
      <4>2. i \in 1 .. Len(s) + 1 /\ x = t[i] BY <1>3, <1>4, <4>1
      <4> QED BY <4>2
    <3> QED BY <3>1, <3>2 DEF T
  <2> QED BY <2>1, <2>2, <2>3
<1>7. IsInjective(t)
  <2>1. \A i, j \in 1 .. Len(s) : s[i] = s[j] => i = j BY <1>3 DEF IsInjective
  <2>2. ASSUME NEW i \in 1 .. Len(s) + 1, NEW j \in 1 .. Len(s) + 1, t[i] = t[j] PROVE i = j
    <3>1. CASE i \in 1 .. Len(s) /\ j \in 1 .. Len(s) BY <1>4, <2>1, <2>2, <3>1
    <3>2. CASE i = Len(s) + 1 /\ j \in 1 .. Len(s) BY <1>4, <1>5, <2>2, <3>2
    <3>3. CASE j = Len(s) + 1 /\ i \in 1 .. Len(s) BY <1>4, <1>5, <2>2, <3>3
    <3>4. CASE i = Len(s) + 1 /\ j = Len(s) + 1 BY <3>4
    <3> QED BY <1>3, <3>1, <3>2, <3>3, <3>4
  <2> QED BY <1>4, <2>2 DEF IsInjective
<1>8. IsSequence(t) BY <1>4, <1>6 DEF IsSequence
<1> QED BY <1>3, <1>4, <1>6, <1>7, <1>8 DEF T, t

\* The memo takes a result: a full queue gives up one entry, and that entry
\* leaves both the queue and the map.
LEMMA InsertKeeps ==
  ASSUME MemoInv, NEW name, NEW found, Insert(name, found)
  PROVE  MemoInv'
<1> DEFINE q == Queue(name)
           other == IF q = "direct" THEN "prefixed" ELSE "direct"
           full == Len(order[q]) >= Quota(q)
           base == IF full THEN Evict(order[q], memo) ELSE [queue |-> order[q], entries |-> memo]
<1>1. q \in {"direct", "prefixed"} BY DEF Queue
<1>2. other \in {"direct", "prefixed"} /\ other # q
      /\ \A r \in {"direct", "prefixed"} : r = q \/ r = other
  BY <1>1
<1>3. Quota(q) \in Nat \ {0} BY CapacityAssumption DEF Quota
<1>4. /\ IsSequence(order[q]) /\ IsInjective(order[q]) /\ Len(order[q]) <= Quota(q)
      /\ \A k \in ToSet(order[q]) : Queue(k) = q
      /\ \A k \in ToSet(order[other]) : Queue(k) = other
      /\ DOMAIN memo = ToSet(order[q]) \cup ToSet(order[other])
  BY <1>1, <1>2 DEF MemoInv, QueuesNameEntries
<1>5. CASE name \in DOMAIN memo
  <2>1. memo' = [memo EXCEPT ![name] = [result |-> found, referenced |-> TRUE]] /\ order' = order
    BY <1>5 DEF Insert
  <2>2. DOMAIN memo' = DOMAIN memo BY <2>1
  <2> QED BY <2>1, <2>2 DEF MemoInv, QueuesNameEntries
<1>6. CASE name \notin DOMAIN memo
  <2>1. /\ memo' = [k \in {name} \cup DOMAIN base.entries |->
                      IF k = name THEN [result |-> found, referenced |-> FALSE] ELSE base.entries[k]]
        /\ order' = [order EXCEPT ![q] = Append(base.queue, name)]
    BY <1>6 DEF Insert
  <2>2. DOMAIN memo' = {name} \cup DOMAIN base.entries
    BY <2>1
  <2>3. \E gone \in SUBSET ToSet(order[q]) :
          /\ IsSequence(base.queue) /\ IsInjective(base.queue)
          /\ Len(base.queue) + 1 <= Quota(q)
          /\ ToSet(base.queue) = ToSet(order[q]) \ gone
          /\ DOMAIN base.entries = DOMAIN memo \ gone
    <3>1. Len(order[q]) \in Nat BY <1>4 DEF IsSequence
    <3>2. CASE ~full
      <4>1. base.queue = order[q] /\ base.entries = memo BY <3>2
      <4>2. Len(order[q]) + 1 <= Quota(q) BY <1>3, <3>1, <3>2
      <4> WITNESS {} \in SUBSET ToSet(order[q])
      <4> QED BY <1>4, <4>1, <4>2
    <3>3. CASE full
      <4>1. base = Evict(order[q], memo) BY <3>3
      <4>2. Len(order[q]) > 0 BY <1>3, <3>1, <3>3
      <4>3. order[q] \in Seq(ToSet(order[q])) BY <1>4 DEF IsSequence
      <4> HIDE DEF base
      <4>4. PICK victim \in ToSet(order[q]) :
              /\ base.queue \in Seq(ToSet(order[q])) /\ Len(base.queue) = Len(order[q]) - 1
              /\ IsInjective(base.queue)
              /\ ToSet(base.queue) = ToSet(order[q]) \ {victim}
              /\ DOMAIN base.entries = DOMAIN memo \ {victim}
        BY <1>4, <4>1, <4>2, <4>3, EvictFacts
      <4>5. IsSequence(base.queue) BY <4>4, SelfSequence
      <4>6. Len(base.queue) + 1 <= Quota(q) BY <1>3, <1>4, <3>1, <4>4
      <4> WITNESS {victim} \in SUBSET ToSet(order[q])
      <4> QED BY <4>4, <4>5, <4>6
    <3> QED BY <3>2, <3>3
  <2>4. PICK gone \in SUBSET ToSet(order[q]) :
          /\ IsSequence(base.queue) /\ IsInjective(base.queue)
          /\ Len(base.queue) + 1 <= Quota(q)
          /\ ToSet(base.queue) = ToSet(order[q]) \ gone
          /\ DOMAIN base.entries = DOMAIN memo \ gone
    BY <2>3
  <2> HIDE DEF base
  <2> DEFINE queue == Append(base.queue, name)
  <2>5. name \notin ToSet(base.queue) BY <1>4, <1>6, <2>4
  <2>6. /\ IsSequence(queue) /\ IsInjective(queue)
        /\ ToSet(queue) = ToSet(base.queue) \cup {name}
        /\ Len(queue) = Len(base.queue) + 1
    BY <2>4, <2>5, AppendFacts
  <2>7. order'[q] = queue /\ order'[other] = order[other]
        /\ DOMAIN order' = {"direct", "prefixed"}
        /\ order' = [r \in {"direct", "prefixed"} |-> order'[r]]
    BY <1>1, <1>2, <2>1 DEF MemoInv
  <2> HIDE DEF queue, other
  <2>8. \A k \in ToSet(queue) : Queue(k) = q
    BY <1>4, <2>4, <2>6
  <2>9. DOMAIN memo' = ToSet(queue) \cup ToSet(order[other])
    <3>1. gone \cap ToSet(order[other]) = {} BY <1>2, <1>4
    <3> QED BY <1>4, <2>2, <2>4, <2>6, <3>1
  <2>10. IsSequence(order[other]) /\ IsInjective(order[other]) /\ Len(order[other]) <= Quota(other)
    BY <1>2 DEF MemoInv, QueuesNameEntries
  <2>11. Len(queue) <= Quota(q) BY <2>4, <2>6
  <2>12. \A r \in {"direct", "prefixed"} :
           /\ IsSequence(order'[r]) /\ IsInjective(order'[r]) /\ Len(order'[r]) <= Quota(r)
           /\ \A k \in ToSet(order'[r]) : Queue(k) = r
    BY <1>2, <1>4, <2>6, <2>7, <2>8, <2>10, <2>11
  <2>13. DOMAIN memo' = ToSet(order'.direct) \cup ToSet(order'.prefixed)
    <3>1. CASE q = "direct" BY <2>7, <2>9, <3>1 DEF other
    <3>2. CASE q = "prefixed" BY <2>7, <2>9, <3>2 DEF other
    <3> QED BY <1>1, <3>1, <3>2
  <2> QED BY <2>7, <2>12, <2>13 DEF MemoInv, QueuesNameEntries, IsSequence, Queue, Quota
<1> QED BY <1>5, <1>6

\* The queues of the memo name its entries, each once, and keep to their
\* quotas, for every search and every capacity of the memo.
THEOREM MemoQueuesNameEntries == SearchSpec => []QueuesNameEntries
<1>1. SearchInit => MemoInv
  <2> SUFFICES ASSUME SearchInit PROVE MemoInv OBVIOUS
  <2>1. order = [q \in {"direct", "prefixed"} |-> <<>>] /\ memo = <<>> BY DEF SearchInit
  <2>2. \A q \in {"direct", "prefixed"} : order[q] = <<>> BY <2>1
  <2>3. ToSet(<<>>) = {} /\ IsInjective(<<>>) /\ IsSequence(<<>>) /\ Len(<<>>) = 0
    BY DEF ToSet, IsInjective, IsSequence
  <2>4. \A q \in {"direct", "prefixed"} : Quota(q) \in Nat BY CapacityAssumption DEF Quota
  <2>5. DOMAIN memo = {} BY <2>1
  <2>6. DOMAIN order = {"direct", "prefixed"} /\ order = [q \in {"direct", "prefixed"} |-> order[q]]
    BY <2>1
  <2> QED BY <2>2, <2>3, <2>4, <2>5, <2>6 DEF MemoInv, QueuesNameEntries
<1>2. MemoInv /\ [SearchNext]_searchVars => MemoInv'
  <2> SUFFICES ASSUME MemoInv, [SearchNext]_searchVars PROVE MemoInv' OBVIOUS
  <2>1. CASE Hit
    <3>1. DOMAIN memo' = DOMAIN memo /\ order' = order BY <2>1 DEF Hit
    <3> QED BY <3>1 DEF MemoInv, QueuesNameEntries
  <2>2. CASE Finish
    BY <2>2, InsertKeeps DEF Finish
  <2>3. CASE Enter \/ Batch \/ Visit \/ SearchDirect \/ SearchOffloaded \/ Price \/ NextBatch
    <3>1. UNCHANGED <<memo, order>>
      BY <2>3 DEF Enter, Batch, Visit, SearchDirect, SearchOffloaded, Price, NextBatch
    <3> QED BY <3>1 DEF MemoInv, QueuesNameEntries
  <2>4. CASE UNCHANGED searchVars
    BY <2>4 DEF searchVars, MemoInv, QueuesNameEntries
  <2> QED BY <2>1, <2>2, <2>3, <2>4 DEF SearchNext
<1>3. MemoInv => QueuesNameEntries BY DEF MemoInv
<1> QED BY <1>1, <1>2, <1>3, PTL DEF SearchSpec

-----------------------------------------------------------------------------
(***************************************************************************)
(* The frontier of the schedule search: what one schedule is dropped for   *)
(* stays true below every parent, up to the objective of the root.         *)
(***************************************************************************)

\* The proof bytes of a schedule below parents that add n nonce bits.
CostBelow(c, n) == c.bytes + ((c.nonce + n) + 7) \div 8

\* The bytes a parent's nonce bits cost, by the bits left in the last byte.
LEMMA JumpFacts ==
  ASSUME NEW c, c.bytes \in Nat, c.nonce \in Nat, NEW n \in Nat
  PROVE  /\ Jump(c) \in 1 .. 8 /\ ProofBytes(c) \in Nat
         /\ CostBelow(c, n) = ProofBytes(c) + (n + 8 - Jump(c)) \div 8
<1> DEFINE x == c.nonce
           q == x \div 8
           r == x % 8
<1>1. q \in Int /\ r \in 0 .. 7 /\ x = 8 * q + r /\ q >= 0 OBVIOUS
<1> HIDE DEF q, r
<1>2. Jump(c) = IF r = 0 THEN 1 ELSE IF r = 1 THEN 8 ELSE 9 - r BY DEF Jump, r
<1>3. (x + 7) \div 8 = q + (IF r = 0 THEN 0 ELSE 1) BY <1>1
<1>4. ((x + n) + 7) \div 8 = q + (r + n + 7) \div 8 BY <1>1
<1>5. (r + n + 7) \div 8 = (IF r = 0 THEN 0 ELSE 1) + (n + 8 - Jump(c)) \div 8 BY <1>1, <1>2
<1>6. Jump(c) \in 1 .. 8 BY <1>1, <1>2
<1>7. (r + n + 7) \div 8 \in Int /\ (n + 8 - Jump(c)) \div 8 \in Int BY <1>1, <1>6
<1>8. ProofBytes(c) = c.bytes + (q + (IF r = 0 THEN 0 ELSE 1)) BY <1>3 DEF ProofBytes
<1>9. CostBelow(c, n) = c.bytes + (q + ((IF r = 0 THEN 0 ELSE 1) + (n + 8 - Jump(c)) \div 8))
  BY <1>4, <1>5 DEF CostBelow
<1> DEFINE t == (n + 8 - Jump(c)) \div 8
<1>10. t \in Int BY <1>7
<1> HIDE DEF t, x
<1>11. CostBelow(c, n) = ProofBytes(c) + t
  <2>1. CASE r = 0 BY <1>1, <1>8, <1>9, <1>10, <2>1 DEF t
  <2>2. CASE r # 0 BY <1>1, <1>8, <1>9, <1>10, <2>2 DEF t
  <2> QED BY <2>1, <2>2
<1> QED BY <1>1, <1>6, <1>8, <1>11 DEF t

\* Two schedules gain their bytes at most one apart.
LEMMA StepFacts ==
  ASSUME NEW j \in 1 .. 8, NEW k \in 1 .. 8, NEW n \in Nat
  PROVE  /\ (n + 8 - j) \div 8 \in Int
         /\ (n + 8 - j) \div 8 <= (n + 8 - k) \div 8 + 1
         /\ j >= k => (n + 8 - j) \div 8 <= (n + 8 - k) \div 8
         /\ (0 + 8 - j) \div 8 = 0
         /\ (j + 8 - j) \div 8 = 1
         /\ j < k => (j + 8 - k) \div 8 = 0
OBVIOUS

\* Proof bytes and jump describe every alignment (parent_alignment_order): the
\* two comparisons of the frontier hold exactly if one suffix is no dearer,
\* or cheaper, below every parent, whatever nonce bits it adds.
THEOREM AlignmentOrderExact ==
  ASSUME NEW c, NEW d, c.bytes \in Nat, c.nonce \in Nat, d.bytes \in Nat, d.nonce \in Nat
  PROVE  /\ NeverWorse(c, d) <=> \A n \in Nat : CostBelow(c, n) <= CostBelow(d, n)
         /\ StrictlyBetter(c, d) <=> \A n \in Nat : CostBelow(c, n) < CostBelow(d, n)
<1> DEFINE step(j, n) == (n + 8 - j) \div 8
           b == ProofBytes(c)
           e == ProofBytes(d)
           j == Jump(c)
           k == Jump(d)
<1>1. /\ j \in 1 .. 8 /\ k \in 1 .. 8 /\ b \in Nat /\ e \in Nat
      /\ \A n \in Nat : CostBelow(c, n) = b + step(j, n) /\ CostBelow(d, n) = e + step(k, n)
  <2>1. \A n \in Nat : Jump(c) \in 1 .. 8 /\ ProofBytes(c) \in Nat /\ CostBelow(c, n) = b + step(j, n)
    BY JumpFacts
  <2>2. \A n \in Nat : Jump(d) \in 1 .. 8 /\ ProofBytes(d) \in Nat /\ CostBelow(d, n) = e + step(k, n)
    BY JumpFacts
  <2> QED BY <2>1, <2>2
<1>2. /\ NeverWorse(c, d) <=> (b < e \/ (b = e /\ j >= k))
      /\ StrictlyBetter(c, d) <=> (b < e /\ (b + 1 < e \/ j >= k))
  BY DEF NeverWorse, StrictlyBetter
<1> HIDE DEF b, e, j, k
<1>3. \A n \in Nat : /\ step(j, n) \in Int /\ step(k, n) \in Int
                     /\ step(j, n) <= step(k, n) + 1
                     /\ j >= k => step(j, n) <= step(k, n)
  BY <1>1, StepFacts
<1>4. /\ step(j, 0) = 0 /\ step(k, 0) = 0 /\ step(j, j) = 1
      /\ j < k => step(k, j) = 0
  BY <1>1, StepFacts
<1> HIDE DEF step
<1>5. (b < e \/ (b = e /\ j >= k)) <=> \A n \in Nat : b + step(j, n) <= e + step(k, n)
  <2>1. ASSUME b < e \/ (b = e /\ j >= k), NEW n \in Nat PROVE b + step(j, n) <= e + step(k, n)
    BY <1>1, <1>3, <2>1
  <2>2. ASSUME \A n \in Nat : b + step(j, n) <= e + step(k, n) PROVE b < e \/ (b = e /\ j >= k)
    <3>1. b + step(j, 0) <= e + step(k, 0) BY <2>2
    <3>2. b + step(j, j) <= e + step(k, j) BY <1>1, <2>2
    <3> QED BY <1>1, <1>4, <3>1, <3>2
  <2> QED BY <2>1, <2>2
<1>6. (b < e /\ (b + 1 < e \/ j >= k)) <=> \A n \in Nat : b + step(j, n) < e + step(k, n)
  <2>1. ASSUME b < e, b + 1 < e \/ j >= k, NEW n \in Nat PROVE b + step(j, n) < e + step(k, n)
    BY <1>1, <1>3, <2>1
  <2>2. ASSUME \A n \in Nat : b + step(j, n) < e + step(k, n)
        PROVE  b < e /\ (b + 1 < e \/ j >= k)
    <3>1. b + step(j, 0) < e + step(k, 0) BY <2>2
    <3>2. b + step(j, j) < e + step(k, j) BY <1>1, <2>2
    <3> QED BY <1>1, <1>4, <3>1, <3>2
  <2> QED BY <2>1, <2>2
<1> QED BY <1>1, <1>2, <1>5, <1>6

\* The smaller and the larger of two numbers.
LEMMA TwoNumbers ==
  ASSUME NEW a \in Nat, NEW b \in Nat
  PROVE  /\ Min({a, b}) = IF a <= b THEN a ELSE b
         /\ Max({a, b}) = IF a <= b THEN b ELSE a
<1>1. ASSUME NEW m \in {a, b}, \A y \in {a, b} : m <= y PROVE m = IF a <= b THEN a ELSE b
  BY <1>1
<1>2. \E m \in {a, b} : \A y \in {a, b} : m <= y OBVIOUS
<1>3. ASSUME NEW m \in {a, b}, \A y \in {a, b} : m >= y PROVE m = IF a <= b THEN b ELSE a
  BY <1>3
<1>4. \E m \in {a, b} : \A y \in {a, b} : m >= y OBVIOUS
<1>5. Min({a, b}) \in {a, b} /\ \A y \in {a, b} : Min({a, b}) <= y BY <1>2 DEF Min
<1>6. Max({a, b}) \in {a, b} /\ \A y \in {a, b} : Max({a, b}) >= y BY <1>4 DEF Max
<1> QED BY <1>1, <1>3, <1>5, <1>6

\* A length some padded length reaches.
Reached(n) == n \in Nat /\ \E p \in PaddedLengths : p >= n

\* Padding keeps the order of lengths.
LEMMA PaddedMonotone ==
  ASSUME NEW a, NEW b, Reached(a), Reached(b)
  PROVE  /\ Padded(a) \in Nat /\ Padded(a) >= a
         /\ a <= b => Padded(a) <= Padded(b)
<1>1. \A n : Reached(n) => /\ Padded(n) \in PaddedLengths /\ Padded(n) >= n
                           /\ \A p \in PaddedLengths : p >= n => Padded(n) <= p
  <2> TAKE n
  <2> SUFFICES ASSUME Reached(n)
               PROVE  /\ Padded(n) \in PaddedLengths /\ Padded(n) >= n
                      /\ \A p \in PaddedLengths : p >= n => Padded(n) <= p
    OBVIOUS
  <2> DEFINE T == {p \in PaddedLengths : p >= n}
  <2>1. T \in SUBSET Nat /\ T # {} BY PaddedAssumption DEF Reached
  <2>2. Min(T) \in T /\ \A y \in T : Min(T) <= y BY <2>1, MinOfNat
  <2> QED BY <2>2 DEF Padded
<1>2. /\ Padded(a) \in Nat /\ Padded(b) \in Nat /\ Padded(a) >= a /\ Padded(b) >= b
      /\ Padded(b) \in PaddedLengths
  BY <1>1, PaddedAssumption
<1>3. a <= b => Padded(b) >= a BY <1>2 DEF Reached
<1> QED BY <1>1, <1>2, <1>3

\* A schedule's numbers, in the range the padded lengths cover.
IsSchedule(c) ==
  /\ c.bytes \in Nat /\ c.nonce \in Nat /\ c.out \in Nat
  /\ Reached(c.setup) /\ Reached(c.direct)
  /\ c.folds \in Seq(Nat)

\* A fold candidate's numbers.
IsFold(f) ==
  /\ f.bytes \in Nat /\ f.nonce \in Nat /\ f.next \in Nat
  /\ Reached(f.setup) /\ Reached(f.natural)

\* What a parent pays for a suffix beside the suffix itself.
IsKey(k) == k.dim \in Nat /\ k.outer \in Nat /\ k.stage3 \in Nat /\ k.vars \in Nat

\* No setup budget is in force.
Unbudgeted == SetupAware => input.budget = 0

\* A parent adds the same to the price of every suffix with the same key.
LEMMA PrependFacts ==
  ASSUME NEW i, NEW off \in BOOLEAN, NEW c, IsSchedule(c), IsFold(Fold(i)), i \in Nat, IsKey(KeyOf(c))
  PROVE  LET f == Fold(i)
             k == KeyOf(c)
             p == Prepend(i, off, c)
         IN  /\ IsSchedule(p)
             /\ Len(p.folds) = Len(c.folds) + 1
             /\ \A n \in Nat : CostBelow(p, n)
                  = (f.bytes + k.dim + k.outer + k.stage3) + CostBelow(c, n + (f.nonce + k.vars))
             /\ p.setup = (IF f.setup <= c.setup THEN c.setup ELSE f.setup)
             /\ p.direct = IF off THEN c.direct ELSE f.natural
             /\ p.out = IF off THEN c.out ELSE f.next
<1> DEFINE f == Fold(i)
           k == KeyOf(c)
           p == Prepend(i, off, c)
<1>1. /\ f.bytes \in Nat /\ f.nonce \in Nat /\ f.next \in Nat /\ Reached(f.setup) /\ Reached(f.natural)
      /\ k.dim \in Nat /\ k.outer \in Nat /\ k.stage3 \in Nat /\ k.vars \in Nat
      /\ c.bytes \in Nat /\ c.nonce \in Nat /\ c.out \in Nat
      /\ Reached(c.setup) /\ Reached(c.direct) /\ c.folds \in Seq(Nat)
  BY DEF IsSchedule, IsFold, IsKey
<1>2. /\ p.direct = IF off THEN c.direct ELSE f.natural
      /\ p.out = IF off THEN c.out ELSE f.next
      /\ p.bytes = c.bytes + f.bytes + k.dim + k.outer + k.stage3
      /\ p.nonce = c.nonce + f.nonce + k.vars
      /\ p.setup = Max({f.setup, c.setup})
      /\ p.folds = <<i>> \o c.folds
  BY DEF Prepend
<1> HIDE DEF f, k, p
<1>3. f.setup \in Nat /\ c.setup \in Nat BY <1>1 DEF Reached
<1>4. p.setup = (IF f.setup <= c.setup THEN c.setup ELSE f.setup) BY <1>2, <1>3, TwoNumbers
<1>5. Reached(p.setup) /\ Reached(p.direct) BY <1>1, <1>2, <1>4
<1>6. p.folds \in Seq(Nat) /\ Len(p.folds) = Len(c.folds) + 1 BY <1>1, <1>2
<1>a. /\ f.bytes \in Nat /\ f.nonce \in Nat /\ k.dim \in Nat /\ k.outer \in Nat /\ k.stage3 \in Nat
      /\ k.vars \in Nat /\ c.bytes \in Nat /\ c.nonce \in Nat
  BY <1>1
<1>b. p.bytes = c.bytes + f.bytes + k.dim + k.outer + k.stage3 BY <1>2
<1>c. p.nonce = c.nonce + f.nonce + k.vars BY <1>2
<1>7. p.bytes \in Nat /\ p.nonce \in Nat /\ p.out \in Nat
  <2>1. p.bytes \in Nat BY <1>a, <1>b
  <2>2. p.nonce \in Nat BY <1>a, <1>c
  <2>3. p.out \in Nat BY <1>1, <1>2
  <2> QED BY <2>1, <2>2, <2>3
<1>8. ASSUME NEW n \in Nat
      PROVE  CostBelow(p, n)
                = (f.bytes + k.dim + k.outer + k.stage3) + CostBelow(c, n + (f.nonce + k.vars))
  <2>1. p.nonce + n + 7 = c.nonce + (n + (f.nonce + k.vars)) + 7 BY <1>a, <1>c
  <2> DEFINE z == (p.nonce + n + 7) \div 8
  <2>2. z \in Int BY <1>7
  <2>3. z = (c.nonce + (n + (f.nonce + k.vars)) + 7) \div 8 BY <2>1
  <2> HIDE DEF z
  <2>4. CostBelow(p, n) = p.bytes + z BY DEF CostBelow, z
  <2>5. CostBelow(c, n + (f.nonce + k.vars)) = c.bytes + z BY <2>3 DEF CostBelow
  <2> QED BY <1>a, <1>b, <2>2, <2>4, <2>5
<1> QED BY <1>2, <1>4, <1>5, <1>6, <1>7, <1>8 DEF f, k, p, IsSchedule

\* What the frontier's dominance says of a schedule that is dropped, without
\* the descriptors that break ties.
PayloadLeq(c, d) ==
  /\ AdmitsEveryParentOf(c, d)
  /\ input.policy = "Envelope" => EnvelopeScore(c) <= EnvelopeScore(d)
  /\ \/ StrictlyBetter(c, d)
     \/ NeverWorse(c, d) /\ EnvelopeScore(c) <= EnvelopeScore(d)

SetupLeq(c, d) ==
  /\ AdmitsEveryParentOf(c, d)
  /\ input.policy = "Envelope" => EnvelopeScore(c) <= EnvelopeScore(d)
  /\ \/ Capacity(c) < Capacity(d)
     \/ StrictlyBetter(c, d)
     \/ NeverWorse(c, d) /\ IF input.policy = "Envelope" THEN c.out <= d.out ELSE c.setup <= d.setup

\* The frontier drops nothing that is not worse in these orders.
LEMMA DominanceMeans ==
  ASSUME NEW c, NEW d, IsSchedule(c), IsSchedule(d)
  PROVE  /\ PayloadDominates(c, d) => PayloadLeq(c, d)
         /\ SetupDominates(c, d) => SetupLeq(c, d)
<1>1. PayloadDominates(c, d) => PayloadLeq(c, d) BY Zenon DEF PayloadDominates, PayloadLeq
<1>2. c.out \in Nat /\ d.out \in Nat BY DEF IsSchedule
<1>3. SetupDominates(c, d) => SetupLeq(c, d) BY <1>2 DEF SetupDominates, SetupLeq
<1> QED BY <1>1, <1>3

\* One fold in front of two schedules keeps the order of their costs, of
\* their padded setups and of their admission classes.
LEMMA PrependKeeps ==
  ASSUME NEW i \in Nat, NEW off \in BOOLEAN, NEW c, NEW d, IsSchedule(c), IsSchedule(d),
         IsFold(Fold(i)), IsKey(KeyOf(c)), KeyOf(c) = KeyOf(d)
  PROVE  LET p == Prepend(i, off, c)
             r == Prepend(i, off, d)
         IN  /\ NeverWorse(c, d) => NeverWorse(p, r)
             /\ StrictlyBetter(c, d) => StrictlyBetter(p, r)
             /\ EnvelopeScore(c) <= EnvelopeScore(d) => EnvelopeScore(p) <= EnvelopeScore(r)
             /\ c.setup <= d.setup => p.setup <= r.setup
             /\ AdmitsEveryParentOf(c, d) => AdmitsEveryParentOf(p, r)
<1> DEFINE f == Fold(i)
           k == KeyOf(c)
           p == Prepend(i, off, c)
           r == Prepend(i, off, d)
           x == f.bytes + k.dim + k.outer + k.stage3
           y == f.nonce + k.vars
<1>1. /\ IsSchedule(p) /\ Len(p.folds) = Len(c.folds) + 1
      /\ \A n \in Nat : CostBelow(p, n) = x + CostBelow(c, n + y)
      /\ p.setup = (IF f.setup <= c.setup THEN c.setup ELSE f.setup)
      /\ p.direct = IF off THEN c.direct ELSE f.natural
  BY PrependFacts
<1>2. /\ IsSchedule(r) /\ Len(r.folds) = Len(d.folds) + 1
      /\ \A n \in Nat : CostBelow(r, n) = x + CostBelow(d, n + y)
      /\ r.setup = (IF f.setup <= d.setup THEN d.setup ELSE f.setup)
      /\ r.direct = IF off THEN d.direct ELSE f.natural
  BY PrependFacts
<1>3. x \in Nat /\ y \in Nat BY DEF IsFold, IsKey
<1>4. /\ c.bytes \in Nat /\ c.nonce \in Nat /\ d.bytes \in Nat /\ d.nonce \in Nat
      /\ p.bytes \in Nat /\ p.nonce \in Nat /\ r.bytes \in Nat /\ r.nonce \in Nat
  BY <1>1, <1>2 DEF IsSchedule
<1>5. /\ Reached(c.setup) /\ Reached(d.setup) /\ Reached(f.setup)
      /\ Reached(c.direct) /\ Reached(d.direct) /\ Reached(f.natural)
      /\ Reached(p.setup) /\ Reached(r.setup)
  BY <1>1, <1>2 DEF IsSchedule, IsFold
<1> HIDE DEF f, k, p, r, x, y
<1>6. \A n \in Nat : CostBelow(c, n) \in Int /\ CostBelow(d, n) \in Int
  BY <1>4 DEF CostBelow
<1>7. NeverWorse(c, d) => NeverWorse(p, r)
  <2> SUFFICES ASSUME NeverWorse(c, d) PROVE NeverWorse(p, r) OBVIOUS
  <2>1. \A n \in Nat : CostBelow(c, n) <= CostBelow(d, n) BY <1>4, AlignmentOrderExact
  <2>2. \A n \in Nat : CostBelow(p, n) <= CostBelow(r, n)
    <3> TAKE n \in Nat
    <3>1. n + y \in Nat BY <1>3
    <3>2. CostBelow(c, n + y) <= CostBelow(d, n + y) BY <2>1, <3>1
    <3> QED BY <1>1, <1>2, <1>3, <1>6, <3>1, <3>2
  <2> QED BY <1>4, <2>2, AlignmentOrderExact
<1>8. StrictlyBetter(c, d) => StrictlyBetter(p, r)
  <2> SUFFICES ASSUME StrictlyBetter(c, d) PROVE StrictlyBetter(p, r) OBVIOUS
  <2>1. \A n \in Nat : CostBelow(c, n) < CostBelow(d, n) BY <1>4, AlignmentOrderExact
  <2>2. \A n \in Nat : CostBelow(p, n) < CostBelow(r, n)
    <3> TAKE n \in Nat
    <3>1. n + y \in Nat BY <1>3
    <3>2. CostBelow(c, n + y) < CostBelow(d, n + y) BY <2>1, <3>1
    <3> QED BY <1>1, <1>2, <1>3, <1>6, <3>1, <3>2
  <2> QED BY <1>4, <2>2, AlignmentOrderExact
<1>9. f.setup \in Nat /\ c.setup \in Nat /\ d.setup \in Nat /\ p.setup \in Nat /\ r.setup \in Nat
  BY <1>5 DEF Reached
<1>10. c.setup <= d.setup => p.setup <= r.setup BY <1>1, <1>2, <1>9
<1>11. EnvelopeScore(c) <= EnvelopeScore(d) => EnvelopeScore(p) <= EnvelopeScore(r)
  <2>1. CASE input.policy # "Envelope" BY <1>10, <2>1 DEF EnvelopeScore
  <2>2. CASE input.policy = "Envelope"
    <3> SUFFICES ASSUME Padded(c.setup) <= Padded(d.setup) PROVE Padded(p.setup) <= Padded(r.setup)
      BY <2>2 DEF EnvelopeScore
    <3>1. /\ Padded(d.setup) <= Padded(r.setup) /\ Padded(f.setup) <= Padded(r.setup)
          /\ Padded(c.setup) \in Nat /\ Padded(d.setup) \in Nat /\ Padded(r.setup) \in Nat
      <4>1. d.setup <= r.setup /\ f.setup <= r.setup BY <1>2, <1>9
      <4> QED BY <1>5, <4>1, PaddedMonotone
    <3>2. p.setup = c.setup \/ p.setup = f.setup BY <1>1
    <3> QED BY <3>1, <3>2
  <2> QED BY <2>1, <2>2
<1>12. AdmitsEveryParentOf(c, d) => AdmitsEveryParentOf(p, r)
  <2> SUFFICES ASSUME AdmitsEveryParentOf(c, d) PROVE AdmitsEveryParentOf(p, r) OBVIOUS
  <2>1. Depth(c) >= Depth(d) /\ Capacity(c) <= Capacity(d) BY DEF AdmitsEveryParentOf
  <2>2. Len(c.folds) \in Nat /\ Len(d.folds) \in Nat BY DEF IsSchedule
  <2>3. /\ Depth(c) = (IF 2 <= Len(c.folds) THEN 2 ELSE Len(c.folds))
        /\ Depth(d) = (IF 2 <= Len(d.folds) THEN 2 ELSE Len(d.folds))
        /\ Depth(p) = (IF 2 <= Len(p.folds) THEN 2 ELSE Len(p.folds))
        /\ Depth(r) = (IF 2 <= Len(r.folds) THEN 2 ELSE Len(r.folds))
    <3>1. /\ Len(c.folds) \in Nat /\ Len(d.folds) \in Nat /\ Len(p.folds) \in Nat
          /\ Len(r.folds) \in Nat /\ 2 \in Nat
      BY <1>1, <1>2, <2>2
    <3>2. \A n \in Nat : Min({2, n}) = IF 2 <= n THEN 2 ELSE n BY TwoNumbers
    <3> QED BY <3>1, <3>2 DEF Depth
  <2>4. Depth(p) >= Depth(r) BY <1>1, <1>2, <2>1, <2>2, <2>3
  <2>5. Capacity(p) <= Capacity(r)
    <3>1. CASE off BY <1>1, <1>2, <2>1, <3>1 DEF Capacity
    <3>2. CASE ~off
      <4>1. Padded(f.natural) \in Nat BY <1>5, PaddedMonotone
      <4> QED BY <1>1, <1>2, <3>2, <4>1 DEF Capacity
    <3> QED BY <3>1, <3>2
  <2> QED BY <2>4, <2>5 DEF AdmitsEveryParentOf
<1> QED BY <1>7, <1>8, <1>10, <1>11, <1>12 DEF p, r

\* Without a budget a parent that takes the worse of two schedules takes the
\* better one too, and the state's own limit drops neither.
LEMMA EdgeAdmits ==
  ASSUME NEW s, NEW i \in Nat, NEW off \in BOOLEAN, NEW c, NEW d, IsSchedule(c), IsSchedule(d),
         IsFold(Fold(i)), IsKey(KeyOf(c)), KeyOf(c) = KeyOf(d), Unbudgeted,
         Prefixed(s) => Reached(s.topology.prefix),
         AdmitsEveryParentOf(c, d), Prepend(i, off, d) \in EdgeSchedules(s, i, off, {d})
  PROVE  Prepend(i, off, c) \in EdgeSchedules(s, i, off, {c})
<1> DEFINE f == Fold(i)
           p == Prepend(i, off, c)
           r == Prepend(i, off, d)
<1>1. Admitted(s, f, off, d) /\ (Prefixed(s) => Len(r.folds) > 1 /\ Capacity(r) < Padded(s.topology.prefix))
  <2>1. r \in EdgeSchedules(s, i, off, {d}) OBVIOUS
  <2> HIDE DEF r
  <2> QED BY <2>1, Zenon DEF EdgeSchedules
<1>2. Depth(c) >= Depth(d) /\ Capacity(c) <= Capacity(d) BY DEF AdmitsEveryParentOf
<1>3. AdmitsEveryParentOf(p, r) BY PrependKeeps
<1>4. IsSchedule(p) /\ Len(p.folds) = Len(c.folds) + 1 BY PrependFacts
<1>5. IsSchedule(r) /\ Len(r.folds) = Len(d.folds) + 1 BY PrependFacts
<1>6. /\ Capacity(c) \in Nat /\ Capacity(d) \in Nat /\ Padded(f.natural) \in Nat
      /\ Capacity(p) \in Nat /\ Capacity(r) \in Nat
  BY <1>4, <1>5, PaddedMonotone DEF Capacity, IsSchedule, IsFold
<1> HIDE DEF p, r, f
<1>7. Len(c.folds) \in Nat /\ Len(d.folds) \in Nat BY DEF IsSchedule
<1>8. /\ Depth(c) = (IF 2 <= Len(c.folds) THEN 2 ELSE Len(c.folds))
      /\ Depth(d) = (IF 2 <= Len(d.folds) THEN 2 ELSE Len(d.folds))
  BY <1>7, TwoNumbers DEF Depth
<1>9. Admitted(s, f, off, c)
  <2>1. s.level = 0 /\ input.childFold => Depth(c) >= 1
    <3>1. s.level = 0 /\ input.childFold => Depth(d) >= 1 BY <1>1 DEF Admitted
    <3> QED BY <1>2, <1>7, <1>8, <3>1
  <2>2. off => Depth(c) >= 2 /\ Capacity(c) < Padded(f.natural)
    <3>1. off => Depth(d) >= 2 /\ Capacity(d) < Padded(f.natural) BY <1>1 DEF Admitted
    <3> QED BY <1>2, <1>6, <1>7, <1>8, <3>1
  <2>3. ~(SetupAware /\ input.budget > 0) BY DEF Unbudgeted
  <2> QED BY <2>1, <2>2, <2>3 DEF Admitted
<1>10. Prefixed(s) => Len(p.folds) > 1 /\ Capacity(p) < Padded(s.topology.prefix)
  <2> SUFFICES ASSUME Prefixed(s) PROVE Len(p.folds) > 1 /\ Capacity(p) < Padded(s.topology.prefix)
    OBVIOUS
  <2>1. Padded(s.topology.prefix) \in Nat BY PaddedMonotone
  <2>2. Capacity(p) <= Capacity(r) BY <1>3 DEF AdmitsEveryParentOf
  <2>3. Len(p.folds) > 1 BY <1>1, <1>2, <1>4, <1>5, <1>7, <1>8
  <2>4. Capacity(r) < Padded(s.topology.prefix) BY <1>1
  <2> QED BY <1>6, <2>1, <2>2, <2>3, <2>4
<1> QED BY <1>9, <1>10 DEF EdgeSchedules, p, f

\* A dominated suffix is never needed.  Whatever a parent is, if it extends
\* the dominated schedule it extends the dominating one, and the order it was
\* dropped for holds between the two again: an offloaded edge keeps each
\* order, a direct edge keeps the payload order and turns it into the setup
\* order.
THEOREM DominanceKeptByParents ==
  ASSUME NEW s, NEW i \in Nat, NEW off \in BOOLEAN, NEW c, NEW d, IsSchedule(c), IsSchedule(d),
         IsFold(Fold(i)), IsKey(KeyOf(c)), KeyOf(c) = KeyOf(d), Unbudgeted,
         Prefixed(s) => Reached(s.topology.prefix),
         Prepend(i, off, d) \in EdgeSchedules(s, i, off, {d})
  PROVE  LET p == Prepend(i, off, c)
             r == Prepend(i, off, d)
         IN  /\ Dominates("payload", c, d) \/ PayloadLeq(c, d) =>
                  p \in EdgeSchedules(s, i, off, {c}) /\ PayloadLeq(p, r) /\ (~off => SetupLeq(p, r))
             /\ off /\ (Dominates("setup", c, d) \/ SetupLeq(c, d)) =>
                  p \in EdgeSchedules(s, i, off, {c}) /\ SetupLeq(p, r)
<1> DEFINE p == Prepend(i, off, c)
           r == Prepend(i, off, d)
<1>1. /\ NeverWorse(c, d) => NeverWorse(p, r)
      /\ StrictlyBetter(c, d) => StrictlyBetter(p, r)
      /\ EnvelopeScore(c) <= EnvelopeScore(d) => EnvelopeScore(p) <= EnvelopeScore(r)
      /\ c.setup <= d.setup => p.setup <= r.setup
      /\ AdmitsEveryParentOf(c, d) => AdmitsEveryParentOf(p, r)
  BY PrependKeeps
<1>2. /\ p.direct = (IF off THEN c.direct ELSE Fold(i).natural)
      /\ p.out = (IF off THEN c.out ELSE Fold(i).next)
  BY PrependFacts
<1>3. /\ r.direct = (IF off THEN d.direct ELSE Fold(i).natural)
      /\ r.out = (IF off THEN d.out ELSE Fold(i).next)
  BY PrependFacts
<1>4. AdmitsEveryParentOf(c, d) => p \in EdgeSchedules(s, i, off, {c}) BY EdgeAdmits
<1>5. Fold(i).next \in Nat BY DEF IsFold
<1>6. /\ Dominates("payload", c, d) \/ PayloadLeq(c, d) => PayloadLeq(c, d)
      /\ Dominates("setup", c, d) \/ SetupLeq(c, d) => SetupLeq(c, d)
  BY DominanceMeans DEF Dominates
<1> HIDE DEF p, r
<1>7. ASSUME PayloadLeq(c, d)
      PROVE  p \in EdgeSchedules(s, i, off, {c}) /\ PayloadLeq(p, r) /\ (~off => SetupLeq(p, r))
  <2>1. AdmitsEveryParentOf(c, d) BY <1>7 DEF PayloadLeq
  <2>2. PayloadLeq(p, r) BY <1>1, <1>7 DEF PayloadLeq
  <2>3. ASSUME ~off PROVE SetupLeq(p, r)
    <3>1. p.out <= r.out BY <1>2, <1>3, <1>5, <2>3
    <3>2. input.policy # "Envelope" => (EnvelopeScore(p) <= EnvelopeScore(r) => p.setup <= r.setup)
      BY DEF EnvelopeScore
    <3> QED BY <2>2, <3>1, <3>2 DEF PayloadLeq, SetupLeq
  <2> QED BY <1>4, <2>1, <2>2, <2>3
<1>8. ASSUME off, SetupLeq(c, d)
      PROVE  p \in EdgeSchedules(s, i, off, {c}) /\ SetupLeq(p, r)
  <2>1. AdmitsEveryParentOf(c, d) BY <1>8 DEF SetupLeq
  <2>2. Capacity(p) = Capacity(c) /\ Capacity(r) = Capacity(d) BY <1>2, <1>3, <1>8 DEF Capacity
  <2>3. p.out = c.out /\ r.out = d.out BY <1>2, <1>3, <1>8
  <2>4. SetupLeq(p, r) BY <1>1, <1>8, <2>2, <2>3 DEF SetupLeq
  <2> QED BY <1>4, <2>1, <2>4
<1> QED BY <1>6, <1>7, <1>8 DEF p, r

\* Sequences of two numbers in lexical order.
LEMMA LexPairs ==
  ASSUME NEW a \in Nat, NEW b \in Nat, NEW x \in Nat, NEW y \in Nat,
         a < x \/ (a <= x /\ b <= y)
  PROVE  LexLeq(<<a, b>>, <<x, y>>)
<1>1. CASE a < x
  <2>1. 1 \in 1 .. Len(<<a, b>>) + 1 /\ 1 <= Len(<<x, y>>) OBVIOUS
  <2> QED BY <1>1, <2>1 DEF LexLeq, LexLess
<1>2. CASE a = x /\ b < y
  <2>1. 2 \in 1 .. Len(<<a, b>>) + 1 /\ 2 <= Len(<<x, y>>) OBVIOUS
  <2> QED BY <1>2, <2>1 DEF LexLeq, LexLess
<1>3. CASE a = x /\ b = y BY <1>3 DEF LexLeq
<1> QED BY <1>1, <1>2, <1>3

\* Three numbers.
LEMMA LexTriples ==
  ASSUME NEW a \in Nat, NEW b \in Nat, NEW c \in Nat, NEW x \in Nat, NEW y \in Nat, NEW z \in Nat,
         a <= x, a < x \/ b < y \/ (b <= y /\ c <= z)
  PROVE  LexLeq(<<a, b, c>>, <<x, y, z>>)
<1> DEFINE s == <<a, b, c>>
           t == <<x, y, z>>
<1>0. Len(s) = 3 /\ Len(t) = 3 OBVIOUS
<1>1. CASE a < x
  <2>1. 1 \in 1 .. Len(s) + 1 /\ 1 <= Len(t) BY <1>0
  <2> QED BY <1>1, <2>1 DEF LexLeq, LexLess
<1>2. CASE a = x /\ b < y
  <2>1. 2 \in 1 .. Len(s) + 1 /\ 2 <= Len(t) BY <1>0
  <2> QED BY <1>2, <2>1 DEF LexLeq, LexLess
<1>3. CASE a = x /\ b = y /\ c < z
  <2>1. 3 \in 1 .. Len(s) + 1 /\ 3 <= Len(t) BY <1>0
  <2> QED BY <1>3, <2>1 DEF LexLeq, LexLess
<1>4. CASE a = x /\ b = y /\ c = z BY <1>4 DEF LexLeq
<1> QED BY <1>1, <1>2, <1>3, <1>4

\* Four numbers.
LEMMA LexFours ==
  ASSUME NEW a \in Nat, NEW b \in Nat, NEW c \in Nat, NEW d \in Nat,
         NEW w \in Nat, NEW x \in Nat, NEW y \in Nat, NEW z \in Nat,
         a <= w, b <= x, b < x \/ c < y \/ (c <= y /\ d <= z)
  PROVE  LexLeq(<<a, b, c, d>>, <<w, x, y, z>>)
<1> DEFINE s == <<a, b, c, d>>
           t == <<w, x, y, z>>
<1>0. Len(s) = 4 /\ Len(t) = 4 OBVIOUS
<1>1. CASE a < w
  <2>1. 1 \in 1 .. Len(s) + 1 /\ 1 <= Len(t) BY <1>0
  <2> QED BY <1>1, <2>1 DEF LexLeq, LexLess
<1>2. CASE a = w /\ b < x
  <2>1. 2 \in 1 .. Len(s) + 1 /\ 2 <= Len(t) BY <1>0
  <2> QED BY <1>2, <2>1 DEF LexLeq, LexLess
<1>3. CASE a = w /\ b = x /\ c < y
  <2>1. 3 \in 1 .. Len(s) + 1 /\ 3 <= Len(t) BY <1>0
  <2> QED BY <1>3, <2>1 DEF LexLeq, LexLess
<1>4. CASE a = w /\ b = x /\ c = y /\ d < z
  <2>1. 4 \in 1 .. Len(s) + 1 /\ 4 <= Len(t) BY <1>0
  <2> QED BY <1>4, <2>1 DEF LexLeq, LexLess
<1>5. CASE a = w /\ b = x /\ c = y /\ d = z BY <1>5 DEF LexLeq
<1> QED BY <1>1, <1>2, <1>3, <1>4, <1>5

\* At the root a dominating schedule has no worse an objective: of the
\* payload order under the payload policy, of the setup order under the
\* other two.
THEOREM DominanceKeepsObjective ==
  ASSUME NEW c, NEW d, IsSchedule(c), IsSchedule(d)
  PROVE  /\ input.policy = "Payload" /\ PayloadLeq(c, d) => LexLeq(ObjectiveOf(c), ObjectiveOf(d))
         /\ SetupAware /\ SetupLeq(c, d) => LexLeq(ObjectiveOf(c), ObjectiveOf(d))
<1>1. /\ ProofBytes(c) \in Nat /\ ProofBytes(d) \in Nat
      /\ Capacity(c) \in Nat /\ Capacity(d) \in Nat /\ Padded(c.setup) \in Nat /\ Padded(d.setup) \in Nat
      /\ c.setup \in Nat /\ d.setup \in Nat /\ c.out \in Nat /\ d.out \in Nat
  <2>1. Reached(c.setup) /\ Reached(d.setup) /\ Reached(c.direct) /\ Reached(d.direct) BY DEF IsSchedule
  <2>2. /\ Capacity(c) \in Nat /\ Capacity(d) \in Nat /\ Padded(c.setup) \in Nat
        /\ Padded(d.setup) \in Nat
    BY <2>1, PaddedMonotone DEF Capacity
  <2>3. c.bytes \in Nat /\ d.bytes \in Nat /\ c.nonce \in Nat /\ d.nonce \in Nat BY DEF IsSchedule
  <2>4. ProofBytes(c) \in Nat /\ ProofBytes(d) \in Nat BY <2>3, JumpFacts
  <2>5. c.setup \in Nat /\ d.setup \in Nat /\ c.out \in Nat /\ d.out \in Nat
    BY <2>1 DEF Reached, IsSchedule
  <2> QED BY <2>2, <2>4, <2>5
<1>2. /\ StrictlyBetter(c, d) => ProofBytes(c) < ProofBytes(d)
      /\ NeverWorse(c, d) => ProofBytes(c) <= ProofBytes(d)
  BY <1>1 DEF StrictlyBetter, NeverWorse
<1>3. ASSUME input.policy = "Payload", PayloadLeq(c, d) PROVE LexLeq(ObjectiveOf(c), ObjectiveOf(d))
  <2>1. ObjectiveOf(c) = <<ProofBytes(c), c.setup>> /\ ObjectiveOf(d) = <<ProofBytes(d), d.setup>>
    BY <1>3 DEF ObjectiveOf, Objective
  <2>2. ProofBytes(c) < ProofBytes(d) \/ (ProofBytes(c) <= ProofBytes(d) /\ c.setup <= d.setup)
    BY <1>2, <1>3 DEF PayloadLeq, EnvelopeScore
  <2> QED BY <1>1, <2>1, <2>2, LexPairs
<1>4. ASSUME input.policy = "SetupFirst", SetupLeq(c, d) PROVE LexLeq(ObjectiveOf(c), ObjectiveOf(d))
  <2>1. /\ ObjectiveOf(c) = <<Capacity(c), ProofBytes(c), c.setup>>
        /\ ObjectiveOf(d) = <<Capacity(d), ProofBytes(d), d.setup>>
    BY <1>4 DEF ObjectiveOf, Objective
  <2>2. Capacity(c) <= Capacity(d) BY <1>4 DEF SetupLeq, AdmitsEveryParentOf
  <2>3. \/ Capacity(c) < Capacity(d)
        \/ ProofBytes(c) < ProofBytes(d) \/ (ProofBytes(c) <= ProofBytes(d) /\ c.setup <= d.setup)
    BY <1>2, <1>4 DEF SetupLeq
  <2> QED BY <1>1, <2>1, <2>2, <2>3, LexTriples, SMTT(30)
<1>5. ASSUME input.policy = "Envelope", SetupLeq(c, d) PROVE LexLeq(ObjectiveOf(c), ObjectiveOf(d))
  <2>1. /\ ObjectiveOf(c) = <<Padded(c.setup), Capacity(c), ProofBytes(c), c.out>>
        /\ ObjectiveOf(d) = <<Padded(d.setup), Capacity(d), ProofBytes(d), d.out>>
    BY <1>5 DEF ObjectiveOf, Objective
  <2>2. Capacity(c) <= Capacity(d) BY <1>5 DEF SetupLeq, AdmitsEveryParentOf
  <2>3. Padded(c.setup) <= Padded(d.setup) BY <1>5 DEF SetupLeq, EnvelopeScore
  <2>4. \/ Capacity(c) < Capacity(d)
        \/ ProofBytes(c) < ProofBytes(d) \/ (ProofBytes(c) <= ProofBytes(d) /\ c.out <= d.out)
    BY <1>2, <1>5 DEF SetupLeq
  <2> DEFINE a == Padded(c.setup)
             b == Padded(d.setup)
             x == Capacity(c)
             y == Capacity(d)
             v == ProofBytes(c)
             w == ProofBytes(d)
  <2>5. /\ a \in Nat /\ b \in Nat /\ x \in Nat /\ y \in Nat /\ v \in Nat /\ w \in Nat
        /\ c.out \in Nat /\ d.out \in Nat /\ a <= b /\ x <= y
        /\ x < y \/ v < w \/ (v <= w /\ c.out <= d.out)
    BY <1>1, <2>2, <2>3, <2>4
  <2>6. ObjectiveOf(c) = <<a, x, v, c.out>> /\ ObjectiveOf(d) = <<b, y, w, d.out>> BY <2>1
  <2> HIDE DEF a, b, x, y, v, w
  <2>7. LexLeq(<<a, x, v, c.out>>, <<b, y, w, d.out>>) BY <2>5, LexFours
  <2> QED BY <2>6, <2>7
<1> QED BY <1>3, <1>4, <1>5 DEF SetupAware
================================================================================
