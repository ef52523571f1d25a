---------------------------- MODULE SetupStoreProofs ----------------------------
(***************************************************************************)
(* The setup cache never hands out a setup that does not cover the         *)
(* request, and shrinks its matrix only where a read error makes it take a *)
(* valid one for invalid, for every set of callers and requests and every  *)
(* number of calls and faults.                                             *)
(*                                                                         *)
(* The argument: the lock makes the inspection of the matrix still true    *)
(* when the matrix is replaced, and what a caller holds in memory covers   *)
(* its request before it is saved or returned.  Loads take no lock; they   *)
(* need none because a rename replaces the whole file.                     *)
(***************************************************************************)
EXTENDS SetupStore, TLAPS

USE DEF Locked

\* Sizes are numbers, and every request's need is one of them.
LEMMA SizeFacts ==
  /\ \A s \in Sizes : s \in Nat /\ s # Absent /\ s # Bad
  /\ \A r \in Requests : Need[r] \in Sizes /\ Need[r] \in Nat
  BY SetupAssumption DEF Sizes

\* The initial state satisfies the inductive invariant.
LEMMA InitIInv == Init => IInv
<1> SUFFICES ASSUME Init PROVE IInv
  OBVIOUS
<1> USE SetupAssumption, SizeFacts DEF Init
<1>1. TypeOK
  BY DEF TypeOK, Matrices, Registries, Steps
<1>2. LockHeld
  BY DEF LockHeld
<1>3. InspectionHolds /\ MemoryCovers /\ ReadyIdle /\ ReturnedCovers
  BY DEF InspectionHolds, MemoryCovers, ReadyIdle, ReturnedCovers
<1>4. DiskCovers
  BY DEF DiskCovers
<1>5. QED
  BY <1>1, <1>2, <1>3, <1>4 DEF IInv

\* Every step keeps the variables in their types.
LEMMA NextTypeOK == TypeOK /\ MemoryCovers /\ [Next]_vars => TypeOK'
<1> SUFFICES ASSUME TypeOK, MemoryCovers, [Next]_vars PROVE TypeOK'
  OBVIOUS
<1> USE SetupAssumption, SizeFacts DEF TypeOK, MemoryCovers, Matrices, Registries, Steps
<1>1. CASE UNCHANGED vars
  BY <1>1 DEF vars
<1>2. ASSUME NEW p \in Procs, LoadMatrix(p) PROVE TypeOK'
  BY <1>2 DEF LoadMatrix, Goto, CoversNeed
<1>3. ASSUME NEW p \in Procs, LoadMatrixFails(p) PROVE TypeOK'
  BY <1>3 DEF LoadMatrixFails, Goto, Fault
<1>4. ASSUME NEW p \in Procs, LoadRegistry(p) PROVE TypeOK'
  BY <1>4 DEF LoadRegistry, Goto, CoversSlots
<1>5. ASSUME NEW p \in Procs, RepairRegistry(p) PROVE TypeOK'
  BY <1>5 DEF RepairRegistry, Goto
<1>6. ASSUME NEW p \in Procs, LoadRegistryFails(p) PROVE TypeOK'
  BY <1>6 DEF LoadRegistryFails, Goto, Fault
<1>7. ASSUME NEW p \in Procs, Generate(p) \/ GenerateFails(p) PROVE TypeOK'
  <2>1. CASE Generate(p)
    BY <2>1 DEF Generate, Goto
  <2>2. CASE GenerateFails(p)
    BY <2>2 DEF GenerateFails, Goto, Fault
  <2>3. QED
    BY <1>7, <2>1, <2>2
<1>8. ASSUME NEW p \in Procs, Lock(p) PROVE TypeOK'
  BY <1>8 DEF Lock, Goto
<1>9. ASSUME NEW p \in Procs, KeepMatrix(p) PROVE TypeOK'
  BY <1>9 DEF KeepMatrix, Goto
<1>10. ASSUME NEW p \in Procs, DecideReplace(p) \/ MisreadMatrix(p) PROVE TypeOK'
  BY <1>10 DEF DecideReplace, MisreadMatrix, Goto, Fault
<1>11. ASSUME NEW p \in Procs, ReplaceMatrix(p) PROVE TypeOK'
  BY <1>11 DEF ReplaceMatrix, Goto
<1>12. ASSUME NEW p \in Procs, SaveRegistry(p) PROVE TypeOK'
  BY <1>12 DEF SaveRegistry, Goto
<1>13. ASSUME NEW p \in Procs, SaveFails(p) PROVE TypeOK'
  BY <1>13 DEF SaveFails, Fault
<1>14. ASSUME NEW p \in Procs, Kill(p) PROVE TypeOK'
  BY <1>14 DEF Kill, Fault
<1>15. ASSUME NEW p \in Procs, NEW r \in Requests, Call(p, r) PROVE TypeOK'
  BY <1>15 DEF Call, Goto
<1>16. CASE PowerLoss
  BY <1>16 DEF PowerLoss, Fault
<1>17. QED
  BY <1>1, <1>2, <1>3, <1>4, <1>5, <1>6, <1>7, <1>8, <1>9, <1>10, <1>11, <1>12, <1>13, <1>14, <1>15, <1>16 DEF Next, Step

\* Only the holder of the lock inspects and replaces.
LEMMA NextLockHeld == TypeOK /\ LockHeld /\ [Next]_vars => LockHeld'
<1> SUFFICES ASSUME TypeOK, LockHeld, [Next]_vars PROVE LockHeld'
  OBVIOUS
<1> USE SetupAssumption, SizeFacts DEF TypeOK, LockHeld
<1>1. CASE UNCHANGED vars
  BY <1>1 DEF vars
<1>2. ASSUME NEW p \in Procs, LoadMatrix(p) PROVE LockHeld'
  BY <1>2 DEF LoadMatrix, Goto, CoversNeed
<1>3. ASSUME NEW p \in Procs, LoadMatrixFails(p) PROVE LockHeld'
  BY <1>3 DEF LoadMatrixFails, Goto, Fault
<1>4. ASSUME NEW p \in Procs, LoadRegistry(p) PROVE LockHeld'
  BY <1>4 DEF LoadRegistry, Goto, CoversSlots
<1>5. ASSUME NEW p \in Procs, RepairRegistry(p) PROVE LockHeld'
  BY <1>5 DEF RepairRegistry, Goto
<1>6. ASSUME NEW p \in Procs, LoadRegistryFails(p) PROVE LockHeld'
  BY <1>6 DEF LoadRegistryFails, Goto, Fault
<1>7. ASSUME NEW p \in Procs, Generate(p) \/ GenerateFails(p) PROVE LockHeld'
  BY <1>7 DEF Generate, GenerateFails, Goto, Fault
<1>8. ASSUME NEW p \in Procs, Lock(p) PROVE LockHeld'
  BY <1>8 DEF Lock, Goto
<1>9. ASSUME NEW p \in Procs, KeepMatrix(p) PROVE LockHeld'
  BY <1>9 DEF KeepMatrix, Goto
<1>10. ASSUME NEW p \in Procs, DecideReplace(p) \/ MisreadMatrix(p) PROVE LockHeld'
  BY <1>10 DEF DecideReplace, MisreadMatrix, Goto, Fault
<1>11. ASSUME NEW p \in Procs, ReplaceMatrix(p) PROVE LockHeld'
  BY <1>11 DEF ReplaceMatrix, Goto
<1>12. ASSUME NEW p \in Procs, SaveRegistry(p) PROVE LockHeld'
  BY <1>12 DEF SaveRegistry, Goto
<1>13. ASSUME NEW p \in Procs, SaveFails(p) PROVE LockHeld'
  BY <1>13 DEF SaveFails, Fault
<1>14. ASSUME NEW p \in Procs, Kill(p) PROVE LockHeld'
  BY <1>14 DEF Kill, Fault
<1>15. ASSUME NEW p \in Procs, NEW r \in Requests, Call(p, r) PROVE LockHeld'
  BY <1>15 DEF Call, Goto
<1>16. CASE PowerLoss
  BY <1>16 DEF PowerLoss, Fault
<1>17. QED
  BY <1>1, <1>2, <1>3, <1>4, <1>5, <1>6, <1>7, <1>8, <1>9, <1>10, <1>11, <1>12, <1>13, <1>14, <1>15, <1>16 DEF Next, Step

\* No one else changes the matrix between an inspection and the replacement.
LEMMA NextInspectionHolds == TypeOK /\ LockHeld /\ InspectionHolds /\ [Next]_vars => InspectionHolds'
<1> SUFFICES ASSUME TypeOK, LockHeld, InspectionHolds, [Next]_vars PROVE InspectionHolds'
  OBVIOUS
<1> USE SetupAssumption, SizeFacts DEF TypeOK, LockHeld, InspectionHolds
<1>1. CASE UNCHANGED vars
  BY <1>1 DEF vars
<1>2. ASSUME NEW p \in Procs, LoadMatrix(p) PROVE InspectionHolds'
  BY <1>2 DEF LoadMatrix, Goto, CoversNeed
<1>3. ASSUME NEW p \in Procs, LoadMatrixFails(p) PROVE InspectionHolds'
  BY <1>3 DEF LoadMatrixFails, Goto, Fault
<1>4. ASSUME NEW p \in Procs, LoadRegistry(p) PROVE InspectionHolds'
  BY <1>4 DEF LoadRegistry, Goto, CoversSlots
<1>5. ASSUME NEW p \in Procs, RepairRegistry(p) PROVE InspectionHolds'
  BY <1>5 DEF RepairRegistry, Goto
<1>6. ASSUME NEW p \in Procs, LoadRegistryFails(p) PROVE InspectionHolds'
  BY <1>6 DEF LoadRegistryFails, Goto, Fault
<1>7. ASSUME NEW p \in Procs, Generate(p) \/ GenerateFails(p) PROVE InspectionHolds'
  BY <1>7 DEF Generate, GenerateFails, Goto, Fault
<1>8. ASSUME NEW p \in Procs, Lock(p) PROVE InspectionHolds'
  BY <1>8 DEF Lock, Goto
<1>9. ASSUME NEW p \in Procs, KeepMatrix(p) PROVE InspectionHolds'
  BY <1>9 DEF KeepMatrix, Goto
<1>10. ASSUME NEW p \in Procs, DecideReplace(p) \/ MisreadMatrix(p) PROVE InspectionHolds'
  BY <1>10 DEF DecideReplace, MisreadMatrix, Goto, Fault
<1>11. ASSUME NEW p \in Procs, ReplaceMatrix(p) PROVE InspectionHolds'
  BY <1>11 DEF ReplaceMatrix, Goto
<1>12. ASSUME NEW p \in Procs, SaveRegistry(p) PROVE InspectionHolds'
  BY <1>12 DEF SaveRegistry, Goto
<1>13. ASSUME NEW p \in Procs, SaveFails(p) PROVE InspectionHolds'
  BY <1>13 DEF SaveFails, Fault
<1>14. ASSUME NEW p \in Procs, Kill(p) PROVE InspectionHolds'
  BY <1>14 DEF Kill, Fault
<1>15. ASSUME NEW p \in Procs, NEW r \in Requests, Call(p, r) PROVE InspectionHolds'
  BY <1>15 DEF Call, Goto
<1>16. CASE PowerLoss
  BY <1>16 DEF PowerLoss, Fault
<1>17. QED
  BY <1>1, <1>2, <1>3, <1>4, <1>5, <1>6, <1>7, <1>8, <1>9, <1>10, <1>11, <1>12, <1>13, <1>14, <1>15, <1>16 DEF Next, Step

\* What a caller loaded or generated covers its own request.
LEMMA NextMemoryCovers == TypeOK /\ MemoryCovers /\ [Next]_vars => MemoryCovers'
<1> SUFFICES ASSUME TypeOK, MemoryCovers, [Next]_vars PROVE MemoryCovers'
  OBVIOUS
<1> USE SetupAssumption, SizeFacts DEF TypeOK, MemoryCovers
<1>1. CASE UNCHANGED vars
  BY <1>1 DEF vars
<1>2. ASSUME NEW p \in Procs, LoadMatrix(p) PROVE MemoryCovers'
  BY <1>2 DEF LoadMatrix, Goto, CoversNeed
<1>3. ASSUME NEW p \in Procs, LoadMatrixFails(p) PROVE MemoryCovers'
  BY <1>3 DEF LoadMatrixFails, Goto, Fault
<1>4. ASSUME NEW p \in Procs, LoadRegistry(p) PROVE MemoryCovers'
  BY <1>4 DEF LoadRegistry, Goto, CoversSlots
<1>5. ASSUME NEW p \in Procs, RepairRegistry(p) PROVE MemoryCovers'
  BY <1>5 DEF RepairRegistry, Goto
<1>6. ASSUME NEW p \in Procs, LoadRegistryFails(p) PROVE MemoryCovers'
  BY <1>6 DEF LoadRegistryFails, Goto, Fault
<1>7. ASSUME NEW p \in Procs, Generate(p) \/ GenerateFails(p) PROVE MemoryCovers'
  BY <1>7 DEF Generate, GenerateFails, Goto, Fault
<1>8. ASSUME NEW p \in Procs, Lock(p) PROVE MemoryCovers'
  BY <1>8 DEF Lock, Goto
<1>9. ASSUME NEW p \in Procs, KeepMatrix(p) PROVE MemoryCovers'
  BY <1>9 DEF KeepMatrix, Goto
<1>10. ASSUME NEW p \in Procs, DecideReplace(p) \/ MisreadMatrix(p) PROVE MemoryCovers'
  BY <1>10 DEF DecideReplace, MisreadMatrix, Goto, Fault
<1>11. ASSUME NEW p \in Procs, ReplaceMatrix(p) PROVE MemoryCovers'
  BY <1>11 DEF ReplaceMatrix, Goto
<1>12. ASSUME NEW p \in Procs, SaveRegistry(p) PROVE MemoryCovers'
  BY <1>12 DEF SaveRegistry, Goto
<1>13. ASSUME NEW p \in Procs, SaveFails(p) PROVE MemoryCovers'
  BY <1>13 DEF SaveFails, Fault
<1>14. ASSUME NEW p \in Procs, Kill(p) PROVE MemoryCovers'
  BY <1>14 DEF Kill, Fault
<1>15. ASSUME NEW p \in Procs, NEW r \in Requests, Call(p, r) PROVE MemoryCovers'
  BY <1>15 DEF Call, Goto
<1>16. CASE PowerLoss
  BY <1>16 DEF PowerLoss, Fault
<1>17. QED
  BY <1>1, <1>2, <1>3, <1>4, <1>5, <1>6, <1>7, <1>8, <1>9, <1>10, <1>11, <1>12, <1>13, <1>14, <1>15, <1>16 DEF Next, Step

\* A setup is returned when the call ends.
LEMMA NextReadyIdle == TypeOK /\ ReadyIdle /\ [Next]_vars => ReadyIdle'
<1> SUFFICES ASSUME TypeOK, ReadyIdle, [Next]_vars PROVE ReadyIdle'
  OBVIOUS
<1> USE SetupAssumption, SizeFacts DEF TypeOK, ReadyIdle
<1>1. CASE UNCHANGED vars
  BY <1>1 DEF vars
<1>2. ASSUME NEW p \in Procs, LoadMatrix(p) PROVE ReadyIdle'
  BY <1>2 DEF LoadMatrix, Goto, CoversNeed
<1>3. ASSUME NEW p \in Procs, LoadMatrixFails(p) PROVE ReadyIdle'
  BY <1>3 DEF LoadMatrixFails, Goto, Fault
<1>4. ASSUME NEW p \in Procs, LoadRegistry(p) PROVE ReadyIdle'
  BY <1>4 DEF LoadRegistry, Goto, CoversSlots
<1>5. ASSUME NEW p \in Procs, RepairRegistry(p) PROVE ReadyIdle'
  BY <1>5 DEF RepairRegistry, Goto
<1>6. ASSUME NEW p \in Procs, LoadRegistryFails(p) PROVE ReadyIdle'
  BY <1>6 DEF LoadRegistryFails, Goto, Fault
<1>7. ASSUME NEW p \in Procs, Generate(p) \/ GenerateFails(p) PROVE ReadyIdle'
  BY <1>7 DEF Generate, GenerateFails, Goto, Fault
<1>8. ASSUME NEW p \in Procs, Lock(p) PROVE ReadyIdle'
  BY <1>8 DEF Lock, Goto
<1>9. ASSUME NEW p \in Procs, KeepMatrix(p) PROVE ReadyIdle'
  BY <1>9 DEF KeepMatrix, Goto
<1>10. ASSUME NEW p \in Procs, DecideReplace(p) \/ MisreadMatrix(p) PROVE ReadyIdle'
  BY <1>10 DEF DecideReplace, MisreadMatrix, Goto, Fault
<1>11. ASSUME NEW p \in Procs, ReplaceMatrix(p) PROVE ReadyIdle'
  BY <1>11 DEF ReplaceMatrix, Goto
<1>12. ASSUME NEW p \in Procs, SaveRegistry(p) PROVE ReadyIdle'
  BY <1>12 DEF SaveRegistry, Goto
<1>13. ASSUME NEW p \in Procs, SaveFails(p) PROVE ReadyIdle'
  BY <1>13 DEF SaveFails, Fault
<1>14. ASSUME NEW p \in Procs, Kill(p) PROVE ReadyIdle'
  BY <1>14 DEF Kill, Fault
<1>15. ASSUME NEW p \in Procs, NEW r \in Requests, Call(p, r) PROVE ReadyIdle'
  BY <1>15 DEF Call, Goto
<1>16. CASE PowerLoss
  BY <1>16 DEF PowerLoss, Fault
<1>17. QED
  BY <1>1, <1>2, <1>3, <1>4, <1>5, <1>6, <1>7, <1>8, <1>9, <1>10, <1>11, <1>12, <1>13, <1>14, <1>15, <1>16 DEF Next, Step

\* A returned setup covers its request until the caller asks again.
LEMMA NextReturnedCovers == TypeOK /\ MemoryCovers /\ ReadyIdle /\ ReturnedCovers /\ [Next]_vars => ReturnedCovers'
<1> SUFFICES ASSUME TypeOK, MemoryCovers, ReadyIdle, ReturnedCovers, [Next]_vars PROVE ReturnedCovers'
  OBVIOUS
<1> USE SetupAssumption, SizeFacts DEF TypeOK, MemoryCovers, ReadyIdle, ReturnedCovers
<1>1. CASE UNCHANGED vars
  BY <1>1 DEF vars
<1>2. ASSUME NEW p \in Procs, LoadMatrix(p) PROVE ReturnedCovers'
  BY <1>2 DEF LoadMatrix, Goto, CoversNeed
<1>3. ASSUME NEW p \in Procs, LoadMatrixFails(p) PROVE ReturnedCovers'
  BY <1>3 DEF LoadMatrixFails, Goto, Fault
<1>4. ASSUME NEW p \in Procs, LoadRegistry(p) PROVE ReturnedCovers'
  BY <1>4 DEF LoadRegistry, Goto, CoversSlots
<1>5. ASSUME NEW p \in Procs, RepairRegistry(p) PROVE ReturnedCovers'
  BY <1>5 DEF RepairRegistry, Goto
<1>6. ASSUME NEW p \in Procs, LoadRegistryFails(p) PROVE ReturnedCovers'
  BY <1>6 DEF LoadRegistryFails, Goto, Fault
<1>7. ASSUME NEW p \in Procs, Generate(p) \/ GenerateFails(p) PROVE ReturnedCovers'
  BY <1>7 DEF Generate, GenerateFails, Goto, Fault
<1>8. ASSUME NEW p \in Procs, Lock(p) PROVE ReturnedCovers'
  BY <1>8 DEF Lock, Goto
<1>9. ASSUME NEW p \in Procs, KeepMatrix(p) PROVE ReturnedCovers'
  BY <1>9 DEF KeepMatrix, Goto
<1>10. ASSUME NEW p \in Procs, DecideReplace(p) \/ MisreadMatrix(p) PROVE ReturnedCovers'
  BY <1>10 DEF DecideReplace, MisreadMatrix, Goto, Fault
<1>11. ASSUME NEW p \in Procs, ReplaceMatrix(p) PROVE ReturnedCovers'
  BY <1>11 DEF ReplaceMatrix, Goto
<1>12. ASSUME NEW p \in Procs, SaveRegistry(p) PROVE ReturnedCovers'
  BY <1>12 DEF SaveRegistry, Goto
<1>13. ASSUME NEW p \in Procs, SaveFails(p) PROVE ReturnedCovers'
  BY <1>13 DEF SaveFails, Fault
<1>14. ASSUME NEW p \in Procs, Kill(p) PROVE ReturnedCovers'
  BY <1>14 DEF Kill, Fault
<1>15. ASSUME NEW p \in Procs, NEW r \in Requests, Call(p, r) PROVE ReturnedCovers'
  BY <1>15 DEF Call, Goto
<1>16. CASE PowerLoss
  BY <1>16 DEF PowerLoss, Fault
<1>17. QED
  BY <1>1, <1>2, <1>3, <1>4, <1>5, <1>6, <1>7, <1>8, <1>9, <1>10, <1>11, <1>12, <1>13, <1>14, <1>15, <1>16 DEF Next, Step

\* Without faults nobody takes from the disk what a caller found or left there.
LEMMA NextDiskCovers == TypeOK /\ InspectionHolds /\ MemoryCovers /\ ReadyIdle /\ DiskCovers /\ [Next]_vars => DiskCovers'
<1> SUFFICES ASSUME TypeOK, InspectionHolds, MemoryCovers, ReadyIdle, DiskCovers, [Next]_vars PROVE DiskCovers'
  OBVIOUS
<1> USE SetupAssumption, SizeFacts DEF TypeOK, InspectionHolds, MemoryCovers, ReadyIdle, DiskCovers, CoversSlots
<1>1. CASE UNCHANGED vars
  BY <1>1 DEF vars
<1>2. ASSUME NEW p \in Procs, LoadMatrix(p) PROVE DiskCovers'
  BY <1>2 DEF LoadMatrix, Goto, CoversNeed
<1>3. ASSUME NEW p \in Procs, LoadMatrixFails(p) PROVE DiskCovers'
  BY <1>3 DEF LoadMatrixFails, Goto, Fault
<1>4. ASSUME NEW p \in Procs, LoadRegistry(p) PROVE DiskCovers'
  BY <1>4 DEF LoadRegistry, Goto, CoversSlots
<1>5. ASSUME NEW p \in Procs, RepairRegistry(p) PROVE DiskCovers'
  BY <1>5 DEF RepairRegistry, Goto
<1>6. ASSUME NEW p \in Procs, LoadRegistryFails(p) PROVE DiskCovers'
  BY <1>6 DEF LoadRegistryFails, Goto, Fault
<1>7. ASSUME NEW p \in Procs, Generate(p) \/ GenerateFails(p) PROVE DiskCovers'
  BY <1>7 DEF Generate, GenerateFails, Goto, Fault
<1>8. ASSUME NEW p \in Procs, Lock(p) PROVE DiskCovers'
  BY <1>8 DEF Lock, Goto
<1>9. ASSUME NEW p \in Procs, KeepMatrix(p) PROVE DiskCovers'
  BY <1>9 DEF KeepMatrix, Goto
<1>10. ASSUME NEW p \in Procs, DecideReplace(p) \/ MisreadMatrix(p) PROVE DiskCovers'
  BY <1>10 DEF DecideReplace, MisreadMatrix, Goto, Fault
<1>11. ASSUME NEW p \in Procs, ReplaceMatrix(p) PROVE DiskCovers'
  BY <1>11 DEF ReplaceMatrix, Goto
<1>12. ASSUME NEW p \in Procs, SaveRegistry(p) PROVE DiskCovers'
  BY <1>12 DEF SaveRegistry, Goto
<1>13. ASSUME NEW p \in Procs, SaveFails(p) PROVE DiskCovers'
  BY <1>13 DEF SaveFails, Fault
<1>14. ASSUME NEW p \in Procs, Kill(p) PROVE DiskCovers'
  BY <1>14 DEF Kill, Fault
<1>15. ASSUME NEW p \in Procs, NEW r \in Requests, Call(p, r) PROVE DiskCovers'
  BY <1>15 DEF Call, Goto
<1>16. CASE PowerLoss
  BY <1>16 DEF PowerLoss, Fault
<1>17. QED
  BY <1>1, <1>2, <1>3, <1>4, <1>5, <1>6, <1>7, <1>8, <1>9, <1>10, <1>11, <1>12, <1>13, <1>14, <1>15, <1>16 DEF Next, Step

LEMMA NextIInv == IInv /\ [Next]_vars => IInv'
  BY NextTypeOK, NextLockHeld, NextInspectionHolds, NextMemoryCovers, NextReadyIdle,
     NextReturnedCovers, NextDiskCovers DEF IInv
-----------------------------------------------------------------------------
\* The inductive invariant holds of every run of the setup cache.
THEOREM SetupStoreInvariant == Spec => []IInv
<1>1. QED
  BY InitIInv, NextIInv, PTL DEF Spec

\* new_prover_setup returns only setups that cover their request.
THEOREM SetupStoreCovers == Spec => []ReturnedCovers
<1>1. IInv => ReturnedCovers
  BY DEF IInv
<1>2. QED
  BY <1>1, SetupStoreInvariant, PTL

\* Without faults a request that was served is served from disk the next time.
THEOREM SetupStoreHits == Spec => []NextLoadHits
<1>1. IInv => NextLoadHits
  <2> SUFFICES ASSUME IInv, faults = 0, NEW p \in ready
               PROVE  /\ CoversNeed(matrix, req[p])
                      /\ registry[req[p]] # Bad
                      /\ CoversSlots(registry[req[p]], req[p])
    BY DEF NextLoadHits
  <2>1. p \in Procs /\ req[p] \in Requests /\ have[p] \in Sizes \cup {0}
    BY DEF IInv, TypeOK
  <2>2. have[p] >= Need[req[p]]
    BY DEF IInv, ReturnedCovers
  <2>3. matrix \in Sizes /\ matrix >= have[p]
    BY <2>1 DEF IInv, DiskCovers
  <2>4. CoversNeed(matrix, req[p])
    <3>1. Need[req[p]] \in Nat /\ matrix \in Nat /\ have[p] \in Nat
      BY <2>1, <2>3, SizeFacts
    <3>2. QED
      BY <2>2, <2>3, <3>1 DEF CoversNeed
  <2>5. QED
    BY <2>1, <2>4 DEF IInv, DiskCovers
<1>2. QED
  BY <1>1, SetupStoreInvariant, PTL

\* The shared matrix is replaced by a smaller one only by a caller that holds
\* the lock and could not read the one that is there.
THEOREM SetupStoreGrows == Spec => ShrinksOnlyUnread
<1>1. IInv /\ [Next]_vars =>
        [(matrix \in Sizes /\ matrix' \in Sizes /\ matrix' < matrix) =>
            \E p \in Procs : lock = p /\ pc[p] = "overwrite" /\ matrix' = have[p]]_vars
  <2> SUFFICES ASSUME IInv, [Next]_vars, matrix \in Sizes, matrix' \in Sizes, matrix' < matrix
               PROVE  \E p \in Procs : lock = p /\ pc[p] = "overwrite" /\ matrix' = have[p]
    OBVIOUS
  <2>1. matrix \in Nat /\ matrix' \in Nat /\ matrix' # matrix
    BY SizeFacts
  <2>2. ASSUME NEW p \in Procs, ReplaceMatrix(p)
        PROVE  lock = p /\ pc[p] = "overwrite" /\ matrix' = have[p]
    <3>1. pc[p] \in {"replace", "overwrite"} /\ matrix' = have[p]
      BY <2>2 DEF ReplaceMatrix
    <3>2. pc[p] # "replace"
      <4>1. pc[p] = "replace" => ~(matrix >= have[p])
        BY DEF IInv, InspectionHolds
      <4>2. QED
        BY <2>1, <3>1, <4>1
    <3>3. lock = p
      BY <3>1 DEF IInv, LockHeld
    <3>4. QED
      BY <3>1, <3>2, <3>3
  <2>3. CASE PowerLoss
    BY <2>1, <2>3, SizeFacts DEF PowerLoss
  <2>4. QED
    BY <2>1, <2>2, <2>3
       DEF Next, Step, vars, LoadMatrix, LoadMatrixFails, LoadRegistry, RepairRegistry,
           LoadRegistryFails, Generate, GenerateFails, Lock, KeepMatrix, DecideReplace,
           MisreadMatrix, SaveRegistry, SaveFails, Kill, Call
<1>2. QED
  BY <1>1, SetupStoreInvariant, PTL DEF Spec, ShrinksOnlyUnread
-----------------------------------------------------------------------------
\* A step of a caller that does not touch the lock, and begins and ends outside
\* "overwrite", changes nothing about who could not read the matrix.
LEMMA UnreadKept ==
  ASSUME IInv, NEW p \in Procs, UNCHANGED lock, pc[p] # "overwrite", pc'[p] # "overwrite",
         \A q \in Procs \ {p} : pc'[q] = pc[q]
  PROVE  Unread' = Unread
<1>1. lock \in Procs \cup {Nobody}
  BY DEF IInv, TypeOK
<1>2. CASE lock = Nobody
  BY <1>2 DEF Unread
<1>3. CASE lock = p
  BY <1>3 DEF Unread
<1>4. CASE lock \in Procs \ {p}
  BY <1>4 DEF Unread
<1>5. QED
  BY <1>1, <1>2, <1>3, <1>4

\* The caller that could not read it is the one at "overwrite".
LEMMA UnreadIs ==
  ASSUME IInv
  PROVE  /\ \A p \in Procs : pc[p] = "overwrite" <=> Unread = p
         /\ \A p \in Procs : lock = p /\ pc[p] # "overwrite" => Unread = Nobody
         /\ lock = Nobody => Unread = Nobody
         /\ Nobody \notin Procs
  BY SetupAssumption DEF IInv, LockHeld, Unread

\* A caller that is in the middle of a call has been granted nothing yet, and
\* is granted what it holds in memory when the call returns.
LEMMA ReturnGrants ==
  ASSUME IInv, NEW p \in Procs, ready' = ready \cup {p}, UNCHANGED <<matrix, req, have>>,
         pc[p] \in Locked \cup {"registry", "lock", "persist"},
         Unread' = IF Unread = p THEN Nobody ELSE Unread
  PROVE  Capacity!Next
<1> USE DEF IInv, TypeOK
<1>1. have[p] \in Sizes /\ have[p] >= Need[req[p]] /\ p \notin ready
  BY DEF MemoryCovers, ReadyIdle
<1>2. Granted[p] = 0 /\ have[p] >= Asked[p]
  BY <1>1 DEF Granted, Asked
<1>3. Granted' = [Granted EXCEPT ![p] = have[p]]
  BY <1>1 DEF Granted
<1>4. UNCHANGED <<Shared, Asked>>
  BY DEF Shared, Asked
<1>5. Capacity!Grant(p, have[p])
  BY <1>2, <1>3, <1>4 DEF Capacity!Grant
<1>6. QED
  BY <1>1, <1>5 DEF Capacity!Next

\* The setup cache implements its promise: loads without a lock, saves that
\* fail anywhere, killed callers, power losses and read errors look to the callers
\* like grants that cover what they asked for and a capacity that only the
\* machine, or the one caller that could not read it, can take from.
THEOREM SetupStoreIsGrowOnly == Spec => ImplementsGrowOnly
<1>1. Init => Capacity!Init
  <2> SUFFICES ASSUME Init PROVE Capacity!Init
    OBVIOUS
  <2>1. TypeOK
    BY InitIInv DEF IInv
  <2>2. Shared \in Sizes \cup {0}
    BY DEF Shared
  <2>3. Asked \in [Procs -> Sizes]
    BY <2>1, SizeFacts DEF Asked, TypeOK
  <2>4. Granted = [c \in Procs |-> 0] /\ Unread = Nobody
    BY DEF Init, Granted, Unread
  <2>5. QED
    BY <2>2, <2>3, <2>4 DEF Capacity!Init
<1>2. IInv /\ [Next]_vars => [Capacity!Next]_<<Shared, Asked, Granted, Unread>>
  <2> SUFFICES ASSUME IInv, [Next]_vars
               PROVE  [Capacity!Next]_<<Shared, Asked, Granted, Unread>>
    OBVIOUS
  <2>t. /\ pc \in [Procs -> Steps] /\ lock \in Procs \cup {Nobody} /\ LockHeld
        /\ req \in [Procs -> Requests] /\ have \in [Procs -> Sizes \cup {0}] /\ ready \in SUBSET Procs
    BY DEF IInv, TypeOK
  <2>1. ASSUME NEW p \in Procs, LoadRegistry(p) \/ SaveRegistry(p) PROVE Capacity!Next
    <3>1. /\ pc[p] \in {"registry", "persist"} /\ pc' = [pc EXCEPT ![p] = "idle"] /\ UNCHANGED lock
          /\ ready' = ready \cup {p} /\ UNCHANGED <<matrix, req, have>>
      BY <2>1 DEF LoadRegistry, SaveRegistry, Goto
    <3>2. Unread' = Unread
      BY <2>t, <3>1, UnreadKept
    <3>3. Unread # p
      BY <3>1, UnreadIs
    <3>4. QED
      BY <3>1, <3>2, <3>3, ReturnGrants
  <2>2. ASSUME NEW p \in Procs, SaveFails(p) \/ Kill(p)
        PROVE  Unread' = IF Unread = p THEN Nobody ELSE Unread
    <3>1. /\ pc'[p] # "overwrite" /\ \A q \in Procs \ {p} : pc'[q] = pc[q]
          /\ lock' = IF lock = p THEN Nobody ELSE lock
      BY <2>2, <2>t DEF SaveFails, Kill
    <3>2. CASE lock = p
      <4>1. Unread' = Nobody
        BY <3>1, <3>2 DEF Unread
      <4>2. Unread \in {p, Nobody}
        BY <3>2 DEF Unread
      <4>3. QED
        BY <4>1, <4>2
    <3>3. CASE lock # p
      <4>1. pc[p] # "overwrite" /\ Unread # p
        BY <2>t, <3>3, UnreadIs DEF LockHeld
      <4>2. Unread' = Unread
        BY <3>1, <3>3, <4>1, UnreadKept
      <4>3. QED
        BY <4>1, <4>2
    <3>4. QED
      BY <3>2, <3>3
  <2>3. ASSUME NEW p \in Procs, SaveFails(p) PROVE [Capacity!Next]_<<Shared, Asked, Granted, Unread>>
    <3>1. CASE repair[p]
      <4>1. UNCHANGED <<Shared, Asked, Granted>>
        BY <2>3, <3>1 DEF SaveFails, Shared, Asked, Granted
      <4>2. Unread' = Nobody \/ Unread' = Unread
        BY <2>2, <2>3
      <4>3. QED
        BY <4>1, <4>2 DEF Capacity!Next, Capacity!GiveUp
    <3>2. CASE ~repair[p]
      <4>1. /\ ready' = ready \cup {p} /\ UNCHANGED <<matrix, req, have>>
            /\ pc[p] \in Locked \cup {"registry", "lock", "persist"}
        BY <2>3, <3>2 DEF SaveFails
      <4>2. QED
        BY <2>2, <2>3, <4>1, ReturnGrants
    <3>3. QED
      BY <3>1, <3>2
  <2>4. ASSUME NEW p \in Procs, Kill(p) PROVE [Capacity!Next]_<<Shared, Asked, Granted, Unread>>
    <3>1. UNCHANGED <<Shared, Asked, Granted>>
      BY <2>4 DEF Kill, Shared, Asked, Granted
    <3>2. Unread' = Nobody \/ Unread' = Unread
      BY <2>2, <2>4
    <3>3. QED
      BY <3>1, <3>2 DEF Capacity!Next, Capacity!GiveUp
  <2>5. ASSUME NEW p \in Procs, LoadMatrix(p) \/ Generate(p)
        PROVE  UNCHANGED <<Shared, Asked, Granted, Unread>>
    <3>1. p \notin ready
      BY <2>5 DEF LoadMatrix, Generate, Goto, IInv, ReadyIdle
    <3>2. UNCHANGED <<matrix, req, ready>> /\ \A q \in Procs \ {p} : have'[q] = have[q]
      BY <2>5, <2>t DEF LoadMatrix, Generate
    <3>3. Granted' = Granted
      BY <3>1, <3>2 DEF Granted
    <3>4. /\ UNCHANGED lock /\ pc[p] # "overwrite" /\ pc'[p] # "overwrite"
          /\ \A q \in Procs \ {p} : pc'[q] = pc[q]
      BY <2>5, <2>t DEF LoadMatrix, Generate, Goto
    <3>5. QED
      BY <3>2, <3>3, <3>4, UnreadKept DEF Shared, Asked
  <2>6. ASSUME NEW p \in Procs, ReplaceMatrix(p) PROVE Capacity!Next
    <3>1. /\ pc[p] \in {"replace", "overwrite"} /\ matrix' = have[p] /\ lock' = Nobody
          /\ UNCHANGED <<req, have, ready>>
      BY <2>6 DEF ReplaceMatrix
    <3>2. have[p] \in Sizes /\ have[p] >= Need[req[p]] /\ lock = p
      BY <2>t, <3>1 DEF IInv, MemoryCovers, LockHeld
    <3>3. Shared' = have[p] /\ UNCHANGED <<Asked, Granted>>
      BY <3>1, <3>2 DEF Shared, Asked, Granted
    <3>4. Unread' = Nobody
      BY <3>1 DEF Unread
    <3>5. CASE pc[p] = "replace"
      <4>1. ~(matrix \in Sizes /\ matrix >= have[p])
        BY <3>5 DEF IInv, InspectionHolds
      <4>2. have[p] > Shared
        BY <3>2, <4>1, SizeFacts, SetupAssumption DEF Shared, Sizes
      <4>3. Unread = Nobody
        BY <3>2, <3>5, UnreadIs
      <4>4. QED
        BY <3>2, <3>3, <3>4, <4>2, <4>3 DEF Capacity!Next, Capacity!Grow
    <3>6. CASE pc[p] = "overwrite"
      <4>1. Unread = p /\ Unread # Nobody
        BY <3>6, UnreadIs
      <4>2. have[p] >= Asked[Unread]
        BY <3>2, <4>1 DEF Asked
      <4>3. QED
        BY <3>2, <3>3, <3>4, <4>1, <4>2 DEF Capacity!Next, Capacity!Overwrite
    <3>7. QED
      BY <3>1, <3>5, <3>6
  <2>7. ASSUME NEW p \in Procs, MisreadMatrix(p) PROVE Capacity!Next
    <3>1. /\ pc[p] = "inspect" /\ pc' = [pc EXCEPT ![p] = "overwrite"] /\ matrix \in Sizes
          /\ UNCHANGED <<matrix, lock, req, have, ready>>
      BY <2>7 DEF MisreadMatrix, Goto
    <3>2. lock = p /\ p \notin ready
      BY <2>t, <3>1 DEF LockHeld, IInv, ReadyIdle
    <3>3. Unread = Nobody
      BY <3>1, <3>2, UnreadIs
    <3>4. Unread' = p
      <4>1. pc'[p] = "overwrite" /\ lock' = p /\ p # Nobody
        BY <2>t, <3>1, <3>2, SetupAssumption
      <4>2. QED
        BY <4>1 DEF Unread
    <3>5. Shared # 0 /\ Granted[p] = 0
      BY <3>1, <3>2, SetupAssumption DEF Shared, Granted, Sizes
    <3>6. UNCHANGED <<Shared, Asked, Granted>>
      BY <3>1 DEF Shared, Asked, Granted
    <3>7. QED
      BY <3>3, <3>4, <3>5, <3>6 DEF Capacity!Next, Capacity!Misread
  <2>8. ASSUME NEW p \in Procs, NEW r \in Requests, Call(p, r) PROVE Capacity!Next
    <3>1. /\ req' = [req EXCEPT ![p] = r] /\ have' = [have EXCEPT ![p] = 0]
          /\ ready' = ready \ {p} /\ UNCHANGED <<matrix, lock>>
          /\ pc[p] = "idle" /\ pc' = [pc EXCEPT ![p] = "matrix"]
      BY <2>8 DEF Call, Goto
    <3>2. Asked' = [Asked EXCEPT ![p] = Need[r]]
      BY <2>t, <3>1 DEF Asked
    <3>3. Granted' = [Granted EXCEPT ![p] = 0]
      BY <2>t, <3>1 DEF Granted
    <3>4. Shared' = Shared
      BY <3>1 DEF Shared
    <3>5. Need[r] \in Sizes
      BY SizeFacts
    <3>6. Unread # p
      BY <3>1, UnreadIs
    <3>7. Unread' = Unread
      BY <2>t, <3>1, UnreadKept
    <3>8. QED
      BY <3>2, <3>3, <3>4, <3>5, <3>6, <3>7 DEF Capacity!Next, Capacity!Ask
  <2>9. CASE PowerLoss
    <3>1. Shared' \in {Shared, 0}
      BY <2>9, SizeFacts DEF PowerLoss, Shared
    <3>2. Granted' = [c \in Procs |-> 0] /\ Asked' = Asked
      BY <2>9 DEF PowerLoss, Granted, Asked
    <3>3. Unread' = Nobody
      BY <2>9 DEF PowerLoss, Unread
    <3>4. QED
      BY <3>1, <3>2, <3>3 DEF Capacity!Next, Capacity!Lose
  <2>10. ASSUME NEW p \in Procs,
                LoadMatrixFails(p) \/ RepairRegistry(p) \/ LoadRegistryFails(p)
                  \/ GenerateFails(p) \/ Lock(p) \/ KeepMatrix(p) \/ DecideReplace(p)
        PROVE  UNCHANGED <<Shared, Asked, Granted, Unread>>
    <3>1. UNCHANGED <<Shared, Asked, Granted>>
      BY <2>10 DEF LoadMatrixFails, RepairRegistry, LoadRegistryFails, GenerateFails, Lock,
                   KeepMatrix, DecideReplace, Shared, Asked, Granted
    <3>2. /\ pc[p] # "overwrite" /\ pc'[p] # "overwrite"
          /\ \A q \in Procs \ {p} : pc'[q] = pc[q]
      BY <2>10, <2>t DEF LoadMatrixFails, RepairRegistry, LoadRegistryFails, GenerateFails, Lock,
                   KeepMatrix, DecideReplace, Goto
    <3>3. CASE UNCHANGED lock
      BY <3>1, <3>2, <3>3, UnreadKept
    <3>4. CASE lock' # lock
      <4>1. Lock(p) \/ KeepMatrix(p)
        BY <2>10, <3>4 DEF LoadMatrixFails, RepairRegistry, LoadRegistryFails, GenerateFails,
                           DecideReplace
      <4>2. Unread = Nobody
        <5>1. CASE Lock(p)
          BY <5>1, UnreadIs DEF Lock
        <5>2. CASE KeepMatrix(p)
          <6>1. pc[p] = "inspect" /\ lock = p
            BY <5>2, <2>t DEF KeepMatrix, Goto, LockHeld
          <6>2. QED
            BY <6>1, UnreadIs
        <5>3. QED
          BY <4>1, <5>1, <5>2
      <4>3. Unread' = Nobody
        <5>1. lock' = p \/ lock' = Nobody
          BY <4>1 DEF Lock, KeepMatrix
        <5>2. QED
          BY <3>2, <5>1 DEF Unread
      <4>4. QED
        BY <3>1, <4>2, <4>3
    <3>5. QED
      BY <3>3, <3>4
  <2>11. CASE UNCHANGED vars
    BY <2>11 DEF vars, Shared, Asked, Granted, Unread
  <2>12. QED
    BY <2>1, <2>3, <2>4, <2>5, <2>6, <2>7, <2>8, <2>9, <2>10, <2>11 DEF Next, Step
<1>3. QED
  BY SetupStoreInvariant, <1>1, <1>2, PTL DEF Spec, ImplementsGrowOnly, Capacity!Spec
=============================================================================
