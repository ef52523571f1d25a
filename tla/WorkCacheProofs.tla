---------------------------- MODULE WorkCacheProofs ----------------------------
(***************************************************************************)
(* The work-result cache is safe for every set of workers and payloads and *)
(* every number of stores and faults.                                      *)
(*                                                                         *)
(* The inductive invariant IInv adds to the properties what the stores in  *)
(* flight know: the nonce they hold, that the file about to be linked is   *)
(* complete, and that a destination which was won holds the winner's       *)
(* payload or has been damaged.                                            *)
(***************************************************************************)
EXTENDS WorkCache, TLAPS

USE DEF Contents, Nonces, Results, Steps, TempName

\* The initial state satisfies the inductive invariant.
LEMMA InitIInv == Init => IInv
  BY WorkCacheAssumption
  DEF Init, IInv, TypeOK, NoTornResult, NonceOfStep, LinkedIsWritten, OneWinner, Won

\* Writing one temporary, and removing it, leave the map of temporaries typed.
LEMMA SetTempType ==
  ASSUME NEW p \in Procs, NEW n \in Nonces, NEW c \in Contents,
         temp \in [Procs -> [Nonces -> Contents]]
  PROVE  [temp EXCEPT ![p][n] = c] \in [Procs -> [Nonces -> Contents]]
<1>1. [temp[p] EXCEPT ![n] = c] \in [Nonces -> Contents]
  OBVIOUS
<1>2. QED
  BY <1>1

LEMMA RemoveTempType ==
  ASSUME NEW p \in Procs, TypeOK, NonceOfStep, RemoveTemp(p),
         pc[p] \in {"write", "link", "unlink", "reload"}
  PROVE  temp' \in [Procs -> [Nonces -> Contents]]
<1>1. TempName(p) \in Nonces
  BY WorkCacheAssumption DEF TypeOK, NonceOfStep
<1>2. CASE temp' = temp
  BY <1>2 DEF TypeOK
<1>3. CASE temp' = [temp EXCEPT ![p][TempName(p)] = Absent]
  BY <1>1, <1>3, SetTempType DEF TypeOK
<1>4. QED
  BY <1>2, <1>3 DEF RemoveTemp

\* Every step keeps the variables in their types.
LEMMA NextTypeOK == TypeOK /\ NonceOfStep /\ [Next]_vars => TypeOK'
<1> SUFFICES ASSUME TypeOK, NonceOfStep, [Next]_vars PROVE TypeOK'
  OBVIOUS
<1> USE WorkCacheAssumption DEF TypeOK, NonceOfStep
<1>1. CASE UNCHANGED vars
  BY <1>1 DEF vars
<1>2. ASSUME NEW p \in Procs, NEW v \in Payloads, Begin(p, v) PROVE TypeOK'
  BY <1>2 DEF Begin, Goto
<1>3. ASSUME NEW p \in Procs, FindExisting(p) PROVE TypeOK'
  BY <1>3 DEF FindExisting, Goto, Return, Compare, Decodes
<1>4. ASSUME NEW p \in Procs, FindNothing(p) PROVE TypeOK'
  BY <1>4 DEF FindNothing, Goto
<1>5. ASSUME NEW p \in Procs, CreateTemp(p) PROVE TypeOK'
  <2>1. nonce[p] \in Nonces
    BY <1>5 DEF CreateTemp
  <2>2. temp' \in [Procs -> [Nonces -> Contents]]
    <3>1. CASE temp' = temp
      BY <3>1
    <3>2. CASE temp' = [temp EXCEPT ![p][nonce[p]] = Partial]
      BY <2>1, <3>2, SetTempType
    <3>3. QED
      BY <1>5, <3>1, <3>2 DEF CreateTemp
  <2>3. pc' \in [Procs -> Steps]
    BY <1>5 DEF CreateTemp, Goto
  <2>4. result' \in [Procs -> Results] /\ acked' \in SUBSET Payloads
    BY <1>5 DEF CreateTemp, Return
  <2>5. nonce' \in [Procs -> 0 .. MaxNonce]
    BY <1>5 DEF CreateTemp
  <2>6. dest' \in Contents /\ want' \in [Procs -> Payloads] /\ faults' \in 0 .. MaxFaults
    BY <1>5 DEF CreateTemp
  <2>7. QED
    BY <2>2, <2>3, <2>4, <2>5, <2>6
<1>6. ASSUME NEW p \in Procs, WriteTemp(p) PROVE TypeOK'
  BY <1>6 DEF WriteTemp, Goto
<1>7. ASSUME NEW p \in Procs, Link(p) PROVE TypeOK'
  BY <1>7 DEF Link, Goto
<1>8. ASSUME NEW p \in Procs, Unlink(p) PROVE TypeOK'
  <2>1. temp' \in [Procs -> [Nonces -> Contents]]
    BY <1>8, RemoveTempType DEF Unlink, Goto
  <2>2. QED
    BY <1>8, <2>1 DEF Unlink, Goto, Return
<1>9. ASSUME NEW p \in Procs, Reload(p) PROVE TypeOK'
  <2>1. temp' \in [Procs -> [Nonces -> Contents]]
    BY <1>9, RemoveTempType DEF Reload, Goto
  <2>2. QED
    BY <1>9, <2>1 DEF Reload, Goto, Return, Compare, Decodes
<1>10. ASSUME NEW p \in Procs, FailEarly(p) PROVE TypeOK'
  BY <1>10 DEF FailEarly, Fault, Return
<1>14. ASSUME NEW p \in Procs, FailLate(p) PROVE TypeOK'
  <2>1. temp' \in [Procs -> [Nonces -> Contents]]
    BY <1>14, RemoveTempType DEF FailLate
  <2>2. QED
    <3>1. result' \in [Procs -> Results] /\ acked' \in SUBSET Payloads
      BY <1>14 DEF FailLate, Return
    <3>2. pc' \in [Procs -> Steps] /\ faults' \in 0 .. MaxFaults
      BY <1>14 DEF FailLate, Fault
    <3>3. QED
      BY <1>14, <2>1, <3>1, <3>2 DEF FailLate
<1>11. ASSUME NEW p \in Procs, Crash(p) PROVE TypeOK'
  BY <1>11 DEF Crash, Fault
<1>12. CASE Damage
  BY <1>12 DEF Damage, Fault
<1>13. QED
  BY <1>1, <1>2, <1>3, <1>4, <1>5, <1>6, <1>7, <1>8, <1>9, <1>10, <1>11, <1>12, <1>14
     DEF Next, Step

\* A store in flight holds a nonce that fits the step it is at.
LEMMA NextNonceOfStep == TypeOK /\ NonceOfStep /\ [Next]_vars => NonceOfStep'
<1> SUFFICES ASSUME TypeOK, NonceOfStep, [Next]_vars PROVE NonceOfStep'
  OBVIOUS
<1> USE WorkCacheAssumption DEF TypeOK, NonceOfStep
<1>1. CASE UNCHANGED vars
  BY <1>1 DEF vars
<1>2. ASSUME NEW p \in Procs, NEW v \in Payloads, Begin(p, v) PROVE NonceOfStep'
  BY <1>2 DEF Begin, Goto
<1>3. ASSUME NEW p \in Procs, FindExisting(p) PROVE NonceOfStep'
  BY <1>3 DEF FindExisting, Goto
<1>4. ASSUME NEW p \in Procs, FindNothing(p) PROVE NonceOfStep'
  BY <1>4 DEF FindNothing, Goto
<1>5. ASSUME NEW p \in Procs, CreateTemp(p) PROVE NonceOfStep'
  BY <1>5 DEF CreateTemp, Goto
<1>6. ASSUME NEW p \in Procs, WriteTemp(p) PROVE NonceOfStep'
  BY <1>6 DEF WriteTemp, Goto
<1>7. ASSUME NEW p \in Procs, Link(p) PROVE NonceOfStep'
  BY <1>7 DEF Link, Goto
<1>8. ASSUME NEW p \in Procs, Unlink(p) PROVE NonceOfStep'
  BY <1>8 DEF Unlink, Goto
<1>9. ASSUME NEW p \in Procs, Reload(p) PROVE NonceOfStep'
  BY <1>9 DEF Reload, Goto
<1>10. ASSUME NEW p \in Procs, FailEarly(p) PROVE NonceOfStep'
  BY <1>10 DEF FailEarly
<1>14. ASSUME NEW p \in Procs, FailLate(p) PROVE NonceOfStep'
  BY <1>14 DEF FailLate
<1>11. ASSUME NEW p \in Procs, Crash(p) PROVE NonceOfStep'
  BY <1>11 DEF Crash
<1>12. CASE Damage
  BY <1>12 DEF Damage
<1>13. QED
  BY <1>1, <1>2, <1>3, <1>4, <1>5, <1>6, <1>7, <1>8, <1>9, <1>10, <1>11, <1>12, <1>14
     DEF Next, Step

\* A destination that was never torn stays so: only complete files are linked.
LEMMA NextNoTornResult ==
  TypeOK /\ NoTornResult /\ LinkedIsWritten /\ [Next]_vars => NoTornResult'
<1> SUFFICES ASSUME TypeOK, NoTornResult, LinkedIsWritten, [Next]_vars
             PROVE  NoTornResult'
  OBVIOUS
<1> USE WorkCacheAssumption DEF TypeOK, NoTornResult
<1>1. CASE UNCHANGED dest
  BY <1>1
<1>2. ASSUME NEW p \in Procs, Link(p) PROVE NoTornResult'
  BY <1>2 DEF Link, Goto, LinkedIsWritten
<1>3. CASE Damage
  BY <1>3 DEF Damage
<1>4. QED
  BY <1>1, <1>2, <1>3
     DEF Next, Step, Begin, FindExisting, FindNothing, CreateTemp, WriteTemp,
         Unlink, Reload, FailEarly, FailLate, Crash, vars

\* The temporary a store is about to link stays complete: no other process
\* names it, and its owner changes it only before or after that step.
LEMMA NextLinkedIsWritten ==
  TypeOK /\ NonceOfStep /\ LinkedIsWritten /\ [Next]_vars => LinkedIsWritten'
<1> SUFFICES ASSUME TypeOK, NonceOfStep, LinkedIsWritten, [Next]_vars, NEW q \in Procs,
                    pc'[q] = "link"
             PROVE  temp'[q][nonce'[q] - 1] = want'[q]
  BY DEF LinkedIsWritten
<1> USE WorkCacheAssumption DEF TypeOK, LinkedIsWritten
<1>1. CASE UNCHANGED vars
  BY <1>1 DEF vars
<1>2. ASSUME NEW p \in Procs, NEW v \in Payloads, Begin(p, v)
      PROVE  temp'[q][nonce'[q] - 1] = want'[q]
  BY <1>2 DEF Begin, Goto
<1>3. ASSUME NEW p \in Procs, FindExisting(p)
      PROVE  temp'[q][nonce'[q] - 1] = want'[q]
  BY <1>3 DEF FindExisting, Goto
<1>4. ASSUME NEW p \in Procs, FindNothing(p)
      PROVE  temp'[q][nonce'[q] - 1] = want'[q]
  BY <1>4 DEF FindNothing, Goto
<1>5. ASSUME NEW p \in Procs, CreateTemp(p)
      PROVE  temp'[q][nonce'[q] - 1] = want'[q]
  <2>1. q # p /\ pc[q] = "link"
    BY <1>5 DEF CreateTemp, Goto
  <2>2. temp'[q] = temp[q] /\ nonce'[q] = nonce[q] /\ want' = want
    BY <1>5, <2>1 DEF CreateTemp
  <2>3. QED
    BY <2>1, <2>2
<1>6. ASSUME NEW p \in Procs, WriteTemp(p)
      PROVE  temp'[q][nonce'[q] - 1] = want'[q]
  <2>1. CASE q = p
    BY <1>6, <2>1 DEF WriteTemp, Goto, NonceOfStep
  <2>2. CASE q # p
    BY <1>6, <2>2 DEF WriteTemp, Goto
  <2>3. QED
    BY <2>1, <2>2
<1>7. ASSUME NEW p \in Procs, Link(p)
      PROVE  temp'[q][nonce'[q] - 1] = want'[q]
  BY <1>7 DEF Link, Goto
<1>8. ASSUME NEW p \in Procs, Unlink(p)
      PROVE  temp'[q][nonce'[q] - 1] = want'[q]
  BY <1>8 DEF Unlink, Goto, RemoveTemp
<1>9. ASSUME NEW p \in Procs, Reload(p)
      PROVE  temp'[q][nonce'[q] - 1] = want'[q]
  BY <1>9 DEF Reload, Goto, RemoveTemp
<1>10. ASSUME NEW p \in Procs, FailEarly(p)
       PROVE  temp'[q][nonce'[q] - 1] = want'[q]
  BY <1>10 DEF FailEarly
<1>11. ASSUME NEW p \in Procs, FailLate(p)
       PROVE  temp'[q][nonce'[q] - 1] = want'[q]
  BY <1>11 DEF FailLate, RemoveTemp
<1>12. ASSUME NEW p \in Procs, Crash(p)
       PROVE  temp'[q][nonce'[q] - 1] = want'[q]
  BY <1>12 DEF Crash
<1>13. CASE Damage
  BY <1>13 DEF Damage
<1>14. QED
  BY <1>1, <1>2, <1>3, <1>4, <1>5, <1>6, <1>7, <1>8, <1>9, <1>10, <1>11, <1>12, <1>13
     DEF Next, Step
\* A step that leaves the destination alone makes a winner only of what the
\* destination holds.
LEMMA WonByComparison ==
  ASSUME TypeOK, LinkedIsWritten, Next, UNCHANGED dest, NEW v \in Payloads, Won(v)', ~Won(v)
  PROVE  dest = v
<1> USE WorkCacheAssumption DEF TypeOK, Won
<1>1. ASSUME NEW p \in Procs, NEW u \in Payloads, Begin(p, u) PROVE dest = v
  BY <1>1 DEF Begin, Goto
<1>2. ASSUME NEW p \in Procs, FindExisting(p) PROVE dest = v
  BY <1>2 DEF FindExisting, Goto, Return, Compare, Decodes
<1>3. ASSUME NEW p \in Procs, FindNothing(p) PROVE dest = v
  BY <1>3 DEF FindNothing, Goto
<1>4. ASSUME NEW p \in Procs, CreateTemp(p) PROVE dest = v
  BY <1>4 DEF CreateTemp, Goto, Return
<1>5. ASSUME NEW p \in Procs, WriteTemp(p) PROVE dest = v
  BY <1>5 DEF WriteTemp, Goto
<1>6. ASSUME NEW p \in Procs, Link(p), dest # Absent PROVE dest = v
  BY <1>6 DEF Link, Goto
<1>7. ASSUME NEW p \in Procs, Unlink(p) PROVE dest = v
  BY <1>7 DEF Unlink, Goto, Return
<1>8. ASSUME NEW p \in Procs, Reload(p) PROVE dest = v
  BY <1>8 DEF Reload, Goto, Return, Compare, Decodes
<1>9. ASSUME NEW p \in Procs, FailEarly(p) PROVE dest = v
  BY <1>9 DEF FailEarly, Return
<1>10. ASSUME NEW p \in Procs, FailLate(p) PROVE dest = v
  BY <1>10 DEF FailLate, Return
<1>11. ASSUME NEW p \in Procs, Crash(p) PROVE dest = v
  BY <1>11 DEF Crash
<1>12. QED
  <2>1. ~Damage
    BY DEF Damage
  <2>2. CASE \E p \in Procs : Link(p) /\ dest = Absent
    BY <2>2 DEF Link, Goto, LinkedIsWritten
  <2>3. QED
    BY <1>1, <1>2, <1>3, <1>4, <1>5, <1>6, <1>7, <1>8, <1>9, <1>10, <1>11, <2>1, <2>2
       DEF Next, Step

\* The destination has at most one winner and holds it.
LEMMA NextOneWinner ==
  TypeOK /\ LinkedIsWritten /\ OneWinner /\ [Next]_vars => OneWinner'
<1> SUFFICES ASSUME TypeOK, LinkedIsWritten, OneWinner, [Next]_vars PROVE OneWinner'
  OBVIOUS
<1> USE WorkCacheAssumption DEF TypeOK, OneWinner
<1>1. CASE UNCHANGED vars
  BY <1>1 DEF vars, Won
<1>2. CASE Next /\ UNCHANGED dest
  <2>1. \A v \in Payloads : Won(v)' => Won(v) \/ dest = v
    BY <1>2, WonByComparison
  <2>2. QED
    BY <1>2, <2>1
<1>3. ASSUME NEW p \in Procs, Link(p), dest = Absent PROVE OneWinner'
  <2>1. dest' = want[p] /\ UNCHANGED <<acked, want>> /\ pc' = [pc EXCEPT ![p] = "unlink"]
    BY <1>3 DEF Link, Goto, LinkedIsWritten
  <2>2. \A v \in Payloads : ~Won(v)
    BY <1>3
  <2>3. \A v \in Payloads : Won(v)' => v = want[p]
    BY <2>1, <2>2 DEF Won
  <2>4. QED
    BY <2>1, <2>3
<1>4. CASE Damage
  BY <1>4 DEF Damage, Won
<1>5. QED
  BY <1>1, <1>2, <1>3, <1>4
     DEF Next, Step, Begin, FindExisting, FindNothing, CreateTemp, WriteTemp, Link,
         Unlink, Reload, FailEarly, FailLate, Crash

\* The inductive invariant holds in every reachable state of the cache, for
\* any number of workers, payloads, stores and faults.
THEOREM WorkCacheInvariant == Spec => []IInv
<1>1. IInv /\ [Next]_vars => IInv'
  BY NextTypeOK, NextNoTornResult, NextNonceOfStep, NextLinkedIsWritten, NextOneWinner
     DEF IInv
<1>2. QED
  BY InitIInv, <1>1, PTL DEF Spec

\* Two stores of one work id never both return Ok for different results
\* (store's hard_link and its comparison with the winner).
THEOREM WorkCacheAgreement == Spec => []StoresAgree
<1>1. IInv => StoresAgree
  BY DEF IInv, TypeOK, OneWinner, Won, StoresAgree
<1>2. QED
  BY WorkCacheInvariant, <1>1, PTL

\* A store that returned Ok left its result at the destination, where it
\* stays unless the disk damages it.
THEOREM WorkCacheDurability == Spec => []AckedIsPublished
<1>1. IInv => AckedIsPublished
  BY DEF IInv, TypeOK, OneWinner, Won, AckedIsPublished
<1>2. QED
  BY WorkCacheInvariant, <1>1, PTL

\* No step replaces a published result: hard_link never overwrites.
THEOREM WorkCacheImmutability == Spec => ResultImmutable
<1>1. [Next]_vars => [dest # Absent => dest' \in {dest, Damaged}]_dest
  BY DEF Next, Step, Begin, FindExisting, FindNothing, CreateTemp, WriteTemp, Link,
         Unlink, Reload, FailEarly, FailLate, Crash, Damage, vars
<1>2. QED
  BY <1>1, PTL DEF Spec, ResultImmutable

\* A store that returns Ok for a payload found that payload at the destination,
\* or linked it and met at worst a damaged file: a promise of the register.
LEMMA ReturnsPromise ==
  ASSUME IInv, NEW p \in Procs, NEW r \in Results, Return(p, r), UNCHANGED dest,
         r = "ok" => dest = want[p] \/ pc[p] = "unlink"
  PROVE  UNCHANGED <<dest, acked>> \/ Register!Promise(want[p])
<1> USE DEF IInv, TypeOK, Return
<1>1. CASE r # "ok"
  BY <1>1
<1>2. CASE r = "ok"
  <2>1. want[p] \in Payloads
    OBVIOUS
  <2>2. dest \in {want[p], Damaged}
    BY <1>2, <2>1 DEF OneWinner, Won
  <2>3. ASSUME NEW v \in acked PROVE v = want[p]
    <3>1. v \in Payloads /\ Won(v) /\ dest \in {v, Damaged}
      BY DEF OneWinner, Won
    <3>2. CASE pc[p] = "unlink"
      BY <2>1, <3>1, <3>2 DEF OneWinner, Won
    <3>3. CASE dest = want[p]
      BY <2>1, <3>1, <3>3, WorkCacheAssumption
    <3>4. QED
      BY <1>2, <3>2, <3>3
  <2>4. acked' = {want[p]}
    BY <1>2, <2>3
  <2>5. QED
    BY <2>2, <2>3, <2>4 DEF Register!Promise
<1>3. QED
  BY <1>1, <1>2

\* Whatever the interleaving, the crashes and the failures, the workers' cache
\* behaves like a register that is written once (store's hard_link publishes,
\* its return value promises).
THEOREM WorkCacheIsWriteOnce == Spec => ImplementsWriteOnce
<1>1. Init => Register!Init
  BY DEF Init, Register!Init
<1>2. IInv /\ [Next]_vars => [Register!Next]_<<dest, acked>>
  <2> SUFFICES ASSUME IInv, [Next]_vars PROVE [Register!Next]_<<dest, acked>>
    OBVIOUS
  <2> USE WorkCacheAssumption DEF IInv, TypeOK
  <2>1. ASSUME NEW p \in Procs, FindExisting(p) \/ Reload(p)
        PROVE  [Register!Next]_<<dest, acked>>
    <3>1. Compare(p) \in Results /\ (Compare(p) = "ok" => dest = want[p])
      BY DEF Compare
    <3>2. UNCHANGED <<dest, acked>> \/ Register!Promise(want[p])
      BY <2>1, <3>1, ReturnsPromise DEF FindExisting, Reload
    <3>3. QED
      BY <3>2 DEF Register!Next
  <2>2. ASSUME NEW p \in Procs, Unlink(p) PROVE [Register!Next]_<<dest, acked>>
    <3>1. UNCHANGED <<dest, acked>> \/ Register!Promise(want[p])
      BY <2>2, ReturnsPromise DEF Unlink, Goto
    <3>2. QED
      BY <3>1 DEF Register!Next
  <2>3. ASSUME NEW p \in Procs, Link(p) PROVE [Register!Next]_<<dest, acked>>
    BY <2>3 DEF Link, Goto, LinkedIsWritten, Register!Next, Register!Set
  <2>4. CASE Damage
    BY <2>4 DEF Damage, Register!Next, Register!Lose
  <2>5. ASSUME NEW p \in Procs,
               \/ FindNothing(p) \/ CreateTemp(p) \/ WriteTemp(p)
               \/ FailEarly(p) \/ FailLate(p) \/ Crash(p)
               \/ \E v \in Payloads : Begin(p, v)
        PROVE  UNCHANGED <<dest, acked>>
    BY <2>5 DEF FindNothing, CreateTemp, WriteTemp, FailEarly, FailLate, Crash, Begin, Return
  <2>6. CASE UNCHANGED vars
    BY <2>6 DEF vars
  <2>7. QED
    BY <2>1, <2>2, <2>3, <2>4, <2>5, <2>6 DEF Next, Step
<1>3. QED
  BY WorkCacheInvariant, <1>1, <1>2, PTL DEF Spec, ImplementsWriteOnce, Register!Spec
=============================================================================
