--------------------------- MODULE PreparedNttProofs ---------------------------
(***************************************************************************)
(* The inductive invariant of the prover's NTT cache and what follows from *)
(* it, for any calls, sizes and releases.                                  *)
(***************************************************************************)
EXTENDS PreparedNtt, TLAPS

\* The empty cache satisfies the invariant.
LEMMA InitInv == Init => IInv
<1> SUFFICES ASSUME Init PROVE IInv OBVIOUS
<1>1. TypeOK
  <2>1. profiled \in BOOLEAN BY Zenon DEF Init
  <2>2. /\ want \in [Calls -> Sizes]
        /\ pc \in [Calls -> {"new"} \cup Running \cup Finished]
        /\ entry \in [Calls -> Calls \cup {None}]
        /\ slots \in [Sizes -> Calls \cup {None}]
        /\ cell \in [Calls -> {"none", "err"} \cup Live]
        /\ drops \in 0 .. MaxDrops
    BY NttAssumption DEF Init
  <2> QED BY <2>1, <2>2 DEF TypeOK
<1>2. CellInv
  BY DEF Init, CellInv, InserterHolds, SlotIsCell, EntryCovers, CellOutcome, StepOutcome,
         OneBuilder, Holding
<1>3. SlotInv BY NttAssumption DEF Init, SlotInv, FailedIsGone, EvictedBelow
<1>4. FailureIsOwn /\ NothingLost /\ BuiltOnce
  BY DEF Init, FailureIsOwn, NothingLost, BuiltOnce, Live
<1> QED BY <1>1, <1>2, <1>3, <1>4 DEF IInv

\* Every step keeps the types.
LEMMA TypeStep == ASSUME TypeOK, Next PROVE TypeOK'
<1> USE NttAssumption DEF TypeOK, Running, Finished, Live, Goto, Key
<1>1. CASE Release BY <1>1 DEF Release
<1>2. ASSUME NEW c \in Calls, Begin(c) PROVE TypeOK' BY <1>2 DEF Begin
<1>3. ASSUME NEW c \in Calls, Find(c) PROVE TypeOK' BY <1>3 DEF Find
<1>4. ASSUME NEW c \in Calls, Insert(c) PROVE TypeOK' BY <1>4 DEF Insert
<1>5. ASSUME NEW c \in Calls, BeginBuild(c) PROVE TypeOK' BY <1>5 DEF BeginBuild
<1>6. ASSUME NEW c \in Calls, FinishBuild(c) PROVE TypeOK' BY <1>6 DEF FinishBuild
<1>7. ASSUME NEW c \in Calls, Join(c) PROVE TypeOK' BY <1>7 DEF Join
<1>8. ASSUME NEW c \in Calls, Retain(c) PROVE TypeOK' BY <1>8 DEF Retain
<1>9. ASSUME NEW c \in Calls, RecordProfile(c) PROVE TypeOK' BY <1>9 DEF RecordProfile
<1>10. ASSUME NEW c \in Calls, Discard(c) PROVE TypeOK' BY <1>10 DEF Discard
<1> QED
  BY <1>1, <1>2, <1>3, <1>4, <1>5, <1>6, <1>7, <1>8, <1>9, <1>10 DEF Next, Step

\* Every step keeps the parts about cells and the calls that hold them.
LEMMA CellStep == ASSUME TypeOK, CellInv, Next PROVE CellInv'
<1> USE NttAssumption
    DEF TypeOK, Running, Finished, Live, Holding, Goto, Key,
        CellInv, InserterHolds, SlotIsCell, EntryCovers, CellOutcome, StepOutcome, OneBuilder
<1>1. CASE Release BY <1>1 DEF Release
<1>2. ASSUME NEW c \in Calls, Begin(c) PROVE CellInv' BY <1>2 DEF Begin
<1>3. ASSUME NEW c \in Calls, Find(c) PROVE CellInv' BY <1>3 DEF Find, IsBest
<1>4. ASSUME NEW c \in Calls, Insert(c) PROVE CellInv'
  <2>1. cell[c] = "none" /\ want' = want /\ profiled' = profiled BY <1>4 DEF Insert
  <2>2. /\ pc' = [pc EXCEPT ![c] = "cell"] /\ pc[c] = "lookup"
        /\ entry' = [entry EXCEPT ![c] = c]
        /\ cell' = [cell EXCEPT ![c] = "unset"]
        /\ slots' = [slots EXCEPT ![want[c]] = c]
    BY <1>4 DEF Insert
  <2>3. \A d \in Calls : pc[d] \in Holding => entry[d] # c BY <2>1
  <2>4. InserterHolds' BY <2>1, <2>2
  <2>5. SlotIsCell' BY <2>1, <2>2
  <2>6. EntryCovers'
    <3> SUFFICES ASSUME NEW d \in Calls, pc'[d] \in Holding
                 PROVE  entry'[d] \in Calls /\ cell'[entry'[d]] # "none" /\ want'[entry'[d]] >= want'[d]
      OBVIOUS
    <3>1. CASE d = c
      <4>1. entry'[d] = c /\ cell'[c] = "unset" BY <2>2, <3>1
      <4>2. want[c] \in Nat OBVIOUS
      <4> QED BY <2>1, <3>1, <4>1, <4>2
    <3>2. CASE d # c
      <4>1. pc[d] \in Holding /\ entry'[d] = entry[d] BY <2>2, <3>2
      <4>2. entry[d] \in Calls /\ cell[entry[d]] # "none" /\ want[entry[d]] >= want[d] BY <4>1
      <4>3. cell'[entry[d]] # "none" BY <2>2, <4>2
      <4> QED BY <2>1, <4>1, <4>2, <4>3
    <3> QED BY <3>1, <3>2
  <2>7. CellOutcome' BY <2>1, <2>2
  <2>8. StepOutcome' BY <2>1, <2>2, <2>3
  <2>9. OneBuilder' BY <2>1, <2>2, <2>3
  <2> QED BY <2>4, <2>5, <2>6, <2>7, <2>8, <2>9
<1>5. ASSUME NEW c \in Calls, BeginBuild(c) PROVE CellInv' BY <1>5 DEF BeginBuild
<1>6. ASSUME NEW c \in Calls, FinishBuild(c) PROVE CellInv' BY <1>6 DEF FinishBuild
<1>7. ASSUME NEW c \in Calls, Join(c) PROVE CellInv' BY <1>7 DEF Join
<1>8. ASSUME NEW c \in Calls, Retain(c) PROVE CellInv' BY <1>8 DEF Retain
<1>9. ASSUME NEW c \in Calls, RecordProfile(c) PROVE CellInv' BY <1>9 DEF RecordProfile
<1>10. ASSUME NEW c \in Calls, Discard(c) PROVE CellInv' BY <1>10 DEF Discard
<1> QED
  BY <1>1, <1>2, <1>3, <1>4, <1>5, <1>6, <1>7, <1>8, <1>9, <1>10 DEF Next, Step

\* Every step keeps the parts about the entries of the map.
LEMMA SlotStep == ASSUME TypeOK, CellInv, SlotInv, Next PROVE SlotInv'
<1> USE NttAssumption
    DEF TypeOK, Running, Finished, Live, Holding, Goto, Key,
        CellInv, InserterHolds, SlotIsCell, EntryCovers, CellOutcome, StepOutcome, OneBuilder,
        SlotInv, FailedIsGone, EvictedBelow
<1>1. CASE Release BY <1>1 DEF Release
<1>2. ASSUME NEW c \in Calls, Begin(c) PROVE SlotInv' BY <1>2 DEF Begin
<1>3. ASSUME NEW c \in Calls, Find(c) PROVE SlotInv' BY <1>3 DEF Find
<1>4. ASSUME NEW c \in Calls, Insert(c) PROVE SlotInv' BY <1>4 DEF Insert
<1>5. ASSUME NEW c \in Calls, BeginBuild(c) PROVE SlotInv' BY <1>5 DEF BeginBuild
<1>6. ASSUME NEW c \in Calls, FinishBuild(c) PROVE SlotInv' BY <1>6 DEF FinishBuild
<1>7. ASSUME NEW c \in Calls, Join(c) PROVE SlotInv' BY <1>7 DEF Join
<1>8. ASSUME NEW c \in Calls, Retain(c) PROVE SlotInv' BY <1>8 DEF Retain
<1>9. ASSUME NEW c \in Calls, RecordProfile(c) PROVE SlotInv' BY <1>9 DEF RecordProfile
<1>10. ASSUME NEW c \in Calls, Discard(c) PROVE SlotInv' BY <1>10 DEF Discard
<1> QED
  BY <1>1, <1>2, <1>3, <1>4, <1>5, <1>6, <1>7, <1>8, <1>9, <1>10 DEF Next, Step

\* A step that releases nothing keeps every size served that was served: the
\* only built slots it takes out of the map are below one that stays.
LEMMA ServeStep ==
  ASSUME TypeOK, CellInv, NothingLost, Next, drops' = 0
  PROVE  \A s \in Sizes : Serves(s) => Serves(s)'
<1> USE NttAssumption
    DEF TypeOK, Running, Finished, Live, Holding, Goto, Key, Serves,
        CellInv, InserterHolds, SlotIsCell, EntryCovers, CellOutcome, StepOutcome, OneBuilder
<1> SUFFICES ASSUME NEW s \in Sizes, Serves(s) PROVE Serves(s)' OBVIOUS
<1> PICK t \in Sizes : t >= s /\ slots[t] # None /\ cell[slots[t]] = "ok" OBVIOUS
<1>1. CASE Release BY <1>1 DEF Release
<1>2. ASSUME NEW c \in Calls, Begin(c) PROVE Serves(s)' BY <1>2 DEF Begin
<1>3. ASSUME NEW c \in Calls, Find(c) PROVE Serves(s)' BY <1>3 DEF Find
<1>4. ASSUME NEW c \in Calls, Insert(c) PROVE Serves(s)' BY <1>4 DEF Insert
<1>5. ASSUME NEW c \in Calls, BeginBuild(c) PROVE Serves(s)' BY <1>5 DEF BeginBuild
<1>6. ASSUME NEW c \in Calls, FinishBuild(c) PROVE Serves(s)' BY <1>6 DEF FinishBuild
<1>7. ASSUME NEW c \in Calls, Join(c) PROVE Serves(s)' BY <1>7 DEF Join
<1>8. ASSUME NEW c \in Calls, Retain(c) PROVE Serves(s)'
  <2>1. drops = 0 /\ cell[entry[c]] = "ok" /\ entry[c] \in Calls BY <1>8 DEF Retain
  <2>2. Serves(Key(c)) BY <2>1 DEF NothingLost
  <2>3. PICK u \in Sizes : u >= Key(c) /\ slots[u] # None /\ cell[slots[u]] = "ok"
    BY <2>2
  <2>4. CASE t < Key(c)
    <3>1. s \in Nat /\ t \in Nat /\ u \in Nat /\ Key(c) \in Nat BY <2>1
    <3>2. u >= s BY <2>3, <2>4, <3>1
    <3>3. slots'[u] = slots[u] /\ cell' = cell
      <4>1. slots' = [r \in Sizes |-> IF r < Key(c) THEN None ELSE slots[r]] /\ cell' = cell
        BY <1>8 DEF Retain
      <4>2. ~(u < Key(c)) BY <2>3, <3>1
      <4> QED BY <4>1, <4>2
    <3> QED BY <2>3, <3>2, <3>3
  <2>5. CASE ~(t < Key(c))
    <3>1. slots'[t] = slots[t] /\ cell' = cell BY <1>8, <2>1, <2>5 DEF Retain
    <3> QED BY <3>1
  <2> QED BY <2>4, <2>5
<1>9. ASSUME NEW c \in Calls, RecordProfile(c) PROVE Serves(s)' BY <1>9 DEF RecordProfile
<1>10. ASSUME NEW c \in Calls, Discard(c) PROVE Serves(s)' BY <1>10 DEF Discard
<1> QED
  BY <1>1, <1>2, <1>3, <1>4, <1>5, <1>6, <1>7, <1>8, <1>9, <1>10 DEF Next, Step

\* Every step keeps what was built or is being built within reach.
LEMMA LossStep == ASSUME TypeOK, CellInv, NothingLost, Next PROVE NothingLost'
<1> USE NttAssumption
    DEF TypeOK, Running, Finished, Live, Holding, Goto, Key,
        CellInv, InserterHolds, SlotIsCell, EntryCovers, CellOutcome, StepOutcome, OneBuilder
<1> SUFFICES ASSUME drops' = 0, NEW d \in Calls
             PROVE  /\ cell'[d] = "ok" => Serves(want[d])'
                    /\ cell'[d] \in {"unset", "building"} /\ slots'[want'[d]] # d => Serves(want[d])'
  BY DEF NothingLost
<1>0. drops = 0 /\ want' = want
  BY DEF Next, Step, Release, Begin, Find, Insert, BeginBuild, FinishBuild, Join, Retain,
         RecordProfile, Discard
<1>a. Serves(want[d]) => Serves(want[d])' BY <1>0, ServeStep
<1>b. /\ cell[d] = "ok" => Serves(want[d])
      /\ cell[d] \in {"unset", "building"} /\ slots[want[d]] # d => Serves(want[d])
  BY <1>0 DEF NothingLost
<1> DEFINE Goal == /\ cell'[d] = "ok" => Serves(want[d])'
                   /\ cell'[d] \in {"unset", "building"} /\ slots'[want'[d]] # d => Serves(want[d])'
<1>1. CASE Release BY <1>0, <1>1 DEF Release
<1>2. ASSUME NEW c \in Calls, Begin(c) PROVE Goal BY <1>0, <1>a, <1>b, <1>2 DEF Begin
<1>3. ASSUME NEW c \in Calls, Find(c) PROVE Goal BY <1>0, <1>a, <1>b, <1>3 DEF Find
<1>4. ASSUME NEW c \in Calls, Insert(c) PROVE Goal
  <2>1. /\ cell' = [cell EXCEPT ![c] = "unset"] /\ slots' = [slots EXCEPT ![want[c]] = c]
        /\ \A s \in Sizes : s >= want[c] => slots[s] = None
    BY <1>4 DEF Insert
  <2>2. CASE d = c
    <3>1. cell'[d] = "unset" /\ slots'[want[d]] = d BY <2>1, <2>2
    <3> QED BY <1>0, <3>1
  <2>3. CASE d # c /\ want[d] = want[c]
    <3>1. want[c] \in Sizes /\ want[c] \in Nat OBVIOUS
    <3>2. slots[want[d]] # d BY <2>1, <2>3, <3>1
    <3>3. cell'[d] = cell[d] BY <2>1, <2>3
    <3> QED BY <1>a, <1>b, <3>2, <3>3
  <2>4. CASE d # c /\ want[d] # want[c]
    <3>1. cell'[d] = cell[d] /\ slots'[want[d]] = slots[want[d]] BY <2>1, <2>4
    <3> QED BY <1>0, <1>a, <1>b, <3>1
  <2> QED BY <2>2, <2>3, <2>4
<1>5. ASSUME NEW c \in Calls, BeginBuild(c) PROVE Goal BY <1>0, <1>a, <1>b, <1>5 DEF BeginBuild
<1>6. ASSUME NEW c \in Calls, FinishBuild(c) PROVE Goal
  <2>1. CASE d = entry[c] /\ slots[want[d]] = d /\ cell'[d] = "ok"
    <3>1. slots' = slots BY <1>6 DEF FinishBuild
    <3> QED BY <1>0, <2>1, <3>1 DEF Serves
  <2>2. CASE ~(d = entry[c] /\ slots[want[d]] = d /\ cell'[d] = "ok")
    BY <1>0, <1>a, <1>b, <1>6, <2>2 DEF FinishBuild
  <2> QED BY <2>1, <2>2
<1>7. ASSUME NEW c \in Calls, Join(c) PROVE Goal BY <1>0, <1>a, <1>b, <1>7 DEF Join
<1>8. ASSUME NEW c \in Calls, Retain(c) PROVE Goal
  <2>1. CASE slots[want[d]] = d /\ slots'[want[d]] # d
    <3>1. want[d] < Key(c) /\ cell[entry[c]] = "ok" /\ entry[c] \in Calls
      BY <1>8, <2>1 DEF Retain
    <3>2. Serves(Key(c)) BY <1>0, <3>1 DEF NothingLost
    <3>3. PICK u \in Sizes : u >= Key(c) /\ slots[u] # None /\ cell[slots[u]] = "ok"
      BY <3>2 DEF Serves
    <3>4. u \in Nat /\ want[d] \in Nat /\ Key(c) \in Nat BY <3>1
    <3>5. u >= want[d] BY <3>1, <3>3, <3>4
    <3>6. Serves(want[d]) BY <3>3, <3>5 DEF Serves
    <3> QED BY <1>a, <3>6
  <2>2. CASE ~(slots[want[d]] = d /\ slots'[want[d]] # d)
    BY <1>0, <1>a, <1>b, <1>8, <2>2 DEF Retain
  <2> QED BY <2>1, <2>2
<1>9. ASSUME NEW c \in Calls, RecordProfile(c) PROVE Goal
  BY <1>0, <1>a, <1>b, <1>9 DEF RecordProfile
<1>10. ASSUME NEW c \in Calls, Discard(c) PROVE Goal BY <1>0, <1>a, <1>b, <1>10 DEF Discard
<1> QED
  BY <1>1, <1>2, <1>3, <1>4, <1>5, <1>6, <1>7, <1>8, <1>9, <1>10 DEF Next, Step

\* Every step keeps the cells of one size to one live cell, and fails only
\* calls whose own key cannot be built.
LEMMA OnceStep ==
  ASSUME TypeOK, CellInv, NothingLost, BuiltOnce, FailureIsOwn, Next
  PROVE  BuiltOnce' /\ FailureIsOwn'
<1> USE NttAssumption
    DEF TypeOK, Running, Finished, Live, Holding, Goto, Key, BuiltOnce, FailureIsOwn,
        CellInv, InserterHolds, SlotIsCell, EntryCovers, CellOutcome, StepOutcome, OneBuilder
<1> DEFINE Goal == BuiltOnce' /\ FailureIsOwn'
<1>1. CASE Release BY <1>1 DEF Release
<1>2. ASSUME NEW c \in Calls, Begin(c) PROVE Goal BY <1>2 DEF Begin
<1>3. ASSUME NEW c \in Calls, Find(c) PROVE Goal BY <1>3 DEF Find
<1>4. ASSUME NEW c \in Calls, Insert(c) PROVE Goal
  <2>1. FailureIsOwn' BY <1>4 DEF Insert
  <2>2. ASSUME drops = 0, NEW d \in Calls, want[d] = want[c], cell[d] \in Live PROVE FALSE
    <3>1. \A s \in Sizes : s >= want[c] => slots[s] = None BY <1>4 DEF Insert
    <3>2. ~Serves(want[c]) BY <3>1 DEF Serves
    <3>3. slots[want[c]] # d
      <4>1. want[c] \in Sizes /\ want[c] \in Nat OBVIOUS
      <4> QED BY <3>1, <4>1
    <3> QED BY <2>2, <3>2, <3>3 DEF NothingLost
  <2>3. BuiltOnce' BY <1>4, <2>2 DEF Insert
  <2> QED BY <2>1, <2>3
<1>5. ASSUME NEW c \in Calls, BeginBuild(c) PROVE Goal BY <1>5 DEF BeginBuild
<1>6. ASSUME NEW c \in Calls, FinishBuild(c) PROVE Goal BY <1>6 DEF FinishBuild
<1>7. ASSUME NEW c \in Calls, Join(c) PROVE Goal BY <1>7 DEF Join
<1>8. ASSUME NEW c \in Calls, Retain(c) PROVE Goal BY <1>8 DEF Retain
<1>9. ASSUME NEW c \in Calls, RecordProfile(c) PROVE Goal BY <1>9 DEF RecordProfile
<1>10. ASSUME NEW c \in Calls, Discard(c) PROVE Goal BY <1>10 DEF Discard
<1> QED
  BY <1>1, <1>2, <1>3, <1>4, <1>5, <1>6, <1>7, <1>8, <1>9, <1>10 DEF Next, Step

\* The inductive step, stuttering included.
LEMMA NextInv == IInv /\ [Next]_vars => IInv'
<1> SUFFICES ASSUME IInv, [Next]_vars PROVE IInv' OBVIOUS
<1>1. CASE Next BY <1>1, TypeStep, CellStep, SlotStep, LossStep, OnceStep DEF IInv
<1>2. CASE UNCHANGED vars
  BY <1>2 DEF vars, IInv, TypeOK, CellInv, InserterHolds, SlotIsCell, EntryCovers, CellOutcome,
              StepOutcome, OneBuilder, SlotInv, FailedIsGone, EvictedBelow, FailureIsOwn,
              NothingLost, BuiltOnce, Serves, Key
<1> QED BY <1>1, <1>2

\* The cache of prepared NTT prefixes keeps its invariant: calls hold covering
\* cells, cells are built once, and nothing built is lost by growth or failure.
THEOREM PreparedNttInvariant == Spec => []IInv
BY InitInv, NextInv, PTL DEF Spec

\* prepare_ntt_slot_on_prepared returns only built, covering slots.
THEOREM PreparedNttCovers == Spec => []ReturnedCovers
<1>1. IInv => ReturnedCovers
  BY DEF IInv, CellInv, EntryCovers, StepOutcome, ReturnedCovers, Holding
<1> QED BY <1>1, PreparedNttInvariant, PTL

\* prepare_ntt_slot_on_prepared fails only for a key that cannot be built.
THEOREM PreparedNttFailure == Spec => []FailureIsOwn
<1>1. IInv => FailureIsOwn BY DEF IInv
<1> QED BY <1>1, PreparedNttInvariant, PTL

\* Without releases no prefix is built twice.
THEOREM PreparedNttBuiltOnce == Spec => []BuiltOnce
<1>1. IInv => BuiltOnce BY DEF IInv
<1> QED BY <1>1, PreparedNttInvariant, PTL

\* When no call is running the map holds one slot at most, a built one.
THEOREM PreparedNttOneSlot == Spec => []OneSlotLeft
<1>1. IInv => OneSlotLeft
  <2> SUFFICES ASSUME IInv, \A c \in Calls : pc[c] \notin Running
               PROVE  /\ \A s \in Sizes : slots[s] # None => cell[slots[s]] = "ok"
                      /\ \A s, t \in Sizes : slots[s] # None /\ slots[t] # None => s = t
    BY DEF OneSlotLeft
  <2>1. ASSUME NEW s \in Sizes, slots[s] # None
        PROVE  slots[s] \in Calls /\ pc[slots[s]] = "done"
    BY <2>1 DEF IInv, TypeOK, CellInv, InserterHolds, SlotIsCell, SlotInv, FailedIsGone,
                Holding, Running, Finished
  <2>2. \A s \in Sizes : slots[s] # None => cell[slots[s]] = "ok"
    BY <2>1 DEF IInv, CellInv, InserterHolds, SlotIsCell, StepOutcome
  <2>3. ASSUME NEW s \in Sizes, NEW t \in Sizes, slots[s] # None, slots[t] # None
        PROVE  s = t
    <3>1. ~(s < t) BY <2>1, <2>3 DEF IInv, SlotInv, EvictedBelow
    <3>2. ~(t < s) BY <2>1, <2>3 DEF IInv, SlotInv, EvictedBelow
    <3> QED BY <3>1, <3>2, NttAssumption
  <2> QED BY <2>2, <2>3
<1> QED BY <1>1, PreparedNttInvariant, PTL

\* Without releases a size that is served stays served, step by step.
THEOREM PreparedNttKeepsServing == Spec => KeepsServing
<1>1. IInv /\ [Next]_vars => [drops' = 0 => \A s \in Sizes : Serves(s) => Serves(s)']_vars
  <2> SUFFICES ASSUME IInv, Next, drops' = 0
               PROVE  \A s \in Sizes : Serves(s) => Serves(s)'
    OBVIOUS
  <2> QED BY ServeStep DEF IInv
<1> QED BY <1>1, PreparedNttInvariant, PTL DEF Spec, KeepsServing
=============================================================================
