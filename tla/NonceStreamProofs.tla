--------------------------- MODULE NonceStreamProofs ---------------------------
(***************************************************************************)
(* The nonce stream is complete, canonical and read back exactly, for      *)
(* every plan GrindingPlan::new accepts, every word width and every order  *)
(* of calls, refused ones included.                                        *)
(*                                                                         *)
(* The argument: the bit offset never passes the start of the plan         *)
(* cursor's run, a skipped entry with bits leaves it behind for good, and  *)
(* an offset that has kept up has packed (or read) every run before it at  *)
(* its own place.  finish tests exactly that the offset has kept up.       *)
(***************************************************************************)
EXTENDS NonceStream, TLAPS

USE DEF Runs, Total, Bit, BitIndex, Word, Positions

\* The sizes of the plan are numbers.
LEMMA Sizes == N \in Nat /\ WordBits \in Nat /\ Capacity \in Nat
  BY PlanAssumption

\* Moving the plan cursor keeps it inside the plan, leaves a run with bits in
\* one move, and advances the start of the current run by the entry's width.
LEMMA CursorMove ==
  ASSUME NEW run \in Runs, NEW off \in Nat, off < Mult[run]
  PROVE  /\ NextRun(run, off) \in {run, run + 1}
         /\ NextRun(run, off) \in 1 .. N + 1
         /\ NextOff(run, off) \in Nat
         /\ NextRun(run, off) <= N => NextOff(run, off) < Mult[NextRun(run, off)]
         /\ Width[run] > 0 => NextRun(run, off) = run + 1
         /\ Start[NextRun(run, off)] = Start[run] + Width[run]
<1> USE PlanAssumption DEF NextRun, NextOff
<1>1. Mult[run] \in Nat \ {0} /\ Width[run] \in 0 .. WordBits /\ Start[run] \in Nat
  OBVIOUS
<1>2. CASE off + 1 = Mult[run]
  <2>1. NextRun(run, off) = run + 1 /\ NextOff(run, off) = 0
    BY <1>2
  <2>2. run + 1 <= N => Mult[run + 1] > 0
    OBVIOUS
  <2>3. QED
    BY <1>1, <2>1, <2>2
<1>3. CASE off + 1 # Mult[run]
  <2>1. NextRun(run, off) = run /\ NextOff(run, off) = off + 1
    BY <1>3
  <2>2. off + 1 < Mult[run] /\ Width[run] = 0
    <3>1. off + 1 < Mult[run]
      BY <1>1, <1>3
    <3>2. Mult[run] # 1
      BY <1>1, <3>1
    <3>3. ~(Width[run] > 0)
      BY <3>2
    <3>4. QED
      BY <1>1, <3>1, <3>3
  <2>3. QED
    BY <1>1, <2>1, <2>2
<1>4. QED
  BY <1>2, <1>3

\* The start of a run and of its bits lie below the total.
LEMMA RunInTotal ==
  ASSUME NEW i \in Runs
  PROVE  /\ Start[i] \in Nat /\ Start[i + 1] \in Nat /\ Width[i] \in Nat
         /\ Start[i] + Width[i] = Start[i + 1]
         /\ Start[i + 1] <= Total /\ Total <= Capacity
         /\ \A k \in 1 .. N + 1 : i < k => Start[i + 1] <= Start[k]
<1>1. i \in 1 .. N + 1 /\ i + 1 \in 1 .. N + 1 /\ N + 1 \in 1 .. N + 1
  BY PlanAssumption
<1>2. QED
  BY <1>1, PlanAssumption

LEMMA TotalType == Total \in Nat /\ Total <= Capacity
  BY PlanAssumption

\* write_bits with a value that fits, into bytes that are zero from the
\* offset on, stores the value, keeps what is below and leaves the rest zero.
LEMMA WriteBitsStores ==
  ASSUME NEW old \in [Positions -> Bit], NEW at \in Nat, NEW value \in Word,
         NEW width \in 0 .. WordBits, Fits(value, width),
         \A k \in Positions : k >= at => old[k] = 0
  PROVE  /\ WriteBits(old, at, value) \in [Positions -> Bit]
         /\ \A k \in Positions : k < at => WriteBits(old, at, value)[k] = old[k]
         /\ \A j \in BitIndex : at + j \in Positions
                => WriteBits(old, at, value)[at + j] = value[j]
         /\ \A k \in Positions : k >= at + width => WriteBits(old, at, value)[k] = 0
<1> DEFINE new == WriteBits(old, at, value)
<1> USE PlanAssumption
<1>1. new \in [Positions -> Bit]
  BY DEF WriteBits, Or
<1>2. \A k \in Positions : k < at => new[k] = old[k]
  BY DEF WriteBits
<1>3. ASSUME NEW j \in BitIndex, at + j \in Positions PROVE new[at + j] = value[j]
  <2>1. new[at + j] = Or(old[at + j], value[j])
    BY <1>3 DEF WriteBits
  <2>2. old[at + j] = 0 /\ value[j] \in Bit
    BY <1>3
  <2>3. QED
    BY <2>1, <2>2 DEF Or
<1>4. ASSUME NEW k \in Positions, k >= at + width PROVE new[k] = 0
  <2>1. k >= at /\ old[k] = 0
    BY <1>4
  <2>2. CASE k - at < WordBits
    <3>1. k - at \in BitIndex /\ k - at >= width
      BY <1>4, <2>1, <2>2
    <3>2. value[k - at] = 0
      BY <3>1 DEF Fits
    <3>3. QED
      BY <2>1, <2>2, <3>2 DEF WriteBits, Or
  <2>3. CASE ~(k - at < WordBits)
    BY <2>1, <2>3 DEF WriteBits
  <2>4. QED
    BY <2>2, <2>3
<1>5. QED
  BY <1>1, <1>2, <1>3, <1>4

\* read_bits inside the bytes returns a value that fits, bit by bit.
LEMMA ReadBitsReturns ==
  ASSUME NEW from \in [Positions -> Bit], NEW at \in Nat, NEW width \in 0 .. WordBits,
         at + width <= Capacity
  PROVE  /\ ReadBits(from, at, width) \in Word
         /\ Fits(ReadBits(from, at, width), width)
         /\ \A j \in BitIndex : j < width => ReadBits(from, at, width)[j] = from[at + j]
<1> USE PlanAssumption
<1>1. \A j \in BitIndex : j < width => at + j \in Positions
  OBVIOUS
<1>2. \A j \in BitIndex : (IF j < width THEN from[at + j] ELSE 0) \in Bit
  BY <1>1
<1>3. ReadBits(from, at, width) \in Word
  BY <1>2 DEF ReadBits
<1>4. Fits(ReadBits(from, at, width), width)
  BY DEF ReadBits, Fits
<1>5. QED
  BY <1>3, <1>4 DEF ReadBits

\* Two words with the same bits are the same word.
LEMMA SameWord ==
  ASSUME NEW v \in Word, NEW w \in Word, \A j \in BitIndex : v[j] = w[j]
  PROVE  v = w
<1>1. v = [j \in BitIndex |-> v[j]] /\ w = [j \in BitIndex |-> w[j]]
  BY Zenon
<1>2. [j \in BitIndex |-> v[j]] = [j \in BitIndex |-> w[j]]
  BY Zenon
<1>3. QED
  BY <1>1, <1>2, Zenon

\* The initial state satisfies the inductive invariant.
LEMMA InitIInv == Init => IInv
<1> SUFFICES ASSUME Init PROVE IInv
  OBVIOUS
<1> USE PlanAssumption DEF Init
<1>1. TypeOK
  <2>1. bits \in [Positions -> Bit] /\ wrote \in [Runs -> Word \cup {None}]
        /\ got \in [Runs -> Word \cup {None}]
    OBVIOUS
  <2>2. wrun \in 1 .. N + 1 /\ rrun \in 1 .. N + 1 /\ len \in 0 .. Capacity
    OBVIOUS
  <2>3. QED
    BY <2>1, <2>2, Zenon DEF TypeOK
<1>2. OffsetInRun
  BY DEF OffsetInRun
<1>3. WriterInv
  <2>1. WriterBehindPlan /\ BuiltAtEnd
    BY DEF WriterBehindPlan, BuiltAtEnd
  <2>2. CleanAbove
    BY DEF CleanAbove
  <2>3. WriterExact
    BY DEF WriterExact
  <2>4. QED
    BY <2>1, <2>2, <2>3 DEF WriterInv
<1>4. ReaderInv
  BY DEF ReaderInv, ReaderBehindPlan, ReaderExact, ReaderStarts, DoneAtEnd
<1>5. QED
  BY <1>1, <1>2, <1>3, <1>4 DEF IInv
-----------------------------------------------------------------------------
(* The writer's steps.                                                     *)

\* While the stream is being written the reader has not started.
LEMMA ReaderIdle ==
  ASSUME IInv, phase \in {"write", "built"}, UNCHANGED reader,
         phase' \in {"write", "built", "read"}
  PROVE  ReaderInv' /\ rrun' \in 1 .. N + 1 /\ (rrun' <= N => roff' < Mult[rrun'])
<1> USE PlanAssumption DEF IInv, ReaderInv, reader
<1>1. rrun' = 1 /\ rbit' = 0
  BY DEF ReaderStarts
<1>2. ReaderBehindPlan' /\ ReaderStarts' /\ DoneAtEnd'
  BY <1>1 DEF ReaderBehindPlan, ReaderStarts, DoneAtEnd
<1>3. ReaderExact'
  BY <1>1 DEF ReaderExact
<1>4. QED
  BY <1>1, <1>2, <1>3 DEF OffsetInRun

\* Facts every move of the writer's plan cursor shares.
LEMMA WriterMoveFacts ==
  ASSUME IInv, WriterMoves
  PROVE  /\ wrun \in Runs /\ Width[wrun] \in 0 .. WordBits
         /\ wrun' \in {wrun, wrun + 1} /\ wrun' \in 1 .. N + 1
         /\ woff' \in Nat
         /\ OffsetInRun'
         /\ Width[wrun] > 0 => wrun' = wrun + 1
         /\ Start[wrun'] = Start[wrun] + Width[wrun]
         /\ Start[wrun] \in Nat
         /\ Start[wrun] + Width[wrun] <= Capacity
         /\ phase = "write" /\ phase' = "write"
         /\ forged = FALSE /\ forged' = FALSE
         /\ wbit \in Nat /\ wbit <= Start[wrun]
         /\ ReaderInv'
<1> USE PlanAssumption
<1>1. wrun \in Runs /\ woff \in Nat /\ woff < Mult[wrun]
  BY DEF IInv, TypeOK, OffsetInRun, WriterMoves
<1>2. phase = "write" /\ phase' = "write" /\ forged' = forged /\ UNCHANGED reader
  BY DEF WriterMoves
<1>3. forged = FALSE
  BY <1>2 DEF IInv, WriterInv, CleanAbove
<1>4. ReaderInv' /\ (rrun' <= N => roff' < Mult[rrun'])
  BY <1>2, ReaderIdle
<1>5. wrun' = NextRun(wrun, woff) /\ woff' = NextOff(wrun, woff)
  BY DEF WriterMoves
<1>6. /\ wrun' \in {wrun, wrun + 1} /\ wrun' \in 1 .. N + 1 /\ woff' \in Nat
      /\ wrun' <= N => woff' < Mult[wrun']
      /\ Width[wrun] > 0 => wrun' = wrun + 1
      /\ Start[wrun'] = Start[wrun] + Width[wrun]
  BY <1>1, <1>5, CursorMove
<1>7. OffsetInRun'
  BY <1>4, <1>6 DEF OffsetInRun
<1>8. /\ Start[wrun] \in Nat /\ Width[wrun] \in 0 .. WordBits
      /\ Start[wrun] + Width[wrun] <= Capacity
  <2>1. Start[wrun + 1] \in Nat /\ Start[wrun + 1] <= Total /\ Total <= Capacity
    BY <1>1, RunInTotal
  <2>2. Start[wrun + 1] = Start[wrun] + Width[wrun]
    BY <1>1
  <2>3. Total \in Nat
    BY TotalType
  <2>4. Start[wrun] \in Nat /\ Width[wrun] \in 0 .. WordBits
    BY <1>1
  <2>5. QED
    BY <2>1, <2>2, <2>3, <2>4
<1>9. wbit \in Nat /\ wbit <= Start[wrun]
  BY DEF IInv, TypeOK, WriterInv, WriterBehindPlan
<1>10. QED
  BY <1>1, <1>2, <1>3, <1>4, <1>6, <1>7, <1>8, <1>9

\* An accepted write.
LEMMA PutEntryKeeps ==
  ASSUME IInv, NEW value \in Word, wrun <= N => Fits(value, Width[wrun]), PutEntry(value)
  PROVE  IInv'
<1> USE Sizes
<1>0. WriterMoves
  BY DEF PutEntry
<1>1. /\ wrun \in Runs /\ Width[wrun] \in 0 .. WordBits
      /\ wrun' \in {wrun, wrun + 1} /\ wrun' \in 1 .. N + 1
      /\ woff' \in Nat /\ OffsetInRun' /\ ReaderInv'
      /\ Width[wrun] > 0 => wrun' = wrun + 1
      /\ Start[wrun'] = Start[wrun] + Width[wrun]
      /\ Start[wrun] \in Nat /\ Start[wrun] + Width[wrun] <= Capacity
      /\ phase = "write" /\ phase' = "write"
      /\ forged = FALSE /\ forged' = FALSE
      /\ wbit \in Nat /\ wbit <= Start[wrun]
  BY <1>0, WriterMoveFacts
<1>2. /\ bits' = WriteBits(bits, wbit, value)
      /\ wbit' = wbit + Width[wrun]
      /\ wrote' = [wrote EXCEPT ![wrun] = value]
  BY DEF PutEntry
<1>3. /\ bits \in [Positions -> Bit]
      /\ \A k \in Positions : k >= wbit => bits[k] = 0
      /\ wrote \in [Runs -> Word \cup {None}]
  BY <1>1 DEF IInv, TypeOK, WriterInv, CleanAbove
<1>4. Fits(value, Width[wrun])
  BY <1>1
<1>5. /\ bits' \in [Positions -> Bit]
      /\ \A k \in Positions : k < wbit => bits'[k] = bits[k]
      /\ \A j \in BitIndex : wbit + j \in Positions => bits'[wbit + j] = value[j]
      /\ \A k \in Positions : k >= wbit + Width[wrun] => bits'[k] = 0
  <2>1. wbit \in Nat /\ Width[wrun] \in 0 .. WordBits
    BY <1>1
  <2>2. QED
    BY ONLY <1>2, <1>3, <1>4, <2>1, value \in Word, WriteBitsStores
<1>6. TypeOK'
  <2>1. wrote' \in [Runs -> Word \cup {None}]
    BY <1>1, <1>2, <1>3
  <2>2. wbit' \in Nat
    BY <1>1, <1>2
  <2>3. UNCHANGED <<len, forged, rrun, roff, rbit, got>>
    BY <1>0 DEF WriterMoves, reader
  <2>4. QED
    BY <1>1, <1>5, <2>1, <2>2, <2>3 DEF IInv, TypeOK
<1>7. WriterBehindPlan'
  BY <1>1, <1>2 DEF WriterBehindPlan
<1>8. CleanAbove' /\ BuiltAtEnd'
  BY <1>1, <1>2, <1>5 DEF CleanAbove, BuiltAtEnd
<1>9. WriterExact'
  <2> SUFFICES ASSUME wbit' = Start[wrun'], NEW i \in Runs, i < wrun', Width[i] > 0
               PROVE  IsPacked(i)'
    BY DEF WriterExact
  <2>1. wbit = Start[wrun]
    BY <1>1, <1>2
  <2>2. CASE i = wrun
    <3>1. wrote'[i] = value
      BY <1>1, <1>2, <1>3, <2>2
    <3>2. \A j \in BitIndex : j < Width[i] => wbit + j \in Positions
      BY <1>1, <2>1, <2>2
    <3>3. \A j \in BitIndex : j < Width[i] => bits'[Start[i] + j] = value[j]
      BY <1>5, <2>1, <2>2, <3>2
    <3>4. QED
      BY <1>4, <2>2, <3>1, <3>3 DEF IsPacked, Fits
  <2>3. CASE i # wrun
    <3>1. i < wrun
      BY <1>1, <2>3
    <3>2. IsPacked(i)
      BY <1>1, <2>1, <3>1 DEF IInv, WriterInv, WriterExact
    <3>3. wrote'[i] = wrote[i]
      BY <1>1, <1>2, <1>3, <2>3
    <3>4. Start[i] \in Nat /\ Start[i] + Width[i] <= wbit /\ Width[i] \in Nat
      BY <1>1, <2>1, <3>1, RunInTotal
    <3>5. \A j \in BitIndex : j < Width[i] =>
             Start[i] + j \in Positions /\ Start[i] + j < wbit
      <4>1. wbit \in Nat /\ wbit <= Capacity
        BY <1>1, <2>1
      <4>2. QED
        BY ONLY <3>4, <4>1, Sizes
    <3>6. \A j \in BitIndex : j < Width[i] => bits'[Start[i] + j] = bits[Start[i] + j]
      BY <1>5, <3>5
    <3>7. QED
      BY <3>2, <3>3, <3>6 DEF IsPacked, Fits
  <2>4. QED
    BY <2>2, <2>3
<1>10. QED
  BY <1>1, <1>6, <1>7, <1>8, <1>9 DEF IInv, WriterInv

\* A write refused after the plan cursor moved.
LEMMA SkipEntryKeeps == ASSUME IInv, SkipEntry PROVE IInv'
<1> USE Sizes
<1>0. WriterMoves /\ UNCHANGED <<bits, wbit, wrote>>
  BY DEF SkipEntry
<1>1. /\ wrun \in Runs /\ Width[wrun] \in 0 .. WordBits
      /\ wrun' \in {wrun, wrun + 1} /\ wrun' \in 1 .. N + 1
      /\ woff' \in Nat /\ OffsetInRun' /\ ReaderInv'
      /\ Width[wrun] > 0 => wrun' = wrun + 1
      /\ Start[wrun'] = Start[wrun] + Width[wrun]
      /\ Start[wrun] \in Nat
      /\ phase = "write" /\ phase' = "write"
      /\ forged = FALSE /\ forged' = FALSE
      /\ wbit \in Nat /\ wbit <= Start[wrun]
  BY <1>0, WriterMoveFacts
<1>2. TypeOK'
  <2>1. UNCHANGED <<len, forged, rrun, roff, rbit, got>>
    BY <1>0 DEF WriterMoves, reader
  <2>2. QED
    BY <1>0, <1>1, <2>1 DEF IInv, TypeOK
<1>3. WriterBehindPlan'
  BY <1>0, <1>1 DEF WriterBehindPlan
<1>4. CleanAbove' /\ BuiltAtEnd'
  BY <1>0, <1>1 DEF IInv, WriterInv, CleanAbove, BuiltAtEnd
<1>5. WriterExact'
  <2> SUFFICES ASSUME wbit' = Start[wrun'], NEW i \in Runs, i < wrun', Width[i] > 0
               PROVE  IsPacked(i)'
    BY DEF WriterExact
  <2>1. wbit = Start[wrun] /\ Width[wrun] = 0
    <3>1. wbit = Start[wrun] + Width[wrun]
      BY <1>0, <1>1
    <3>2. wbit \in Nat /\ Start[wrun] \in Nat /\ Width[wrun] \in Nat /\ wbit <= Start[wrun]
      BY <1>1
    <3>3. QED
      BY ONLY <3>1, <3>2
  <2>2. i < wrun
    BY <1>1, <2>1
  <2>3. IsPacked(i)
    BY <1>1, <2>1, <2>2 DEF IInv, WriterInv, WriterExact
  <2>4. QED
    BY <1>0, <2>3 DEF IsPacked, Fits
<1>6. QED
  BY <1>1, <1>2, <1>3, <1>4, <1>5 DEF IInv, WriterInv

\* A fold group recorded by the writer: a whole run without bits.
LEMMA RecordFoldKeeps ==
  ASSUME IInv, NEW site \in Sites, NEW coords \in 0 .. MaxCoords, RecordFold(site, coords)
  PROVE  IInv'
<1>1. /\ wrun \in Runs /\ Width[wrun] = 0 /\ woff = 0
      /\ phase = "write" /\ phase' = "write" /\ wrun' = wrun + 1
      /\ UNCHANGED <<woff, wbit, wrote, bits, len, forged, rrun, roff, rbit, got>>
  BY Sizes DEF RecordFold, IsFoldRun, IInv, TypeOK, stream, reader
<1>2. ReaderInv' /\ (rrun' <= N => roff' < Mult[rrun'])
  BY <1>1, ReaderIdle DEF reader
<1>3. wrun' \in 1 .. N + 1
  BY <1>1, Sizes
<1>4. wrun' <= N => woff' < Mult[wrun']
  BY <1>1, <1>3, PlanAssumption
<1>5. Start[wrun'] = Start[wrun]
  <2>1. Start[wrun + 1] = Start[wrun] + Width[wrun] /\ Start[wrun] \in Nat
    BY <1>1, PlanAssumption
  <2>2. QED
    BY <1>1, <2>1
<1>6. TypeOK'
  BY <1>1, <1>3 DEF IInv, TypeOK
<1>7. WriterBehindPlan' /\ CleanAbove' /\ BuiltAtEnd'
  BY <1>1, <1>5 DEF IInv, WriterInv, WriterBehindPlan, CleanAbove, BuiltAtEnd
<1>8. WriterExact'
  <2> SUFFICES ASSUME wbit' = Start[wrun'], ~forged', NEW i \in Runs, i < wrun', Width[i] > 0
               PROVE  IsPacked(i)'
    BY DEF WriterExact
  <2>1. i # wrun
    BY <1>1
  <2>2. i < wrun
    BY <1>1, <2>1, Sizes
  <2>3. IsPacked(i)
    BY <1>1, <1>5, <2>2 DEF IInv, WriterInv, WriterExact
  <2>4. QED
    BY <1>1, <2>3 DEF IsPacked, Fits
<1>9. QED
  BY <1>2, <1>4, <1>6, <1>7, <1>8 DEF IInv, OffsetInRun, WriterInv

\* The writer's part of the invariant depends only on what the writer made.
LEMMA WriterKept ==
  ASSUME WriterExact, WriterBehindPlan, UNCHANGED <<wrun, wbit, wrote, bits, forged>>
  PROVE  WriterExact' /\ WriterBehindPlan'
  BY DEF WriterExact, WriterBehindPlan, IsPacked, Fits

LEMMA FinishWriterKeeps == ASSUME IInv, FinishWriter PROVE IInv'
<1>1. /\ phase = "write" /\ phase' = "built"
      /\ wrun = N + 1 /\ woff = 0 /\ wbit = Total /\ len' = Total
      /\ UNCHANGED <<wrun, woff, wbit, wrote, bits, forged, rrun, roff, rbit, got>>
  BY DEF FinishWriter, writer, reader
<1>2. ReaderInv'
  BY <1>1, ReaderIdle DEF reader
<1>3. TypeOK'
  BY <1>1, TotalType, Sizes DEF IInv, TypeOK
<1>4. CleanAbove' /\ BuiltAtEnd'
  BY <1>1 DEF IInv, WriterInv, CleanAbove, BuiltAtEnd
<1>5. WriterExact' /\ WriterBehindPlan'
  BY <1>1, WriterKept DEF IInv, WriterInv
<1>6. QED
  BY <1>1, <1>2, <1>3, <1>4, <1>5 DEF IInv, OffsetInRun, WriterInv

LEMMA FromBytesKeeps ==
  ASSUME IInv, NEW raw \in [Positions -> Bit], NEW n \in 0 .. Capacity, FromBytes(raw, n)
  PROVE  IInv'
<1>1. /\ phase = "write" /\ phase' = "built"
      /\ \A k \in Positions : k >= n => raw[k] = 0
      /\ bits' = raw /\ len' = n /\ forged' = TRUE
      /\ UNCHANGED <<wrun, woff, wbit, wrote, rrun, roff, rbit, got>>
  BY DEF FromBytes, writer, reader
<1>2. ReaderInv'
  BY <1>1, ReaderIdle DEF reader
<1>3. TypeOK'
  BY <1>1 DEF IInv, TypeOK
<1>4. CleanAbove' /\ BuiltAtEnd' /\ WriterExact' /\ WriterBehindPlan'
  BY <1>1 DEF IInv, WriterInv, CleanAbove, BuiltAtEnd, WriterExact, WriterBehindPlan
<1>5. QED
  BY <1>1, <1>2, <1>3, <1>4 DEF IInv, OffsetInRun, WriterInv

LEMMA OpenReaderKeeps == ASSUME IInv, OpenReader PROVE IInv'
<1>1. /\ phase = "built" /\ phase' = "read" /\ len = Total
      /\ UNCHANGED <<wrun, woff, wbit, wrote, bits, len, forged, rrun, roff, rbit, got>>
  BY DEF OpenReader, writer, stream, reader
<1>2. ReaderInv'
  BY <1>1, ReaderIdle DEF reader
<1>3. TypeOK'
  BY <1>1 DEF IInv, TypeOK
<1>4. CleanAbove' /\ BuiltAtEnd'
  BY <1>1 DEF IInv, WriterInv, CleanAbove, BuiltAtEnd
<1>5. WriterExact' /\ WriterBehindPlan'
  BY <1>1, WriterKept DEF IInv, WriterInv
<1>6. QED
  BY <1>1, <1>2, <1>3, <1>4, <1>5 DEF IInv, OffsetInRun, WriterInv
-----------------------------------------------------------------------------
(* The reader's steps.                                                     *)

\* The reader changes nothing of the writer's part.
LEMMA WriterDone ==
  ASSUME IInv, phase = "read", phase' \in {"read", "done"}, UNCHANGED <<writer, stream>>
  PROVE  WriterInv'
<1>1. WriterExact' /\ WriterBehindPlan'
  BY WriterKept DEF IInv, WriterInv, writer, stream
<1>2. CleanAbove' /\ BuiltAtEnd'
  BY DEF IInv, WriterInv, CleanAbove, BuiltAtEnd, writer, stream
<1>3. QED
  BY <1>1, <1>2 DEF WriterInv

LEMMA ReadKeeps == ASSUME IInv, NEW site \in Sites, Read(site) PROVE IInv'
<1> USE Sizes
<1>1. /\ phase = "read" /\ phase' = "read"
      /\ rrun' = NextRun(rrun, roff) /\ roff' = NextOff(rrun, roff)
      /\ UNCHANGED <<wrun, woff, wbit, wrote, bits, len, forged>>
      /\ UNCHANGED <<writer, stream>>
  BY DEF Read, ReaderMoves, writer, stream
<1>2. rrun \in Runs /\ roff \in Nat /\ roff < Mult[rrun]
  BY DEF Read, ReaderMoves, IInv, TypeOK, OffsetInRun
<1>3. /\ rrun' \in {rrun, rrun + 1} /\ rrun' \in 1 .. N + 1 /\ roff' \in Nat
      /\ rrun' <= N => roff' < Mult[rrun']
      /\ Width[rrun] > 0 => rrun' = rrun + 1
      /\ Start[rrun'] = Start[rrun] + Width[rrun]
  BY <1>1, <1>2, CursorMove
<1>4. /\ Start[rrun] \in Nat /\ Width[rrun] \in 0 .. WordBits
      /\ rbit \in Nat /\ rbit <= Start[rrun]
      /\ rbit + Width[rrun] <= Capacity
  <2>1. rbit \in Nat /\ rbit <= Start[rrun]
    BY DEF IInv, TypeOK, ReaderInv, ReaderBehindPlan
  <2>2. Start[rrun] \in Nat /\ Width[rrun] \in 0 .. WordBits
    BY <1>2, PlanAssumption
  <2>3. Start[rrun] + Width[rrun] <= Total
    BY <1>2, RunInTotal
  <2>4. QED
    BY <2>1, <2>2, <2>3, TotalType
<1>5. WriterInv'
  BY <1>1, WriterDone
<1>6. OffsetInRun'
  BY <1>1, <1>3 DEF IInv, OffsetInRun
<1>7. bits \in [Positions -> Bit] /\ got \in [Runs -> Word \cup {None}]
  BY DEF IInv, TypeOK
<1>8. ReaderStarts' /\ DoneAtEnd'
  BY <1>1 DEF ReaderStarts, DoneAtEnd
<1>9. CASE site = SiteOf[rrun]
  <2> DEFINE value == ReadBits(bits, rbit, Width[rrun])
  <2>1. got' = [got EXCEPT ![rrun] = value] /\ rbit' = rbit + Width[rrun]
    BY <1>9 DEF Read
  <2>2. /\ value \in Word /\ Fits(value, Width[rrun])
        /\ \A j \in BitIndex : j < Width[rrun] => value[j] = bits[rbit + j]
    BY <1>4, <1>7, ReadBitsReturns
  <2> HIDE DEF value
  <2>3. got' \in [Runs -> Word \cup {None}]
    BY <1>2, <1>7, <2>1, <2>2
  <2>4. rbit' \in Nat
    BY <1>4, <2>1
  <2>5. TypeOK'
    BY <1>1, <1>3, <2>3, <2>4 DEF IInv, TypeOK
  <2>6. ReaderBehindPlan'
    BY <1>3, <1>4, <2>1 DEF ReaderBehindPlan
  <2>7. ReaderExact'
    <3> SUFFICES ASSUME rbit' = Start[rrun'], NEW i \in Runs, i < rrun', Width[i] > 0
                 PROVE  IsReplayed(i)'
      BY DEF ReaderExact
    <3>1. rbit = Start[rrun]
      BY <1>3, <1>4, <2>1
    <3>2. CASE i = rrun
      <4>1. got'[i] = value
        BY <1>7, <2>1, <3>2
      <4>2. QED
        BY <1>1, <2>2, <3>1, <3>2, <4>1 DEF IsReplayed, Fits
    <3>3. CASE i # rrun
      <4>1. i < rrun
        BY <1>2, <1>3, <3>3
      <4>2. IsReplayed(i)
        BY <3>1, <4>1 DEF IInv, ReaderInv, ReaderExact
      <4>3. got'[i] = got[i]
        BY <1>7, <2>1, <3>3
      <4>4. QED
        BY <1>1, <4>2, <4>3 DEF IsReplayed, Fits
    <3>4. QED
      BY <3>2, <3>3
  <2>8. QED
    BY <1>5, <1>6, <1>8, <2>5, <2>6, <2>7 DEF IInv, ReaderInv
<1>10. CASE site # SiteOf[rrun]
  <2>1. got' = got /\ rbit' = rbit
    BY <1>10 DEF Read
  <2>2. TypeOK'
    BY <1>1, <1>3, <2>1 DEF IInv, TypeOK
  <2>3. ReaderBehindPlan'
    BY <1>3, <1>4, <2>1 DEF ReaderBehindPlan
  <2>4. ReaderExact'
    <3> SUFFICES ASSUME rbit' = Start[rrun'], NEW i \in Runs, i < rrun', Width[i] > 0
                 PROVE  IsReplayed(i)'
      BY DEF ReaderExact
    <3>1. rbit = Start[rrun] /\ Width[rrun] = 0
      <4>1. rbit = Start[rrun] + Width[rrun]
        BY <1>3, <2>1
      <4>2. Width[rrun] \in Nat
        BY <1>4
      <4>3. QED
        BY ONLY <1>4, <4>1, <4>2
    <3>2. i < rrun
      BY <1>2, <1>3, <3>1
    <3>3. IsReplayed(i)
      BY <3>1, <3>2 DEF IInv, ReaderInv, ReaderExact
    <3>4. QED
      BY <1>1, <2>1, <3>3 DEF IsReplayed, Fits
  <2>5. QED
    BY <1>5, <1>6, <1>8, <2>2, <2>3, <2>4 DEF IInv, ReaderInv
<1>11. QED
  BY <1>9, <1>10

LEMMA ReplayFoldKeeps ==
  ASSUME IInv, NEW site \in Sites, NEW coords \in 0 .. MaxCoords, ReplayFold(site, coords)
  PROVE  IInv'
<1>1. /\ rrun \in Runs /\ Width[rrun] = 0 /\ roff = 0
      /\ phase = "read" /\ phase' = "read" /\ rrun' = rrun + 1
      /\ UNCHANGED <<wrun, woff, wbit, wrote, bits, len, forged, roff, rbit, got>>
      /\ UNCHANGED <<writer, stream>>
  BY Sizes DEF ReplayFold, IsFoldRun, IInv, TypeOK, stream, writer
<1>2. WriterInv'
  BY <1>1, WriterDone
<1>3. rrun' \in 1 .. N + 1
  BY <1>1, Sizes
<1>4. rrun' <= N => roff' < Mult[rrun']
  BY <1>1, <1>3, PlanAssumption
<1>5. Start[rrun'] = Start[rrun]
  <2>1. Start[rrun + 1] = Start[rrun] + Width[rrun] /\ Start[rrun] \in Nat
    BY <1>1, PlanAssumption
  <2>2. QED
    BY <1>1, <2>1
<1>6. TypeOK'
  BY <1>1, <1>3 DEF IInv, TypeOK
<1>7. ReaderBehindPlan' /\ ReaderStarts' /\ DoneAtEnd'
  BY <1>1, <1>5 DEF IInv, ReaderInv, ReaderBehindPlan, ReaderStarts, DoneAtEnd
<1>8. ReaderExact'
  <2> SUFFICES ASSUME rbit' = Start[rrun'], NEW i \in Runs, i < rrun', Width[i] > 0
               PROVE  IsReplayed(i)'
    BY DEF ReaderExact
  <2>1. i # rrun
    BY <1>1
  <2>2. i < rrun
    BY <1>1, <2>1, Sizes
  <2>3. IsReplayed(i)
    BY <1>1, <1>5, <2>2 DEF IInv, ReaderInv, ReaderExact
  <2>4. QED
    BY <1>1, <2>3 DEF IsReplayed, Fits
<1>9. QED
  BY <1>1, <1>2, <1>4, <1>6, <1>7, <1>8 DEF IInv, OffsetInRun, ReaderInv

LEMMA FinishReaderKeeps == ASSUME IInv, FinishReader PROVE IInv'
<1>1. /\ phase = "read" /\ phase' = "done" /\ rrun = N + 1 /\ rbit = len
      /\ UNCHANGED <<wrun, woff, wbit, wrote, bits, len, forged, rrun, roff, rbit, got>>
      /\ UNCHANGED <<writer, stream>>
  BY DEF FinishReader, writer, stream, reader
<1>2. len = Total
  BY <1>1 DEF IInv, WriterInv, BuiltAtEnd
<1>3. WriterInv'
  BY <1>1, WriterDone
<1>4. TypeOK' /\ OffsetInRun'
  BY <1>1 DEF IInv, TypeOK, OffsetInRun
<1>5. ReaderBehindPlan' /\ ReaderStarts' /\ DoneAtEnd'
  BY <1>1, <1>2 DEF IInv, ReaderInv, ReaderBehindPlan, ReaderStarts, DoneAtEnd
<1>6. ReaderExact'
  BY <1>1 DEF IInv, ReaderInv, ReaderExact, IsReplayed, Fits
<1>7. QED
  BY <1>3, <1>4, <1>5, <1>6 DEF IInv, ReaderInv
-----------------------------------------------------------------------------
(* The theorems.                                                           *)

\* Every step of every caller keeps the inductive invariant.
LEMMA NextIInv == IInv /\ [Next]_vars => IInv'
<1> SUFFICES ASSUME IInv, [Next]_vars PROVE IInv'
  OBVIOUS
<1>1. CASE UNCHANGED vars
  <2>1. UNCHANGED <<phase, wrun, woff, wbit, wrote, bits, len, forged, rrun, roff, rbit, got>>
    BY <1>1 DEF vars, writer, stream, reader
  <2>2. TypeOK' /\ OffsetInRun'
    BY <2>1 DEF IInv, TypeOK, OffsetInRun
  <2>3. WriterInv'
    BY <2>1 DEF IInv, WriterInv, WriterBehindPlan, WriterExact, CleanAbove, BuiltAtEnd,
                IsPacked, Fits
  <2>4. ReaderInv'
    BY <2>1 DEF IInv, ReaderInv, ReaderBehindPlan, ReaderExact, ReaderStarts, DoneAtEnd,
                IsReplayed, Fits
  <2>5. QED
    BY <2>2, <2>3, <2>4 DEF IInv
<1>2. ASSUME NEW site \in Sites, NEW value \in Word, Write(site, value) PROVE IInv'
  BY <1>2, PutEntryKeeps, SkipEntryKeeps DEF Write
<1>3. ASSUME NEW site \in Sites, NEW value \in Word, WriteFoldResponse(site, value)
      PROVE  IInv'
  BY <1>2, <1>3 DEF WriteFoldResponse
<1>4. ASSUME NEW site \in Sites, NEW value \in Word, Grind(site, value) PROVE IInv'
  BY <1>4, PutEntryKeeps, SkipEntryKeeps DEF Grind
<1>5. ASSUME NEW site \in Sites, NEW coords \in 0 .. MaxCoords,
             RecordFold(site, coords) \/ ReplayFold(site, coords)
      PROVE  IInv'
  BY <1>5, RecordFoldKeeps, ReplayFoldKeeps
<1>6. ASSUME NEW site \in Sites, Read(site) PROVE IInv'
  BY <1>6, ReadKeeps
<1>7. CASE FinishWriter
  BY <1>7, FinishWriterKeeps
<1>8. ASSUME NEW raw \in [Positions -> Bit], NEW n \in 0 .. Capacity, FromBytes(raw, n)
      PROVE  IInv'
  BY <1>8, FromBytesKeeps
<1>9. CASE OpenReader
  BY <1>9, OpenReaderKeeps
<1>10. CASE FinishReader
  BY <1>10, FinishReaderKeeps
<1>11. QED
  BY <1>1, <1>2, <1>3, <1>4, <1>5, <1>6, <1>7, <1>8, <1>9, <1>10 DEF Next

\* The inductive invariant holds of the nonce stream of every plan: neither
\* cursor of a writer or a reader ever passes the bits of its plan.
THEOREM NonceStreamInvariant == Spec => []IInv
<1>1. QED
  BY InitIInv, NextIInv, PTL DEF Spec

\* A stream finish returned holds every entry with bits at its own place.
THEOREM NonceStreamComplete == Spec => []FinishedIsComplete
<1>1. IInv => FinishedIsComplete
  <2> SUFFICES ASSUME IInv, phase # "write", ~forged, NEW i \in Runs, Width[i] > 0
               PROVE  IsPacked(i)
    BY DEF FinishedIsComplete
  <2>1. wrun = N + 1 /\ wbit = Start[wrun]
    BY DEF IInv, WriterInv, BuiltAtEnd
  <2>2. i < wrun
    BY <2>1, Sizes
  <2>3. QED
    BY <2>1, <2>2 DEF IInv, WriterInv, WriterExact
<1>2. QED
  BY <1>1, NonceStreamInvariant, PTL

\* A replay that finishes has read every bit of the stream it was given.
THEOREM NonceStreamCanonical == Spec => []NoSlackBits
<1>1. IInv => NoSlackBits
  <2> SUFFICES ASSUME IInv, phase = "done" 
               PROVE  /\ \A i \in Runs : Width[i] > 0 => IsReplayed(i)
                      /\ \A k \in Positions : k >= Total => bits[k] = 0
    BY DEF NoSlackBits
  <2>1. rrun = N + 1 /\ rbit = Start[rrun] /\ len = Total
    BY DEF IInv, ReaderInv, DoneAtEnd, WriterInv, BuiltAtEnd
  <2>2. \A i \in Runs : i < rrun
    BY <2>1, Sizes
  <2>3. \A i \in Runs : Width[i] > 0 => IsReplayed(i)
    BY <2>1, <2>2 DEF IInv, ReaderInv, ReaderExact
  <2>4. \A k \in Positions : k >= Total => bits[k] = 0
    BY <2>1 DEF IInv, WriterInv, CleanAbove
  <2>5. QED
    BY <2>3, <2>4
<1>2. QED
  BY <1>1, NonceStreamInvariant, PTL

\* The verifier reads the values the prover wrote.
THEOREM NonceStreamRoundTrip == Spec => []RoundTrip
<1>1. FinishedIsComplete /\ NoSlackBits => RoundTrip
  <2> SUFFICES ASSUME FinishedIsComplete, NoSlackBits, phase = "done", ~forged,
                      NEW i \in Runs, Width[i] > 0
               PROVE  wrote[i] \in Word /\ got[i] = wrote[i]
    BY DEF RoundTrip
  <2>1. IsPacked(i) /\ IsReplayed(i)
    BY DEF FinishedIsComplete, NoSlackBits
  <2>2. wrote[i] \in Word /\ got[i] \in Word
    BY <2>1 DEF IsPacked, IsReplayed
  <2>3. ASSUME NEW j \in BitIndex PROVE got[i][j] = wrote[i][j]
    <3>1. Width[i] \in 0 .. WordBits
      BY PlanAssumption
    <3>2. CASE j < Width[i]
      BY <2>1, <3>2 DEF IsPacked, IsReplayed
    <3>3. CASE j >= Width[i]
      BY <2>1, <3>3 DEF IsPacked, IsReplayed, Fits
    <3>4. QED
      BY <3>1, <3>2, <3>3, Sizes
  <2>4. QED
    BY <2>2, <2>3, SameWord
<1>2. QED
  BY <1>1, NonceStreamComplete, NonceStreamCanonical, PTL

\* No write or read leaves the allocated bytes.
THEOREM NonceStreamInBounds == Spec => []WithinBytes
<1>1. IInv => WithinBytes
  <2> SUFFICES ASSUME IInv PROVE WithinBytes
    OBVIOUS
  <2>1. /\ wrun \in 1 .. N + 1 /\ rrun \in 1 .. N + 1 /\ wbit \in Nat /\ rbit \in Nat
        /\ wbit <= Start[wrun] /\ rbit <= Start[rrun]
    BY DEF IInv, TypeOK, WriterInv, ReaderInv, WriterBehindPlan, ReaderBehindPlan
  <2>2. \A i \in 1 .. N + 1 : Start[i] \in Nat /\ Start[i] <= Total
    BY PlanAssumption
  <2>3. wbit <= Total /\ rbit <= Total
    BY <2>1, <2>2, TotalType
  <2>4. ASSUME NEW i \in Runs, NEW b \in Nat, b <= Start[i] PROVE b + Width[i] <= Capacity
    BY <2>4, RunInTotal, TotalType, Sizes
  <2>5. wrun <= N => wbit + Width[wrun] <= Capacity
    BY <2>1, <2>4, Sizes
  <2>6. rrun <= N => rbit + Width[rrun] <= Capacity
    BY <2>1, <2>4, Sizes
  <2>7. QED
    BY <2>3, <2>5, <2>6 DEF WithinBytes
<1>2. QED
  BY <1>1, NonceStreamInvariant, PTL
=============================================================================
