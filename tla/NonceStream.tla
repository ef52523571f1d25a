------------------------------ MODULE NonceStream ------------------------------
(***************************************************************************)
(* The packed nonce stream of a proof                                      *)
(* (akita-types/src/transcript_grinding/replay.rs): a writer that packs    *)
(* one value per entry of the public grinding plan, low bit first and      *)
(* without headers, and a reader that replays the same plan over the bits. *)
(*                                                                         *)
(* The plan is a list of runs.  The cursor moves before the site, the      *)
(* width and the search are checked, so a refused call may leave the plan  *)
(* ahead of the bits; a caller that keeps the object after an error is     *)
(* modelled too.  Calls that are refused before the cursor moves change    *)
(* nothing and are stuttering steps: a call after the last run, a site of  *)
(* the wrong kind, a fold group that is not the next run.                  *)
(*                                                                         *)
(* A nonce is the function of its bits and the stream the function of its  *)
(* bit positions; the packing of positions into bytes is kept only as the  *)
(* capacity, which the last byte rounds up.                                *)
(***************************************************************************)
EXTENDS Integers

CONSTANTS
  N,          \* number of runs of the plan
  Sites,      \* transcript sites
  KindOf,     \* query kind of a site: "pow", "response" or "fold"
  SiteOf,     \* site of a run
  Width,      \* nonce_bits of a run
  Mult,       \* multiplicity of a run
  Start,      \* sum of the widths of the runs before one; Start[N + 1] is the total
  WordBits,   \* bits of a nonce counter
  Capacity,   \* bit positions of the allocated bytes
  MaxCoords,  \* bound on the fold coordinates a caller may record
  None        \* no value yet

Runs == 1 .. N
Total == Start[N + 1]
Bit == {0, 1}
BitIndex == 0 .. WordBits - 1
Word == [BitIndex -> Bit]
Positions == 0 .. Capacity - 1
Kinds == {"pow", "response", "fold"}

\* GrindingPlan::new accepts only such plans: a run that holds bits is one
\* entry, and total_nonce_bits is the checked sum of the widths.
ASSUME PlanAssumption ==
  /\ N \in Nat /\ WordBits \in Nat /\ Capacity \in Nat /\ MaxCoords \in Nat
  /\ KindOf \in [Sites -> Kinds]
  /\ SiteOf \in [Runs -> Sites]
  /\ Width \in [Runs -> 0 .. WordBits]
  /\ Mult \in [Runs -> Nat \ {0}]
  /\ Start \in [1 .. N + 1 -> Nat]
  /\ Start[1] = 0
  /\ \A i \in Runs : Start[i + 1] = Start[i] + Width[i]
  /\ \A i, k \in 1 .. N + 1 : i <= k => Start[i] <= Start[k]
  /\ \A i \in Runs : Width[i] > 0 => Mult[i] = 1
  /\ Total <= Capacity
  /\ None \notin Word

VARIABLES
  phase,   \* "write", "built", "read" or "done"
  wrun,    \* run_index of the writer's plan cursor
  woff,    \* run_offset of the writer's plan cursor
  wbit,    \* bit_offset of the writer
  bits,    \* the stream's bytes
  len,     \* bit_len of the built stream
  wrote,   \* history: the value the writer accepted for a run
  forged,  \* history: the stream came from bytes the writer did not make
  rrun,    \* the same for the reader
  roff,
  rbit,
  got      \* history: the value the reader returned for a run

writer == <<wrun, woff, wbit, wrote>>
reader == <<rrun, roff, rbit, got>>
stream == <<bits, len, forged>>
vars == <<phase, writer, stream, reader>>

TypeOK ==
  /\ phase \in {"write", "built", "read", "done"}
  /\ wrun \in 1 .. N + 1 /\ rrun \in 1 .. N + 1
  /\ woff \in Nat /\ roff \in Nat
  /\ wbit \in Nat /\ rbit \in Nat
  /\ bits \in [Positions -> Bit]
  /\ len \in 0 .. Capacity
  /\ forged \in BOOLEAN
  /\ wrote \in [Runs -> Word \cup {None}]
  /\ got \in [Runs -> Word \cup {None}]

\* TranscriptNonceWriter::new: zeroed bytes, both cursors at the start.
Init ==
  /\ phase = "write"
  /\ wrun = 1 /\ woff = 0 /\ wbit = 0
  /\ rrun = 1 /\ roff = 0 /\ rbit = 0
  /\ bits = [k \in Positions |-> 0]
  /\ len = 0
  /\ forged = FALSE
  /\ wrote = [i \in Runs |-> None]
  /\ got = [i \in Runs |-> None]
-----------------------------------------------------------------------------
(* The plan cursor and the bit operations, shared by both directions.      *)

\* GrindingPlanCursor::next: to the next entry, across the end of a run.
NextRun(run, off) == IF off + 1 = Mult[run] THEN run + 1 ELSE run
NextOff(run, off) == IF off + 1 = Mult[run] THEN 0 ELSE off + 1

\* consume_run: the whole zero-width run of a fold group, or nothing.
IsFoldRun(run, off, site, coords) ==
  /\ run <= N
  /\ off = 0
  /\ SiteOf[run] = site
  /\ KindOf[site] = "fold"
  /\ Width[run] = 0
  /\ Mult[run] = coords + 1

Or(a, b) == IF a = 1 \/ b = 1 THEN 1 ELSE 0

\* A width check that is off by one.
FitsTooWide(value, width) == \A j \in BitIndex : j > width => value[j] = 0

\* value_fits: no bit at or above the width.
Fits(value, width) == \A j \in BitIndex : j >= width => value[j] = 0

\* write_bits: the shifted word is OR-ed into the bytes it touches.
WriteBits(old, offset, value) ==
  [k \in Positions |->
     IF k >= offset /\ k - offset < WordBits
     THEN Or(old[k], value[k - offset]) ELSE old[k]]

\* read_bits: width bits from the offset, low bit first, the rest masked off.
ReadBits(from, offset, width) ==
  [j \in BitIndex |-> IF j < width THEN from[offset + j] ELSE 0]
-----------------------------------------------------------------------------
(* The writer.                                                             *)

WriterMoves ==
  /\ phase = "write"
  /\ wrun <= N
  /\ wrun' = NextRun(wrun, woff)
  /\ woff' = NextOff(wrun, woff)
  /\ UNCHANGED <<phase, len, forged, reader>>

\* write_entry after its width check.
PutEntry(value) ==
  /\ WriterMoves
  /\ bits' = WriteBits(bits, wbit, value)
  /\ wbit' = wbit + Width[wrun]
  /\ wrote' = [wrote EXCEPT ![wrun] = value]

\* An error after the cursor has moved.
SkipEntry ==
  /\ WriterMoves
  /\ UNCHANGED <<bits, wbit, wrote>>

\* write
Write(site, value) ==
  /\ phase = "write" /\ wrun <= N
  /\ \/ /\ site = SiteOf[wrun]
        /\ Fits(value, Width[wrun])
        /\ PutEntry(value)
     \/ /\ ~(site = SiteOf[wrun] /\ Fits(value, Width[wrun]))
        /\ SkipEntry

\* write_fold_response: write, for a site of its own kind only.
WriteFoldResponse(site, value) ==
  /\ KindOf[site] = "response"
  /\ Write(site, value)

\* grind: the search finds a value that fits, or is exhausted, or the live
\* predicate disagrees with the preview; a width of zero needs no search.
Grind(site, value) ==
  /\ phase = "write" /\ wrun <= N
  /\ KindOf[site] = "pow"
  /\ \/ /\ site = SiteOf[wrun]
        /\ Fits(value, Width[wrun])
        /\ PutEntry(value)
     \/ /\ (site = SiteOf[wrun] => Width[wrun] > 0)
        /\ SkipEntry

\* record_fold_challenges of the writer.
RecordFold(site, coords) ==
  /\ phase = "write"
  /\ IsFoldRun(wrun, woff, site, coords)
  /\ wrun' = wrun + 1
  /\ UNCHANGED <<phase, woff, wbit, wrote, stream, reader>>

\* finish without the test of the bit cursor.
FinishWriterAtPlanEnd ==
  /\ phase = "write"
  /\ wrun = N + 1 /\ woff = 0
  /\ phase' = "built"
  /\ len' = Total
  /\ UNCHANGED <<writer, bits, forged, reader>>

\* finish: both cursors at the end; anything else is refused.
FinishWriter ==
  /\ phase = "write"
  /\ wrun = N + 1 /\ woff = 0
  /\ wbit = Total
  /\ phase' = "built"
  /\ len' = wbit
  /\ UNCHANGED <<writer, bits, forged, reader>>

\* from_bytes: a stream off the wire, refused if a padding bit is set.  How
\* far some writer had come does not matter, so it is taken at the start.
FromBytes(raw, n) ==
  /\ phase = "write" /\ wrun = 1 /\ woff = 0
  /\ \A k \in Positions : k >= n => raw[k] = 0
  /\ phase' = "built"
  /\ bits' = raw
  /\ len' = n
  /\ forged' = TRUE
  /\ UNCHANGED <<writer, reader>>
-----------------------------------------------------------------------------
(* The reader.                                                             *)

\* reader: only a stream of the plan's width is replayed.
OpenReader ==
  /\ phase = "built"
  /\ len = Total
  /\ phase' = "read"
  /\ UNCHANGED <<writer, stream, reader>>

ReaderMoves ==
  /\ phase = "read"
  /\ rrun <= N
  /\ rrun' = NextRun(rrun, roff)
  /\ roff' = NextOff(rrun, roff)
  /\ UNCHANGED <<phase, writer, stream>>

\* read, read_fold_response and grind: a site that is not the plan's is
\* refused after the cursor moved; a proof of work that fails its predicate
\* is refused after its bits were read.
Read(site) ==
  /\ ReaderMoves
  /\ IF site = SiteOf[rrun]
     THEN /\ got' = [got EXCEPT ![rrun] = ReadBits(bits, rbit, Width[rrun])]
          /\ rbit' = rbit + Width[rrun]
     ELSE UNCHANGED <<got, rbit>>

\* record_fold_challenges of the reader.
ReplayFold(site, coords) ==
  /\ phase = "read"
  /\ IsFoldRun(rrun, roff, site, coords)
  /\ rrun' = rrun + 1
  /\ UNCHANGED <<phase, writer, stream, roff, rbit, got>>

\* finish without the test of the bit cursor.
FinishReaderAtPlanEnd ==
  /\ phase = "read"
  /\ rrun = N + 1 /\ roff = 0
  /\ phase' = "done"
  /\ UNCHANGED <<writer, stream, reader>>

\* finish of the reader.
FinishReader ==
  /\ phase = "read"
  /\ rrun = N + 1 /\ roff = 0
  /\ rbit = len
  /\ phase' = "done"
  /\ UNCHANGED <<writer, stream, reader>>

Next ==
  \/ \E site \in Sites :
       \/ \E value \in Word : \/ Write(site, value)
                              \/ WriteFoldResponse(site, value)
                              \/ Grind(site, value)
       \/ \E coords \in 0 .. MaxCoords : RecordFold(site, coords)
                                         \/ ReplayFold(site, coords)
       \/ Read(site)
  \/ FinishWriter
  \/ \E raw \in [Positions -> Bit], n \in 0 .. Capacity : FromBytes(raw, n)
  \/ OpenReader
  \/ FinishReader

Spec == Init /\ [][Next]_vars
-----------------------------------------------------------------------------
(* Properties.                                                             *)

\* Run i of the plan is in the bits exactly as the writer accepted it.
IsPacked(i) ==
  /\ wrote[i] \in Word
  /\ Fits(wrote[i], Width[i])
  /\ \A j \in BitIndex : j < Width[i] => bits[Start[i] + j] = wrote[i][j]

\* Run i of the plan was read from its own bits and from no other.
IsReplayed(i) ==
  /\ got[i] \in Word
  /\ Fits(got[i], Width[i])
  /\ \A j \in BitIndex : j < Width[i] => got[i][j] = bits[Start[i] + j]

\* TranscriptNonceWriter::finish returns a stream only if every entry that
\* has bits was written, at its own place: no error the caller ignored, and no
\* entry skipped on the way, survives the two exhaustion tests.
FinishedIsComplete ==
  phase # "write" /\ ~forged => \A i \in Runs : Width[i] > 0 => IsPacked(i)

\* A replay that finishes has read every bit of the stream exactly once, and
\* the bits above the plan's width are zero: two different streams never give
\* the same values, so the nonce stream adds no freedom to a proof.
NoSlackBits ==
  phase = "done" =>
    /\ \A i \in Runs : Width[i] > 0 => IsReplayed(i)
    /\ \A k \in Positions : k >= Total => bits[k] = 0

\* What the verifier reads is what the prover wrote, entry by entry.
RoundTrip ==
  phase = "done" /\ ~forged =>
    \A i \in Runs : Width[i] > 0 => wrote[i] \in Word /\ got[i] = wrote[i]

\* write_bits and read_bits never leave the allocated bytes, so their
\* out-of-range errors are unreachable.
WithinBytes ==
  /\ wbit <= Total /\ (wrun <= N => wbit + Width[wrun] <= Capacity)
  /\ rbit <= Total /\ (rrun <= N => rbit + Width[rrun] <= Capacity)
-----------------------------------------------------------------------------
(* The inductive invariant: the bit offset never passes the plan cursor,   *)
(* and where it has kept up nothing was skipped.                           *)

OffsetInRun ==
  /\ wrun <= N => woff < Mult[wrun]
  /\ rrun <= N => roff < Mult[rrun]

WriterBehindPlan == wbit <= Start[wrun]

WriterExact ==
  wbit = Start[wrun] /\ ~forged =>
    \A i \in Runs : i < wrun /\ Width[i] > 0 => IsPacked(i)

CleanAbove ==
  /\ phase = "write" => forged = FALSE /\ \A k \in Positions : k >= wbit => bits[k] = 0
  /\ phase # "write" => \A k \in Positions : k >= len => bits[k] = 0

BuiltAtEnd ==
  /\ phase # "write" /\ ~forged => wrun = N + 1 /\ wbit = Total
  /\ phase \in {"read", "done"} => len = Total

ReaderBehindPlan == rbit <= Start[rrun]

ReaderExact ==
  rbit = Start[rrun] => \A i \in Runs : i < rrun /\ Width[i] > 0 => IsReplayed(i)

ReaderStarts == phase \in {"write", "built"} => rrun = 1 /\ rbit = 0

DoneAtEnd == phase = "done" => rrun = N + 1 /\ rbit = Total

WriterInv == WriterBehindPlan /\ WriterExact /\ CleanAbove /\ BuiltAtEnd
ReaderInv == ReaderBehindPlan /\ ReaderExact /\ ReaderStarts /\ DoneAtEnd
IInv == TypeOK /\ OffsetInRun /\ WriterInv /\ ReaderInv
=============================================================================
