---------------------------- MODULE PackedDigits ----------------------------
(***************************************************************************)
(* The packed witness (akita-prover/src/backend/packed_digits): signed     *)
(* digits of a fixed width, written in physical order through a staging    *)
(* buffer, with zeros in the gaps, and read through views, ranges and an   *)
(* iterator that decode block by block.                                    *)
(*                                                                         *)
(* Storage is the set of its set bits, so that |= is a union.  A writer's  *)
(* callers stop at the first error.  Positions count from 0 as in the      *)
(* code.                                                                   *)
(***************************************************************************)
EXTENDS Calls, Arith

CONSTANTS
    BlockDigits,    \* DIGITS_PER_BLOCK, 64
    PackedByte,     \* bits of a byte; blocks of digits end on bytes
    PackedInputs    \* calls: len, width, limit, writes, view, reads

ASSUME PackedAssumption ==
    /\ PackedByte \in Nat \ {0} /\ BlockDigits \in Nat \ {0} /\ BlockDigits % PackedByte = 0
    /\ \A a \in PackedInputs :
          /\ a.len \in Nat /\ a.width \in 1 .. PackedByte /\ a.limit \in Nat
          /\ a.writes \in Seq(Nat \X Seq(Int))
          /\ a.view \in Nat \X Nat \X Nat /\ a.reads \in Seq(Nat)

-----------------------------------------------------------------------------
(* Encoding. *)

EncodedLen(count, width) == DivCeil(count * width, PackedByte)

\* encode_at: the low bits of the digit's two's complement.
EncodeAt(index, width, digit) ==
    {index * width + i : i \in {j \in 0 .. width - 1 : Bit(digit % 2 ^ width, j) = 1}}

\* encode_digits: every block in its own bytes.
EncodeDigits(digits, width) ==
    UNION {{((i \div BlockDigits) * BlockDigits * width) + b :
              b \in EncodeAt(i % BlockDigits, width, digits[i + 1])} :
           i \in 0 .. Len(digits) - 1}

DecodeAt(bits, index, width) ==
    LET raw == Sum([i \in 1 .. width |->
                       IF index * width + i - 1 \in bits THEN 2 ^ (i - 1) ELSE 0])
    IN  IF raw >= 2 ^ (width - 1) THEN raw - 2 ^ width ELSE raw

\* minimum and maximum of the digits, 0 included.
DigitBounds(digits) ==
    [ neg |-> Max({0} \cup {-digits[i] : i \in DOMAIN digits}),
      pos |-> Max({0} \cup {digits[i] : i \in DOMAIN digits}) ]

BoundsFit(b, width) == b.neg <= 2 ^ (width - 1) /\ b.pos < 2 ^ (width - 1)

-----------------------------------------------------------------------------
(* The writer of a call a. *)

NewWriter(a) ==
    IF a.limit = 0 \/ a.limit % BlockDigits # 0 THEN Refused
    ELSE Ok([ position |-> 0, flushed |-> 0, staging |-> <<>>, bits |-> {}, neg |-> 0, pos |-> 0 ])

\* Encodes the staging buffer at the byte start.
FlushTo(a, w, start) ==
    LET b == DigitBounds(w.staging)
    IN  [ position |-> w.position,
          flushed  |-> w.flushed + Len(w.staging),
          staging  |-> <<>>,
          bits     |-> w.bits \cup {start * PackedByte + i : i \in EncodeDigits(w.staging, a.width)},
          neg      |-> Max({w.neg, b.neg}),
          pos      |-> Max({w.pos, b.pos}) ]

\* A flush to where the writer, not the storage, has come.
FlushAtPosition(a, w) == FlushTo(a, w, EncodedLen(w.position, a.width))

FlushStaging(a, w) == FlushTo(a, w, EncodedLen(w.flushed, a.width))

Stage(w, digits) ==
    [ position |-> w.position + Len(digits), flushed |-> w.flushed, staging |-> w.staging \o digits,
      bits |-> w.bits, neg |-> w.neg, pos |-> w.pos ]

\* One turn of the loop: what fits into the staging buffer, which is flushed
\* when it is full.
FillStaging(a, w, digits) ==
    LET take == Min({a.limit - Len(w.staging), Len(digits)})
        filled == Stage(w, SubSeq(digits, 1, take))
    IN  IF filled.position > a.len THEN Refused
        ELSE Ok(IF Len(filled.staging) = a.limit THEN FlushStaging(a, filled) ELSE filled)

\* extend_digits (and extend_zeros, with zeros): turns until no digit is left.
Extend(a, w, digits) ==
    LET turn[i \in 0 .. Len(digits)] ==
            IF i = 0 THEN Ok(w)
            ELSE LET last == turn[i - 1]
                     done == last[1].position - w.position
                 IN  IF last = Refused \/ done = Len(digits) THEN last
                     ELSE FillStaging(a, last[1], SubSeq(digits, done + 1, Len(digits)))
    IN  turn[Len(digits)]

Zeros(count) == [i \in 1 .. count |-> 0]

\* A write is <<start, digits>>.
WriteAt(a, w, write) ==
    IF write[1] < w.position THEN Refused
    ELSE LET gap == Extend(a, w, Zeros(write[1] - w.position))
         IN  IF gap = Refused THEN Refused ELSE Extend(a, gap[1], write[2])

Finish(a, w) ==
    LET full == Extend(a, w, Zeros(a.len - w.position))
        done == FlushStaging(a, full[1])
    IN  IF full # Refused /\ BoundsFit(done, a.width)
        THEN Ok([bits |-> done.bits, len |-> a.len, width |-> a.width])
        ELSE Refused

-----------------------------------------------------------------------------
(* Readers.  A view is the packed digits with a start and a length. *)

\* zero_padded and then slice.
ViewOf(packed, padded, from, to) ==
    IF padded < packed.len \/ from > to \/ to > padded THEN Refused
    ELSE Ok([packed |-> packed, start |-> from, len |-> to - from])

\* decode_range: digits up to the block border one by one, then whole blocks,
\* then the rest; zeros past the stored digits.
DecodeRange(view, start, count) ==
    LET p == view.packed
        from == view.start + start
        live == Max({0, Min({p.len, from + count}) - from})
        prefix == Min({BlockDigits - (from % BlockDigits), live}) % BlockDigits
        blocks == (live - prefix) \div BlockDigits
        first == (from + prefix) \div BlockDigits
        Block(b) == [i \in 1 .. BlockDigits |->
                        DecodeAt(p.bits, b * BlockDigits + i - 1, p.width)]
        decoded == prefix + blocks * BlockDigits
    IN  [k \in 1 .. count |->
            CASE k - 1 < prefix -> DecodeAt(p.bits, from + k - 1, p.width)
              [] k - 1 >= prefix /\ k - 1 < decoded ->
                    Block(first + ((k - 1 - prefix) \div BlockDigits))
                        [((k - 1 - prefix) % BlockDigits) + 1]
              [] k - 1 >= decoded /\ k - 1 < live -> DecodeAt(p.bits, from + k - 1, p.width)
              [] OTHER -> 0]

\* The iterator: its position and the window it has decoded.
NewIter(view) == [view |-> view, position |-> 0, from |-> 0, got |-> <<>>]

\* refill: up to the next block border of the storage.
Refill(it) ==
    LET batch == BlockDigits - ((it.view.start + it.position) % BlockDigits)
        count == Min({it.view.len - it.position, batch})
    IN  [ view |-> it.view, position |-> it.position, from |-> it.position,
          got |-> DecodeRange(it.view, it.position, count) ]

\* The decoded window holds the n digits from the position on.
WindowHolds(it, n) ==
    it.position >= it.from /\ it.position + n <= it.from + Len(it.got)

\* next_array::<n>; next is next_array::<1>.  Digits outside the window are
\* decoded on their own.
NextArray(it, n) ==
    LET at == IF WindowHolds(it, n) THEN it ELSE Refill(it)
        local == at.position - at.from
    IN  IF it.position + n > it.view.len THEN [iter |-> it, values |-> <<>>]
        ELSE [ iter |-> [at EXCEPT !.position = @ + n],
               values |-> IF local + n > Len(at.got) THEN DecodeRange(at.view, at.position, n)
                          ELSE SubSeq(at.got, local + 1, local + n) ]

\* Reads of the given lengths, one after the other.
IterReads(view, lengths) ==
    LET read[i \in 0 .. Len(lengths)] ==
            IF i = 0 THEN [iter |-> NewIter(view), values |-> <<>>]
            ELSE LET last == read[i - 1]
                     r == NextArray(last.iter, lengths[i])
                 IN  [iter |-> r.iter, values |-> last.values \o r.values]
    IN  read[Len(lengths)].values

-----------------------------------------------------------------------------
(* The calls: open, the writes, finish, then every kind of read. *)

StartPacked == \E a \in PackedInputs : Starts("packed", a)

Writes == Len(call.arg.writes)
Live(n) == \A k \in 1 .. n : call.out[k] # Refused

OpenWriter == At("packed", 0) /\ Returns(NewWriter(call.arg))

WriteNext ==
    /\ call.fn = "packed" /\ Len(call.out) \in 1 .. Writes /\ Live(Len(call.out))
    /\ Returns(WriteAt(call.arg, call.out[Len(call.out)][1], call.arg.writes[Len(call.out)]))

FinishWriter ==
    /\ At("packed", Writes + 1) /\ Live(Writes + 1)
    /\ Returns(Finish(call.arg, call.out[Writes + 1][1]))

\* view is <<padded length, from, to>>, reads the lengths read in turn.
ReadBack ==
    /\ At("packed", Writes + 2) /\ Live(Writes + 2)
    /\ LET v == ViewOf(call.out[Writes + 2][1], call.arg.view[1], call.arg.view[2], call.arg.view[3])
       IN  Returns(IF v = Refused THEN Refused
                   ELSE Ok([range |-> DecodeRange(v[1], 0, v[1].len),
                            iter  |-> IterReads(v[1], call.arg.reads)]))

PackedNext == OpenWriter \/ WriteNext \/ FinishWriter \/ ReadBack

PackedSpec == StartPacked /\ [][PackedNext]_call

-----------------------------------------------------------------------------

\* The digit the writes put at position i, 0 if none did.
Written(a, i) ==
    LET at == {w \in Range(a.writes) : w[1] <= i /\ i < w[1] + Len(w[2])}
    IN  IF at = {} THEN 0 ELSE LET w == CHOOSE w \in at : TRUE IN w[2][i - w[1] + 1]

\* What is read is what was written: in ranges and by an iterator whose
\* steps do not match the blocks, across flushed batches, gaps and the zero
\* padding; digits too wide for the storage are refused at the end.
PackedExact ==
    call.fn = "packed" /\ Len(call.out) = Writes + 3 /\ Live(Writes + 3) =>
        LET a == call.arg
            expected == [k \in 1 .. a.view[3] - a.view[2] |-> Written(a, a.view[2] + k - 1)]
            got == call.out[Writes + 3][1]
        IN  /\ got.range = expected
            /\ IsPrefix(got.iter, expected)
=============================================================================
