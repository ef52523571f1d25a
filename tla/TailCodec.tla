----------------------------- MODULE TailCodec -----------------------------
(***************************************************************************)
(* The folded response of the terminal level on the wire                   *)
(* (akita-types/src/golomb_rice.rs, proof/tail_segments.rs): centred       *)
(* integers, zigzag-mapped, Golomb-Rice coded and packed into bytes.  The  *)
(* prover's search accepts a response, build_terminal_response encodes it, *)
(* the verifier decodes it; a payload off the wire goes to the decoder     *)
(* alone.                                                                  *)
(*                                                                         *)
(* A payload is the sequence of its bits, least significant first, of a    *)
(* length divisible by ByteBits; positions count from 0 as in the code.    *)
(***************************************************************************)
EXTENDS Calls, Arith

CONSTANTS
    ByteBits,       \* 8 in the code
    I16Max,         \* i16::MAX
    TailShapes,     \* scheduled shapes: <<coordinates, scale, energy cap>>
    TailValues,     \* coefficients a fold may produce
    TailDense,      \* largest response taken with all its values
    TailBytes       \* longest payload off the wire, in bytes

ASSUME TailAssumption ==
    /\ ByteBits \in Nat \ {0} /\ I16Max \in Nat
    /\ TailDense \in Nat /\ TailBytes \in Nat
    /\ TailValues \subseteq Int
    /\ TailShapes \subseteq Nat \X (Nat \ {0}) \X Nat
    /\ \A s \in TailShapes : s[3] = 0 => s[2] <= I16Max

-----------------------------------------------------------------------------
(* The scheduled shape. *)

NoCap == 0

CapRiceLowBits(scale) == IF scale <= 1 THEN 0 ELSE HighBit(scale)

\* Less OFFLINE_RICE_LOW_BITS_DELTA = 2, saturating.
WireRiceLowBits(scale) == Max({0, CapRiceLowBits(scale) - 2})

ZigzagWidth(bound) == IF bound = 0 THEN 1 ELSE HighBit(bound) + 2

PayloadBudget(coords, scale) ==
    DivCeil(coords * (CapRiceLowBits(scale) + 2), ByteBits)

\* derive for one group.  The energy cap is that of the matrix's L2 route;
\* it is 0 on the L-infinity route, where the scale is the cap and lies
\* within TERMINAL_RESPONSE_WIRE_LINF_LIMIT = i16::MAX.
Group(shape) ==
    [ coords |-> shape[1],
      cap    |-> IF shape[3] = 0 THEN shape[2] ELSE NoCap,
      low    |-> WireRiceLowBits(shape[2]),
      bytes  |-> PayloadBudget(shape[1], shape[2]),
      energy |-> shape[3] ]

WireAbsBound(g) == IF g.cap = NoCap THEN I16Max ELSE g.cap

Width(g) == ZigzagWidth(WireAbsBound(g))

-----------------------------------------------------------------------------
(* The prover: search and encoding. *)

\* zigzag_encode accepts the two's complement range of w bits.
InWidth(n, w) == -(2 ^ (w - 1)) <= n /\ n <= 2 ^ (w - 1) - 1

Zigzag(n) == IF n >= 0 THEN 2 * n ELSE -2 * n - 1

Quotient(n, low) == Zigzag(n) \div 2 ^ low

\* golomb_rice_total_wire_bits.
WireBits(values, low) ==
    Sum([i \in DOMAIN values |-> Quotient(values[i], low) + 1 + low])

Energy(values) == Sum([i \in DOMAIN values |-> values[i] * values[i]])

\* The acceptance test of sample_terminal_fold_response.
SearchAccepts(values, g) ==
    /\ \A i \in DOMAIN values :
          IF g.cap # NoCap THEN Abs(values[i]) <= g.cap
          ELSE values[i] \in -(I16Max + 1) .. I16Max
    /\ g.energy # 0 => Energy(values) <= g.energy
    /\ WireBits(values, g.low) <= g.bytes * ByteBits

EncodeOne(n, low) ==
    [i \in 1 .. Quotient(n, low) |-> 1] \o <<0>> \o BitsOf(Zigzag(n), low)

PaddingBits(pos) == (ByteBits - (pos % ByteBits)) % ByteBits

\* golomb_rice_encode_vec: the writer opens a zero byte when it needs one.
EncodeVec(values, low, w) ==
    LET bits == FlattenSeq([i \in DOMAIN values |-> EncodeOne(values[i], low)])
    IN  IF \A i \in DOMAIN values : InWidth(values[i], w)
        THEN Ok(bits \o BitsOf(0, PaddingBits(Len(bits))))
        ELSE Refused

WithinCap(values, g) ==
    g.cap # NoCap => \A i \in DOMAIN values : Abs(values[i]) <= g.cap

\* build_terminal_response.
BuildPayload(values, g) ==
    LET payload == EncodeVec(values, g.low, Width(g))
    IN  IF /\ Len(values) = g.coords
           /\ WithinCap(values, g)
           /\ payload # Refused
           /\ Len(payload[1]) <= g.bytes * ByteBits
        THEN payload ELSE Refused

-----------------------------------------------------------------------------
(* The verifier: decoding. *)

\* One turn of read_unary_ones: the ones of the byte at the position.
UnaryByte(bits, at, limit) ==
    LET available == ByteBits - (at.pos % ByteBits)
        ones == Max({k \in 0 .. available : \A i \in 1 .. k : bits[at.pos + i] = 1})
    IN  IF at.pos >= Len(bits) \/ at.value + ones > limit THEN Refused
        ELSE Ok([ value |-> at.value + ones,
                  pos   |-> IF ones < available THEN at.pos + ones + 1 ELSE at.pos + ones,
                  ended |-> ones < available ])

\* read_unary_ones: the quotient and the position after it.
ReadUnary(bits, pos, limit) ==
    LET turn[i \in 0 .. Len(bits) + 1] ==
            IF i = 0 THEN Ok([value |-> 0, pos |-> pos, ended |-> FALSE])
            ELSE LET last == turn[i - 1]
                 IN  IF last = Refused \/ last[1].ended THEN last
                     ELSE UnaryByte(bits, last[1], limit)
    IN  turn[Len(bits) + 1]

ReadBits(bits, pos, count) ==
    IF Len(bits) - pos < count THEN Refused
    ELSE Ok([value |-> Sum([i \in 1 .. count |-> bits[pos + i] * 2 ^ (i - 1)]),
             pos   |-> pos + count])

Unzigzag(u) == IF u % 2 = 0 THEN u \div 2 ELSE -((u + 1) \div 2)

DecodeOne(bits, pos, low, w, limit) ==
    LET q == ReadUnary(bits, pos, limit)
        r == IF q = Refused THEN Refused ELSE ReadBits(bits, q[1].pos, low)
        n == Unzigzag(q[1].value * 2 ^ low + r[1].value)
    IN  IF r = Refused THEN Refused
        ELSE IF InWidth(n, w) THEN Ok([value |-> n, pos |-> r[1].pos]) ELSE Refused

\* The bound taken at -cap, whose zigzag image is one less than that of cap.
QuotientLimitAtMinus(bound, low) == Quotient(-bound, low)

\* golomb_rice_max_quotient_for_cap.
QuotientLimit(bound, low) == Quotient(bound, low)

\* The conversion of decode_terminal_z_golomb_payload to i16.
Converts(n, g) ==
    /\ g.cap # NoCap => Abs(n) <= g.cap
    /\ n \in -(I16Max + 1) .. I16Max

\* Padding accepted whatever its bits are.
PaddingLengthOnly(bits, pos) == Len(bits) = pos + PaddingBits(pos)

\* golomb_rice_consume_canonical_padding.
CanonicalPadding(bits, pos) ==
    /\ Len(bits) = pos + PaddingBits(pos)
    /\ \A i \in pos + 1 .. Len(bits) : bits[i] = 0

\* One turn of golomb_rice_decode_vec, which stops at the first error.
DecodeNext(bits, acc, g) ==
    LET d == IF acc = Refused THEN Refused
             ELSE DecodeOne(bits, acc[1].pos, g.low, Width(g),
                            QuotientLimit(WireAbsBound(g), g.low))
    IN  IF d # Refused /\ Converts(d[1].value, g)
        THEN Ok([values |-> Append(acc[1].values, d[1].value), pos |-> d[1].pos])
        ELSE Refused

\* decode_terminal_z_golomb_payload.
DecodePayload(bits, g) ==
    LET turn[i \in 0 .. g.coords] ==
            IF i = 0 THEN Ok([values |-> <<>>, pos |-> 0]) ELSE DecodeNext(bits, turn[i - 1], g)
        last == turn[g.coords]
    IN  IF /\ Len(bits) <= g.bytes * ByteBits
           /\ last # Refused
           /\ CanonicalPadding(bits, last[1].pos)
        THEN Ok(last[1].values) ELSE Refused

\* The verifier's decoding and its energy check
\* (verify_terminal_ring_relations).
VerifierTakes(bits, g) ==
    LET z == DecodePayload(bits, g)
    IN  IF z # Refused /\ (g.energy # 0 => Energy(z[1]) <= g.energy)
        THEN z ELSE Refused

-----------------------------------------------------------------------------
(* The planner's price. *)

\* Largest r with r * r <= x.
ISqrt(x) == CHOOSE r \in 0 .. x : r * r <= x /\ x < (r + 1) * (r + 1)

\* The doubling of the zigzag map forgotten.
L2PlannerBytesUndoubled(coords, energy, low) ==
    DivCeil(coords * (low + 1) + ISqrt(coords * energy) \div 2 ^ low, ByteBits)

\* golomb_rice_l2_planner_payload_bytes.
L2PlannerBytes(coords, energy, low) ==
    DivCeil(coords * (low + 1) + (2 * ISqrt(coords * energy)) \div 2 ^ low, ByteBits)

\* The payload part of terminal_response_planner_bytes.
PlannerBytes(g) ==
    IF g.energy = 0 THEN g.bytes
    ELSE Min({L2PlannerBytes(g.coords, g.energy, g.low), g.bytes})

-----------------------------------------------------------------------------
(* The calls. *)

\* Responses of n coefficients: all, or past TailDense coefficients those
\* with at most one that is not 0.
Responses(n) ==
    IF n <= TailDense THEN [1 .. n -> TailValues]
    ELSE {[i \in 1 .. n |-> IF i = k THEN x ELSE 0] : k \in 1 .. n, x \in TailValues}

StartTail ==
    \/ \E s \in TailShapes : \E values \in Responses(s[1]) :
          Starts("tail", [group |-> Group(s), values |-> values])
    \/ \E s \in TailShapes, n \in 0 .. TailBytes :
          \E bits \in [1 .. n * ByteBits -> {0, 1}] :
             Starts("wire", [group |-> Group(s), bits |-> bits])

\* sample_terminal_fold_response keeps searching until it accepts.
Search ==
    /\ At("tail", 0)
    /\ SearchAccepts(call.arg.values, call.arg.group)
    /\ Returns(Ok(call.arg.values))

Build ==
    /\ At("tail", 1)
    /\ Returns(BuildPayload(call.out[1][1], call.arg.group))

DecodeBuilt ==
    /\ At("tail", 2) /\ call.out[2] # Refused
    /\ Returns(VerifierTakes(call.out[2][1], call.arg.group))

DecodeWire ==
    /\ At("wire", 0)
    /\ Returns(VerifierTakes(call.arg.bits, call.arg.group))

TailNext == Search \/ Build \/ DecodeBuilt \/ DecodeWire

TailSpec == StartTail /\ [][TailNext]_call

-----------------------------------------------------------------------------
(* Properties. *)

\* On the L2 route with no low bits the decoder's quotient limit, taken at
\* i16::MAX, is one short of what i16::MIN needs.
BeyondLimit(values, g) ==
    g.cap = NoCap /\ g.low = 0 /\ \E i \in DOMAIN values : values[i] = -(I16Max + 1)

\* A response that the prover's search accepts (fold_grind.rs) is encoded
\* within the scheduled budget and decoded by the verifier to the same
\* values: the tests of the three places agree.
TailDelivered ==
    call.fn = "tail" =>
        /\ Len(call.out) >= 2 => call.out[2] # Refused
        /\ Len(call.out) = 3 /\ ~BeyondLimit(call.arg.values, call.arg.group)
              => call.out[3] = Ok(call.arg.values)

\* A response has one payload: what the decoder accepts off the wire is,
\* padding included, what the encoder writes for the decoded values.
TailCanonical ==
    /\ call.fn = "wire" /\ Len(call.out) = 1
    /\ call.out[1] # Refused
    => EncodeVec(call.out[1][1], call.arg.group.low, Width(call.arg.group))
          = Ok(call.arg.bits)

\* The planner never prices a response below what it needs: its bound by the
\* energy cap (Cauchy-Schwarz in the comment of golomb_rice.rs) covers every
\* payload that is built.
TailPriced ==
    /\ call.fn = "tail" /\ Len(call.out) >= 2
    /\ call.out[2] # Refused
    => Len(call.out[2][1]) <= PlannerBytes(call.arg.group) * ByteBits
=============================================================================
