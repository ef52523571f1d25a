------------------------------- MODULE Digits -------------------------------
(***************************************************************************)
(* Balanced base-2^log_basis digits: how many a value needs                *)
(* (akita-types/src/sis/decomposition_digits.rs), which sources a          *)
(* commitment takes (sis/committed_source.rs, akita-prover/src/api/        *)
(* commitment.rs), and the decompositions themselves, in machine words of  *)
(* three widths (akita-algebra/src/ring/cyclotomic/decomposition.rs and    *)
(* the copies in akita-prover/src/backend/poly_helpers).                   *)
(*                                                                         *)
(* A call decomposes one coefficient; the loops over coefficients and the  *)
(* vector lanes treat each alike.  The word of WordBits bits is the code's *)
(* 128-bit one, a native word its 64-bit one, a lane the 32-bit one of the *)
(* vector kernels.                                                         *)
(***************************************************************************)
EXTENDS Calls, Arith

CONSTANTS
    WordBits, NativeBits, LaneBits,
    Moduli,         \* moduli q of the fields
    LogBases,       \* the logarithms of the bases
    LogBounds       \* bounds of a source (in bits) and caps of a response

\* Policies start at log_basis 3 (with 1 no digit is positive).  The largest
\* positive coefficient is further from the end of the word than a digit
\* reaches, as for the offsets of the configured 128-bit fields.
ASSUME DigitAssumption ==
    /\ LaneBits <= NativeBits /\ NativeBits <= WordBits
    /\ \A q \in Moduli, basis \in LogBases :
          /\ q < 2 ^ WordBits /\ basis > 1
          /\ WordBits % basis # 0 => q + 2 ^ basis <= 2 ^ WordBits

\* x taken as a two's complement number of w bits.
Signed(x, w) == ((x + 2 ^ (w - 1)) % 2 ^ w) - 2 ^ (w - 1)

WordMax   == 2 ^ WordBits - 1
Sat(x)    == Min({x, WordMax})
FieldBits(q) == HighBit(q - 1) + 1

-----------------------------------------------------------------------------
(* Numbers of digits. *)

RECURSIVE SatPower(_, _)
SatPower(base, n) == IF n = 0 THEN 1 ELSE Sat(SatPower(base, n - 1) * base)

BalancedDigitMax(basis, n) ==
    Sat((2 ^ (basis - 1) - 1) * ((SatPower(2 ^ basis, n) - 1) \div (2 ^ basis - 1)))

NumDigitsFieldWidth(bits, basis) == Max({1, DivCeil(bits, basis)})

\* compute_num_digits for values of bits signed bits; short of a digit if
\* the positive side is not looked at.
NumDigitsUnchecked(bits, basis) == Max({1, DivCeil(bits, basis)})

ComputeNumDigits(bits, basis) ==
    LET n == DivCeil(bits, basis)
    IN  Max({1, IF BalancedDigitMax(basis, n) < 2 ^ (bits - 1) - 1 THEN n + 1 ELSE n})

NumDigitsForBound(bits, fieldBits, basis) ==
    IF bits >= fieldBits THEN NumDigitsFieldWidth(fieldBits, basis)
    ELSE ComputeNumDigits(bits, basis)

NumDigitsForCap(cap, fieldBits, basis) ==
    LET signedBits == HighBit(cap) + 2
        fallback == NumDigitsForBound(signedBits, fieldBits, basis)
        enough == {n \in 1 .. fallback - 1 : BalancedDigitMax(basis, n) >= cap}
    IN  CASE cap = 0 -> 1
          [] cap > 0 /\ signedBits >= fieldBits -> NumDigitsFieldWidth(fieldBits, basis)
          [] OTHER -> Min(enough \cup {fallback})

\* Digits of a committed source and of a folded response.
Levels(a) ==
    IF a.kind = "commit" THEN NumDigitsForBound(a.bound, FieldBits(a.q), a.basis)
    ELSE NumDigitsForCap(a.bound, FieldBits(a.q), a.basis)

-----------------------------------------------------------------------------
(* Which coefficients are decomposed. *)

\* decompose_centering_threshold.
Threshold(a) ==
    LET b == 2 ^ a.basis
        bits == Levels(a) * a.basis
        all == IF bits >= WordBits THEN WordMax ELSE 2 ^ bits - 1
    IN  IF bits = FieldBits(a.q)
        THEN Min({(b \div 2 - 1) * (all \div (b - 1)), a.q \div 2})
        ELSE a.q \div 2

\* checked_balanced_digit_representable_bounds: the sum of the digit weights
\* or, past the word, none.
Series(basis, n) ==
    LET s == Sum([i \in 1 .. n |-> 2 ^ (basis * (i - 1))])
    IN  IF s <= WordMax THEN {s} ELSE {}

\* A reach is a set of at most one number; the empty one is no limit.
Reach(factor, series) == {factor * s : s \in {t \in series : factor * t <= WordMax}}

\* accepted_bounds: what the digits represent and the source declares.
Accepted(a, side) ==
    LET series == Series(a.basis, Levels(a))
        represents == Reach(IF side = "negative" THEN 2 ^ (a.basis - 1)
                            ELSE 2 ^ (a.basis - 1) - 1, series)
        declares == IF a.bound >= FieldBits(a.q) THEN {}
                    ELSE {IF side = "negative" THEN 2 ^ (a.bound - 1)
                          ELSE 2 ^ (a.bound - 1) - 1}
    IN  represents \cup declares

\* ensure_sources_fit_accepted_interval for the source with coefficient x.
Fits(a) ==
    LET t == Threshold(a)
        within(negative, positive) ==
            /\ \A r \in Accepted(a, "negative") : negative <= r
            /\ \A r \in Accepted(a, "positive") : positive <= r
    IN  \/ within(a.q - (t + 1), t)
        \/ IF a.x <= t THEN within(0, a.x) ELSE within(a.q - a.x, 0)

\* The coefficient as an integer between -q/2 and q/2.
Centered(a) == IF a.x > a.q \div 2 THEN a.x - a.q ELSE a.x

-----------------------------------------------------------------------------
(* The decompositions. *)

Balanced(c, basis) ==
    LET d == c % 2 ^ basis
    IN  IF d >= 2 ^ (basis - 1) THEN d - 2 ^ basis ELSE d

\* n digits of c, step taking the carry and its digit to the next carry.
DigitsOf(c, basis, n, step(_, _)) ==
    FoldLeft(LAMBDA acc, i :
                 LET d == Balanced(acc.carry, basis)
                 IN  [carry |-> step(acc.carry, d), digits |-> Append(acc.digits, d)],
             [carry |-> c, digits |-> <<>>], [i \in 1 .. n |-> i]).digits

\* The carry of words of w bits: the digit is subtracted, then shifted out.
WordStep(basis, w, c, d) == Signed(c - d, w) \div 2 ^ basis

\* center_for_decomposition where the magnitude leaves the signed word: the
\* first digit comes from unsigned arithmetic.
PeelledDigit(a) == Balanced((a.x - a.q) % 2 ^ WordBits, a.basis)

WordDigits(a) ==
    LET diff == a.q - a.x
        step(c, d) == WordStep(a.basis, WordBits, c, d)
    IN  CASE a.x <= Threshold(a) -> DigitsOf(a.x, a.basis, Levels(a), step)
          [] a.x > Threshold(a) /\ diff < 2 ^ (WordBits - 1) ->
                DigitsOf(-diff, a.basis, Levels(a), step)
          [] OTHER ->
                <<PeelledDigit(a)>>
                  \o DigitsOf(-((diff + PeelledDigit(a)) \div 2 ^ a.basis), a.basis,
                              Levels(a) - 1, step)

\* try_balanced_decompose_coefficients_pow2_i8_u64_into applies.
NativeFits(a) ==
    LET half == 2 ^ (NativeBits - 1)
    IN  a.q < 2 ^ NativeBits /\ Threshold(a) < half /\ a.q - Threshold(a) < half

\* Shifts first and adds the borrow of a negative digit.
NativeDigits(a) ==
    DigitsOf(IF a.x > Threshold(a) THEN a.x - a.q ELSE a.x, a.basis, Levels(a),
             LAMBDA c, d : (c \div 2 ^ a.basis) + (IF d < 0 THEN 1 ELSE 0))

\* The vector kernels: the first digit in unsigned lanes, where a negative
\* coefficient is kept as its magnitude, the others in signed ones.
LaneDigits(a) ==
    LET negative == a.x > Threshold(a)
        low == IF negative THEN (a.x - a.q) % 2 ^ LaneBits ELSE a.x
        d   == Balanced(low, a.basis)
        up(y) == (y % 2 ^ LaneBits) \div 2 ^ a.basis
    IN  <<d>> \o DigitsOf(IF negative THEN -up(a.q - a.x + d) ELSE up(a.x - d),
                          a.basis, Levels(a) - 1,
                          LAMBDA c, e : WordStep(a.basis, LaneBits, c, e))

\* balanced_decompose_centered_i32_i8_into, on the integer itself.
ResponseDigits(a) ==
    DigitsOf(Centered(a), a.basis, Levels(a),
             LAMBDA c, d : WordStep(a.basis, WordBits, c, d))

\* gadget_recompose_pow2.
Recompose(a, digits) ==
    Sum([i \in DOMAIN digits |-> (digits[i] % a.q) * ((2 ^ (a.basis * (i - 1))) % a.q)]) % a.q

-----------------------------------------------------------------------------
(* The calls. *)

\* The cap of a response leaves room in the field.
StartDigits ==
    \E kind \in {"commit", "response"}, q \in Moduli, basis \in LogBases, bound \in LogBounds :
    \E x \in 0 .. q - 1 :
        LET a == [kind |-> kind, q |-> q, basis |-> basis, bound |-> bound, x |-> x]
        IN  /\ kind = "response" => /\ HighBit(bound) + 2 < FieldBits(q)
                                   /\ Abs(Centered(a)) <= bound
            /\ Starts("digits", a)

CheckSource ==
    /\ At("digits", 0) /\ call.arg.kind = "commit"
    /\ Returns(IF Fits(call.arg) THEN Ok("fits") ELSE Refused)

Accepts == At("digits", 1) /\ call.out[1] # Refused

DecomposeWord   == Accepts /\ Returns(<<"balanced", WordDigits(call.arg)>>)
DecomposeNative == Accepts /\ NativeFits(call.arg)
                     /\ Returns(<<"balanced", NativeDigits(call.arg)>>)
DecomposeLane   == Accepts /\ call.arg.q < 2 ^ LaneBits
                     /\ Returns(<<"balanced", LaneDigits(call.arg)>>)

DecomposeResponse ==
    /\ At("digits", 0) /\ call.arg.kind = "response"
    /\ Returns(<<"response", ResponseDigits(call.arg)>>)

DigitsNext ==
    \/ CheckSource \/ DecomposeWord \/ DecomposeNative \/ DecomposeLane
    \/ DecomposeResponse

-----------------------------------------------------------------------------
(* What the digits are for. *)

InRange(d, basis) == -(2 ^ (basis - 1)) <= d /\ d < 2 ^ (basis - 1)

\* The coefficient is one its source declares.
Declared(a) ==
    \/ a.bound >= FieldBits(a.q)
    \/ -(2 ^ (a.bound - 1)) <= Centered(a) /\ Centered(a) < 2 ^ (a.bound - 1)

\* The digits are balanced and stand for the coefficient: in the field, for a
\* response as an integer.
Exact(a, form, digits) ==
    /\ \A i \in DOMAIN digits : InRange(digits[i], a.basis)
    /\ Recompose(a, digits) = a.x
    /\ form = "response" =>
          Sum([i \in DOMAIN digits |-> digits[i] * 2 ^ (a.basis * (i - 1))]) = Centered(a)

\* The number of digits scheduled from a bound is enough: a commitment takes
\* every coefficient its source declares, and whatever it takes every
\* decomposition turns into balanced digits that the verifier's gadget
\* recomposes to it, at either border of the range and past the signed word
\* too.
DigitsExact ==
    call.fn = "digits" =>
        LET a == call.arg
        IN  /\ \A k \in DOMAIN call.out :
                  (k > 1 \/ a.kind = "response") => Exact(a, call.out[k][1], call.out[k][2])
            /\ a.kind = "commit" /\ Declared(a) /\ call.out # <<>> =>
                  call.out[1] # Refused
=============================================================================
