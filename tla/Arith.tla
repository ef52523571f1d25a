------------------------------- MODULE Arith -------------------------------
(* Integer helpers shared by the models of the algorithms. *)
EXTENDS Integers, Sequences, SequencesExt

DivCeil(a, b) == (a + b - 1) \div b

Abs(n) == IF n < 0 THEN -n ELSE n

Sum(s) ==
    LET sum[i \in 0 .. Len(s)] == IF i = 0 THEN 0 ELSE sum[i - 1] + s[i]
    IN  sum[Len(s)]

Product(s) == FoldSeq(LAMBDA x, acc : x * acc, 1, s)

\* Index of the highest set bit of x > 0 (BITS - 1 - leading_zeros).
HighBit(x) == CHOOSE k \in 0 .. x : 2 ^ k <= x /\ x < 2 ^ (k + 1)

\* Bit i of x, and the low bits of x, least significant first.
Bit(x, i) == (x \div 2 ^ i) % 2
BitsOf(x, count) == [i \in 1 .. count |-> Bit(x, i - 1)]
=============================================================================
