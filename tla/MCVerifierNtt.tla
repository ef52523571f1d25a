---------------------------- MODULE MCVerifierNtt ----------------------------
EXTENDS VerifierNtt, TLC

\* Width 1 needs no tail, width 2 needs one with IFMA52, width 3 is out of
\* reach for IFMA52 and needs a tail with the scalar primes.
BaseWidths == ("scalar" :> 2) @@ ("ifma52" :> 1)
TailWidths == ("scalar" :> 3) @@ ("ifma52" :> 2)

CallSymmetry == Permutations(Calls)
=============================================================================
