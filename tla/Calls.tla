------------------------------- MODULE Calls -------------------------------
(***************************************************************************)
(* One call of a sequential algorithm: the algorithm, its input, and the   *)
(* results of the stages that have run.  The modules of the algorithms     *)
(* (TailCodec, OffsetEq, ...) extend this one; MCAlgorithms starts any     *)
(* call of any of them.                                                    *)
(***************************************************************************)
EXTENDS Naturals, Sequences

VARIABLE call

\* A Result of the code: Ok(x), or Refused where the code returns an error.
Ok(x)   == <<x>>
Refused == <<>>

\* A call of algorithm fn with input arg, about to run its first stage.
Starts(fn, arg) == call = [fn |-> fn, arg |-> arg, out |-> <<>>]

\* The call is one of fn and n of its stages have run.
At(fn, n) == call.fn = fn /\ Len(call.out) = n

\* The next stage returns r.
Returns(r) == call' = [call EXCEPT !.out = Append(@, r)]
=============================================================================
