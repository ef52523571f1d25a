----------------------------- MODULE MCNonceStream -----------------------------
(* A plan of five runs: a one-bit proof of work, a fold group of two       *)
(* coordinates, a two-bit fold response, a proof of work without bits and  *)
(* a one-bit proof of work, over bytes of three bits.                      *)
EXTENDS NonceStream

CONSTANTS PowA, PowB, PowC, Resp, Fold

MCSites == {PowA, PowB, PowC, Resp, Fold}
MCSiteOf == <<PowA, Fold, Resp, PowB, PowC>>
MCKindOf == [s \in MCSites |-> IF s = Resp THEN "response"
                               ELSE IF s = Fold THEN "fold" ELSE "pow"]
MCWidth == <<1, 0, 2, 0, 1>>
MCMult == <<1, 3, 1, 1, 1>>
MCStart == <<0, 1, 1, 3, 3, 4>>
=============================================================================
