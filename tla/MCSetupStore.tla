------------------------------ MODULE MCSetupStore ------------------------------
(* A small and a large recursive request, and a plain one in between.      *)
EXTENDS SetupStore, TLC

CONSTANTS small, plain, large

MCRequests == {small, plain, large}
MCNeed == [r \in MCRequests |-> IF r = small THEN 1 ELSE IF r = plain THEN 2 ELSE 3]
=============================================================================
