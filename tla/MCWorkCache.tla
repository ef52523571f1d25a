----------------------------- MODULE MCWorkCache -----------------------------
EXTENDS WorkCache, TLC

Symmetry == Permutations(Procs) \cup Permutations(Payloads)
=============================================================================
