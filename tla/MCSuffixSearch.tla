--------------------------- MODULE MCSuffixSearch ---------------------------
EXTENDS SuffixOptimum

\* The moment of the next source, one of two.
MCNextMoment(f, moment, prefix) == (f.energy + prefix + IF moment = None THEN 0 ELSE moment) % 2

\* Candidates derived under every moment, and those that need one.
Every == {None, 0, 1}
High == {1}

\* A fold candidate of level l and input length n, consuming a prefix iff p > 0,
\* from an inner to an opening basis.
F(l, n, p, next, natural, setup, bytes, nonce, compressed, reduced, dim, inner, basis, moments) ==
  [level |-> l, len |-> n, stage3 |-> p, next |-> next, natural |-> natural, setup |-> setup,
   bytes |-> bytes, nonce |-> nonce, compressed |-> compressed, reduced |-> reduced,
   dim |-> dim, inner |-> inner, basis |-> basis, moments |-> moments, energy |-> natural,
   packs |-> l < 2, route |-> nonce,
   outer |-> IF compressed THEN 1 ELSE 2, bout |-> setup, dout |-> bytes,
   eor |-> IF l < 2 THEN 0 ELSE 1, vars |-> next]

T(l, n, natural, setup, bytes, dim, basis, moments) ==
  [level |-> l, len |-> n, natural |-> natural, setup |-> setup, bytes |-> bytes,
   dim |-> dim, vars |-> n, inner |-> basis, basis |-> basis, moments |-> moments]

\* Two roots, direct and prefixed successors, a raw and a reduced tail.  Candidates
\* of the same level and length stand for another basis, another moment or another
\* security route, one of them with an opening basis below the inner one.  The arguments are the
\* coordinates the runs vary.
Folds(nonce, other, natural, setup, bytes) == <<
  F(0, 8, 0, 4, 8,       4,     6,     nonce, TRUE,  FALSE, 3, 1, 1, Every),
  F(0, 8, 0, 5, natural, setup, bytes, 0,     TRUE,  FALSE, 2, 1, 2, Every),
  F(1, 4, 0, 3, 4,       4,     4,     other, TRUE,  FALSE, 2, 1, 1, Every),
  F(1, 4, 0, 3, natural, setup, bytes, other, TRUE,  FALSE, 2, 1, 1, Every),
  F(1, 4, 0, 3, 2,       setup, bytes, nonce, TRUE,  FALSE, 3, 1, 2, Every),
  F(1, 4, 1, 3, natural, 3,     5,     nonce, TRUE,  FALSE, 2, 1, 1, Every),
  F(1, 4, 2, 3, 2,       setup, 4,     other, TRUE,  FALSE, 1, 1, 2, Every),
  F(1, 5, 0, 3, natural, 2,     3,     other, TRUE,  FALSE, 1, 2, 2, Every),
  F(2, 3, 0, 2, 2,       5,     2,     other, TRUE,  FALSE, 1, 1, 1, Every),
  F(2, 3, 0, 2, 2,       5,     2,     0,     TRUE,  FALSE, 1, 1, 1, Every),
  F(2, 3, 0, 2, 3,       3,     2,     nonce, FALSE, FALSE, 1, 1, 1, Every),
  F(2, 3, 0, 2, 2,       2,     3,     1,     FALSE, TRUE,  2, 1, 2, Every),
  F(2, 3, 0, 2, 1,       1,     1,     1,     FALSE, FALSE, 1, 2, 1, Every),
  F(2, 3, 0, 2, 2,       4,     2,     other, TRUE,  FALSE, 1, 2, 2, Every),
  F(2, 3, 0, 2, 2,       2,     3,     0,     TRUE,  FALSE, 1, 2, 2, Every),
  F(2, 3, 0, 2, 2,       3,     3,     nonce, FALSE, FALSE, 1, 2, 2, High),
  F(2, 3, 1, 2, 1,       2,     2,     nonce, TRUE,  FALSE, 1, 1, 1, Every),
  F(2, 3, 1, 2, 1,       3,     3,     nonce, TRUE,  FALSE, 1, 2, 2, Every),
  F(3, 2, 0, 1, 1,       1,     1,     2,     FALSE, TRUE,  1, 1, 1, Every),
  F(3, 2, 0, 1, 1,       1,     2,     2,     FALSE, TRUE,  1, 2, 2, Every)>>

Terminals(first, second) == <<
  T(1, 4, 2, 3, 24,     2, 1, Every), T(2, 3, 2, 2, first + 8, 1, 1, Every),
  T(3, 2, 1, 2, second, 1, 1, Every), T(3, 2, 1, 1, first,     1, 2, Every),
  T(3, 2, 1, 1, first - 4, 1, 1, High), T(3, 2, 1, 2, second - 2, 1, 2, High),
  T(4, 1, 1, 1, 6,      1, 1, Every), T(4, 1, 1, 1, 5,         1, 2, Every)>>

Search(policy, budget, childFold, modeled, folds, terminals) ==
  [policy |-> policy, budget |-> budget, childFold |-> childFold, modeled |-> modeled,
   len |-> 8, folds |-> folds, terminals |-> terminals]

Searches ==
  {Search(v[1], v[2], v[3], v[4], Folds(v[5], v[6], v[7], v[8], v[9]), Terminals(v[10], v[11])) :
     v \in {"Payload", "SetupFirst", "Envelope"} \X {0, 4} \X BOOLEAN \X BOOLEAN
             \X {0, 3, 6} \X {1, 5} \X {2, 5} \X {3, 4, 5} \X {4, 6} \X {8, 9} \X {8, 9}}

\* A budget below the footprint of the terminal with the smaller response.
TightSearches ==
  {Search(v[1], 4, FALSE, FALSE, Folds(0, 1, 2, 3, v[2]),
          <<T(3, 2, 1, 6, 6, 1, 1, Every), T(3, 2, 1, 1, 9, 1, 1, Every)>>) :
     v \in {"SetupFirst", "Envelope"} \X {4, 6}}
=============================================================================
