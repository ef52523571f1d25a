---------------------------- MODULE MCFoldProtocol ----------------------------
EXTENDS FoldTranscript

Group(n, arity, live) == [polys |-> n, vars |-> arity, blocks |-> live]

\* Roots: one polynomial, or a precommitted group and a group of two.
RootLevels == {
  [method |-> "packing", groups |-> g, prefix |-> FALSE, compressed |-> TRUE,
   route |-> "linf", products |-> 1, rounds |-> 2] :
  g \in { <<Group(1, 2, 2)>>, <<Group(1, 1, 1), Group(2, 2, 2)>> } }

\* Every kind of recursive level; a prefix group has another arity than the
\* witness group, so that a confusion of the two shows.
RecursiveLevels(method, products) == {
  [method |-> method,
   groups |-> IF prefix THEN <<Group(1, 3, 2), Group(1, 2, 1)>> ELSE <<Group(1, 2, 1)>>,
   prefix |-> prefix, compressed |-> compressed, route |-> route,
   products |-> products, rounds |-> 2] :
  prefix \in BOOLEAN, compressed \in BOOLEAN, route \in Routes }

Shapes(levels) ==
  {s \in {[split |-> split, levels |-> lv, blocks |-> 2] : split \in 0 .. 2, lv \in levels} : Legal(s)}

UpTo1 == {<<r>> : r \in RootLevels}
UpTo2 == UpTo1 \cup {<<r, a>> : r \in RootLevels, a \in RecursiveLevels("packing", 0)}
UpTo3 == UpTo2 \cup {<<r, a, b>> : r \in RootLevels, a \in RecursiveLevels("packing", 0),
                                   b \in RecursiveLevels("trace", 1)}
\* Four levels, from the wide root only.
Four == {<<r, a, b, c>> : r \in {x \in RootLevels : Len(x.groups) = 2},
                          a \in RecursiveLevels("packing", 0),
                          b \in RecursiveLevels("trace", 0),
                          c \in RecursiveLevels("trace", 1)}

Schedules4 == Shapes(UpTo3) \cup Shapes(Four)
=============================================================================
