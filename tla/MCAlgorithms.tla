---------------------------- MODULE MCAlgorithms ----------------------------
(* Every call of every modelled algorithm on small inputs. *)
EXTENDS TailCodec, TensorPair, Digits, PackedDigits, DecomposeFold, SetupWeights

MCTailShapes ==
    {<<2, 3, 0>>, <<2, 8, 0>>, <<2, 15, 0>>,
     <<2, 4, 40>>, <<2, 8, 200>>, <<2, 16, 300>>, <<1, 31, 256>>,
     <<2, 8, 18>>, <<3, 15, 0>>, <<11, 7, 256>>}
MCTailValues == {-17, -16, -15, -9, -8, -7} \cup -4 .. 4 \cup {6, 8, 9, 15, 16}

Affine(cs, bases, start, live, ostride, dstride, digits, high, low, scales) ==
    [cs |-> cs, bases |-> bases, start |-> start, live |-> live, ostride |-> ostride,
     dstride |-> dstride, digits |-> digits, high |-> high, low |-> low, scales |-> scales]

\* Families at the borders of rows and tables, and wide ones with many rows.
MCAffineInputs ==
    {Affine(cs, bases, start, live, ostride, dstride, digits, <<3, 1, 4, 2>>, low,
            IF Len(bases) = 2 THEN <<3, 4>> ELSE <<>>) :
        cs \in {<<2, 3, 4, 3>>, <<3, 0, 1, 2>>},
        bases \in {<<1>>, <<2, 5>>, <<3, 7>>}, start \in {0, 1, 3}, live \in {0, 1, 2, 4},
        ostride \in 1 .. 3, dstride \in 1 .. 2, digits \in {<<3>>, <<3, 1>>, <<1, 2, 4>>, <<1, 2, 3>>},
        low \in {<<>>, <<2, 3>>, <<1, 2, 3>>, <<1, 2, 3, 4>>}}
    \cup
    {Affine(<<2, 3, 4, 3, 2>>, bases, 0, 5, ostride, 1, <<1, 3, 2, 4>>, <<3, 1, 4, 2, 3>>, <<>>,
            <<3, 4, 2, 1>>) :
        bases \in {<<0, 1, 3, 8>>, <<2, 5, 6, 7>>}, ostride \in 4 .. 5}

Unit(len, ls, rs) == [len |-> len, ls |-> ls, rs |-> rs, kind |-> "unit", w |-> <<>>]
Dense(ls, rs, w) == [len |-> Len(w), ls |-> ls, rs |-> rs, kind |-> "dense", w |-> w]
BitAxis(ls, rs, w) == [len |-> 2 ^ Len(w), ls |-> ls, rs |-> rs, kind |-> "bits", w |-> w]
Family(lo, ro, scalar, axes) == [lo |-> lo, ro |-> ro, scalar |-> scalar, axes |-> axes]

MCAxes == {Unit(2, 1, 1), Unit(3, 1, 2), Unit(4, 2, 1), Unit(2, 2, 2), Unit(2, 3, 0), Unit(3, 3, 1),
           Unit(1, 1, 1), Dense(1, 2, <<2, 3>>), Dense(0, 1, <<3, 0, 4>>), Dense(1, 1, <<0>>),
           BitAxis(1, 1, <<<<2, 3>>>>), BitAxis(2, 3, <<<<1, 4>>, <<3, 2>>>>)}

MCFamilies ==
    {Family(lo, ro, 2, axes) :
        lo \in {0, 3}, ro \in {0, 1, 5},
        axes \in {<<>>} \cup {<<a>> : a \in MCAxes} \cup {<<a, b>> : a, b \in MCAxes}}

MCPairInputs ==
    {[lcs |-> <<2, 3, 4>>, rcs |-> rcs, lmono |-> m, rmono |-> FALSE, families |-> <<f>>] :
        rcs \in {<<3, 2>>, <<3, 2, 4>>}, m \in BOOLEAN, f \in MCFamilies}
    \cup
    {[lcs |-> <<2, 3, 4>>, rcs |-> <<3, 2, 4>>, lmono |-> FALSE, rmono |-> TRUE,
      families |-> <<Family(lo, 1, 2, <<a, b>>), Family(1, ro, 3, <<a, b>>)>>] :
        lo \in {0, 1}, ro \in {0, 5}, a, b \in MCAxes}

MCLeftFamilies ==
    {Family(lo, ro, s, axes) :
        lo \in {0, 2}, ro \in {1, 6}, s \in {0, 1, 2},
        axes \in {<<Unit(2, 1, 1)>>, <<Unit(3, 1, 1)>>, <<Unit(2, 1, 2), Dense(0, 1, <<2, 3>>)>>,
                  <<Dense(1, 1, <<3, 4>>)>>, <<>>}}

MCLeftInputs ==
    {[cs |-> cs, families |-> fs, len |-> len] :
        cs \in {<<2, 3, 4>>, <<2, 3, 4, 2, 3>>}, len \in {4, 5},
        fs \in {<<>>} \cup {<<f>> : f \in MCLeftFamilies} \cup {<<f, g>> : f, g \in MCLeftFamilies}}

\* One or two writes with gaps, overlaps and digits at the borders of 1, 3 and
\* 4 bits, read in steps that match the blocks and in steps that do not.
MCPackedWrites ==
    LET runs == {<<-1>>, <<3, -4, 1, 2>>, <<-8, 7, 0, -1, 5>>, <<1, 2, 3, -1, -2, -3, 1, 2, 3>>}
    IN  {<<>>} \cup {<<<<s, r>>>> : s \in {0, 3}, r \in runs}
        \cup {<<<<s, r>>, <<t, u>>>> : s \in {0, 2}, t \in {3, 6, 9}, r, u \in runs}

MCPackedInputs ==
    {[len |-> len, width |-> width, limit |-> limit, writes |-> writes, view |-> view, reads |-> reads] :
        len \in {8, 11}, width \in {1, 3, 4}, limit \in {4, 6, 8}, writes \in MCPackedWrites,
        view \in {<<11, 0, 11>>, <<13, 3, 13>>, <<16, 6, 15>>, <<8, 1, 8>>},
        reads \in {<<1, 1, 1, 1, 1, 1, 1>>, <<3, 3, 3, 1>>, <<2, 4, 1, 2>>}}

Terms(ps, cs) == [t \in DOMAIN ps |-> [pos |-> ps[t], coeff |-> cs[t]]]

\* Challenges of every plan for the bounds 2 and 8: light and heavy ones,
\* chunks that are exactly full, and one heavy enough to be expanded.
MCChallenges ==
    {<<>>, Terms(<<1>>, <<1>>), Terms(<<3>>, <<-1>>), Terms(<<0, 2>>, <<1, -1>>), Terms(<<0>>, <<-3>>),
     Terms(<<1, 2, 3>>, <<1, 2, -1>>), Terms(<<0, 3>>, <<-2, -2>>), Terms(<<2, 0>>, <<4, 1>>),
     Terms(<<0, 1, 2, 3>>, <<1, -2, 1, 1>>)}

\* Planes at the bound, of one sign and of alternating signs.
MCPlane(bound, kind) ==
    [k \in 1 .. 4 |-> CASE kind = 0 -> bound [] kind = 1 -> -bound
                        [] OTHER -> IF k % 2 = 0 THEN bound ELSE 1 - bound]

MCFoldSources ==
    {[bound |-> bound, digits |-> shape[1], positions |-> shape[2],
      tile |-> [start |-> shape[3], len |-> shape[4]],
      planes |-> [i \in 1 .. count * shape[1] |-> MCPlane(bound, (i * step) % 3)]] :
        bound \in {2, 8}, count \in {3, 5}, step \in {0, 1},
        shape \in {<<1, 2, 0, 2>>, <<2, 2, 1, 1>>}}
    \cup {[bound |-> 0, digits |-> 1, positions |-> 1, tile |-> [start |-> 0, len |-> 3],
            planes |-> [i \in 1 .. 2 |-> MCPlane(0, 0)]]}

\* Levels with one to three groups of different rings; the rings of the last
\* ones leave gaps before the layers of the tail.  The subring of 2 does
\* not pack into the ring of 2, and without an extension the subring of 1
\* makes no ring of D: both are refused.
MCLevelGroup(da, claims, blocks, slices, na, nb, digits, subring) ==
    [da |-> da, db |-> 2, claims |-> claims, blocks |-> blocks, positions |-> 2, inner |-> digits,
     outer |-> digits, open |-> 3 - digits, fold |-> 2, na |-> na, nb |-> nb, slices |-> slices,
     subring |-> subring]
MCLevel(groups, chunks, depth, compressed, ext) ==
    [groups |-> groups, nd |-> 2, dd |-> 2, chunks |-> chunks, depth |-> depth,
     compressed |-> compressed, ext |-> ext]

MCWitnessLevels ==
    {MCLevel(<<MCLevelGroup(da, claims, blocks, 1, 2, 1, digits, subring)>>, chunks, depth, compressed, 2) :
        da \in {2, 4}, claims \in {1, 2}, blocks \in {1, 3}, digits \in {1, 2},
        subring \in {0, 1, 2}, chunks \in {1, 2}, depth \in {0, 2}, compressed \in BOOLEAN}
    \cup
    {MCLevel(<<MCLevelGroup(2, 2, b1, s1, 1, 2, 1, subring), MCLevelGroup(4, 1, 3, s2, 2, 1, 2, 0)>>,
             chunks, depth, TRUE, ext) :
        b1 \in {2, 5}, s1 \in {1, 2}, s2 \in {1, 2}, subring \in {0, 1}, chunks \in {1, 2, 4},
        depth \in {0, 1}, ext \in {1, 2}}
    \cup
    {MCLevel(<<MCLevelGroup(2, 1, 3, 1, 1, 2, 1, subring), MCLevelGroup(4, 2, 2, 1, 2, 1, 2, 0),
               MCLevelGroup(4, 1, 1, 1, 1, 1, 1, 2)>>, 2, depth, FALSE, 2) :
        subring \in {0, 1}, depth \in {0, 1}}
    \cup
    {[MCLevel(<<[MCLevelGroup(da, claims, 3, slices, 1, nb, 1, subring) EXCEPT !.db = 4]>>,
              chunks, depth, TRUE, 2) EXCEPT !.dd = 4] :
        da \in {4, 8}, claims \in {1, 2}, slices \in {1, 2, 3}, nb \in {1, 2}, subring \in {0, 2},
        chunks \in {1, 2}, depth \in {0, 1}}
MCLadder == <<2, 1>>

Init == StartTail \/ StartAffine \/ StartTensor \/ StartDigits \/ StartPacked \/ StartFold
        \/ StartWitness
Next == TailNext \/ EvaluateAffine \/ TensorNext \/ DigitsNext \/ PackedNext \/ FoldNext
        \/ WitnessNext \/ PairSetup
Spec == Init /\ [][Next]_call
=============================================================================
