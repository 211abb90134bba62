---------------------------- MODULE MCEntryGraph ----------------------------
(***************************************************************************)
(* Two conditions in any order, or three, over four segments whose         *)
(* definitions share codepoints, features and ranges in different ways.    *)
(***************************************************************************)
EXTENDS EntryGraph, TLC

Def(cps, fs, ds) == [codepoints |-> cps, features |-> fs, design_space |-> ds]
On(r) == [x \in {"wght"} |-> r]
NoAxis == [x \in {} |-> <<1, 1>>]

Segments(a, b, c, d) == (0 :> a @@ 1 :> b @@ 2 :> c @@ 3 :> d)

Codepoints == Segments(Def({1}, {}, NoAxis), Def({2}, {}, NoAxis),
                       Def({3}, {}, NoAxis), Def({1, 2}, {}, NoAxis))
MixedParts == Segments(Def({1}, {"liga"}, NoAxis), Def({1}, {}, NoAxis),
                       Def({2}, {"liga"}, NoAxis), Def({}, {"liga"}, NoAxis))
Ranges == Segments(Def({1}, {}, On(<<1, 2>>)), Def({}, {}, On(<<2, 3>>)),
                   Def({}, {}, On(<<4, 4>>)), Def({2}, {"liga"}, NoAxis))
AllParts == Segments(Def({1}, {"liga"}, On(<<1, 2>>)), Def({2}, {}, NoAxis),
                     Def({}, {"liga"}, NoAxis), Def({}, {}, On(<<1, 2>>)))

MCSegments == {Codepoints, MixedParts, Ranges, AllParts}

MCCondition ==
    {{{0}}, {{1}}, {{2}}, {{0, 1}}, {{1, 2}}, {{0, 1, 2, 3}},
     {{0}, {1}}, {{1}, {2}, {3}}, {{0}, {1}, {2}, {3}},
     {{0, 1}, {2}}, {{0, 1}, {1, 2}}, {{0, 1}, {2, 3}}, {}}

Pairs == {<<c, d>> : c, d \in MCCondition} \ {<<c, c>> : c \in MCCondition}
Triples == {<<{{0, 1}}, {{0}, {1}}, {{1}}>>, <<{{0}}, {{0, 1}}, {{1}}>>,
            <<{{0, 1}, {2, 3}}, {{2, 3}}, {{0, 1}}>>, <<{{3}}, {{0}}, {{2}}>>,
            <<{{0, 1, 2, 3}}, {{2}, {3}}, {{3}}>>, <<{{1}}, {}, {{0}, {1}}>>,
            <<{{0, 1}}, {{2}}, {{1}}>>, <<{{0, 2}}, {{3}}, {{1}}>>}

MCInput == {[segments |-> s, conditions |-> c] : s \in MCSegments,
                                                 c \in Pairs \cup Triples}

\* cheap and expensive codepoints
MCCodepointCost ==
    {[cps \in SUBSET Codepoint |-> IF cps = {} THEN 0 ELSE 1 + Cardinality(cps)],
     [cps \in SUBSET Codepoint |-> 20 * Cardinality(cps)]}

MCClient == {Def(cps, fs, ds) : cps \in SUBSET Codepoint,
                                fs \in SUBSET Feature,
                                ds \in {NoAxis, On(<<1, 1>>), On(<<3, 4>>)}}
=============================================================================
