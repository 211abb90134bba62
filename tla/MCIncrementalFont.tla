------------------------- MODULE MCIncrementalFont -------------------------
(***************************************************************************)
(* Fonts with up to three extension subsets that share codepoints or       *)
(* ranges, with and without glyph data, jumps of one or two levels, with   *)
(* and without prefetch lists.                                             *)
(***************************************************************************)
EXTENDS IncrementalFont, TLC

Def(cps, fs, ds) == [codepoints |-> cps, features |-> fs, design_space |-> ds]
NoAxis == [x \in {} |-> <<1, 1>>]
On(r) == [x \in {"wght"} |-> r]
Codepoints(cps) == Def(cps, {}, NoAxis)
Range_(r) == Def({}, {}, On(r))

\* the initial subset and the extension subsets
Distinct == <<Codepoints({}), <<Codepoints({1}), Codepoints({2}), Codepoints({3})>>>>
Overlapping == <<Codepoints({}), <<Codepoints({1, 2}), Codepoints({1, 3})>>>>
PartlyThere == <<Codepoints({1}), <<Codepoints({1, 2}), Def({3}, {"smcp"}, NoAxis)>>>>
Nested == <<Codepoints({}), <<Codepoints({1, 2}), Codepoints({2}), Codepoints({3})>>>>
Wider == <<Range_(<<1, 1>>), <<Codepoints({1}), Range_(<<1, 3>>)>>>>
TwoRanges == <<Range_(<<1, 1>>), <<Def({1}, {}, On(<<1, 2>>)), Range_(<<2, 4>>)>>>>
Gap == <<Range_(<<1, 1>>), <<Range_(<<3, 4>>), Codepoints({1}), Codepoints({2})>>>>

Shapes == {Distinct, Overlapping, PartlyThere, Nested, Wider, TwoRanges, Gap}
ThreeOverlaps == <<Codepoints({}), <<Codepoints({1, 2}), Codepoints({1, 3}),
                                     Codepoints({2, 3})>>>>

NoGlyphs == [x \in {} |-> Nothing]
Glyphs == 1 :> Codepoints({1}) @@ 2 :> Codepoints({2, 3})

Requests(shapes) ==
    {[init |-> s[1], extensions |-> s[2], glyph_conditions |-> g, jump_ahead |-> j,
      use_prefetch_lists |-> p, sizes |-> IF Len(s[2]) = 2 THEN {1, 2} ELSE {1}] :
        s \in shapes, g \in {NoGlyphs, Glyphs}, j \in 1 .. 3, p \in BOOLEAN}

MCInput == Requests(Shapes)
OverlapInput == Requests({ThreeOverlaps})

MCClient == {Codepoints({1}), Codepoints({2}), Codepoints({1, 2, 3}),
             Range_(<<2, 2>>), Def({1}, {}, On(<<2, 2>>)),
             Def({1, 2, 3}, {"smcp"}, On(<<2, 4>>))}

MCAxisDefault == [x \in {"wght"} |-> 1]

ASSUME InputAssumption == \A r \in Input : DefaultsStay(r)
=============================================================================
