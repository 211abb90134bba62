----------------------- MODULE MCClosureGlyphSegmenter -----------------------
(***************************************************************************)
(* Small fonts.  Codepoint c has glyph 10 + c; further glyphs come from    *)
(* substitutions.  A rule of the font adds a glyph when the codepoints and *)
(* the glyphs of `from' are there; a composition of Unicode adds a         *)
(* codepoint when two others are there.                                    *)
(***************************************************************************)
EXTENDS ClosureGlyphSegmenter, TLC

Rule(cps, gs, gid) == [from |-> [codepoints |-> cps, gids |-> gs], gid |-> gid]
Subst(inputs, gid) == {Rule({}, gs, gid) : gs \in inputs}
CharacterMap(cps) == {Rule({c}, {}, 10 + c) : c \in cps}
Compose(c, d, result) == [from |-> {c, d}, codepoint |-> result]

MCClosure(f, d) ==
    LET composed[cps \in SUBSET Codepoint] ==
            LET more == {r.codepoint : r \in {q \in f.compositions :
                                                q.from \subseteq cps}}
            IN  IF more \subseteq cps THEN cps ELSE composed[cps \cup more]
        unicodes == composed[d.codepoints]
        closed[gs \in SUBSET Glyph] ==
            LET more == {r.gid : r \in {q \in f.rules :
                            /\ q.from.codepoints \subseteq unicodes
                            /\ q.from.gids \subseteq gs}}
            IN  IF more \subseteq gs THEN gs ELSE closed[gs \cup more]
    IN  closed[d.gids]

MCFontCodepoints(f, gs) ==
    UNION {r.from.codepoints : r \in {q \in f.rules : q.gid \in gs}}

MergeGroup(inscope, init_scope, moves, patches) ==
    [inscope |-> inscope, init_scope |-> init_scope,
     init_moves |-> moves, patch_merges |-> patches]

Nothing == [codepoints |-> {}, gids |-> {}]

-----------------------------------------------------------------------------
(***************************************************************************)
(* Three segments and an empty one, or four; four codepoints; glyphs 15    *)
(* and 16 from substitutions, or 15 from a composed codepoint; in two      *)
(* fonts glyph 11 has a second origin, so that its codepoint moves with    *)
(* the unmapped glyphs; in one any of three segments needs 16, as it does  *)
(* the unmapped glyph 15; in the next a merge of segments that only 16     *)
(* needs changes which condition a new search would find for 15; in the    *)
(* last one a merge does that for the segments of 15 itself.               *)
(***************************************************************************)
Segment3 == 0 .. 2
Segment4 == 0 .. 3
Codepoint5 == 1 .. 5
Glyph6 == 11 .. 16

Substituted == {{{13}, {14}}, {{11, 13}}, {{11, 13}, {14}},
                {{11, 13}, {11, 14}}, {{12, 13}, {13, 14}}}
Chained == {{}, {{15}}, {{12, 15}}, {{13, 14}}}

SmallFonts ==
    {[rules |-> CharacterMap(1 .. 4) \cup Subst(a, 15) \cup Subst(b, 16),
      compositions |-> {}] : a \in Substituted, b \in Chained}
    \cup
    {[rules |-> CharacterMap(1 .. 4) \cup Subst({{13, 14}}, 11) \cup Subst(a, 15),
      compositions |-> {}] : a \in {{{11}}, {{11, 12}}}}
    \cup
    {[rules |-> CharacterMap(1 .. 5) \cup Subst(b, 16),
      compositions |-> {Compose(1, 3, 5)}] : b \in Chained}
    \cup
    {[rules |-> CharacterMap(1 .. 4) \cup Subst({{11, 13}, {14}}, 15)
                    \cup Subst({{11}, {13}, {14}}, 16),
      compositions |-> {}],
     [rules |-> CharacterMap(1 .. 4) \cup Subst({{11, 12}, {11, 13}, {12, 13}}, 15)
                    \cup Subst({{11}, {14}}, 16),
      compositions |-> {}],
     [rules |-> CharacterMap(1 .. 4) \cup Subst({{12, 13}, {12, 14}, {13, 14}}, 15),
      compositions |-> {}]}

ThreeSegments(strategies, handling) ==
    [segments |-> (0 :> {1, 2}) @@ (1 :> {3}) @@ (2 :> {4}) @@ (3 :> {}),
     init |-> Nothing, strategies |-> strategies, handling |-> handling]

FourSegments(strategies, handling) ==
    [segments |-> [s \in Segment4 |-> {s + 1}],
     init |-> Nothing, strategies |-> strategies, handling |-> handling]

SmallInput ==
    {ThreeSegments(<<MergeGroup(Segment3, Segment3, TRUE, TRUE)>>, "PATCH"),
     ThreeSegments(<<MergeGroup(Segment3, Segment3, FALSE, TRUE)>>,
                   "MOVE_TO_INIT_FONT"),
     ThreeSegments(<<MergeGroup({0, 1}, {0, 1}, FALSE, TRUE),
                     MergeGroup({2}, {2}, TRUE, FALSE)>>, "PATCH"),
     ThreeSegments(<<MergeGroup({0}, {0, 2}, TRUE, FALSE),
                     MergeGroup({1}, {1, 2}, TRUE, TRUE)>>, "PATCH"),
     ThreeSegments(<<>>, "MOVE_TO_INIT_FONT"),
     ThreeSegments(<<MergeGroup(Segment3, Segment3, TRUE, TRUE)>>,
                   "FIND_CONDITIONS"),
     FourSegments(<<MergeGroup(Segment4, Segment4, FALSE, FALSE)>>,
                  "FIND_CONDITIONS")}

-----------------------------------------------------------------------------
(***************************************************************************)
(* A font in which the glyph 15 needs two segments and, where it is in the *)
(* initial font, the two other segments together bring 16.  Any of the     *)
(* first two segments needs 16 by itself, before and after 15 moves.       *)
(***************************************************************************)
MoveFont ==
    {[rules |-> CharacterMap(1 .. 4) \cup Subst({{11, 12}}, 15)
                    \cup Subst({{11}, {12}, {13, 14, 15}}, 16),
      compositions |-> {}]}

MoveInput ==
    {FourSegments(<<MergeGroup(Segment4, Segment4, TRUE, FALSE)>>, "PATCH")}

-----------------------------------------------------------------------------
(***************************************************************************)
(* A font in which the glyph 16 needs two of the first three segments and  *)
(* is left unmapped; either of the first two segments needs 17.  With 16   *)
(* in the initial font, segment 3 alone, or 2 and 4 together, bring 17 as  *)
(* well.                                                                   *)
(***************************************************************************)
Segment5 == 0 .. 4
Glyph7 == 11 .. 17

UnmapFont ==
    {[rules |-> CharacterMap(1 .. 5)
                    \cup Subst({{11, 12}, {11, 13}, {12, 13}}, 16)
                    \cup Subst({{11}, {12}, {14, 16}, {13, 15, 16}}, 17),
      compositions |-> {}]}

UnmapInput ==
    {[segments |-> [s \in Segment5 |-> {s + 1}], init |-> Nothing,
      strategies |-> <<>>, handling |-> "MOVE_TO_INIT_FONT"]}

-----------------------------------------------------------------------------
(***************************************************************************)
(* A font in which 21 and 22 need two segments each, in any of three ways; *)
(* 23, 24 and 25 have disjunctions of their own, with which the patches of *)
(* 21 and 22 can be combined.  Two merge groups of adjacent segments: 2    *)
(* merges into 0 and patches are combined; then 6 merges into 5.           *)
(***************************************************************************)
Segment7 == 0 .. 6
Codepoint7 == 0 .. 6
Glyph9 == {10, 12, 15, 16, 21, 22, 23, 24, 25}

Of(inputs, gid) == {Rule(cps, {}, gid) : cps \in inputs}

CombinedFont ==
    {[rules |-> CharacterMap({0, 2, 5, 6})
                    \cup Of({{2, 3}, {2, 0, 6}, {3, 1, 6}}, 21)
                    \cup Of({{2, 4}, {2, 0, 6}, {4, 1, 6}}, 22)
                    \cup Of({{1}, {4}, {6}}, 23)
                    \cup Of({{3}, {4}}, 24) \cup Of({{1}, {4}}, 25),
      compositions |-> {}]}

CombinedInput ==
    {[segments |-> [s \in Segment7 |-> {s}], init |-> Nothing,
      strategies |-> <<MergeGroup(0 .. 4, {}, FALSE, TRUE),
                       MergeGroup(5 .. 6, {}, FALSE, FALSE)>>,
      handling |-> "FIND_CONDITIONS"]}

-----------------------------------------------------------------------------
(***************************************************************************)
(* A font in which 20 and 21 need segment 0 (21 segment 3 as well) and one *)
(* of the segments 4 and 5; 22 and 23 have disjunctions of their own.  Two *)
(* merge groups: once 3 is merged into 0, the patches of 0 and of 22 can   *)
(* be combined to one with the condition of 23; then 5 is merged into 4.   *)
(***************************************************************************)
Segment6 == 0 .. 5
Codepoint6 == 0 .. 5
PulledGlyph == {14, 15, 20, 21, 22, 23}

PulledFont ==
    {[rules |-> CharacterMap({4, 5})
                    \cup Of({{0, 4}, {0, 5}}, 20) \cup Of({{0, 3, 4}, {0, 3, 5}}, 21)
                    \cup Of({{1}, {2}}, 22) \cup Of({{0}, {1}, {2}}, 23),
      compositions |-> {}]}

PulledInput ==
    {[segments |-> [s \in Segment6 |-> {s}], init |-> Nothing,
      strategies |-> <<MergeGroup(0 .. 3, {}, FALSE, TRUE),
                       MergeGroup(4 .. 5, {}, FALSE, FALSE)>>,
      handling |-> "PATCH"]}
=============================================================================
