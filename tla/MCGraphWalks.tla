---------------------------- MODULE MCGraphWalks ----------------------------
(***************************************************************************)
(* Traversals of the small fonts from any segments, with the feature in a  *)
(* segment or in the initial font, and with a glyph in the initial font;   *)
(* the components of every graph of three nodes.                           *)
(***************************************************************************)
EXTENDS GraphWalks, SmallFonts

Segment3 == 0 .. 2

(***************************************************************************)
(* The table of dependencies is another library's.  ChainFont has the      *)
(* entry of a ligature at its first glyph only, the case that the edges    *)
(* put aside are kept for; the other fonts have it at every glyph.         *)
(***************************************************************************)
FirstOnly(first, other, dest) ==
    [Entry("GSUB", first, dest) EXCEPT !.liga = {first, other}]

ChainFont == FontOf((1 :> 11) @@ (2 :> 13) @@ (3 :> 13) @@ (5 :> 14), {},
    {Entry("GSUB", 14, 15), FirstOnly(13, 15, 16), FirstOnly(11, 16, 12)})

WalkFont == MCFont \cup {ChainFont}
Vertex3 == 1 .. 3
MCGraph == [Vertex3 -> SUBSET Vertex3]

Segments(a, b, c) == (0 :> a) @@ (1 :> b) @@ (2 :> c)

MCInfo ==
    {CreateInfo(f, Segments({1, 6}, {2, 5}, {3, 4}), Codepoints({}), "PATCH") :
        f \in WalkFont}
    \cup
    {CreateInfo(f, Segments({1}, {2}, {4, 5}), d, "PATCH") :
        f \in WalkFont, d \in {Codepoints({6}), [codepoints |-> {6}, gids |-> {12}]}}

MCWalk == [info : MCInfo, segments : SUBSET Segment3 \ {{}}]
=============================================================================
