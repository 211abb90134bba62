----------------------- MODULE MCDependencyAnalysis -----------------------
(***************************************************************************)
(* Three segments, disjoint or not, of five small fonts.  A feature of the *)
(* initial font may be asked for by segments too, which then keep it.      *)
(***************************************************************************)
EXTENDS DependencyAnalysis, SmallFonts

Segment3 == 0 .. 2

PureModes == AnyMode \ {"CLOSURE_AND_DEP_GRAPH"}

Segments(a, b, c) == (0 :> a) @@ (1 :> b) @@ (2 :> c)

Requests(fonts, modes) ==
    [font : fonts, init : {Codepoints({})}, modes : {modes},
     segments : {Segments({1, 6}, {2, 5}, {3, 4}),
                 Segments({1, 6}, {1, 2}, {2, 3, 4, 5})}]
    \cup
    [font : fonts, init : {Codepoints({6})}, modes : {modes},
     segments : {Segments({1}, {3}, {4, 5}), Segments({1, 6}, {3}, {4, 5, 6})}]

MCRequest == Requests(MCFont \ {AbsorbingFont}, AnyMode)
                 \cup Requests({AbsorbingFont}, PureModes)

MCMove == {[codepoints |-> {}, gids |-> {g}] : g \in {12, 15, 16}}
              \cup {Codepoints({4})}

(***************************************************************************)
(* A move after which a condition names a segment it did not name before.  *)
(***************************************************************************)
AbsorbingFonts == {AbsorbingFont}
AbsorbingRequest ==
    {[font |-> AbsorbingFont, init |-> Codepoints({}),
      segments |-> Segments({1, 6}, {2, 5}, {3, 4}),
      modes |-> {"CLOSURE_AND_DEP_GRAPH"}]}
=============================================================================
