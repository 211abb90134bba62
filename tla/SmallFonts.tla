------------------------------ MODULE SmallFonts ------------------------------
(***************************************************************************)
(* Small fonts with tables and dependencies between glyphs, and the true   *)
(* closure of such a font: what HarfBuzz' subset plan computes of it.      *)
(* These are the codepoints, closed under (de)composition and mirrored,    *)
(* their glyphs, then table by table what these lead to.                   *)
(*                                                                         *)
(* Codepoint c has glyph 10 + c; 6 is a layout feature, 2 and 3 are        *)
(* mirrored.                                                               *)
(***************************************************************************)
EXTENDS DependencyGraph, SequencesExt

Codepoint6 == 1 .. 6
Glyph6 == 11 .. 16
MCFeature == {6}
MCMirror(c) == CASE c = 2 -> 3 [] c = 3 -> 2 [] OTHER -> c
MCUnicodeData == {[base |-> 4, parts |-> {1, 5}]}

Applies(e, cps, gs) ==
    /\ e.source \in gs
    /\ e.table = "GSUB" => /\ e.feature \in cps
                           /\ e.liga \subseteq gs
                           /\ ContextSetSatisfied(e, gs)

TableClosure(f, table, cps, gs) ==
    LET closed[x \in SUBSET Glyph] ==
          LET more == {e.dest : e \in {y \in f.entries :
                                         y.table = table /\ Applies(y, cps, x)}}
          IN  IF more \subseteq x THEN x ELSE closed[x \cup more]
    IN  IF table \in f.tables THEN closed[gs] ELSE gs

MCClosure(f, d) ==
    LET composed == UnicodeClosure(f, d.codepoints)
        cps      == composed \cup {MCMirror(c) : c \in composed}
        nominal  == {f.cmap[c] : c \in cps \cap DOMAIN f.cmap}
        variants == {v.gid : v \in {x \in f.uvs : {x.unicode, x.selector} \subseteq cps}}
    IN  FoldLeft(LAMBDA gs, table : TableClosure(f, table, cps, gs),
                 d.gids \cup nominal \cup variants, Tail(ClosurePhaseTable))

-----------------------------------------------------------------------------
Map(cps) == [c \in cps |-> 10 + c]

Entry(table, source, dest) ==
    [table |-> table, source |-> source, dest |-> dest, feature |-> 6,
     liga |-> {}, context |-> {}]

Ligature(parts, dest) ==
    {[Entry("GSUB", p, dest) EXCEPT !.liga = parts] : p \in parts}

FontOf(cmap, uvs, entries) ==
    [tables |-> {"cmap"} \cup {e.table : e \in entries},
     cmap |-> cmap, uvs |-> uvs, entries |-> entries]

\* a substitution and ligatures, and a glyph drawn with another one
LigatureFont == FontOf(Map(1 .. 4), {},
    {Entry("GSUB", 11, 15), Entry("glyf", 14, 12)}
        \cup Ligature({12, 13}, 16))

\* a contextual substitution whose result is drawn with another glyph
ContextFont == FontOf(Map(1 .. 4), {},
    {[Entry("GSUB", 11, 15) EXCEPT !.context = {{12}, {13, 14}}],
     Entry("glyf", 15, 16)} \cup Ligature({13, 14}, 11))

\* substitutions in a cycle, a decomposition, a colour layer
CycleFont == FontOf(Map({1, 2, 4}) @@ (3 :> 12) @@ (5 :> 13), {},
    {Entry("GSUB", 14, 15), Entry("GSUB", 15, 14), Entry("GSUB", 12, 15),
     Entry("COLR", 15, 16)})

\* a variation sequence; 16 is a part of two glyphs
VariationFont == FontOf(Map(1 .. 4), {[unicode |-> 1, selector |-> 5, gid |-> 15]},
    {Entry("glyf", 15, 16), Entry("glyf", 12, 16)})

\* the same, with a ligature that brings a glyph which has a codepoint
AbsorbingFont == FontOf(VariationFont.cmap, VariationFont.uvs,
                        VariationFont.entries \cup Ligature({14, 15}, 13))

MCFont == {LigatureFont, ContextFont, CycleFont, VariationFont, AbsorbingFont}
=============================================================================
