---------------------- MODULE MCComplexConditionFinder ----------------------
(***************************************************************************)
(* Every monotone condition of a glyph over four codepoints, next to a     *)
(* second glyph with one of a few conditions; a third glyph is never       *)
(* needed.  The segments are the four codepoints, or three of them after a *)
(* merge.  What is searched for and from which conditions is what the      *)
(* analysis of all segments leaves; the scope is every segment, or only    *)
(* those that bear on the glyphs (what the dependency graph gives at       *)
(* best).                                                                  *)
(***************************************************************************)
EXTENDS ComplexConditionFinder, TLC

CONSTANT Ungrouped            \* a glyph without a group

Segmenter == INSTANCE SegmentationContext WITH NoCondition <- Ungrouped

Segment4 == 0 .. 3
Codepoint4 == 1 .. 4
Glyph3 == 1 .. 3

Antichain(parts) == \A p, q \in parts : p \subseteq q => p = q

\* a glyph and the sets of codepoints each of which brings it
TrueCondition ==
    {parts \in SUBSET (SUBSET Codepoint4 \ {{}}) : parts # {} /\ Antichain(parts)}

SecondCondition ==
    {{{1}}, {{1, 2}, {2, 3}}, {{1}, {2, 3}}, {{1, 2}, {3, 4}}, {{1}, {2}, {3, 4}}}

MCFont == {<<c, d, {}>> : c \in TrueCondition, d \in SecondCondition}

MCClosure(f, d) ==
    d.gids \cup {g \in Glyph : \E part \in f[g] : part \subseteq d.codepoints}
NoFurtherCodepoints(f, gs) == {}

Segments == {[s \in Segment4 |-> {s + 1}],
             (0 :> {}) @@ (1 :> {1, 2}) @@ (2 :> {3}) @@ (3 :> {4})}

Analysed(f, segments) ==
    Segmenter!InitializeSegmentationContext(f, segments, Codepoints({}), "PATCH")

BearsOn(i, gs) ==
    {s \in Segment : \E loaded \in SUBSET Segment :
        gs \cap (Closure(i.font, CombinedDefinition(i, loaded \cup {s}))
                     \ Closure(i.font, CombinedDefinition(i, loaded))) # {}}

Analyses(ctx) ==
    {[info |-> ctx.info, conditions |-> ctx.conditions.condition,
      glyphs |-> ctx.groupings.unmapped, inscope |-> scope] :
        scope \in {Segment, BearsOn(ctx.info, ctx.groupings.unmapped)}}

MCAnalysis ==
    {a \in UNION {Analyses(Analysed(f, segments)) : f \in MCFont, segments \in Segments} :
        a.glyphs # {}}
=============================================================================
