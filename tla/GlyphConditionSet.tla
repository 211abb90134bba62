-------------------------- MODULE GlyphConditionSet --------------------------
(***************************************************************************)
(* The condition of every glyph, with the reverse index from a segment to  *)
(* the glyphs whose condition names it (ift/encoder/glyph_condition_set.h).*)
(* The segmenter finds the glyphs that a merge touches through the index,  *)
(* so an entry missing there is a glyph left with a stale condition.       *)
(*                                                                         *)
(* Each operator takes the set of glyphs which the callers loop over: no   *)
(* glyph's update looks at another glyph.                                  *)
(***************************************************************************)
EXTENDS SegmentationInfo

LOCAL INSTANCE TLC

ConditionSet == [condition : [Glyph -> Condition],
                 glyphs    : [Segment -> SUBSET Glyph]]

NoConditions == [condition |-> [g \in Glyph |-> True],
                 glyphs    |-> [s \in Segment |-> {}]]

GlyphsWithSegments(cs, ss) == UNION {cs.glyphs[s] : s \in ss}

-----------------------------------------------------------------------------
(***************************************************************************)
(* Adding a segment to the conditions of some glyphs.                      *)
(* Mutation: the index is not told of the new segment.                     *)
(***************************************************************************)
AddAndConditionUnindexed(cs, gs, s) ==
    [cs EXCEPT !.condition =
        [g \in Glyph |-> IF g \notin gs THEN @[g]
                         ELSE IF IsAlwaysTrue(@[g]) THEN ExclusiveSegment(s)
                         ELSE And(@[g], ExclusiveSegment(s))]]

AddAndCondition(cs, gs, s) ==
    LET added(c) == IF IsAlwaysTrue(c) THEN ExclusiveSegment(s)
                    ELSE And(c, ExclusiveSegment(s))
    IN  [condition |-> [g \in Glyph |-> IF g \in gs THEN added(cs.condition[g])
                                        ELSE cs.condition[g]],
         glyphs    |-> [cs.glyphs EXCEPT ![s] = @ \cup gs]]

AddOrCondition(cs, gs, s) ==
    LET added(c) == IF IsAlwaysTrue(c) THEN OrSegments({s})
                    ELSE Or(c, OrSegments({s}))
    IN  [condition |-> [g \in Glyph |-> IF g \in gs THEN added(cs.condition[g])
                                        ELSE cs.condition[g]],
         glyphs    |-> [cs.glyphs EXCEPT ![s] = @ \cup gs]]

\* the conditions of the domain of a map replaced by those of the map
SetConditions(cs, map) ==
    LET after == map @@ cs.condition
    IN  [condition |-> after,
         glyphs    |-> [s \in Segment |->
                           (cs.glyphs[s] \ DOMAIN map)
                               \cup {g \in DOMAIN map :
                                        s \in TriggeringSegments(map[g])}]]

-----------------------------------------------------------------------------
(***************************************************************************)
(* Taking segments out of a condition: they leave every group, and groups  *)
(* left empty disappear.  A condition that shrinks to one segment becomes  *)
(* exclusive unless it was a disjunction before.                           *)
(***************************************************************************)
RemoveSegments(c, ss) ==
    LET remaining == {g \in c.groups : ~(g \subseteq ss)}
        kept      == {g \ ss : g \in remaining}
    IN  IF kept = {} THEN True
        ELSE IF IsPurelyDisjunctive(c) THEN OrSegments(UNION kept)
        ELSE IF /\ Cardinality(remaining) = 1
                /\ Cardinality(UNION kept) = 1
        THEN ExclusiveSegment(CHOOSE s \in UNION kept : TRUE)
        ELSE CompositeCondition(kept)

(***************************************************************************)
(* The index loses exactly the segments which the condition lost, those    *)
(* which only the simplification dropped included.                         *)
(***************************************************************************)
RemoveSegmentsFromGlyphs(cs, gs, ss) ==
    LET after == [g \in Glyph |->
                    IF g \in gs THEN RemoveSegments(cs.condition[g], ss)
                    ELSE cs.condition[g]]
        lost(g) == TriggeringSegments(cs.condition[g])
                       \ TriggeringSegments(after[g])
    IN  [condition |-> after,
         glyphs    |-> [s \in Segment |->
                           cs.glyphs[s] \ {g \in gs : s \in lost(g)}]]

(***************************************************************************)
(* The three InvalidateGlyphInformation: everything of some glyphs, some   *)
(* segments everywhere, and some segments of some glyphs.                  *)
(***************************************************************************)
InvalidateGlyphs(cs, gs) ==
    LET touched == UNION {TriggeringSegments(cs.condition[g]) : g \in gs}
    IN  [condition |-> [g \in Glyph |-> IF g \in gs THEN True
                                        ELSE cs.condition[g]],
         glyphs    |-> [s \in Segment |-> IF s \in touched
                                          THEN cs.glyphs[s] \ gs
                                          ELSE cs.glyphs[s]]]

InvalidateSegments(cs, ss) ==
    LET touched == GlyphsWithSegments(cs, ss)
        cleared == [cs EXCEPT !.glyphs =
                       [s \in Segment |-> IF s \in ss THEN {} ELSE @[s]]]
    IN  RemoveSegmentsFromGlyphs(cleared, touched, ss)

InvalidateSegmentsOfGlyphs(cs, gs, ss) == RemoveSegmentsFromGlyphs(cs, gs, ss)

-----------------------------------------------------------------------------
(***************************************************************************)
(* The index and the conditions name the same pairs (Validate checks that  *)
(* the index names no other, the merges rely on the converse).             *)
(***************************************************************************)
InSync(cs) ==
    \A s \in Segment :
        cs.glyphs[s] = {g \in Glyph : s \in TriggeringSegments(cs.condition[g])}
=============================================================================
