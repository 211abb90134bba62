-------------------------- MODULE GlyphSegmentation --------------------------
(***************************************************************************)
(* The result of a segmentation (ift/encoder/glyph_segmentation.{h,cc},    *)
(* GlyphGroupings::ToGlyphSegmentation): what the initial font holds, the  *)
(* patches with their glyphs, and when each of them is loaded.             *)
(*                                                                         *)
(* An entry [condition, fallback, gids] stands for one of the conditions   *)
(* and for the patch it activates.  Patch ids, which follow the order of   *)
(* the conditions, and the forms as text and as protobuf are left out.     *)
(***************************************************************************)
EXTENDS GlyphGroupings

Entry(c, fallback, gs) == [condition |-> c, fallback |-> fallback, gids |-> gs]

(***************************************************************************)
(* The unmapped glyphs get a patch for any segment at all.  If there is a  *)
(* condition that says this already its glyphs go to the same patch.       *)
(* Mutation: the unmapped glyphs take the place of those.                  *)
(***************************************************************************)
WithFallbackReplaced(t, unmapped, all) ==
    {Entry(c, FALSE, GlyphsOf(t, c)) : c \in ConditionsOf(t) \ {OrSegments(all)}}
        \cup {Entry(OrSegments(all), TRUE, unmapped)}

WithFallback(t, unmapped, all) ==
    {Entry(c, FALSE, GlyphsOf(t, c)) : c \in ConditionsOf(t) \ {OrSegments(all)}}
        \cup {Entry(OrSegments(all), TRUE, unmapped \cup GlyphsOf(t, OrSegments(all)))}

ConditionsWithFallback(info, G) ==
    IF G.unmapped = {}
    THEN {Entry(c, FALSE, GlyphsOf(G.post, c)) : c \in ConditionsOf(G.post)}
    ELSE WithFallback(G.post, G.unmapped, NonEmptySegments(info))

\* a disjunction of the segments of the fallback group is marked as fallback
ConditionsToSegmentation(conditions, fallback_group) ==
    LET is_fallback(c) == /\ fallback_group # {}
                          /\ IsPurelyDisjunctive(c)
                          /\ TriggeringSegments(c) = fallback_group
        activation(c) == IF IsExclusive(c)
                         THEN Entry(ExclusiveSegment(Least(TriggeringSegments(c))), FALSE, {})
                         ELSE Entry(CompositeCondition(c.groups), is_fallback(c), {})
    IN  {[activation(e.condition) EXCEPT !.gids = e.gids] :
            e \in {d \in conditions : d.gids # {}}}

ToGlyphSegmentation(info, G) ==
    [init |-> info.init.gids,
     segments |-> info.segments,
     entries |-> ConditionsToSegmentation(
                    ConditionsWithFallback(info, G),
                    IF G.unmapped = {} THEN {} ELSE NonEmptySegments(info))]

-----------------------------------------------------------------------------
(***************************************************************************)
(* What the code checks of the result                                      *)
(* (SegmentationContext::ValidateSegmentation).                            *)
(***************************************************************************)
HasAdditionalConditions(info, ss, gs) ==
    Closure(info.font, ExceptSegments(info, ss)) \cap gs # {}

ValidateSegmentation(info, segmentation) ==
    LET entries == segmentation.entries
        placed  == UNION {e.gids : e \in entries}
    IN  /\ placed \cap segmentation.init = {}
        /\ \A e, f \in entries : e # f => e.gids \cap f.gids = {}
        /\ placed = info.full_closure \ segmentation.init
        /\ \A e \in entries : \A g \in e.condition.groups :
              ~HasAdditionalConditions(info, g, e.gids)

\* the glyphs a client has when it asked for some segments
LoadedGlyphs(segmentation, ss) ==
    segmentation.init
        \cup UNION {e.gids : e \in {f \in segmentation.entries : Holds(f.condition, ss)}}
=============================================================================
