------------------------- MODULE SegmentationContext -------------------------
(***************************************************************************)
(* The state of one segmentation and the steps that keep its parts in      *)
(* agreement (ift/encoder/segmentation_context.{h,cc}): the segments, the  *)
(* condition of each glyph, the inert segments, the groupings.             *)
(*                                                                         *)
(* Only the analysis by closures is modelled (CLOSURE_ONLY).               *)
(***************************************************************************)
EXTENDS GlyphGroupings

\* the segments are numbered from 0
ASSUME NumberingAssumption == Segment # {} => 0 \in Segment

Context == [info : Info, conditions : ConditionSet,
            inert : SUBSET Segment, groupings : Groupings]

Grouped(ctx, glyphs, modified) ==
    [ctx EXCEPT !.groupings =
        GroupGlyphs(@, ctx.info, ctx.conditions.condition, glyphs, modified)]

(***************************************************************************)
(* Analyses one segment and records what it means for the glyphs.          *)
(* Mutation: glyphs that also need other segments are recorded like those  *)
(* that do not.                                                            *)
(***************************************************************************)
TouchedBy(info, s) ==
    LET a == AnalyzeSegment(info, {s})
    IN  IF info.segments[s] = {} THEN {} ELSE a.and \cup a.or \cup a.exclusive

ReprocessSegmentAndAsOr(ctx, s) ==
    LET a  == AnalyzeSegment(ctx.info, {s})
        c0 == InvalidateSegmentsOfGlyphs(ctx.conditions,
                                         TouchedBy(ctx.info, s), {s})
        c1 == AddAndCondition(c0, a.exclusive, s)
    IN  IF ctx.info.segments[s] = {}
        THEN ctx
        ELSE [ctx EXCEPT
                !.conditions = AddOrCondition(c1, a.and \cup a.or, s),
                !.inert = IF a.and = {} /\ a.or = {} THEN @ \cup {s} ELSE @]

ReprocessSegment(ctx, s) ==
    LET a  == AnalyzeSegment(ctx.info, {s})
        c0 == InvalidateSegmentsOfGlyphs(ctx.conditions,
                                         TouchedBy(ctx.info, s), {s})
        c1 == AddAndCondition(c0, a.exclusive, s)
        c2 == AddAndCondition(c1, a.and, s)
    IN  IF ctx.info.segments[s] = {}
        THEN ctx
        ELSE [ctx EXCEPT
                !.conditions = AddOrCondition(c2, a.or, s),
                !.inert = IF a.and = {} /\ a.or = {} THEN @ \cup {s} ELSE @]

\* in the order of the segments
ReprocessSegments(ctx, ss) ==
    LET after[done \in SUBSET ss] ==
            IF done = {} THEN ctx
            ELSE ReprocessSegment(after[done \ {Max(done)}], Max(done))
    IN  after[ss]

ReprocessAll(ctx) ==
    Grouped(ReprocessSegments(ctx, Segment), NonInitFontGlyphs(ctx.info), {})

-----------------------------------------------------------------------------
(***************************************************************************)
(* A context without groups: SegmentationContext::Create.                  *)
(***************************************************************************)
CreateContext(f, segments, init, handling) ==
    [info |-> CreateInfo(f, segments, init, handling), conditions |-> NoConditions,
     inert |-> {}, groupings |-> NoGroupings]

InitializeSegmentationContext(f, segments, init, handling) ==
    ReprocessAll(CreateContext(f, segments, init, handling))

(***************************************************************************)
(* The same settings and the same combined patches, analysed from scratch. *)
(***************************************************************************)
WithSameSettings(ctx) ==
    CreateContext(ctx.info.font, ctx.info.segments, ctx.info.init,
                  ctx.info.handling)

NonIncremental(ctx) ==
    LET fresh == WithSameSettings(ctx)
        combined == FoldSet(LAMBDA gs, G : CombinePatches(G, gs),
                            fresh.groupings, ctx.groupings.combined_patches)
    IN  ReprocessAll([fresh EXCEPT !.groupings = combined])

-----------------------------------------------------------------------------
(***************************************************************************)
(* Moves a definition, and all that its closure implies, into the initial  *)
(* font.  Everything is analysed again; only the glyphs whose condition    *)
(* has changed, and those of the changed segments, are grouped again.      *)
(* Mutation: only the glyphs that moved are grouped again.                 *)
(***************************************************************************)
ReassignedConditions(ctx, removed) ==
    InvalidateSegments(InvalidateGlyphs(ctx.conditions, removed), Segment)

ReassignInitSubsetMovedOnly(ctx, def) ==
    LET new_def == ExpandClosure(ctx.info.font, def)
        removed == NonInitFontGlyphs(ctx.info) \cap new_def.gids
        after   == ReprocessSegments(
                      [ctx EXCEPT !.info = ReassignInit(@, new_def),
                                  !.conditions = ReassignedConditions(ctx, removed),
                                  !.inert = {}],
                      Segment)
    IN  Grouped(after, removed, {})

ReassignInitSubset(ctx, def) ==
    LET new_def == ExpandClosure(ctx.info.font, def)
        removed == NonInitFontGlyphs(ctx.info) \cap new_def.gids
        changed_segments == {s \in Segment : ctx.info.segments[s]
                                                 \cap new_def.codepoints # {}}
        after == ReprocessSegments(
                    [ctx EXCEPT !.info = ReassignInit(@, new_def),
                                !.conditions = ReassignedConditions(ctx, removed),
                                !.inert = {}],
                    Segment)
        changed == {g \in NonInitFontGlyphs(after.info) :
                       ctx.conditions.condition[g] # after.conditions.condition[g]}
    IN  Grouped(after, removed \cup changed, changed_segments)

-----------------------------------------------------------------------------
(***************************************************************************)
(* Merging segments into base (AssignMergedSegment and, in                 *)
(* candidate_merge.cc, CandidateMerge::Apply), then the analysis of the    *)
(* new base (ReprocessChanged).  When neither the segments nor their union *)
(* interact with others the new condition is written down directly.        *)
(***************************************************************************)
MergeIsInert(ctx, base, to_merge) ==
    LET a == AnalyzeSegment(ctx.info, to_merge \cup {base})
    IN  /\ to_merge \cup {base} \subseteq ctx.inert
        /\ a.and = {} /\ a.or = {}

AssignMergedSegment(ctx, base, to_merge, is_inert) ==
    [ctx EXCEPT !.info = MergeDefinitions(@, base, to_merge),
                !.inert = IF is_inert THEN (@ \ to_merge) \cup {base}
                          ELSE @ \ (to_merge \cup {base})]

ReprocessChanged(ctx, glyphs, segments, base) ==
    IF base \in ctx.inert
    THEN Grouped(ctx, glyphs, segments)
    ELSE Grouped(ReprocessSegment(ctx, base),
                 glyphs \cup TouchedBy(ctx.info, base), segments)

\* the glyphs whose conditions name a segment that disappears
InvalidatedByMerge(ctx, base, to_merge) ==
    GlyphsWithSegments(ctx.conditions, to_merge)
        \cup IF MergeIsInert(ctx, base, to_merge)
             THEN AnalyzeSegment(ctx.info, to_merge \cup {base}).exclusive
             ELSE {}

ApplySegmentMerge(ctx, base, to_merge) ==
    LET is_inert == MergeIsInert(ctx, base, to_merge)
        touched  == InvalidatedByMerge(ctx, base, to_merge)
        assigned == AssignMergedSegment(ctx, base, to_merge, is_inert)
        cleared  == [assigned EXCEPT !.conditions =
                        InvalidateSegmentsOfGlyphs(@, touched,
                                                   to_merge \cup {base})]
    IN  IF is_inert
        THEN [cleared EXCEPT
                !.conditions = AddAndCondition(@, touched, base),
                !.groupings = AddGlyphsToExclusiveGroup(@, base, touched)]
        ELSE cleared

MergeSegments(ctx, base, to_merge) ==
    LET merged == ApplySegmentMerge(ctx, base, to_merge)
        glyphs == IF MergeIsInert(ctx, base, to_merge) THEN {}
                  ELSE InvalidatedByMerge(ctx, base, to_merge)
    IN  ReprocessChanged(merged, glyphs, to_merge \cup {base}, base)

(***************************************************************************)
(* Combining two patches.  The set of things to invalidate names segment 0 *)
(* as its base, whatever was merged.                                       *)
(***************************************************************************)
MergePatches(ctx, a, b) ==
    LET glyphs == GlyphsOf(ctx.groupings.post, a)
                      \cup GlyphsOf(ctx.groupings.post, b)
    IN  ReprocessChanged([ctx EXCEPT !.groupings = CombinePatches(@, glyphs)],
                         {}, {0}, 0)
=============================================================================
