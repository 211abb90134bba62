------------------------- MODULE DependencyAnalysis -------------------------
(***************************************************************************)
(* The segmentation context when it uses the dependency graph              *)
(* (ift/encoder/segmentation_context.{h,cc}, the condition analysis modes  *)
(* but CLOSURE_ONLY): moves into the initial font, then merges, each of    *)
(* which updates the cached conditions of the graph and from these, or     *)
(* from closures where the graph gives no answer, the conditions of the    *)
(* glyphs.  (The groups made of the conditions: SegmentationContext.)      *)
(*                                                                         *)
(* ClosureGlyphSegmenter makes all moves before the first merge; merges    *)
(* leave parts of the cache behind which only a move would read.           *)
(***************************************************************************)
EXTENDS DependencyClosure, GlyphConditionSet

CONSTANTS Request,     \* records [font, segments, init, modes]
          Move         \* definitions that may move into the initial font

AnyMode == {"CLOSURE_AND_DEP_GRAPH", "DEP_GRAPH_ONLY",
            "DEP_GRAPH_ONLY_WITH_SIMPLIFICATION"}

ASSUME RequestAssumption == \A r \in Request : r.modes \subseteq AnyMode

VARIABLES mode,    \* constant after Init
          ctx,     \* [info, dc, conditions, inert]
          merging  \* whether a merge was made

vars == <<mode, ctx, merging>>

IsPure(m) == m # "CLOSURE_AND_DEP_GRAPH"

-----------------------------------------------------------------------------
(***************************************************************************)
(* The analysis of segments: by the graph, or by closures when the graph   *)
(* is not accurate.                                                        *)
(***************************************************************************)
Analyze(c, ss) == IF IsAccurate(c.info, c.dc, ss)
                  THEN AnalyzeByDependency(c.info, c.dc, ss)
                  ELSE AnalyzeSegment(c.info, ss)

AllOfAnalysis(a) == a.and \cup a.or \cup a.exclusive

ReprocessSegment(c, s) ==
    LET a  == Analyze(c, {s})
        c0 == InvalidateSegmentsOfGlyphs(c.conditions, AllOfAnalysis(a), {s})
        c1 == AddAndCondition(AddAndCondition(c0, a.exclusive, s), a.and, s)
    IN  IF c.info.segments[s] = {}
        THEN c
        ELSE [c EXCEPT !.conditions = AddOrCondition(c1, a.or, s),
                       !.inert = IF a.and = {} /\ a.or = {} THEN @ \cup {s} ELSE @]

ReprocessSegments(c, ss) == FoldLeft(ReprocessSegment, c, SetToSortSeq(ss, <))

(***************************************************************************)
(* In the pure modes the conditions of the graph are taken as they are, or *)
(* made simpler and so wider.                                              *)
(***************************************************************************)
TransferredCondition(m, c) ==
    IF IsUnitary(c) THEN ExclusiveSegment(Min(TriggeringSegments(c)))
    ELSE IF m = "DEP_GRAPH_ONLY_WITH_SIMPLIFICATION"
    THEN NonCompositeSuperset(c)
    ELSE c

TransferDependencyGraphGlyphConditions(m, c, gs) ==
    [c EXCEPT
        !.conditions = SetConditions(@,
            [g \in gs |-> TransferredCondition(m, c.dc.glyph_conditions[g])]),
        !.inert = c.dc.inert]

ReprocessAll(m, c) ==
    IF IsPure(m)
    THEN TransferDependencyGraphGlyphConditions(m, c, NonInitFontGlyphs(c.info))
    ELSE ReprocessSegments(c, Segment)

-----------------------------------------------------------------------------
CreateContext(m, info) ==
    [info |-> info, dc |-> CreateClosure(info, IsPure(m)),
     conditions |-> NoConditions, inert |-> {}]

InitializeSegmentationContext(m, r) ==
    ReprocessAll(m, CreateContext(m, CreateInfo(r.font, r.segments, r.init, "PATCH")))

Init == /\ \E r \in Request :
              /\ mode \in r.modes
              /\ ctx = InitializeSegmentationContext(mode, r)
        /\ merging = FALSE

Reprocess(m, c, ss) ==
    IF IsPure(m)
    THEN TransferDependencyGraphGlyphConditions(m, c, SegmentsToAffectedGlyphs(c.dc, ss))
    ELSE ReprocessSegments(c, ss)

(***************************************************************************)
(* ReassignInitSubset.  The segments to reprocess are found before the     *)
(* initial font changes, by what the new part of it leads to.              *)
(***************************************************************************)
ReassignInitSubset(m, c, def) ==
    LET new_def == ExpandClosure(c.info.font, def)
        removed == NonInitFontGlyphs(c.info) \cap new_def.gids
        changed == {s \in Segment : c.info.segments[s] \cap new_def.codepoints # {}}
        to_reprocess == SegmentsThatInteractWith(c.info, c.dc,
                                                 Minus(new_def, c.info.init))
        info    == ReassignInit(c.info, new_def)
        cleared == [info |-> info,
                    dc |-> InitFontChanged(info, c.dc, changed),
                    conditions |-> InvalidateSegments(
                        InvalidateGlyphs(c.conditions, removed), to_reprocess),
                    inert |-> c.inert \ to_reprocess]
    IN  Reprocess(m, cleared, to_reprocess)

\* the moved glyphs are those of a patch or unmapped, so some segments need them
MoveToInitFont(def) ==
    /\ ~merging
    /\ def.gids \subseteq ctx.info.full_closure
    /\ ~(def.codepoints \subseteq ctx.info.init.codepoints
           /\ def.gids \subseteq ctx.info.init.gids)
    /\ ctx' = ReassignInitSubset(mode, ctx, Plus(def, ctx.info.init))
    /\ UNCHANGED <<mode, merging>>

(***************************************************************************)
(* CandidateMerge::Apply and ReprocessChanged.  When all of the segments   *)
(* and their union are inert the new condition is written down directly;   *)
(* in the pure modes it is taken from the graph.                           *)
(***************************************************************************)
MergedIsInert(m, c, base, ss) ==
    LET a == Analyze(c, ss)
    IN  ~IsPure(m) /\ ss \subseteq c.inert /\ a.and = {} /\ a.or = {}

Merged(c, base, to_merge) ==
    LET info == MergeDefinitions(c.info, base, to_merge)
    IN  [c EXCEPT !.info = info,
                  !.dc = SegmentsMerged(info, @, base, to_merge \cup {base})]

ReprocessMerged(m, c, base, is_inert, touched) ==
    IF is_inert
    THEN [c EXCEPT !.conditions = AddAndCondition(@, touched, base)]
    ELSE IF IsPure(m)
    THEN TransferDependencyGraphGlyphConditions(m, c,
             touched \cup SegmentsToAffectedGlyphs(c.dc, {base}))
    ELSE ReprocessSegment(c, base)

ApplyMerge(m, c, base, to_merge) ==
    LET ss       == to_merge \cup {base}
        is_inert == MergedIsInert(m, c, base, ss)
        touched  == GlyphsWithSegments(c.conditions, to_merge)
                        \cup IF is_inert THEN Analyze(c, ss).exclusive ELSE {}
        cleared  == [Merged(c, base, to_merge) EXCEPT
                        !.conditions = InvalidateSegmentsOfGlyphs(@, touched, ss),
                        !.inert = IF is_inert THEN (@ \ to_merge) \cup {base}
                                  ELSE @ \ ss]
    IN  ReprocessMerged(m, cleared, base, is_inert, touched)

Merge(base, to_merge) ==
    /\ base \notin to_merge
    /\ to_merge \cup {base} \subseteq NonEmptySegments(ctx.info)
    /\ ctx' = ApplyMerge(mode, ctx, base, to_merge)
    /\ merging' = TRUE
    /\ UNCHANGED mode

Next == \/ \E def \in Move : MoveToInitFont(def)
        \/ \E base \in Segment, to_merge \in SUBSET Segment \ {{}} :
              Merge(base, to_merge)

Spec == Init /\ [][Next]_vars

-----------------------------------------------------------------------------
(***************************************************************************)
(* The conditions of the graph say when a glyph is needed: exactly for the *)
(* sets of segments whose closure with the initial font contains it        *)
(* (PropagateConditions, kept up to date by InitFontChanged and            *)
(* SegmentsMerged).                                                        *)
(***************************************************************************)
ConditionsAreExact ==
    LET info == ctx.info
    IN  /\ DOMAIN ctx.dc.glyph_conditions = NonInitFontGlyphs(info)
        /\ \A loaded \in SUBSET NonEmptySegments(info) :
              LET needed == Closure(info.font, CombinedDefinition(info, loaded))
              IN  \A g \in NonInitFontGlyphs(info) :
                     Holds(ctx.dc.glyph_conditions[g], loaded) <=> g \in needed

(***************************************************************************)
(* After any sequence of moves and merges the cache of the graph is what a *)
(* new analysis of the same segments would make it (but for the exclusive  *)
(* flag, which the transfer of conditions sets anew).  Only the inert      *)
(* segments may be fewer: a merge can make another segment inert.          *)
(***************************************************************************)
SameGroups(a, b) == /\ DOMAIN a = DOMAIN b
                    /\ \A n \in DOMAIN a : a[n].groups = b[n].groups

\* the cache after a merge still has entries for segments that are gone
OtherThanSegments(map) == Without(map, {SegmentNode(s) : s \in Segment})

SameAnalysis(info, dc, fresh) ==
    /\ SameGroups(dc.glyph_conditions, fresh.glyph_conditions)
    /\ SameGroups(OtherThanSegments(dc.conditions), OtherThanSegments(fresh.conditions))
    /\ dc.inert \subseteq fresh.inert
    /\ dc.context_glyphs = fresh.context_glyphs
    /\ \A s \in NonEmptySegments(info) :
          /\ NodesWithSegment(dc.conditions, s) = dc.nodes_with_segment[s]
          /\ SegmentsToAffectedGlyphs(dc, {s}) = SegmentsToAffectedGlyphs(fresh, {s})

CacheIsFresh == SameAnalysis(ctx.info, ctx.dc, CreateClosure(ctx.info, IsPure(mode)))

(***************************************************************************)
(* Where the graph claims to be accurate it agrees with the analysis by    *)
(* closures (the comparison of CLOSURE_AND_VALIDATE_DEP_GRAPH), for one or *)
(* two segments.                                                           *)
(***************************************************************************)
AnalysisAgrees ==
    \A s, t \in NonEmptySegments(ctx.info) :
        IsAccurate(ctx.info, ctx.dc, {s, t}) =>
            AnalyzeByDependency(ctx.info, ctx.dc, {s, t})
                = AnalyzeSegment(ctx.info, {s, t})

(***************************************************************************)
(* The conditions of the glyphs outside the initial font, kept by          *)
(* reprocessing only what a move or a merge touched, are those that        *)
(* reprocessing everything would give (ReassignInitSubset narrows the      *)
(* segments to reprocess, ReprocessChanged the glyphs).                    *)
(***************************************************************************)
SameConditions(c, fresh) ==
    /\ c.inert \cap NonEmptySegments(c.info) \subseteq fresh.inert
    /\ \A g \in NonInitFontGlyphs(c.info) :
          c.conditions.condition[g] = fresh.conditions.condition[g]

ConditionSetExact ==
    SameConditions(ctx, ReprocessAll(mode, CreateContext(mode, ctx.info)))
=============================================================================
