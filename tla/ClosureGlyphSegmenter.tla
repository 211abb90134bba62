----------------------- MODULE ClosureGlyphSegmenter -----------------------
(***************************************************************************)
(* The segmentation of a font                                              *)
(* (closure_glyph_segmenter.cc, CodepointToGlyphSegments; merger.cc;       *)
(* candidate_merge.cc).  The segments are analysed, then, one merger after *)
(* the other, patches are moved into the initial font; the unmapped glyphs *)
(* follow when that is asked for; then, one merger after the other,        *)
(* segments are merged and patches are combined; after every step the      *)
(* context is brought up to date incrementally.                            *)
(*                                                                         *)
(* The mergers choose by cost (compressed sizes and probabilities).  Here  *)
(* each choice the costs can make is possible, the choice to do nothing    *)
(* more included.  One action is one iteration of the loop of the code.    *)
(***************************************************************************)
EXTENDS SegmentationContext, GlyphSegmentation, Sequences

CONSTANT Input                \* the requests: see RequestOK

VARIABLES context,
          mergers,            \* one record for each merge group
          merger_index,
          phase, batch_mode
vars == <<context, mergers, merger_index, phase, batch_mode>>

Strategy == [inscope : SUBSET Segment, init_scope : SUBSET Segment,
             init_moves : BOOLEAN, patch_merges : BOOLEAN]

RequestOK(r) ==
    /\ r.segments \in [Segment -> SUBSET Codepoint]
    /\ r.init \in Definition
    /\ r.strategies \in Seq(Strategy)
    /\ r.handling \in UnmappedGlyphHandling

ASSUME InputAssumption == \A r \in Input : RequestOK(r)

Merger == [strategy : Strategy, candidates : SUBSET Segment,
           patch_glyphs : SUBSET Glyph]

info == context.info
groupings == context.groupings
merger == mergers[merger_index]

-----------------------------------------------------------------------------
(***************************************************************************)
(* The mergers.                                                            *)
(***************************************************************************)
CandidateSegments(ctx, strategy) ==
    strategy.inscope \cap NonEmptySegments(ctx.info)

CandidatePatchMergeGlyphs(ctx, strategy) ==
    {g \in Mapped(ctx.groupings.post) :
        LET c == ctx.groupings.post[g]
        IN  /\ ~IsExclusive(c)
            /\ TriggeringSegments(c) \cap CandidateSegments(ctx, strategy) # {}
            /\ TriggeringSegments(c) \subseteq strategy.inscope}

NewMerger(ctx, strategy) ==
    [strategy |-> strategy,
     candidates |-> CandidateSegments(ctx, strategy),
     patch_glyphs |-> CandidatePatchMergeGlyphs(ctx, strategy)]

Recomputed(m, ctx) ==
    [m EXCEPT !.candidates = CandidateSegments(ctx, m.strategy)]

UsesInitMoves == \E i \in DOMAIN mergers : mergers[i].strategy.init_moves

Init == \E f \in Font, r \in Input :
    /\ context = InitializeSegmentationContext(f, r.segments, r.init,
                                              r.handling)
    /\ mergers = [i \in DOMAIN r.strategies |->
                     NewMerger(context, r.strategies[i])]
    /\ merger_index = 1
    /\ phase = "init_moves"
    /\ batch_mode = TRUE

-----------------------------------------------------------------------------
(***************************************************************************)
(* Moving patches into the initial font.  In batch mode the patches of     *)
(* any number of inert segments move at once; then any patch, one at a     *)
(* time.  The loop ends where no patch is worth moving.                    *)
(***************************************************************************)
Moving == phase = "init_moves" /\ merger_index \in DOMAIN mergers

InitFontConditions(batch) ==
    {c \in ConditionsOf(groupings.post) :
        /\ TriggeringSegments(c) \cap merger.strategy.init_scope # {}
        /\ batch => \E s \in context.inert : TriggeringSegments(c) = {s}}

ApplyInitFontMove(glyphs) ==
    /\ context' = ReassignInitSubset(context,
                      [info.init EXCEPT !.gids = @ \cup glyphs])
    /\ mergers' = [mergers EXCEPT ![merger_index] = Recomputed(@, context')]

MoveBatch ==
    /\ Moving /\ merger.strategy.init_moves /\ batch_mode
    /\ \E cs \in SUBSET InitFontConditions(TRUE) \ {{}} :
          ApplyInitFontMove(UNION {GlyphsOf(groupings.post, c) : c \in cs})
    /\ UNCHANGED <<merger_index, phase, batch_mode>>

EndBatch ==
    /\ Moving /\ merger.strategy.init_moves /\ batch_mode
    /\ batch_mode' = FALSE
    /\ UNCHANGED <<context, mergers, merger_index, phase>>

MoveOne ==
    /\ Moving /\ merger.strategy.init_moves /\ ~batch_mode
    /\ \E c \in InitFontConditions(FALSE) :
          ApplyInitFontMove(GlyphsOf(groupings.post, c))
    /\ UNCHANGED <<merger_index, phase, batch_mode>>

\* also passes over a merger that moves nothing
NextInitMover ==
    /\ Moving /\ (merger.strategy.init_moves => ~batch_mode)
    /\ merger_index' = merger_index + 1
    /\ batch_mode' = TRUE
    /\ UNCHANGED <<context, mergers, phase>>

EndInitMoves ==
    /\ phase = "init_moves" /\ merger_index \notin DOMAIN mergers
    /\ mergers' = IF UsesInitMoves
                  THEN [i \in DOMAIN mergers |-> Recomputed(mergers[i], context)]
                  ELSE mergers
    /\ phase' = "fallback"
    /\ UNCHANGED <<context, merger_index, batch_mode>>

(***************************************************************************)
(* The glyphs left over for the fallback patch.  The mergers are not told  *)
(* of this change of the initial font.                                     *)
(***************************************************************************)
MoveFallback(ctx) ==
    IF ctx.info.handling = "MOVE_TO_INIT_FONT" /\ ctx.groupings.unmapped # {}
    THEN ReassignInitSubset(ctx,
             [ctx.info.init EXCEPT !.gids = @ \cup ctx.groupings.unmapped])
    ELSE ctx

MoveFallbackGlyphs ==
    /\ phase = "fallback"
    /\ context' = MoveFallback(context)
    /\ phase' = IF mergers = <<>> THEN "done" ELSE "merging"
    /\ merger_index' = 1
    /\ UNCHANGED <<mergers, batch_mode>>

-----------------------------------------------------------------------------
(***************************************************************************)
(* Merging segments.  The base is the first remaining candidate; it takes  *)
(* in a later candidate, both with exclusive glyphs, or all the segments   *)
(* of a condition which is not exclusive.                                  *)
(* Mutation: exclusive conditions are candidates like the others.          *)
(***************************************************************************)
InMergeLoop == phase = "merging" /\ merger_index \in DOMAIN mergers

Base == Least(merger.candidates)

ExclusivePartners ==
    {{t} : t \in {u \in merger.candidates :
                     u # Base /\ ExclusiveGlyphs(groupings, u) # {}}}

CompositePartnersExclusive ==
    {TriggeringSegments(c) \ {Base} :
        c \in {d \in ConditionsOf(groupings.post) :
                  /\ TriggeringSegments(d) \cap merger.candidates # {}
                  /\ TriggeringSegments(d) \subseteq merger.strategy.inscope}}

CompositePartners ==
    {TriggeringSegments(c) \ {Base} :
        c \in {d \in ConditionsOf(groupings.post) :
                  /\ ~IsExclusive(d)
                  /\ TriggeringSegments(d) \cap merger.candidates # {}
                  /\ TriggeringSegments(d) \subseteq merger.strategy.inscope}}

MergeSegment ==
    /\ InMergeLoop /\ merger.candidates # {}
    /\ ExclusiveGlyphs(groupings, Base) # {}
    /\ \E to_merge \in ExclusivePartners \cup CompositePartners :
          /\ context' = MergeSegments(context, Base, to_merge)
          /\ mergers' = [mergers EXCEPT ![merger_index].candidates =
                            (@ \ to_merge) \cup {Base}]
    /\ UNCHANGED <<merger_index, phase, batch_mode>>

MarkFinished ==
    /\ InMergeLoop /\ merger.candidates # {}
    /\ mergers' = [mergers EXCEPT ![merger_index].candidates = @ \ {Base}]
    /\ UNCHANGED <<context, merger_index, phase, batch_mode>>

(***************************************************************************)
(* Combining patches, once no segment is left to merge: two conditions     *)
(* with candidate glyphs.  When nothing combines with a condition its      *)
(* glyphs are no longer candidates.                                        *)
(***************************************************************************)
PatchMerging == InMergeLoop /\ merger.candidates = {} /\ merger.strategy.patch_merges

PatchCandidates ==
    {c \in ConditionsOf(groupings.post) :
        GlyphsOf(groupings.post, c) \cap merger.patch_glyphs # {}}

MergePatch ==
    /\ PatchMerging
    /\ \E a, b \in PatchCandidates :
          a # b /\ context' = MergePatches(context, a, b)
    /\ UNCHANGED <<mergers, merger_index, phase, batch_mode>>

EndPatchBase ==
    /\ PatchMerging
    /\ \E c \in PatchCandidates :
          mergers' = [mergers EXCEPT ![merger_index].patch_glyphs =
                         @ \ GlyphsOf(groupings.post, c)]
    /\ UNCHANGED <<context, merger_index, phase, batch_mode>>

NextMerger ==
    /\ InMergeLoop /\ merger.candidates = {}
    /\ merger.strategy.patch_merges => PatchCandidates = {}
    /\ merger_index' = merger_index + 1
    /\ phase' = IF merger_index' \in DOMAIN mergers THEN phase ELSE "done"
    /\ UNCHANGED <<context, mergers, batch_mode>>

\* the segmentation has been returned
Finished == phase = "done" /\ UNCHANGED vars

-----------------------------------------------------------------------------
InitMoves == MoveBatch \/ EndBatch \/ MoveOne \/ NextInitMover \/ EndInitMoves
Merges == MergeSegment \/ MarkFinished \/ MergePatch \/ EndPatchBase \/ NextMerger
Step == InitMoves \/ MoveFallbackGlyphs \/ Merges

Next == Step \/ Finished

Spec == Init /\ [][Next]_vars

-----------------------------------------------------------------------------
TypeOK == /\ context \in Context
          /\ mergers \in Seq(Merger)
          /\ merger_index \in 1 .. Len(mergers) + 1
          /\ phase \in {"init_moves", "fallback", "merging", "done"}
          /\ batch_mode \in BOOLEAN

(***************************************************************************)
(* No step of the segmenter ends in one of the internal errors of the      *)
(* condition indices (condition_to_glyphs_index.h: a glyph with two        *)
(* conditions, an entry overridden by a smaller one).                      *)
(***************************************************************************)
NoInternalError == groupings.ok

(***************************************************************************)
(* Conditions found for unmapped glyphs depend on what was known when they *)
(* were looked for: two of them are equally good when each is enough for   *)
(* the glyph (GlyphGroupingsAreEquivalent).                                *)
(***************************************************************************)
FoundAsWell(G, H, g) ==
    /\ g \in G.found \cap H.found
    /\ \A c \in {G.post[g], H.post[g]} :
          /\ Cardinality(c.groups) <= 1
          /\ ~HasAdditionalConditions(info, TriggeringSegments(c), {g})

GlyphGroupingsAreEquivalent(G, H) ==
    /\ Mapped(G.post) = Mapped(H.post)
    /\ \A g \in Mapped(G.post) : G.post[g] # H.post[g] => FoundAsWell(G, H, g)

(***************************************************************************)
(* After each incremental step, and not only at the end where the code     *)
(* checks it (ValidateIncrementalGroupings), the conditions and the inert  *)
(* segments are those which an analysis from scratch finds for the present *)
(* segments and initial font.                                              *)
(***************************************************************************)
SameAnalysis(ctx, other) ==
    /\ ctx.conditions.condition = other.conditions.condition
    /\ ctx.inert = other.inert

AnalysisIsExact == SameAnalysis(context, NonIncremental(context))

(***************************************************************************)
(* And so are the groups, for the present combined patches; but for the    *)
(* conditions found for unmapped glyphs, which are as good.                *)
(***************************************************************************)
IncrementalIsExact ==
    LET scratch == NonIncremental(context)
    IN  /\ SameAnalysis(context, scratch)
        /\ IF groupings.post = scratch.groupings.post
           THEN \A field \in DOMAIN groupings \ {"dirty"} :
                   groupings[field] = scratch.groupings[field]
           ELSE GlyphGroupingsAreEquivalent(groupings, scratch.groupings)

(***************************************************************************)
(* The reverse index of the condition set names exactly the glyphs that    *)
(* have the segment in their condition: a merge finds all it must undo.    *)
(***************************************************************************)
ConditionsInSync == InSync(context.conditions)

(***************************************************************************)
(* The segmentation that would be returned passes the checks of the code,  *)
(* and not only at the end (ValidateSegmentation): every glyph that some   *)
(* segment needs is in the initial font or in exactly one patch, and no    *)
(* other glyph is anywhere; without the segments of one group of a         *)
(* condition nothing needs a glyph of its patch.                           *)
(***************************************************************************)
segmentation == ToGlyphSegmentation(info, groupings)

SegmentationIsValid == ValidateSegmentation(info, segmentation)

(***************************************************************************)
(* The glyph closure requirement (glyph_segmentation.h): for whatever      *)
(* segments a client loads, the glyphs which the font needs to shape them  *)
(* are in the initial font or in a patch whose condition holds.            *)
(***************************************************************************)
ClosureRequirement ==
    \A ss \in SUBSET NonEmptySegments(info) :
        Closure(info.font, CombinedDefinition(info, ss))
            \subseteq LoadedGlyphs(segmentation, ss)

(***************************************************************************)
(* A disjunctive condition that is neither combined nor found by the       *)
(* search loads its patch only where each of its glyphs is needed.         *)
(***************************************************************************)
DisjunctionsAreNeeded ==
    \A g \in Mapped(groupings.pre) \ groupings.found :
        LET c == groupings.pre[g]
        IN  IsPurelyDisjunctive(c) /\ ~IsExclusive(c) =>
                \A s \in TriggeringSegments(c) :
                    g \in Closure(info.font, CombinedDefinition(info, {s}))

(***************************************************************************)
(* "All unmapped glyphs will be moved into the initial font" (config/      *)
(* common.proto, MOVE_TO_INIT_FONT): none is left from the merges on.      *)
(***************************************************************************)
UnmappedGlyphsMoved ==
    info.handling = "MOVE_TO_INIT_FONT" /\ phase \in {"merging", "done"}
        => groupings.unmapped = {}

(***************************************************************************)
(* A merge only coarsens what was found before: a client that asks for a   *)
(* merged segment loads, through the glyphs' own conditions, no glyph that *)
(* asking for all of its former segments would not have loaded, and no     *)
(* glyph is left over for the fallback patch by a merge.  A condition that *)
(* is searched for an unmapped glyph is one of several that are enough: a  *)
(* search after the merge may find another one.                            *)
(***************************************************************************)
OwnPatches(G, ss) == {g \in Mapped(G.pre) : Holds(G.pre[g], ss)}

FormerSegments(ss) ==
    {s \in NonEmptySegments(info) :
        info.segments[s] \subseteq UNION {info'.segments[t] : t \in ss}}

MergeOnlyCoarsens ==
    /\ groupings'.unmapped \subseteq groupings.unmapped
    /\ \A ss \in SUBSET NonEmptySegments(info') :
          OwnPatches(groupings', ss) \ groupings'.found \subseteq
              groupings.unmapped \cup OwnPatches(groupings, FormerSegments(ss))

MergesOnlyCoarsen == [][phase = "merging" => MergeOnlyCoarsens]_vars

(***************************************************************************)
(* The loops end: each iteration leaves less to do, and no merge is one of *)
(* a segment with nothing, which the loop would repeat for ever.           *)
(***************************************************************************)
Remaining ==
    CASE phase = "init_moves" ->
            <<3, Len(mergers) + 1 - merger_index, IF batch_mode THEN 1 ELSE 0,
              Cardinality(Glyph \ info.init.gids), 0>>
      [] phase = "fallback" -> <<2, 0, 0, 0, 0>>
      [] phase = "merging" ->
            <<1, Len(mergers) + 1 - merger_index,
              Cardinality(NonEmptySegments(info)),
              Cardinality(merger.candidates),
              Cardinality(merger.patch_glyphs)
                  + Cardinality(ConditionsOf(groupings.post))>>
      [] phase = "done" -> <<0, 0, 0, 0, 0>>

LessThan(t, u) ==
    \E i \in DOMAIN t : t[i] < u[i] /\ \A j \in 1 .. i - 1 : t[j] = u[j]

EveryIterationAdvances ==
    [][/\ LessThan(Remaining', Remaining)
       /\ InMergeLoop /\ merger.candidates # {} =>
             {} \notin ExclusivePartners \cup CompositePartners]_vars
=============================================================================
