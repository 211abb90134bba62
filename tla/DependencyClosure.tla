-------------------------- MODULE DependencyClosure --------------------------
(***************************************************************************)
(* The analysis of segments by the dependency graph instead of by glyph    *)
(* closures (ift/encoder/dependency_closure.{h,cc}).  It keeps a condition *)
(* for every node of the graph and brings these up to date when the        *)
(* initial font grows or segments are merged.                              *)
(*                                                                         *)
(* The conditions are kept once per phase, as they stand before the phase  *)
(* (an entry of conditions[p]), and once as they stand after the last.     *)
(* incoming[p] is a set of at most one map: it is computed when first      *)
(* needed.  context_glyphs is a set of at most one pair of glyph sets: it  *)
(* is absent when the caller accepts an analysis that involves contexts    *)
(* (allow_context_glyph_analysis).                                         *)
(***************************************************************************)
EXTENDS ConditionPropagation

NoMap == [n \in {} |-> True]

\* a map without the nodes of ns
Without(map, ns) == [n \in DOMAIN map \ ns |-> map[n]]

NewClosure(ignore_context) ==
    [conditions         |-> NoMap,
     phase_conditions   |-> [p \in Phase |-> NoMap],
     incoming           |-> [p \in Phase |-> {}],
     init_nodes         |-> {},
     full_closure_size  |-> 0,
     glyph_conditions   |-> NoMap,
     nodes_with_segment |-> [s \in Segment |-> {}],
     inert              |-> {},
     ignore_context     |-> ignore_context,
     context_glyphs     |-> {},
     init_context       |-> {}]

-----------------------------------------------------------------------------
(***************************************************************************)
(* The nodes which a change can affect: those that the changed segments    *)
(* and the new nodes of the initial font lead to, without the initial font *)
(* itself.  Their conditions are dropped and computed again.               *)
(***************************************************************************)
ChangedSegmentNodes(info, changed) ==
    {SegmentNode(s) : s \in changed \cap NonEmptySegments(info)}

ReachableNonInitFontNodes(info, changed, new_init_nodes) ==
    LET start == new_init_nodes \cup ChangedSegmentNodes(info, changed)
        ctx == TraversalContext(info, info.full_closure, FullCodepointClosure(info))
    IN  (ClosureTraversal(info, ctx, start) \cup start) \ InitFontNodes(info)

InitializeConditions(info, conditions, changed, new_init_nodes) ==
    LET emptied == {SegmentNode(s) : s \in changed \ NonEmptySegments(info)}
        set == new_init_nodes \cup ChangedSegmentNodes(info, changed)
    IN  [n \in set |-> IF n.type = "SEGMENT" THEN ExclusiveSegment(n.id) ELSE True]
            @@ Without(conditions, emptied)

(***************************************************************************)
(* The edges of a phase.  Only those of the first change with the segments *)
(* and the initial font; all are collected again when the full closure has *)
(* grown.                                                                  *)
(* Mutation: those of the first are not collected again either.            *)
(***************************************************************************)
PartialTypes == {"INIT_FONT", "SEGMENT", "UNICODE"}

IncomingEdgesForClosurePhaseOnce(info, known, p, full_recalc, nodes) ==
    IF full_recalc \/ known = {}
    THEN CollectIncomingEdges(info, {ClosurePhaseTable[p]}, PhaseTypes(p),
                              PhaseTypes(p), Node)
    ELSE CHOOSE m \in known : TRUE

IncomingEdgesForClosurePhase(info, known, p, full_recalc, nodes) ==
    LET table == {ClosurePhaseTable[p]}
    IN  IF full_recalc \/ known = {}
        THEN CollectIncomingEdges(info, table, PhaseTypes(p), PhaseTypes(p), Node)
        ELSE LET edges == CHOOSE m \in known : TRUE
             IN  IF p = 1
                 THEN CollectIncomingEdges(info, table, PartialTypes,
                          {"UNICODE", "FEATURE", "GLYPH"}, nodes) @@ edges
                 ELSE edges

(***************************************************************************)
(* One phase after the other: the conditions of a phase are propagated     *)
(* through its edges, and what it reached for the first time, here or in   *)
(* an earlier phase, is handed to the next phase.                          *)
(***************************************************************************)
NextPhase(info, p) == {q \in ClosurePhases(info.font) : q > p}

\* dc with the conditions of a phase handed on to those of the next
Transfer(info, dc, p, nodes) ==
    LET found == [n \in nodes |-> dc.phase_conditions[p][n]]
    IN  IF NextPhase(info, p) = {}
        THEN [dc EXCEPT !.conditions = found @@ @]
        ELSE [dc EXCEPT !.phase_conditions[Min(NextPhase(info, p))] = found @@ @]

Propagated(info, state, p, edges, after) ==
    LET dc       == state.dc
        modified == state.modified
                        \cup (DOMAIN after \ DOMAIN dc.phase_conditions[p])
    IN  [dc |-> Transfer(info, [dc EXCEPT !.incoming[p] = {edges},
                                          !.phase_conditions[p] = after],
                         p, modified),
         modified |-> modified]

RunPhase(info, state, p, full_recalc, reachable, with_init) ==
    LET edges == IncomingEdgesForClosurePhase(info, state.dc.incoming[p], p,
                                              full_recalc, with_init)
    IN  Propagated(info, state, p, edges,
                   PropagateConditions(edges,
                                       StronglyConnectedComponents(info, p, reachable),
                                       state.dc.phase_conditions[p]))

UpdateReachable(info, dc, changed, new, reachable) ==
    LET size  == Cardinality(info.full_closure)
        grown == dc.full_closure_size \notin {0, size}
        reset(map) == InitializeConditions(info, Without(map, reachable), changed, new)
        start == [dc EXCEPT
                    !.full_closure_size = size,
                    !.init_nodes = InitFontNodes(info),
                    !.conditions = reset(@),
                    !.phase_conditions =
                        [p \in Phase |-> IF p \in ClosurePhases(info.font)
                                         THEN reset(@[p]) ELSE @[p]]]
        phases == SetToSortSeq(ClosurePhases(info.font), <)
    IN  FoldLeft(LAMBDA st, p : RunPhase(info, st, p, grown, reachable,
                                         reachable \cup {InitFont} \cup new),
                 [dc |-> start, modified |-> {}], phases).dc

UpdateAllNodeConditions(info, dc, changed) ==
    LET new == InitFontNodes(info) \ dc.init_nodes
    IN  UpdateReachable(info, dc, changed, new,
                        ReachableNonInitFontNodes(info, changed, new))

-----------------------------------------------------------------------------
(***************************************************************************)
(* What is derived from the conditions: the conditions of the glyphs       *)
(* outside the initial font, the nodes each segment occurs in, and the     *)
(* inert segments, which share no glyph's condition with another segment.  *)
(***************************************************************************)
GlyphConditions(info, conditions) ==
    [g \in Ids(DOMAIN conditions, "GLYPH") \cap NonInitFontGlyphs(info) |->
        conditions[GlyphNode(g)]]

NodesWithSegment(conditions, s) ==
    {n \in DOMAIN conditions : s \in TriggeringSegments(conditions[n])}

ComputeInertSegments(info, glyph_conditions) ==
    NonEmptySegments(info) \
        UNION {TriggeringSegments(glyph_conditions[g]) :
                 g \in {x \in DOMAIN glyph_conditions :
                          ~IsUnitary(glyph_conditions[x])}}

WithDerived(info, dc) ==
    LET glyphs == GlyphConditions(info, dc.conditions)
    IN  [dc EXCEPT
            !.nodes_with_segment =
                [s \in Segment |-> NodesWithSegment(dc.conditions, s)],
            !.glyph_conditions = glyphs,
            !.inert = ComputeInertSegments(info, glyphs)]

InitNodeConditionsCache(info, dc, changed) ==
    WithDerived(info, UpdateAllNodeConditions(info, dc, changed))

(***************************************************************************)
(* The glyphs that take part in a context, of all segments and of the      *)
(* glyphs which the initial font may lead to without containing them.      *)
(***************************************************************************)
ContextGlyphs(info, edges) == (UNION {UNION e.context : e \in edges}) \cap info.full_closure

InitContextGlyphs(info) ==
    LET ctx == TraversalContext(info, info.full_closure,
                                info.full_definition.codepoints \ Feature)
    IN  ContextGlyphs(info, {e \in ContextualEdges(info, ctx, {InitFont}) :
                                e.dest.id \in NonInitFontGlyphs(info)})

SegmentContextGlyphs(info) ==
    LET ctx == TraversalContext(info, NonInitFontGlyphs(info), NonInitCodepoints(info))
    IN  ContextGlyphs(info, ContextualEdges(info, ctx,
                                {SegmentNode(s) : s \in NonEmptySegments(info)}))

WithContextGlyphs(info, dc, of_init) ==
    IF dc.ignore_context
    THEN dc
    ELSE [dc EXCEPT !.context_glyphs = SegmentContextGlyphs(info) \cup of_init,
                    !.init_context = of_init]

InitFontChanged(info, dc, changed) ==
    WithContextGlyphs(info, InitNodeConditionsCache(info, dc, changed),
                      InitContextGlyphs(info))

CreateClosure(info, ignore_context) ==
    InitFontChanged(info, NewClosure(ignore_context), Segment)

-----------------------------------------------------------------------------
(***************************************************************************)
(* Segments merged into base.  When no two segments share anything the     *)
(* conditions are rewritten in place; the conditions per phase and the     *)
(* edges are left as they are, so nothing may move into the initial font   *)
(* afterwards.  Otherwise everything they lead to is computed again.       *)
(***************************************************************************)
SegmentsToAffectedNodeConditions(dc, ss) == UNION {dc.nodes_with_segment[s] : s \in ss}

SegmentsToAffectedGlyphs(dc, ss) ==
    Ids(SegmentsToAffectedNodeConditions(dc, ss), "GLYPH")

UpdateNodeConditionsCache(info, dc, base, ss) ==
    LET affected == SegmentsToAffectedNodeConditions(dc, ss) \cap DOMAIN dc.conditions
        updated  == [n \in DOMAIN dc.conditions |->
                        IF n \in affected
                        THEN ReplaceSegments(dc.conditions[n], base, ss)
                        ELSE dc.conditions[n]]
        glyphs   == Ids(affected, "GLYPH") \cap NonInitFontGlyphs(info)
        base_is_inert == \A n \in affected : IsUnitary(updated[n])
    IN  [dc EXCEPT
            !.conditions = updated,
            !.glyph_conditions = [g \in glyphs |-> updated[GlyphNode(g)]] @@ @,
            !.nodes_with_segment =
                [s \in Segment |->
                    (@[s] \ {n \in affected : s \in TriggeringSegments(dc.conditions[n])})
                        \cup {n \in affected : s \in TriggeringSegments(updated[n])}],
            !.inert = IF base_is_inert THEN (@ \ ss) \cup {base}
                      ELSE @ \ (ss \cup {base})]

SegmentsMerged(info, dc, base, ss) ==
    IF info.disjoint
    THEN UpdateNodeConditionsCache(info, dc, base, ss)
    ELSE InitFontChanged(info, dc, ss)

-----------------------------------------------------------------------------
(***************************************************************************)
(* The analysis of some segments, taken as one: read off the conditions of *)
(* the glyphs they occur in, or not given at all when one of these glyphs  *)
(* is part of a context.                                                   *)
(* Mutation: a glyph that needs one of two sets of segments besides counts *)
(* as conjunctive.                                                         *)
(***************************************************************************)
InscopeGlyphs(info, dc, ss) ==
    SegmentsToAffectedGlyphs(dc, ss \cap NonEmptySegments(info))
        \cap NonInitFontGlyphs(info)

IsAccurate(info, dc, ss) ==
    InscopeGlyphs(info, dc, ss) \cap (dc.context_glyphs \cup dc.init_context) = {}

\* a glyph's condition, with the segments pretended to be merged into one
AsOne(dc, g, ss) ==
    IF Cardinality(ss) > 1 THEN ReplaceSegments(dc.glyph_conditions[g], Min(ss), ss)
    ELSE dc.glyph_conditions[g]

InAllGroups(c, s) == \A group \in c.groups : s \in group
AloneInGroupsOrMixed(c, s) == ~InAllGroups(c, s)
AloneInGroups(c, s) == \A group \in c.groups : s \in group => group = {s}

AnalyzeByDependency(info, dc, segments) ==
    LET ss == segments \cap NonEmptySegments(info)
        gids == InscopeGlyphs(info, dc, ss) \cap DOMAIN dc.glyph_conditions
        condition == [g \in gids |-> AsOne(dc, g, ss)]
        exclusive == {g \in gids : IsUnitary(condition[g])}
        mixed == {g \in gids \ exclusive : Cardinality(condition[g].groups) > 1}
    IN  [and |-> {g \in mixed : AloneInGroups(condition[g], Min(ss))},
         or  |-> {g \in gids \ exclusive : IsPurelyDisjunctive(condition[g])}
                    \cup {g \in mixed : InAllGroups(condition[g], Min(ss))},
         exclusive |-> exclusive]

(***************************************************************************)
(* The segments whose conditions can change with some part of a definition *)
(* or with anything that this part leads to.                               *)
(* Mutation: only the part itself is looked at.                            *)
(***************************************************************************)
NodesOf(def) == Nodes({}, def.codepoints \ Feature, def.codepoints \cap Feature, def.gids)

SegmentsOfNodes(dc, nodes) ==
    UNION {TriggeringSegments(dc.conditions[n]) : n \in nodes \cap DOMAIN dc.conditions}

SegmentsThatIncludeDirectly(info, dc, def) == SegmentsOfNodes(dc, NodesOf(def))

SegmentsThatInteractWith(info, dc, def) ==
    LET ctx == TraversalContext(info, NonInitFontGlyphs(info), NonInitCodepoints(info))
    IN  SegmentsOfNodes(dc, NodesOf(def)
                                \cup ClosureTraversal(info, ctx, NodesOf(def)))
=============================================================================
