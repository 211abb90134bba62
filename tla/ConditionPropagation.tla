------------------------ MODULE ConditionPropagation ------------------------
(***************************************************************************)
(* From the edges of the dependency graph to the conditions of its nodes   *)
(* (the propagation of ift/encoder/dependency_closure.cc, and the parts of *)
(* ift/dep_graph/dependency_graph.cc that prepare it).  A condition map    *)
(* has an entry for each node that some segment can reach; a node without  *)
(* one is never there.                                                     *)
(***************************************************************************)
EXTENDS DependencyGraph, SequencesExt

(***************************************************************************)
(* What an edge requires, as a conjunction of alternatives: its source and *)
(* all that must be present with it (ExtractRequirements).                 *)
(* Mutation: the features are forgotten.                                   *)
(***************************************************************************)
ExtractRequirementsNoFeature(e) ==
    {{e.source}} \cup {{UnicodeNode(u)} : u \in e.codepoints}
        \cup {{GlyphNode(g)} : g \in e.liga}
        \cup {{GlyphNode(g) : g \in group} : group \in e.context \ {{}}}

ExtractRequirements(e) ==
    {{e.source}}
        \cup {{FeatureNode(t)} : t \in e.features}
        \cup {{UnicodeNode(u)} : u \in e.codepoints}
        \cup {{GlyphNode(g)} : g \in e.liga}
        \cup {{GlyphNode(g) : g \in group} : group \in e.context \ {{}}}

AllNodes(info, types) ==
    {n \in {InitFont} \cup Nodes(NonEmptySegments(info), FullCodepointClosure(info),
                                 FullFeatureSet(info), info.full_closure) :
        n.type \in types}

\* the requirements of all edges into each node that has some
CollectIncomingEdges(info, tables, source_types, dest_types, nodes) ==
    LET full == TraversalContext(info, info.full_closure, FullCodepointClosure(info))
        ctx == [full EXCEPT !.tables = tables, !.types = dest_types, !.nodes = nodes]
        edges == UNION {HandleOutgoingEdges(info, ctx, n) :
                           n \in AllNodes(info, source_types)}
    IN  [n \in {e.dest : e \in edges} |->
            {ExtractRequirements(e) : e \in {x \in edges : x.dest = n}}]

-----------------------------------------------------------------------------
(***************************************************************************)
(* The strongly connected components of the nodes outside the initial      *)
(* font, each before those it leads to.  (How the code finds them is the   *)
(* subject of StronglyConnected.)                                          *)
(***************************************************************************)
SccContext(info, p, nodes) ==
    LET free == TraversalContext(info, NonInitFontGlyphs(info), NonInitCodepoints(info))
    IN  [InPhase(free, p) EXCEPT !.nodes = nodes]

SccStart(info, p, nodes) ==
    Nodes(NonEmptySegments(info), NonInitCodepoints(info),
          FullFeatureSet(info) \ info.init.codepoints, NonInitFontGlyphs(info))
      \cap {n \in nodes : n.type \in PhaseTypes(p)}

ReachableByNode(info, p, nodes) ==
    LET ctx == SccContext(info, p, nodes)
    IN  [n \in SccStart(info, p, nodes) |-> Visited(info, ctx, {n})]

Components(reach) ==
    {{m \in reach[n] \cap DOMAIN reach : n \in reach[m]} : n \in DOMAIN reach}

AnySequence(S) == FoldSet(LAMBDA x, seq : Append(seq, x), <<>>, S)

\* the most nodes that a node of a component leads to
Span(reach, scc) == Cardinality(UNION {reach[n] : n \in scc})

StronglyConnectedComponents(info, p, nodes) ==
    LET reach == ReachableByNode(info, p, nodes) @@ <<>>
    IN  SortSeq(AnySequence(Components(reach)),
                LAMBDA a, b : Span(reach, a) > Span(reach, b))

-----------------------------------------------------------------------------
(***************************************************************************)
(* The condition of an edge, from those of the nodes it requires: none (an *)
(* empty set) when the edge can never be followed.                         *)
(***************************************************************************)
AnyOf(cs) == {FoldSet(Or, c, cs \ {c}) : c \in {CHOOSE x \in cs : TRUE}}
AllOf(cs) == {FoldSet(And, c, cs \ {c}) : c \in {CHOOSE x \in cs : TRUE}}

GroupCondition(group, conditions) ==
    LET known == {conditions[n] : n \in group \cap DOMAIN conditions}
    IN  IF known = {} THEN {} ELSE AnyOf(known)

EdgeConditionsToActivationCondition(requirements, conditions) ==
    IF \E group \in requirements : GroupCondition(group, conditions) = {}
    THEN {}
    ELSE AllOf(UNION {GroupCondition(group, conditions) : group \in requirements})

(***************************************************************************)
(* The condition of a node widened by that of its incoming edges.          *)
(***************************************************************************)
Incoming(incoming, conditions, n) ==
    UNION {EdgeConditionsToActivationCondition(r, conditions) : r \in incoming[n]}

Widened(incoming, conditions, n) ==
    LET known == conditions[n]
        edges == Incoming(incoming, conditions, n)
    IN  IF n \notin DOMAIN conditions THEN AnyOf(edges)
        ELSE IF IsAlwaysTrue(known) \/ edges = {} THEN {known}
        ELSE {Or(known, c) : c \in AnyOf(edges)}

Stay(incoming, conditions, n) ==
    \/ n \notin DOMAIN incoming
    \/ n \notin DOMAIN conditions /\ Incoming(incoming, conditions, n) = {}

Update(incoming, conditions, n) ==
    IF Stay(incoming, conditions, n)
    THEN conditions
    ELSE (n :> (CHOOSE c \in Widened(incoming, conditions, n) : TRUE)) @@ conditions

\* a component is updated until nothing changes, a single node once
RECURSIVE Stabilized(_, _, _)
Stabilized(incoming, conditions, scc) ==
    LET once == FoldSet(LAMBDA n, c : Update(incoming, c, n), conditions, scc)
    IN  IF conditions = once \/ Cardinality(scc) = 1
        THEN once
        ELSE Stabilized(incoming, once, scc)

PropagateConditions(incoming, sccs, conditions) ==
    FoldLeft(LAMBDA c, scc : Stabilized(incoming, c, scc), conditions, sccs)
=============================================================================
