--------------------------- MODULE DependencyGraph ---------------------------
(***************************************************************************)
(* The graph of what pulls what into a subset (ift/dep_graph): segments    *)
(* and the initial font lead to codepoints and features, codepoints to     *)
(* codepoints and glyphs, glyphs to glyphs.  An edge may have further      *)
(* requirements; every node that takes part in one has that edge among its *)
(* outgoing edges, so that a walk meets it whichever node it sees last.    *)
(*                                                                         *)
(* A font is a record: tables (those it has), cmap (a function), uvs       *)
(* (variation sequences) and entries (the dependencies between glyphs that *)
(* HarfBuzz reports: the table, and for GSUB the feature, the components   *)
(* of a ligature and the groups of glyphs a context needs one each of).    *)
(***************************************************************************)
EXTENDS SegmentationInfo, FiniteSetsExt

CONSTANTS UnicodeData,           \* decompositions, as records [base, parts]
          CompositionExclusion,  \* bases that are never composed
          Mirror(_)              \* the bidi mirror of a codepoint, or itself

ASSUME DependencyAssumption ==
    /\ CompositionExclusion \subseteq Codepoint
    /\ \A d \in UnicodeData : d.base \in Codepoint /\ d.parts \subseteq Codepoint
    /\ \A c \in Codepoint : Mirror(c) \in Codepoint

InitFont == [type |-> "INIT_FONT", id |-> 0]
SegmentNode(s) == [type |-> "SEGMENT", id |-> s]
UnicodeNode(u) == [type |-> "UNICODE", id |-> u]
FeatureNode(t) == [type |-> "FEATURE", id |-> t]
GlyphNode(g) == [type |-> "GLYPH", id |-> g]

AnyType == {"INIT_FONT", "SEGMENT", "UNICODE", "FEATURE", "GLYPH"}

Nodes(ss, us, ts, gs) ==
    {SegmentNode(s) : s \in ss} \cup {UnicodeNode(u) : u \in us}
        \cup {FeatureNode(t) : t \in ts} \cup {GlyphNode(g) : g \in gs}

Node == {InitFont} \cup Nodes(Segment, Codepoint \ Feature, Feature, Glyph)

InitFontNodes(info) ==
    {InitFont} \cup Nodes({}, info.init.codepoints \ Feature,
                          info.init.codepoints \cap Feature, info.init.gids)

Ids(nodes, type) == {n.id : n \in {m \in nodes : m.type = type}}

-----------------------------------------------------------------------------
(***************************************************************************)
(* Decompositions whose characters the font maps, and compositions: only   *)
(* of two characters, and only where Unicode does not exclude them.        *)
(***************************************************************************)
Decompositions(f) ==
    {d \in UnicodeData : {d.base} \cup d.parts \subseteq DOMAIN f.cmap}

Compositions(f) ==
    {d \in Decompositions(f) : /\ Cardinality(d.parts) = 2
                               /\ d.base \notin CompositionExclusion}

\* a variation sequence that selects the nominal glyph is no edge
VariationEdges(f) == {v \in f.uvs : /\ v.unicode \in DOMAIN f.cmap
                                    /\ f.cmap[v.unicode] # v.gid}

(***************************************************************************)
(* The closure under (de)composition that precedes a glyph closure.        *)
(***************************************************************************)
UnicodeClosure(f, us) ==
    LET closed[c \in SUBSET Codepoint] ==
          LET more == UNION {d.parts : d \in {x \in Decompositions(f) : x.base \in c}}
                        \cup {d.base : d \in {x \in Compositions(f) :
                                                x.parts \subseteq c}}
          IN  IF more \subseteq c THEN c ELSE closed[c \cup more]
    IN  closed[us]

\* the codepoints of some glyphs; of a variation sequence only the selector
CodepointsForGlyphs(f, gs) ==
    {u \in DOMAIN f.cmap : f.cmap[u] \in gs}
        \cup {v.selector : v \in {x \in VariationEdges(f) : x.gid \in gs}}

-----------------------------------------------------------------------------
(***************************************************************************)
(* Edges.  An edge is followed when its source and everything it requires  *)
(* is there: a feature, both codepoints, all of a ligature, one glyph of   *)
(* each group of a context.  The table "any" stands for no table.          *)
(***************************************************************************)
Disjunctive(source, dest, table) ==
    [source |-> source, dest |-> dest, table |-> table, features |-> {},
     codepoints |-> {}, liga |-> {}, context |-> {}]

Conjunctive(a, b, dest) ==
    [Disjunctive(UnicodeNode(a), dest, "cmap") EXCEPT !.codepoints = {a, b}]

GlyphEdge(entry) ==
    Disjunctive(GlyphNode(entry.source), GlyphNode(entry.dest), entry.table)

\* a context takes precedence over a ligature (HandleGsubGlyphOutgoingEdges)
GsubEdge(entry) ==
    [GlyphEdge(entry) EXCEPT
        !.features = {entry.feature},
        !.context = entry.context,
        !.liga = IF entry.context # {} THEN {} ELSE entry.liga]

GsubEntries(f) == {e \in f.entries : e.table = "GSUB"}

\* the entries of other glyphs whose context a glyph can be part of
ContextGlyphImplied(f, g) ==
    {e \in GsubEntries(f) : g \in UNION e.context}

(***************************************************************************)
(* Everything that leads away from a node, before any filter.              *)
(***************************************************************************)
UnicodeOutgoing(f, u) ==
    LET n == UnicodeNode(u)
    IN  {Disjunctive(n, GlyphNode(f.cmap[c]), "any") : c \in {u} \cap DOMAIN f.cmap}
        \cup {Conjunctive(v.unicode, v.selector, GlyphNode(v.gid)) :
                 v \in {x \in VariationEdges(f) : x.unicode = u}}
        \cup {Conjunctive(v.selector, v.unicode, GlyphNode(v.gid)) :
                 v \in {x \in VariationEdges(f) : x.selector = u}}
        \cup UNION {{Conjunctive(u, other, UnicodeNode(d.base)) :
                        other \in d.parts \ {u}} :
                       d \in {x \in Compositions(f) : u \in x.parts}}
        \cup UNION {{Disjunctive(n, UnicodeNode(part), "cmap") : part \in d.parts} :
                       d \in {x \in Decompositions(f) : x.base = u}}
        \cup {Disjunctive(n, UnicodeNode(m), "any") : m \in {Mirror(u)} \ {u}}

GlyphOutgoing(f, g) ==
    {IF e.table = "GSUB" THEN GsubEdge(e) ELSE GlyphEdge(e) :
        e \in {x \in f.entries : x.source = g}}
    \cup {GsubEdge(e) : e \in ContextGlyphImplied(f, g)}

FeatureOutgoing(f, t) == {GsubEdge(e) : e \in {x \in GsubEntries(f) : x.feature = t}}

DefinitionOutgoing(n, cps) ==
    {Disjunctive(n, UnicodeNode(u), "any") : u \in cps \ Feature}
        \cup {Disjunctive(n, FeatureNode(t), "any") : t \in cps \cap Feature}

AllOutgoing(info, n) ==
    CASE n.type = "GLYPH"     -> GlyphOutgoing(info.font, n.id)
      [] n.type = "UNICODE"   -> UnicodeOutgoing(info.font, n.id)
      [] n.type = "FEATURE"   -> FeatureOutgoing(info.font, n.id)
      [] n.type = "SEGMENT"   -> DefinitionOutgoing(n, info.segments[n.id])
      [] n.type = "INIT_FONT" -> DefinitionOutgoing(n, info.init.codepoints)

-----------------------------------------------------------------------------
(***************************************************************************)
(* A traversal context: the tables, types, glyphs, codepoints, features    *)
(* and nodes that edges may lead to (ShouldFollow).  Edges which nothing   *)
(* in the full closure can satisfy are ignored.                            *)
(***************************************************************************)
ShouldFollow(ctx, e) ==
    /\ e.dest.type \in ctx.types
    /\ e.table \in ctx.tables \cup {"any"}
    /\ e.dest \in ctx.nodes
    /\ e.features \subseteq ctx.features
    /\ e.dest.type = "GLYPH" => e.dest.id \in ctx.glyphs
    /\ e.dest.type = "UNICODE" => e.dest.id \in ctx.unicodes
    /\ e.dest.type = "FEATURE" => e.dest.id \in ctx.features

ContextSetSatisfied(e, glyphs) == \A group \in e.context : group \cap glyphs # {}

Satisfiable(ctx, e) == /\ e.liga \subseteq ctx.full_closure
                       /\ ContextSetSatisfied(e, ctx.full_closure)

HandleOutgoingEdges(info, ctx, n) ==
    {e \in AllOutgoing(info, n) : ShouldFollow(ctx, e) /\ Satisfiable(ctx, e)}

FullFeatureSet(info) == info.full_definition.codepoints \cap Feature
FullCodepointClosure(info) == FontCodepoints(info.font, info.full_closure)

\* what a traversal that was given no filter may reach
NonInitCodepoints(info) == FullCodepointClosure(info) \ info.init.codepoints

\* the context of a traversal with filters for glyphs and codepoints
TraversalContext(info, glyphs, unicodes) ==
    [tables |-> {}, types |-> AnyType, glyphs |-> glyphs, unicodes |-> unicodes,
     features |-> FullFeatureSet(info), nodes |-> Node,
     full_closure |-> info.full_closure]

(***************************************************************************)
(* The phases of a closure, one table each; after the first only glyphs    *)
(* are reached, in GSUB from glyphs and features.                          *)
(***************************************************************************)
ClosurePhaseTable == <<"cmap", "GSUB", "MATH", "COLR", "glyf", "CFF">>
Phase == DOMAIN ClosurePhaseTable
ClosurePhases(f) == {p \in Phase : p = 1 \/ ClosurePhaseTable[p] \in f.tables}

PhaseTypes(p) == IF p = 1 THEN AnyType ELSE {"GLYPH"}
StartTypes(p) == IF p = 2 THEN {"GLYPH", "FEATURE"} ELSE {"GLYPH"}

InPhase(ctx, p) == [ctx EXCEPT !.tables = {ClosurePhaseTable[p]},
                               !.types = PhaseTypes(p)]

-----------------------------------------------------------------------------
(***************************************************************************)
(* A traversal that does not wait for requirements (COLLECT_CONTEXT and    *)
(* NO_CONTEXT): each phase starts at what the earlier ones reached.  The   *)
(* order in which nodes are handled makes no difference here.              *)
(***************************************************************************)
Filtered(ctx, start) ==
    {n \in start : /\ n.type = "GLYPH" => n.id \in ctx.glyphs
                   /\ n.type = "UNICODE" => n.id \in ctx.unicodes
                   /\ n.type = "FEATURE" => n.id \in ctx.features}

Visited(info, ctx, start) ==
    LET visited[ns \in SUBSET Node] ==
          LET more == {e.dest : e \in UNION {HandleOutgoingEdges(info, ctx, n) :
                                                n \in ns}}
          IN  IF more \subseteq ns THEN ns ELSE visited[ns \cup more]
    IN  visited[start]

PhaseStart(reached, p) == {n \in reached : n.type \in StartTypes(p)}

ReachedInCmap(info, ctx, start) ==
    Visited(info, InPhase(ctx, 1), Filtered(ctx, start))

ClosureTraversal(info, ctx, start) ==
    LET reached[p \in Phase] ==
          IF p = 1 THEN ReachedInCmap(info, ctx, start)
          ELSE IF p \notin ClosurePhases(info.font) THEN reached[p - 1]
          ELSE LET before == reached[p - 1]
               IN  before \cup Visited(info, InPhase(ctx, p), PhaseStart(before, p))
    IN  {n \in reached[Cardinality(Phase)] : n.type \notin {"SEGMENT", "INIT_FONT"}}

\* the contextual edges which such a traversal visits
ContextualEdges(info, ctx, start) ==
    LET gsub == InPhase(ctx, 2)
        seen == Visited(info, gsub, PhaseStart(ReachedInCmap(info, ctx, start), 2))
    IN  IF 2 \in ClosurePhases(info.font)
        THEN {e \in UNION {HandleOutgoingEdges(info, gsub, n) : n \in seen} :
                 e.context # {}}
        ELSE {}
=============================================================================
