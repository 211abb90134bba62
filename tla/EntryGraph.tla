----------------------------- MODULE EntryGraph -----------------------------
(***************************************************************************)
(* The graph of patch map entries (ift/encoder/entry_graph.{h,cc}): the    *)
(* conditions of the patches become nodes that share what they have in     *)
(* common, then nodes take over the contents of their children where that  *)
(* makes the encoding smaller, and at last the nodes are listed, children  *)
(* first, as the entries of a patch map.                                   *)
(*                                                                         *)
(* A condition is its set of groups, and its patches are its number.       *)
(* Left out: the encodings of the patches and the patch ids of ignored     *)
(* entries, which no client looks at.  Nodes and conditions are numbered   *)
(* from 1.                                                                 *)
(***************************************************************************)
EXTENDS ActivationConditions, SubsetDefinition, Sequences

LOCAL INSTANCE SequencesExt
LOCAL INSTANCE FiniteSetsExt

CONSTANTS MaxChildren,        \* how many children an entry can have: 127
          CodepointCost,      \* the bytes of a set of codepoints, one
                              \* function for each codec considered
          Input,              \* the requests: segments, conditions in order
          Client              \* the definitions a client may ask for

RequestOK(r) ==
    /\ r.segments \in [Segment -> Definition]
    /\ r.conditions \in Seq(SUBSET Group)

ASSUME EntryGraphAssumption ==
    /\ \A r \in Input : RequestOK(r)
    /\ CodepointCost \subseteq [SUBSET Codepoint -> Nat]
    /\ Client \subseteq Definition
    /\ MaxChildren \in Nat
    /\ MaxChildren >= 3       \* Optimize makes up to three new children

VARIABLES request, codepoint_cost,
          graph,              \* nodes, edges (incoming_edge_count), conditions
                              \* (condition_to_node_id), parts (the three maps
                              \* from a set to its node), patch_mappings
          phase,
          sorted,             \* Optimize: the nodes still to visit
          changed,            \* Optimize: this pass has changed the graph
          entries
vars == <<request, codepoint_cost, graph, phase, sorted, changed, entries>>

Node == [coverage : Definition, child_mode : {"NONE", "AND", "OR"},
         children : SUBSET Nat, condition_index : Nat]
Entry == [coverage : Definition, conjunctive : BOOLEAN,
          child_indices : SUBSET Nat, patch : Nat]

EmptyNode == [coverage |-> Nothing, child_mode |-> "NONE", children |-> {},
              condition_index |-> 0]
EmptyMap == [x \in {} |-> x]
Ids(G) == DOMAIN G.nodes
Put(f, k, v) == [x \in DOMAIN f \cup {k} |-> IF x = k THEN v ELSE f[x]]

-----------------------------------------------------------------------------
(***************************************************************************)
(* Building the graph.  Each operator returns the graph, and the id of the *)
(* node it found or created, which has one more incoming edge.             *)
(* Mutation: no edge is counted when a node is shared.                     *)
(***************************************************************************)
SharedUncounted(G, id) == [graph |-> G, id |-> id]
Shared(G, id) == [graph |-> [G EXCEPT !.edges[id] = @ + 1], id |-> id]

CreateNode(G, coverage, mode, index) ==
    [graph |-> [G EXCEPT
        !.nodes = Append(@, [coverage |-> coverage, child_mode |-> mode,
                             children |-> {}, condition_index |-> index]),
        !.edges = Append(@, 1)],
     id |-> Len(G.nodes) + 1]

\* AddCodepointsOnly, AddFeaturesOnly, AddDesignSpaceOnly
AddPart(G, part, index) ==
    IF part \in DOMAIN G.parts
    THEN Shared(G, G.parts[part])
    ELSE LET r == CreateNode(G, part, "NONE", index)
         IN  [r EXCEPT !.graph.parts = Put(@, part, r.id)]

(***************************************************************************)
(* More children than an entry can have: all but the last place are used,  *)
(* and the last child is a further node with the rest.                     *)
(***************************************************************************)
Chained(ids) == IF Len(ids) <= MaxChildren THEN 0
                ELSE (Len(ids) - 2) \div (MaxChildren - 1)

Chunk(ids, j) ==
    {ids[k] : k \in (MaxChildren - 1) * j + 1 ..
         (IF j = Chained(ids) THEN Len(ids) ELSE (MaxChildren - 1) * (j + 1))}

FurtherNode(base, more, j) == IF j < more THEN {base + j + 1} ELSE {}

AddChildrenToNode(G, id, mode, ids) ==
    LET more == Chained(ids)
        base == Len(G.nodes)
        node == [EmptyNode EXCEPT !.child_mode = mode,
                     !.condition_index = G.nodes[id].condition_index]
        nodes == G.nodes \o [j \in 1 .. more |-> node]
        children(j) == Chunk(ids, j) \cup FurtherNode(base, more, j)
    IN  [G EXCEPT
            !.nodes = [n \in DOMAIN nodes |->
                          IF n = id THEN [nodes[n] EXCEPT !.children = children(0)]
                          ELSE IF n > base
                          THEN [nodes[n] EXCEPT !.children = children(n - base)]
                          ELSE nodes[n]],
            !.edges = @ \o [j \in 1 .. more |-> 1]]

(***************************************************************************)
(* The node of a condition that has one already.                           *)
(* Mutation: top level conditions take no precedence.                      *)
(***************************************************************************)
ExistingKeepsIndex(G, groups, index, root) == Shared(G, G.conditions[groups])

Existing(G, groups, index, root) ==
    LET id == G.conditions[groups]
    IN  Shared(IF root THEN [G EXCEPT !.nodes[id].condition_index = index] ELSE G,
               id)

\* a segment: one node, or one for each of its parts below a node of its own
AddSegment(G, s, index) ==
    LET d == request.segments[s]
        parts == SelectSeq(<<"codepoints", "features", "design_space">>,
                           LAMBDA f : f \in NonEmpty(d))
        top == CreateNode(G, Nothing, "OR", index)
        below == FoldLeft(LAMBDA acc, f :
                              LET r == AddPart(acc.graph, Only(d, f), index)
                              IN  [graph |-> r.graph, ids |-> Append(acc.ids, r.id)],
                          [graph |-> top.graph, ids |-> <<>>], parts)
        found(r) == [r EXCEPT !.graph.conditions = Put(@, {{s}}, r.id)]
    IN  IF Len(parts) = 1
        THEN found(AddPart(G, d, index))
        ELSE found([graph |-> [below.graph EXCEPT !.nodes[top.id].children =
                                   ToSet(below.ids)],
                    id    |-> top.id])

\* one group of a condition
AddGroup(G, g, index, root) ==
    LET top == CreateNode(G, Nothing, "OR", index)
        below == FoldLeft(LAMBDA acc, s :
                              LET r == IF {{s}} \in DOMAIN acc.graph.conditions
                                       THEN Existing(acc.graph, {{s}}, index, FALSE)
                                       ELSE AddSegment(acc.graph, s, index)
                              IN  [graph |-> r.graph, ids |-> Append(acc.ids, r.id)],
                          [graph |-> [top.graph EXCEPT !.conditions =
                                          Put(@, {g}, top.id)],
                           ids   |-> <<>>],
                          SetToSortSeq(g, <))
    IN  IF {g} \in DOMAIN G.conditions THEN Existing(G, {g}, index, root)
        ELSE IF \E s \in g : g = {s} THEN AddSegment(G, Least(g), index)
        ELSE [graph |-> AddChildrenToNode(below.graph, top.id, "OR", below.ids),
              id    |-> top.id]

\* the order of sets of segments (IntSet::operator<) when none contains another
Before(g, h) == Least((g \ h) \cup (h \ g)) \in g

AddMapping(G, condition, index) ==
    LET groups == Simplify(condition)
        top == CreateNode(G, Nothing, "AND", index)
        below == FoldLeft(LAMBDA acc, g :
                              LET r == AddGroup(acc.graph, g, index, FALSE)
                              IN  [graph |-> r.graph, ids |-> Append(acc.ids, r.id)],
                          [graph |-> [top.graph EXCEPT !.conditions =
                                          Put(@, groups, top.id)],
                           ids   |-> <<>>],
                          SetToSortSeq(groups, Before))
    IN  IF groups \in DOMAIN G.conditions
        THEN Existing(G, groups, index, TRUE).graph
        ELSE IF \E g \in groups : groups = {g}
        THEN AddGroup(G, UNION groups, index, TRUE).graph
        ELSE AddChildrenToNode(below.graph, top.id, "AND", below.ids)

-----------------------------------------------------------------------------
(***************************************************************************)
(* Sorting.  Each node comes before its children, and among the nodes that *)
(* could come next the one of the last condition is taken, then the one of *)
(* the largest id: the callers read the result backwards.                  *)
(***************************************************************************)
RootEdges(G, n) ==
    Cardinality({c \in DOMAIN G.patch_mappings : G.conditions[c] = n})
Parents(G, n) == {m \in Ids(G) : n \in G.nodes[m].children}

\* the incoming edges of n which do not come from a condition or from ms
EdgesLeft(G, n, ms) ==
    G.edges[n] - RootEdges(G, n) - Cardinality(Parents(G, n) \cap ms)

ComesFirst(G, n, m) ==
    LET i == G.nodes[n].condition_index
        j == G.nodes[m].condition_index
    IN  i > j \/ (i = j /\ n >= m)

TopologicalSort(G) ==
    FoldLeft(LAMBDA seq, k :
                 LET free == {n \in Ids(G) \ ToSet(seq) :
                                 EdgesLeft(G, n, ToSet(seq)) = 0}
                 IN  IF free = {} THEN seq
                     ELSE Append(seq, CHOOSE n \in free :
                                          \A m \in free : ComesFirst(G, n, m)),
             <<>>, [k \in Ids(G) |-> k])

\* without "Cycle detected" and without an underflow of an edge count
SortSucceeds(G) == /\ Len(TopologicalSort(G)) = Len(G.nodes)
                   /\ \A n \in Ids(G) : EdgesLeft(G, n, Ids(G)) = 0

-----------------------------------------------------------------------------
(***************************************************************************)
(* Optimize.  The bytes of a node as an entry (Format2PatchMap::           *)
(* EncodeEntry): format, encoding, features and axes, children,            *)
(* codepoints.                                                             *)
(***************************************************************************)
EncodingCost(node) ==
    LET d == node.coverage
    IN  2 + (IF d.features = {} /\ DOMAIN d.design_space = {} THEN 0
             ELSE 3 + 4 * Cardinality(d.features)
                    + 12 * Cardinality(DOMAIN d.design_space))
          + (IF node.children = {} THEN 0 ELSE 1 + 3 * Cardinality(node.children))
          + codepoint_cost[d.codepoints]

Leaf(coverage) == [EmptyNode EXCEPT !.coverage = coverage]
CostOf(G, ns) == MapThenSumSet(LAMBDA n : EncodingCost(G.nodes[n]), ns)
Reachable(G) == {n \in Ids(G) : G.edges[n] > 0}

\* the edges of n that go when the node with the children cs lets go of them
\* and the nodes of gone are removed
LostEdges(G, n, cs, gone) ==
    Cardinality({n} \cap cs) + Cardinality(Parents(G, n) \cap gone)

\* the nodes without any edge left then: SavedCostIfEdgeToRemoved,
\* DecrementIncomingEdges
Removed(G, cs) ==
    LET more(gone) == {n \in Reachable(G) : LostEdges(G, n, cs, gone) >= G.edges[n]}
        fix[gone \in SUBSET Ids(G)] ==
            IF more(gone) = gone THEN gone ELSE fix[more(gone)]
    IN  fix[{}]

(***************************************************************************)
(* GetDisjunctiveSummary: what one node would have to cover to do the work *)
(* of n and all below, when nothing of it is conjunctive.                  *)
(***************************************************************************)
NoSummary == [is_purely_disjunctive |-> FALSE, coverage |-> Nothing]

Summarize(s, t) ==
    IF /\ s.is_purely_disjunctive
       /\ t.is_purely_disjunctive
       /\ Contiguous(s.coverage, t.coverage)
    THEN [s EXCEPT !.coverage = UnionOf(@, t.coverage)]
    ELSE NoSummary

(***************************************************************************)
(* Mutation: the mode of a node with children is not looked at.            *)
(***************************************************************************)
IsConjunctiveForgotten(node) == Cardinality(NonEmpty(node.coverage)) > 1

IsConjunctive(node) ==
    \/ Cardinality(NonEmpty(node.coverage)) > 1
    \/ /\ node.children # {}
       /\ node.child_mode # "OR" \/ NonEmpty(node.coverage) # {}

DisjunctiveSummary(G, id) ==
    LET summary[n \in Ids(G)] ==
            IF IsConjunctive(G.nodes[n]) THEN NoSummary
            ELSE FoldLeft(LAMBDA s, c : Summarize(s, summary[c]),
                          [is_purely_disjunctive |-> TRUE,
                           coverage |-> G.nodes[n].coverage],
                          SetToSortSeq(G.nodes[n].children, <))
    IN  summary[id]

NoResult == [cost_delta |-> 0, subsumed_children |-> {}, coverage |-> Nothing]

\* Mutation: neither sharing nor what is below the children is looked at.
SavedCostOfChildren(G, cs) == CostOf(G, cs)
SavedCost(G, cs) == CostOf(G, Removed(G, cs))

\* one new child for each non-empty set, unless there is only one
DisjunctiveSubsumption(G, id) ==
    LET node == G.nodes[id]
        s == DisjunctiveSummary(G, id)
        fields == NonEmpty(s.coverage)
        new_cost ==
            IF Cardinality(fields) <= 1 THEN EncodingCost(Leaf(s.coverage))
            ELSE EncodingCost([EmptyNode EXCEPT !.children = 1 .. Cardinality(fields)])
                 + MapThenSumSet(LAMBDA f : EncodingCost(Leaf(Only(s.coverage, f))),
                                 fields)
    IN  IF ~s.is_purely_disjunctive \/ node.children = {} THEN NoResult
        ELSE [cost_delta |-> new_cost - EncodingCost(node)
                                - SavedCost(G, node.children),
              subsumed_children |-> node.children,
              coverage |-> s.coverage]

(***************************************************************************)
(* The children of a conjunctive node which its own empty field f could    *)
(* take over, or 0 for none of them.                                       *)
(***************************************************************************)
Candidates(G, id, f) ==
    {0} \cup {c \in G.nodes[id].children :
                 LET s == DisjunctiveSummary(G, c)
                 IN  /\ s.is_purely_disjunctive
                     /\ NonEmpty(s.coverage) = {f}
                     /\ f \notin NonEmpty(G.nodes[id].coverage)}

\* the first of the best choices in the order of the three loops
ConjunctiveSubsumption(G, id) ==
    LET node == G.nodes[id]
        combos == {combo \in Candidates(G, id, "codepoints")
                               \X Candidates(G, id, "features")
                               \X Candidates(G, id, "design_space") :
                      \E k \in 1 .. 3 : combo[k] # 0}
        set(c, f) == IF c = 0 THEN node.coverage[f]
                     ELSE DisjunctiveSummary(G, c).coverage[f]
        result(combo) ==
            LET subsumed == {combo[k] : k \in 1 .. 3} \ {0}
                coverage == [codepoints   |-> set(combo[1], "codepoints"),
                             features     |-> set(combo[2], "features"),
                             design_space |-> set(combo[3], "design_space")]
            IN  [cost_delta |->
                     EncodingCost([node EXCEPT !.coverage = coverage,
                                               !.children = @ \ subsumed])
                        - EncodingCost(node) - SavedCost(G, subsumed),
                 subsumed_children |-> subsumed,
                 coverage |-> coverage]
        delta(combo) == result(combo).cost_delta
        earlier(a, b) == \/ a[1] < b[1]
                         \/ a[1] = b[1] /\ a[2] < b[2]
                         \/ a[1] = b[1] /\ a[2] = b[2] /\ a[3] <= b[3]
    IN  IF combos = {} THEN NoResult
        ELSE result(CHOOSE a \in combos :
                        \A b \in combos : \/ delta(a) < delta(b)
                                          \/ delta(a) = delta(b) /\ earlier(a, b))

CalculateSubsumptionCostDelta(G, id) ==
    IF G.nodes[id].child_mode = "AND"
    THEN ConjunctiveSubsumption(G, id)
    ELSE DisjunctiveSubsumption(G, id)

(***************************************************************************)
(* ActuateSubsumption: let go of the subsumed children, remove the nodes   *)
(* that nothing refers to any more, and take over what they covered.       *)
(* Mutation: an edge is only counted down when its child is removed.       *)
(***************************************************************************)
DropEdgesOfRemoved(G, id, cs) ==
    LET gone == Removed(G, cs)
    IN  [G EXCEPT
            !.nodes = [n \in Ids(G) |->
                          IF n \in gone THEN EmptyNode
                          ELSE IF n = id THEN [@[n] EXCEPT !.children = @ \ cs]
                          ELSE @[n]],
            !.edges = [n \in Ids(G) |-> IF n \in gone THEN 0 ELSE @[n]]]

DropEdges(G, id, cs) ==
    LET gone == Removed(G, cs)
    IN  [G EXCEPT
            !.nodes = [n \in Ids(G) |->
                          IF n \in gone THEN EmptyNode
                          ELSE IF n = id THEN [@[n] EXCEPT !.children = @ \ cs]
                          ELSE @[n]],
            !.edges = [n \in Ids(G) |->
                          IF n \in gone THEN 0
                          ELSE @[n] - LostEdges(G, n, cs, gone)]]

(***************************************************************************)
(* The condition index of the first new child is the node's.  CreateNode   *)
(* may move the vector that holds the node while the code still holds a    *)
(* reference to it, so the indices of the others are read from memory      *)
(* which may have been freed: indices[2] and indices[3] can be anything.   *)
(***************************************************************************)
ActuateSubsumption(G, id, result, indices) ==
    LET H == DropEdges(G, id, result.subsumed_children)
        node == H.nodes[id]
        d == result.coverage
        fields == SelectSeq(<<"codepoints", "features", "design_space">>,
                            LAMBDA f : f \in NonEmpty(d))
        split == node.child_mode # "AND" /\ Len(fields) > 1
        new == [k \in DOMAIN fields |->
                   [Leaf(Only(d, fields[k])) EXCEPT !.condition_index =
                       IF k = 1 THEN node.condition_index ELSE indices[k]]]
        all == IF split THEN H.nodes \o new ELSE H.nodes
        changed_node ==
            IF node.child_mode = "AND" THEN [node EXCEPT !.coverage = d]
            ELSE IF ~split
            THEN [node EXCEPT !.coverage = d, !.child_mode = "NONE"]
            ELSE [node EXCEPT !.coverage = Nothing, !.child_mode = "OR",
                              !.children = Len(H.nodes) + 1 .. Len(all)]
    IN  [H EXCEPT !.nodes = [n \in DOMAIN all |-> IF n = id THEN changed_node
                                                  ELSE all[n]],
                  !.edges = @ \o [k \in 1 .. Len(all) - Len(H.nodes) |-> 1]]

-----------------------------------------------------------------------------
(***************************************************************************)
(* ToPatchMapEntries: an entry for each node that something refers to, its *)
(* patch the number of the node's condition, or 0 when it is ignored.      *)
(***************************************************************************)
Listed(G) == SelectSeq(Reverse(TopologicalSort(G)), LAMBDA n : G.edges[n] > 0)

EntryIndex(G, n) == CHOOSE k \in DOMAIN Listed(G) : Listed(G)[k] = n

PatchOf(G, n) ==
    LET cs == {c \in DOMAIN G.patch_mappings : G.conditions[c] = n}
    IN  IF cs = {} THEN 0 ELSE G.patch_mappings[CHOOSE c \in cs : TRUE]

ToPatchMapEntries(G) ==
    [k \in DOMAIN Listed(G) |->
        LET n == Listed(G)[k]
        IN  [coverage      |-> G.nodes[n].coverage,
             conjunctive   |-> G.nodes[n].child_mode = "AND",
             child_indices |-> {EntryIndex(G, c) : c \in G.nodes[n].children},
             patch         |-> PatchOf(G, n)]]

\* without "Duplicate condtion.", an error of the sort, or a child that is
\* no entry yet
EntriesSucceed(G) ==
    /\ \A n \in Ids(G) : RootEdges(G, n) <= 1
    /\ SortSucceeds(G)
    /\ \A k \in DOMAIN Listed(G) :
          G.nodes[Listed(G)[k]].children \subseteq ToSet(SubSeq(Listed(G), 1, k - 1))

-----------------------------------------------------------------------------
(***************************************************************************)
(* The process: Create, Optimize and ToPatchMapEntries, as                 *)
(* ActivationConditionsToPatchMapEntries calls them.                       *)
(***************************************************************************)
Init ==
    /\ request \in Input
    /\ codepoint_cost \in CodepointCost
    /\ graph = [nodes |-> <<>>, edges |-> <<>>, conditions |-> EmptyMap,
                parts |-> EmptyMap, patch_mappings |-> EmptyMap]
    /\ phase = "create"
    /\ sorted = <<>>
    /\ changed = TRUE
    /\ entries = <<>>

Entered == Cardinality(DOMAIN graph.patch_mappings)

\* one round of the loop of Create
AddCondition ==
    LET i == Entered + 1
        groups == Simplify(request.conditions[i])
    IN  /\ phase = "create"
        /\ i <= Len(request.conditions)
        /\ IF groups \in DOMAIN graph.patch_mappings
           THEN phase' = "failed" /\ UNCHANGED graph
           ELSE /\ graph' = [AddMapping(graph, request.conditions[i], i) EXCEPT
                                !.patch_mappings = Put(@, groups, i)]
                /\ UNCHANGED phase
        /\ UNCHANGED <<request, codepoint_cost, sorted, changed, entries>>

\* while (changed) of Optimize
StartPass ==
    /\ \/ phase = "create" /\ Entered = Len(request.conditions)
       \/ phase = "optimize" /\ sorted = <<>> /\ changed
    /\ IF SortSucceeds(graph)
       THEN phase' = "optimize" /\ sorted' = Reverse(TopologicalSort(graph))
       ELSE phase' = "failed" /\ UNCHANGED sorted
    /\ changed' = FALSE
    /\ UNCHANGED <<request, codepoint_cost, graph, entries>>

\* Mutation: what costs as much as before is done, too.
WorthwhileIfEqual(result) == result.cost_delta <= 0
Worthwhile(result) == result.cost_delta < 0

AnyIndex == 0 .. Len(request.conditions)

OptimizeNode ==
    /\ phase = "optimize"
    /\ sorted # <<>>
    /\ sorted' = Tail(sorted)
    /\ LET result == CalculateSubsumptionCostDelta(graph, Head(sorted))
       IN  IF Worthwhile(result)
           THEN /\ changed' = TRUE
                /\ \E indices \in [2 .. 3 -> AnyIndex] :
                      graph' = ActuateSubsumption(graph, Head(sorted), result, indices)
           ELSE UNCHANGED <<graph, changed>>
    /\ UNCHANGED <<request, codepoint_cost, phase, entries>>

Emit ==
    /\ phase = "optimize" /\ sorted = <<>> /\ ~changed
    /\ IF EntriesSucceed(graph)
       THEN phase' = "done" /\ entries' = ToPatchMapEntries(graph)
       ELSE phase' = "failed" /\ UNCHANGED entries
    /\ UNCHANGED <<request, codepoint_cost, graph, sorted, changed>>

Finished == phase \in {"done", "failed"} /\ UNCHANGED vars

Next == AddCondition \/ StartPass \/ OptimizeNode \/ Emit \/ Finished

Spec == Init /\ [][Next]_vars

-----------------------------------------------------------------------------
TypeOK ==
    /\ request \in Input
    /\ codepoint_cost \in CodepointCost
    /\ graph.nodes \in Seq(Node)
    /\ \A n \in Ids(graph) : graph.nodes[n].children \subseteq Ids(graph)
    /\ graph.edges \in [Ids(graph) -> Nat]
    /\ graph.conditions \in [DOMAIN graph.conditions -> Ids(graph)]
    /\ graph.parts \in [DOMAIN graph.parts -> Ids(graph)]
    /\ graph.patch_mappings \in
          [DOMAIN graph.patch_mappings -> DOMAIN request.conditions]
    /\ phase \in {"create", "optimize", "done", "failed"}
    /\ sorted \in Seq(Ids(graph))
    /\ changed \in BOOLEAN
    /\ entries \in Seq(Entry)
    /\ \A k \in DOMAIN entries : entries[k].child_indices \subseteq DOMAIN entries

(***************************************************************************)
(* No call returns an error: all conditions can be encoded.  Claimed for   *)
(* requests whose segments differ and are not empty.                       *)
(***************************************************************************)
NoInternalError == phase # "failed"

(***************************************************************************)
(* The counts of incoming edges, which decide what Optimize removes and    *)
(* how the nodes are sorted, are those of the graph: the parents of each   *)
(* node and the conditions it stands for, through all sharing, chaining,   *)
(* subsumption and removal.                                                *)
(***************************************************************************)
EdgeCountsExact ==
    \A n \in Ids(graph) :
        graph.edges[n] = Cardinality(Parents(graph, n)) + RootEdges(graph, n)

(***************************************************************************)
(* Whatever makes Optimize go through the graph once more saves bytes, and *)
(* in the whole graph exactly as many as CalculateSubsumptionCostDelta has *)
(* computed for the one node.  So the loop ends.                           *)
(***************************************************************************)
TotalCost(G) == CostOf(G, Reachable(G))

SavesWhatWasComputed ==
    [][phase = "optimize" /\ (graph' # graph \/ (changed' /\ ~changed))
       => /\ TotalCost(graph') < TotalCost(graph)
          /\ TotalCost(graph') - TotalCost(graph) =
                CalculateSubsumptionCostDelta(graph, Head(sorted)).cost_delta]_vars

(***************************************************************************)
(* The entries of the conditions are in the order of the conditions, but   *)
(* for an entry that has to come earlier because the entry of an earlier   *)
(* condition refers to it (TopologicalSort_ActivationConditionOrdering).   *)
(***************************************************************************)
NeededBy(k) ==
    LET below[ks \in SUBSET DOMAIN entries] ==
            LET more == ks \cup UNION {entries[j].child_indices : j \in ks}
            IN  IF more = ks THEN ks ELSE below[more]
    IN  below[{k}]

OrderFollowsConditions ==
    \A k, l \in DOMAIN entries :
        (k < l /\ 0 < entries[l].patch /\ entries[l].patch < entries[k].patch)
        => \E m \in DOMAIN entries : /\ 0 < entries[m].patch
                                     /\ entries[m].patch <= entries[l].patch
                                     /\ k \in NeededBy(m)

(***************************************************************************)
(* The same where no segment is one part of another segment's definition:  *)
(* such a part keeps the index of the condition it was made for, though    *)
(* "Top level condition indices take precedent." (AddMapping).             *)
(***************************************************************************)
PartsAreOwn ==
    \A s, t \in Segment : \A f \in Field :
        request.segments[s] = Only(request.segments[t], f) => s = t

OrderFollowsForOwnParts == PartsAreOwn => OrderFollowsConditions

(***************************************************************************)
(* A node or an entry matches when all that it covers intersects what the  *)
(* client asks for, and one of its children matches, or all of them when   *)
(* it is conjunctive.                                                      *)
(***************************************************************************)
Covering(coverage) ==
    {d \in Client : \A f \in NonEmpty(coverage) : FieldIntersects(d, coverage, f)}

\* the definitions that match, where children are those of the children
Matching(coverage, conjunctive, children) ==
    IF conjunctive THEN Covering(coverage) \ UNION {Client \ m : m \in children}
    ELSE IF children = {} THEN Covering(coverage)
    ELSE Covering(coverage) \cap UNION children

SelectedByNodes ==
    LET matching[n \in Ids(graph)] ==
            LET node == graph.nodes[n]
            IN  Matching(node.coverage, node.child_mode = "AND",
                         {matching[c] : c \in node.children})
        of(c) == matching[graph.conditions[c]] \X {graph.patch_mappings[c]}
    IN  UNION {of(c) : c \in DOMAIN graph.patch_mappings}

SelectedByEntries ==
    LET matching[k \in DOMAIN entries] ==
            Matching(entries[k].coverage, entries[k].conjunctive,
                     {matching[c] : c \in entries[k].child_indices})
        of(k) == matching[k] \X ({entries[k].patch} \ {0})
    IN  UNION {of(k) : k \in DOMAIN entries}

(***************************************************************************)
(* Whatever a client asks for, the nodes, and in the end the entries,      *)
(* select the patches whose conditions hold, no less and no more: entering *)
(* a condition adds its patch, and no rewriting and no listing changes     *)
(* what is selected.                                                       *)
(***************************************************************************)
Selection == INSTANCE PatchSelection WITH
    added <- Entered,
    selected <- IF phase = "done" THEN SelectedByEntries ELSE SelectedByNodes

ImplementsSelection == Selection!Spec
=============================================================================
