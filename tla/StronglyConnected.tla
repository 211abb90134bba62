-------------------------- MODULE StronglyConnected --------------------------
(***************************************************************************)
(* The strongly connected components of a graph, each before those it      *)
(* leads to: Tarjan's algorithm with an explicit stack instead of          *)
(* recursion (StronglyConnectedComponents in                               *)
(* ift/dep_graph/dependency_graph.cc).  A node without an index has not    *)
(* been seen.  Start nodes, and the edges of a node, come in any order.    *)
(***************************************************************************)
EXTENDS Naturals, FiniteSets, Sequences, SequencesExt

CONSTANTS Vertex,
          Graph       \* functions from Vertex to sets of vertices

ASSUME GraphAssumption == Graph \subseteq [Vertex -> SUBSET Vertex]

VARIABLES successors,  \* constant after Init
          index,       \* the nodes seen, with the time when they were
          lowlink,     \* for these, the least index known to be reachable
          stack,       \* the nodes seen that are in no component yet
          dfs,         \* what the recursion is at: records [node, edges]
          sccs         \* the components found

scc_vars == <<successors, index, lowlink, stack, dfs, sccs>>

NoIndex == [v \in {} |-> 0]
OnStack(v) == v \in Range(stack)
Lesser(a, b) == IF a < b THEN a ELSE b

SccInit == /\ successors \in Graph
           /\ index = NoIndex
           /\ lowlink = NoIndex
           /\ stack = <<>>
           /\ dfs = <<>>
           /\ sccs = <<>>

\* the first visit of a node: node_meta is set up and the edges are read
Visited1(v) == [node |-> v, edges |-> successors[v]]

\* the number of nodes seen before it becomes the index of a new node
WithNew(f, v) ==
    [x \in DOMAIN f \cup {v} |-> IF x = v THEN Cardinality(DOMAIN f) ELSE f[x]]

Enter(v) == /\ index' = WithNew(index, v)
            /\ lowlink' = WithNew(lowlink, v)
            /\ stack' = Append(stack, v)
            /\ UNCHANGED <<successors, sccs>>

StartAt(v) == /\ dfs = <<>>
              /\ v \notin DOMAIN index
              /\ dfs' = <<Visited1(v)>>
              /\ Enter(v)

(***************************************************************************)
(* An edge of the node that the recursion is at: to a new node, to one of  *)
(* the stack, or to one of a component already found.                      *)
(* Mutation: a node of a component already found still counts.             *)
(***************************************************************************)
Popped(w) == [Front(dfs) \o <<Last(dfs)>> EXCEPT ![Len(dfs)].edges = @ \ {w}]

Descend(w) == /\ w \notin DOMAIN index
              /\ dfs' = Append(Popped(w), Visited1(w))
              /\ Enter(w)

LowlinkThroughFound(v, w) ==
    IF w \in DOMAIN index THEN Lesser(lowlink[v], index[w]) ELSE lowlink[v]

LowlinkThrough(v, w) ==
    IF OnStack(w) THEN Lesser(lowlink[v], index[w]) ELSE lowlink[v]

SeeAgain(v, w) == /\ w \in DOMAIN index
                  /\ lowlink' = [lowlink EXCEPT ![v] = LowlinkThrough(v, w)]
                  /\ dfs' = Popped(w)
                  /\ UNCHANGED <<successors, index, stack, sccs>>

(***************************************************************************)
(* A node without edges left.  If it is the root of a component, this is   *)
(* the stack from it upwards.                                              *)
(***************************************************************************)
PositionOf(v) == CHOOSE i \in DOMAIN stack : stack[i] = v

Leave(v) ==
    LET rest   == Front(dfs)
        parent == Last(rest).node
        root   == lowlink[v] = index[v]
    IN  /\ Last(dfs).edges = {}
        /\ stack' = IF root THEN SubSeq(stack, 1, PositionOf(v) - 1) ELSE stack
        /\ sccs' = IF root
                   THEN Append(sccs, Range(SubSeq(stack, PositionOf(v), Len(stack))))
                   ELSE sccs
        /\ dfs' = rest
        /\ lowlink' = IF rest = <<>> THEN lowlink
                      ELSE [lowlink EXCEPT ![parent] = Lesser(@, lowlink[v])]
        /\ UNCHANGED <<successors, index>>

SccNext == \/ \E v \in Vertex : StartAt(v)
           \/ /\ dfs # <<>>
              /\ \/ \E w \in Last(dfs).edges : Descend(w) \/ SeeAgain(Last(dfs).node, w)
                 \/ Leave(Last(dfs).node)

SccDone == dfs = <<>> /\ DOMAIN index = Vertex

\* the result: the components are found in the opposite order
StronglyConnectedComponents == Reverse(sccs)

-----------------------------------------------------------------------------
Reach(vs) ==
    LET reach[x \in SUBSET Vertex] ==
          LET more == UNION {successors[v] : v \in x}
          IN  IF more \subseteq x THEN x ELSE reach[x \cup more]
    IN  reach[vs]

(***************************************************************************)
(* The components are the classes of nodes that lead to each other, each   *)
(* once, and none leads to an earlier one: PropagateConditions visits each *)
(* component once and relies on its sources being final.                   *)
(***************************************************************************)
ComponentsInOrder ==
    SccDone =>
        LET result == StronglyConnectedComponents
        IN  /\ Range(result) = {{w \in Reach({v}) : v \in Reach({w})} : v \in Vertex}
            /\ \A i, j \in DOMAIN result :
                  i < j => Reach(result[j]) \cap result[i] = {}
=============================================================================
