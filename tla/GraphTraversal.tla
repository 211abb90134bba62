--------------------------- MODULE GraphTraversal ---------------------------
(***************************************************************************)
(* The walk of the dependency graph that waits for requirements            *)
(* (ClosureTraversal with ENFORCE_CONTEXT, TraverseGraph and the           *)
(* TraversalContext of ift/dep_graph/dependency_graph.cc), edge by edge.   *)
(* An edge whose requirements are not reached yet is put aside; when there *)
(* is no node left to handle, those put aside are looked at again.  Each   *)
(* phase of the closure is such a walk, from all that was reached before.  *)
(*                                                                         *)
(* The edges of a node come in any order.  When every node that takes part *)
(* in an edge has it among its own, the last of them to be reached follows *)
(* it, and no edge put aside is ever needed; an edge that only some of     *)
(* them have may have to wait.                                             *)
(***************************************************************************)
EXTENDS DependencyGraph, SequencesExt

CONSTANT Walk      \* records [info, segments]: what to walk, and from where

ASSUME WalkAssumption == Walk \subseteq [info : Info, segments : SUBSET Segment]

Finished == Cardinality(Phase) + 1

VARIABLES walk,     \* constant after Init
          phase,    \* Finished at the end
          next,     \* the nodes to handle, last in first out
          todo,     \* the edges left of the node that is being handled
          visited,  \* the nodes that were put into next in this phase
          reached,  \* the nodes that can meet a requirement
          pending,  \* the edges put aside in this phase
          full,     \* all that was reached, the result
          reported  \* the edges put aside in the end

traversal_vars ==
    <<walk, phase, next, todo, visited, reached, pending, full, reported>>

info == walk.info
free == TraversalContext(info, NonInitFontGlyphs(info), NonInitCodepoints(info))

-----------------------------------------------------------------------------
(***************************************************************************)
(* Whether all that an edge requires was reached; an edge with a codepoint *)
(* that cannot be reached at all is ignored.                               *)
(* Mutation: one glyph of a ligature is enough.                            *)
(***************************************************************************)
ConstraintsSatisfiedAnyLigature(e, nodes) ==
    /\ e.source.type \in {"FEATURE", "UNICODE", "GLYPH"} => e.source \in nodes
    /\ e.codepoints \subseteq Ids(nodes, "UNICODE")
    /\ e.features \subseteq Ids(nodes, "FEATURE")
    /\ e.liga = {} \/ e.liga \cap Ids(nodes, "GLYPH") # {}
    /\ ContextSetSatisfied(e, Ids(nodes, "GLYPH"))

ConstraintsSatisfied(e, nodes) ==
    /\ e.source.type \in {"FEATURE", "UNICODE", "GLYPH"} => e.source \in nodes
    /\ e.codepoints \subseteq Ids(nodes, "UNICODE")
    /\ e.features \subseteq Ids(nodes, "FEATURE")
    /\ e.liga \subseteq Ids(nodes, "GLYPH")
    /\ ContextSetSatisfied(e, Ids(nodes, "GLYPH"))

CanReachCodepoints(e, nodes) ==
    e.codepoints \subseteq free.unicodes \cup Ids(nodes, "UNICODE")

\* the parts of the state that following an edge changes
Frontier == [next |-> next, visited |-> visited, reached |-> reached,
             full |-> full, pending |-> pending]

\* Mutation: a node that was visited is handled again
VisitAgain(st, e) ==
    [st EXCEPT !.next = Append(@, e.dest),
               !.visited = @ \cup {e.dest},
               !.reached = @ \cup {e.dest},
               !.full = @ \cup {e.dest}]

Visit(st, e) ==
    [st EXCEPT !.next = IF e.dest \in st.visited THEN @ ELSE Append(@, e.dest),
               !.visited = @ \cup {e.dest},
               !.reached = @ \cup {e.dest},
               !.full = @ \cup {e.dest}]

TraversePendingEdgeTo(st, e) ==
    IF ~CanReachCodepoints(e, st.reached) THEN st
    ELSE IF ConstraintsSatisfied(e, st.reached) THEN Visit(st, e)
    ELSE [st EXCEPT !.pending = Append(@, e)]

(***************************************************************************)
(* One pass over the edges put aside, in their order: an edge earlier in   *)
(* the list than the one that meets its requirements has to wait for the   *)
(* next pass.                                                              *)
(* Mutation: what still waits is erased with what was followed.            *)
(***************************************************************************)
CheckPendingOnce(st) ==
    FoldLeft(LAMBDA s, e :
                IF ConstraintsSatisfied(e, s.reached) THEN Visit(s, e) ELSE s,
             [st EXCEPT !.pending = <<>>], st.pending)

CheckPending(st) ==
    FoldLeft(LAMBDA s, e :
                IF ConstraintsSatisfied(e, s.reached) THEN Visit(s, e)
                ELSE [s EXCEPT !.pending = Append(@, e)],
             [st EXCEPT !.pending = <<>>], st.pending)

-----------------------------------------------------------------------------
\* nodes in some order
AsSequence(S) == FoldSet(LAMBDA x, seq : Append(seq, x), <<>>, S)

StartNodes(w) == {SegmentNode(s) : s \in w.segments}

TraversalInit ==
    /\ walk \in Walk
    /\ phase = 1
    /\ next = AsSequence(StartNodes(walk))
    /\ visited = StartNodes(walk)
    /\ reached = InitFontNodes(walk.info) \cup StartNodes(walk)
    /\ todo = {}
    /\ pending = <<>>
    /\ full = {}
    /\ reported = {}

SetFrontier(st) == /\ next' = st.next
                   /\ visited' = st.visited
                   /\ reached' = st.reached
                   /\ full' = st.full
                   /\ pending' = st.pending

\* the next node, and all its edges that a filter does not exclude
TakeNext ==
    /\ phase # Finished
    /\ todo = {}
    /\ next # <<>>
    /\ todo' = HandleOutgoingEdges(info, InPhase(free, phase), Last(next))
    /\ next' = Front(next)
    /\ UNCHANGED <<walk, phase, visited, reached, pending, full, reported>>

Traverse(e) ==
    /\ todo' = todo \ {e}
    /\ SetFrontier(TraversePendingEdgeTo(Frontier, e))
    /\ UNCHANGED <<walk, phase, reported>>

RetryPending ==
    /\ phase # Finished
    /\ todo = {}
    /\ next = <<>>
    /\ CheckPending(Frontier).next # <<>>
    /\ SetFrontier(CheckPending(Frontier))
    /\ UNCHANGED <<walk, phase, todo, reported>>

(***************************************************************************)
(* The end of a phase.  Of the edges still put aside those are reported    *)
(* whose destination was not reached in another way.                       *)
(***************************************************************************)
EndPhase ==
    LET left  == CheckPending(Frontier)
        later == {p \in ClosurePhases(info.font) : p > phase}
        then  == IF later = {} THEN Finished ELSE Min(later)
        start == IF then = Finished THEN {} ELSE PhaseStart(left.full, then)
    IN  /\ phase # Finished
        /\ todo = {}
        /\ next = <<>>
        /\ left.next = <<>>
        /\ reported' = reported \cup
                          {e \in Range(left.pending) : e.dest \notin left.visited}
        /\ phase' = then
        /\ next' = AsSequence(start)
        /\ visited' = start
        /\ reached' = InitFontNodes(info) \cup start
        /\ pending' = <<>>
        /\ full' = left.full
        /\ UNCHANGED <<walk, todo>>

TraversalNext == \/ TakeNext
                 \/ \E e \in todo : Traverse(e)
                 \/ RetryPending
                 \/ EndPhase

-----------------------------------------------------------------------------
(***************************************************************************)
(* What a walk reaches is the closure: whatever the order of the edges, in *)
(* the end the glyphs reached and those of the initial font are the glyphs *)
(* that the segments need (the purpose of ClosureTraversal).               *)
(***************************************************************************)
TraversalIsClosure ==
    phase = Finished =>
        info.init.gids \cup Ids(full, "GLYPH")
            = Closure(info.font, CombinedDefinition(info, walk.segments))

(***************************************************************************)
(* No edge is forgotten on the way: an edge of a node that was handled was *)
(* followed, or is still to be, or was put aside (HandleOutgoingEdges and  *)
(* CheckPending, which erases from the list it goes through).              *)
(***************************************************************************)
NoEdgeForgotten ==
    phase # Finished =>
        \A n \in visited \ Range(next) :
            \A e \in HandleOutgoingEdges(info, InPhase(free, phase), n) :
                \/ e.dest \in visited
                \/ e \in todo \cup Range(pending)
                \/ ~CanReachCodepoints(e, reached)
=============================================================================
