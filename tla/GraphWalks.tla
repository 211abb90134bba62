----------------------------- MODULE GraphWalks -----------------------------
(***************************************************************************)
(* The two walks of the dependency graph, one of which is under way: a     *)
(* traversal (GraphTraversal) or the search for components                 *)
(* (StronglyConnected).  DependencyGraph works on one thread and keeps no  *)
(* state between calls, so a walk that began is carried on until its end.  *)
(***************************************************************************)
EXTENDS GraphTraversal, StronglyConnected

VARIABLE kind

vars == <<kind, traversal_vars, scc_vars>>

Init == /\ \/ kind = "components" /\ walk = CHOOSE w \in Walk : TRUE
           \/ kind = "traversal" /\ successors = CHOOSE g \in Graph : TRUE
        /\ TraversalInit
        /\ SccInit

Next == \/ kind = "traversal" /\ TraversalNext /\ UNCHANGED <<kind, scc_vars>>
        \/ kind = "components" /\ SccNext /\ UNCHANGED <<kind, traversal_vars>>

Spec == Init /\ [][Next]_vars /\ WF_vars(Next)

(***************************************************************************)
(* Every walk ends: a node is put into next at most once per phase, the    *)
(* edges put aside are looked at again only after a node was found, and    *)
(* the recursion goes down once per node.                                  *)
(***************************************************************************)
Terminates ==
    <>(IF kind = "traversal" THEN phase = Finished ELSE SccDone)
=============================================================================
