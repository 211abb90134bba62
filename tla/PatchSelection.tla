--------------------------- MODULE PatchSelection ---------------------------
(***************************************************************************)
(* What a patch map is for: a client that wants to extend its font by a    *)
(* subset definition is told which patches to load.  The conditions are    *)
(* entered one after the other, and each selects its patch for exactly the *)
(* definitions which intersect enough of the segments (the comment of      *)
(* SubsetDefinition in ift/encoder/subset_definition.h).                   *)
(***************************************************************************)
EXTENDS ActivationConditions, SubsetDefinition, Sequences

CONSTANTS Input,              \* the requests: [segments, conditions]
          Client              \* the definitions a client may ask for

VARIABLES request,
          added,              \* the number of conditions entered
          selected            \* <<d, i>>: patch i is selected for d
vars == <<request, added, selected>>

Triggered(d) == {s \in Segment : Intersects(d, request.segments[s])}

Init == /\ request \in Input
        /\ added = 0
        /\ selected = {}

Add == /\ added < Len(request.conditions)
       /\ added' = added + 1
       /\ selected' = selected \cup
             {<<d, added'>> : d \in {c \in Client :
                 HoldsFor(request.conditions[added'], Triggered(c))}}
       /\ UNCHANGED request

Spec == Init /\ [][Add]_vars
=============================================================================
