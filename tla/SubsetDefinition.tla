-------------------------- MODULE SubsetDefinition --------------------------
(***************************************************************************)
(* Subset definitions (ift/encoder/subset_definition.h): codepoints,       *)
(* features and ranges on the axes of the design space.  A definition is   *)
(* what a segment stands for, and also what a client asks for.  Glyph ids  *)
(* are left out: no condition of a patch map names them.                   *)
(***************************************************************************)
EXTENDS Naturals, FiniteSets

CONSTANTS Codepoint, Feature, Axis,
          Position            \* the positions on an axis

ASSUME PositionAssumption == Position \subseteq Nat

AxisRange == {r \in Position \X Position : r[1] <= r[2]}
DesignSpace == UNION {[axes -> AxisRange] : axes \in SUBSET Axis}
Definition == [codepoints : SUBSET Codepoint, features : SUBSET Feature,
               design_space : DesignSpace]

Nothing == [codepoints |-> {}, features |-> {}, design_space |-> [x \in {} |-> x]]
Field == DOMAIN Nothing

\* the fields of definition d which say something
NonEmpty(d) == {f \in Field : d[f] # Nothing[f]}

\* the part of d in one field
Only(d, f) == [Nothing EXCEPT ![f] = d[f]]

RangesIntersect(a, b) == a[1] <= b[2] /\ b[1] <= a[2]

FieldIntersects(d, e, f) ==
    IF f = "design_space"
    THEN \E x \in DOMAIN d.design_space \cap DOMAIN e.design_space :
             RangesIntersect(d.design_space[x], e.design_space[x])
    ELSE d[f] \cap e[f] # {}

\* a target that asks for d and a condition on the segment e
Intersects(d, e) == \E f \in Field : FieldIntersects(d, e, f)

(***************************************************************************)
(* The union of two definitions (SubsetDefinition::Union): ranges on one   *)
(* axis become the smallest range that contains both.  The entry graph     *)
(* asks for a union only when the ranges leave no gap (UnionAxisRanges in  *)
(* ift/encoder/entry_graph.cc).                                            *)
(***************************************************************************)
Contiguous(d, e) ==
    \A x \in DOMAIN d.design_space \cap DOMAIN e.design_space :
        RangesIntersect(d.design_space[x], e.design_space[x])

Hull(a, b) == <<IF a[1] <= b[1] THEN a[1] ELSE b[1],
                IF a[2] >= b[2] THEN a[2] ELSE b[2]>>

UnionOf(d, e) ==
    LET a == d.design_space
        b == e.design_space
    IN  [codepoints   |-> d.codepoints \cup e.codepoints,
         features     |-> d.features \cup e.features,
         design_space |->
             [x \in DOMAIN a \cup DOMAIN b |->
                 IF x \notin DOMAIN b THEN a[x]
                 ELSE IF x \notin DOMAIN a THEN b[x]
                 ELSE Hull(a[x], b[x])]]

(***************************************************************************)
(* What is left of d without e (SubsetDefinition::Subtract).  A range has  *)
(* to stay one closed range: what is cut off leaves its end point behind,  *)
(* and nothing is cut out of the middle.                                   *)
(***************************************************************************)
Cut(a, b) == IF a[1] < b[1] THEN <<a[1], b[1]>> ELSE <<b[2], a[2]>>

Covers(b, a) == b[1] <= a[1] /\ a[2] <= b[2]

WithoutRange(a, b) ==
    IF ~RangesIntersect(a, b) \/ (a[1] < b[1] /\ b[2] < a[2]) THEN a ELSE Cut(a, b)

Subtract(d, e) ==
    LET a == d.design_space
        b == e.design_space
        covered == {x \in DOMAIN a \cap DOMAIN b : Covers(b[x], a[x])}
    IN  [codepoints   |-> d.codepoints \ e.codepoints,
         features     |-> d.features \ e.features,
         design_space |->
             [x \in DOMAIN a \ covered |->
                 IF x \in DOMAIN b THEN WithoutRange(a[x], b[x]) ELSE a[x]]]

\* whether e has all that d has
Includes(e, d) ==
    /\ d.codepoints \subseteq e.codepoints
    /\ d.features \subseteq e.features
    /\ \A x \in DOMAIN d.design_space :
          x \in DOMAIN e.design_space /\ Covers(e.design_space[x], d.design_space[x])
=============================================================================
