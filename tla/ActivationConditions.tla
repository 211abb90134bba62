------------------------ MODULE ActivationConditions ------------------------
(***************************************************************************)
(* Activation conditions (ift/encoder/activation_condition.{h,cc}): when   *)
(* is a glyph, and then a patch, needed?  A condition is a conjunction of  *)
(* groups, each a disjunction of segments:                                 *)
(*                                                                         *)
(*      (s_1_1 OR s_1_2 OR ...) AND (s_2_1 OR ...) AND ...                 *)
(*                                                                         *)
(* The code keeps the groups in a vector which every constructor leaves    *)
(* sorted and free of duplicates: here it is the set of the groups.  Only  *)
(* the activated patch, the encoding and the fallback flag are left out:   *)
(* no operation below looks at them, each copies them from its argument.   *)
(***************************************************************************)
EXTENDS Naturals, FiniteSets

CONSTANT Segment              \* the segment indices

ASSUME SegmentAssumption == /\ Segment \subseteq Nat
                            /\ IsFiniteSet(Segment)

Group == SUBSET Segment
Condition == [groups : SUBSET Group, exclusive : BOOLEAN]

(***************************************************************************)
(* What a condition means: it is active for a set of loaded segments that  *)
(* meets every group (activation_condition.h, conditions()).               *)
(***************************************************************************)
HoldsFor(groups, loaded) == \A g \in groups : g \cap loaded # {}
Holds(c, loaded) == HoldsFor(c.groups, loaded)

-----------------------------------------------------------------------------
(***************************************************************************)
(* The constructors and the predicates of the class.                       *)
(***************************************************************************)
True == [groups |-> {}, exclusive |-> FALSE]
ExclusiveSegment(s) == [groups |-> {{s}}, exclusive |-> TRUE]
AndSegments(ss) == [groups |-> {{s} : s \in ss}, exclusive |-> FALSE]
OrSegments(ss) == [groups |-> {ss}, exclusive |-> FALSE]

IsAlwaysTrue(c) == c.groups = {}
IsExclusive(c) == c.exclusive
IsUnitary(c) == \E s \in UNION c.groups : c.groups = {{s}}
IsPurelyDisjunctive(c) == \E g \in c.groups : c.groups = {g}
IsPurelyConjunctive(c) ==
    /\ \E g, h \in c.groups : g # h
    /\ \A g \in c.groups : \A s, t \in g : s = t
TriggeringSegments(c) == UNION c.groups

(***************************************************************************)
(* Simplify drops every group that contains another one.                   *)
(***************************************************************************)
Simplify(groups) == {g \in groups : \A h \in groups : h \subseteq g => h = g}
IsSimplified(c) == Simplify(c.groups) = c.groups

CompositeCondition(groups) ==
    [groups |-> Simplify(groups), exclusive |-> FALSE]

(***************************************************************************)
(* a AND b.  The result is exclusive only when it is one segment and both  *)
(* arguments were exclusive (or always true).                              *)
(* Mutation: the result need not be one segment.                           *)
(***************************************************************************)
AndExclusiveOfBoth(a, b) ==
    [CompositeCondition(a.groups \cup b.groups) EXCEPT
       !.exclusive = /\ IsExclusive(a) \/ IsAlwaysTrue(a)
                     /\ IsExclusive(b) \/ IsAlwaysTrue(b)]

And(a, b) ==
    LET c == CompositeCondition(a.groups \cup b.groups)
    IN  [c EXCEPT !.exclusive = /\ IsExclusive(a) \/ IsAlwaysTrue(a)
                                /\ IsExclusive(b) \/ IsAlwaysTrue(b)
                                /\ IsUnitary(c)]

(***************************************************************************)
(* a OR b: the groups that a and b share, and the cross product of the     *)
(* rest.  When one side has nothing of its own the code returns the shared *)
(* groups as they are, without a call to Simplify.                         *)
(* Mutation: the shared groups are forgotten beside the cross product.     *)
(***************************************************************************)
CrossProduct(as, bs) == {pair[1] \cup pair[2] : pair \in as \X bs}

OrGroupsDropShared(as, bs) ==
    IF as \ bs = {} \/ bs \ as = {}
    THEN as \cap bs
    ELSE Simplify(CrossProduct(as \ bs, bs \ as))

OrGroups(as, bs) ==
    LET shared == as \cap bs
    IN  IF as \ bs = {} \/ bs \ as = {}
        THEN shared
        ELSE Simplify(shared \cup CrossProduct(as \ bs, bs \ as))

Or(a, b) == [groups |-> OrGroups(a.groups, b.groups), exclusive |-> FALSE]

(***************************************************************************)
(* The condition after the segments of ss were merged into base.  A purely *)
(* conjunctive condition takes a path of its own, which does not simplify  *)
(* and which makes the result exclusive when one group is left.            *)
(***************************************************************************)
ReplaceInGroup(g, base, ss) ==
    IF g \cap ss = {} THEN g ELSE (g \ ss) \cup {base}

ReplaceSegments(c, base, ss) ==
    IF IsPurelyConjunctive(c)
    THEN LET kept == {g \in c.groups : g \cap ss = {}}
             all  == IF kept = c.groups THEN kept ELSE kept \cup {{base}}
         IN  [groups    |-> all,
              exclusive |-> IsExclusive(c) \/ Cardinality(all) = 1]
    ELSE [groups    |-> Simplify({ReplaceInGroup(g, base, ss) : g \in c.groups}),
          exclusive |-> c.exclusive]

RemoveIntersectingSubgroups(c, ss) ==
    [c EXCEPT !.groups = {g \in @ : g \cap ss = {}}]

(***************************************************************************)
(* A weaker condition with either a single group or only groups of one     *)
(* segment: the groups of one segment when there are any, otherwise the    *)
(* group whose smallest segment is the largest, the smaller group on a tie *)
(* (groups of the same minimum and size are taken in the vector's order,   *)
(* which nothing here depends on).                                         *)
(* Mutation: each group is cut down to its most probable segment.          *)
(***************************************************************************)
Least(g) == CHOOSE s \in g : \A t \in g : s <= t

Preferred(g, h) == \/ Least(g) > Least(h)
                   \/ Least(g) = Least(h) /\ Cardinality(g) <= Cardinality(h)

NonCompositeCutGroups(c) ==
    [c EXCEPT !.groups = {{Least(g)} : g \in c.groups \ {{}}}]

NonCompositeSuperset(c) ==
    LET single == {g \in c.groups : \E s \in g : g = {s}}
        wide   == c.groups \ (single \cup {{}})
    IN  IF IsPurelyConjunctive(c) \/ IsPurelyDisjunctive(c) \/ IsAlwaysTrue(c)
        THEN c
        ELSE IF single # {}
        THEN [groups    |-> single,
              exclusive |-> c.exclusive \/ Cardinality(single) = 1]
        ELSE IF wide = {}
        THEN [c EXCEPT !.groups = {}]
        ELSE [c EXCEPT !.groups =
                 {CHOOSE g \in wide : \A h \in wide : Preferred(g, h)}]
=============================================================================
