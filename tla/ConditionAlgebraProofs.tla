----------------------- MODULE ConditionAlgebraProofs -----------------------
(***************************************************************************)
(* Proofs about ActivationConditions and ConditionAlgebra: each operation  *)
(* on conditions means what it should, for every set of segments, and so   *)
(* the groups of a condition say exactly what it is meant to say after any *)
(* sequence of operations.                                                 *)
(***************************************************************************)
EXTENDS ConditionAlgebra, FiniteSetTheorems, WellFoundedInduction, TLAPS

(***************************************************************************)
(* Every group contains one which Simplify keeps: strict inclusion is well *)
(* founded on the subsets of a finite set.                                 *)
(***************************************************************************)
LEMMA MinimalGroup ==
  ASSUME NEW gs \in SUBSET Group, NEW g \in gs
  PROVE  \E h \in Simplify(gs) : h \subseteq g
<1> DEFINE below == {h \in gs : h \subseteq g}
           R == StrictSubsetOrdering(Segment)
<1>1. IsWellFoundedOn(R, SUBSET Segment)
  BY FS_StrictSubsetOrderingWellFounded, FS_FiniteSubsetsOfFinite, SegmentAssumption
<1>2. below \subseteq SUBSET Segment /\ below # {}
  BY DEF Group
<1>3. PICK m \in below : \A y \in below : ~(<<y, m>> \in R)
  <2> HIDE DEF below, R
  <2> QED BY <1>1, <1>2, WFMin
<1>4. ASSUME NEW h \in gs, h \subseteq m PROVE h = m
  <2>1. h \in below
    BY <1>4
  <2>2. h \in SUBSET Segment /\ m \in SUBSET Segment
    BY DEF Group
  <2>3. ~(<<h, m>> \in R)
    BY <1>3, <2>1
  <2>4. <<h, m>> \in (SUBSET Segment) \X (SUBSET Segment)
    BY <2>2
  <2> QED BY <1>4, <2>3, <2>4 DEF StrictSubsetOrdering
<1> QED BY <1>4 DEF Simplify

(***************************************************************************)
(* Simplify never changes when a condition holds.                          *)
(***************************************************************************)
LEMMA SimplifyMeaning ==
  ASSUME NEW gs \in SUBSET Group, NEW l
  PROVE  HoldsFor(Simplify(gs), l) <=> HoldsFor(gs, l)
<1>1. HoldsFor(gs, l) => HoldsFor(Simplify(gs), l)
  BY DEF HoldsFor, Simplify
<1>2. ASSUME HoldsFor(Simplify(gs), l) PROVE HoldsFor(gs, l)
  <2> SUFFICES ASSUME NEW g \in gs PROVE g \cap l # {}
    BY DEF HoldsFor
  <2>1. PICK h \in Simplify(gs) : h \subseteq g
    BY MinimalGroup
  <2> QED BY <1>2, <2>1 DEF HoldsFor
<1> QED BY <1>1, <1>2

(***************************************************************************)
(* And activates exactly when both conditions do.                          *)
(***************************************************************************)
THEOREM AndMeaning ==
  ASSUME NEW a \in Condition, NEW b \in Condition, NEW l
  PROVE  Holds(And(a, b), l) <=> Holds(a, l) /\ Holds(b, l)
<1>1. And(a, b).groups = Simplify(a.groups \cup b.groups)
  BY DEF And, CompositeCondition
<1>2. a.groups \cup b.groups \in SUBSET Group
  BY DEF Condition
<1>3. HoldsFor(a.groups \cup b.groups, l) <=> Holds(a, l) /\ Holds(b, l)
  BY DEF HoldsFor, Holds
<1> QED BY <1>1, <1>2, <1>3, SimplifyMeaning DEF Holds

(***************************************************************************)
(* Or activates exactly when one of the conditions does, also when it      *)
(* returns early with the shared groups.                                   *)
(***************************************************************************)
LEMMA CrossProductMeaning ==
  ASSUME NEW as \in SUBSET Group, NEW bs \in SUBSET Group, NEW l
  PROVE  HoldsFor(CrossProduct(as, bs), l) <=> HoldsFor(as, l) \/ HoldsFor(bs, l)
<1>1. ASSUME HoldsFor(as, l) \/ HoldsFor(bs, l)
      PROVE  HoldsFor(CrossProduct(as, bs), l)
  <2> SUFFICES ASSUME NEW p \in as \X bs PROVE (p[1] \cup p[2]) \cap l # {}
    BY DEF HoldsFor, CrossProduct
  <2>1. p[1] \in as /\ p[2] \in bs
    OBVIOUS
  <2> QED BY <1>1, <2>1 DEF HoldsFor
<1>2. ASSUME ~HoldsFor(as, l), ~HoldsFor(bs, l)
      PROVE  ~HoldsFor(CrossProduct(as, bs), l)
  <2>1. PICK g \in as : g \cap l = {}
    BY <1>2 DEF HoldsFor
  <2>2. PICK h \in bs : h \cap l = {}
    BY <1>2 DEF HoldsFor
  <2>3. <<g, h>> \in as \X bs
    OBVIOUS
  <2>4. <<g, h>>[1] \cup <<g, h>>[2] = g \cup h
    OBVIOUS
  <2>5. g \cup h \in CrossProduct(as, bs)
    BY <2>3, <2>4 DEF CrossProduct
  <2>6. (g \cup h) \cap l = {}
    BY <2>1, <2>2
  <2> QED BY <2>5, <2>6 DEF HoldsFor
<1> QED BY <1>1, <1>2

LEMMA CrossProductType ==
  ASSUME NEW as \in SUBSET Group, NEW bs \in SUBSET Group
  PROVE  CrossProduct(as, bs) \in SUBSET Group
<1> SUFFICES ASSUME NEW p \in as \X bs PROVE p[1] \cup p[2] \in Group
  BY DEF CrossProduct
<1>1. p[1] \in as /\ p[2] \in bs
  OBVIOUS
<1> QED BY <1>1 DEF Group

LEMMA OrGroupsMeaning ==
  ASSUME NEW as \in SUBSET Group, NEW bs \in SUBSET Group, NEW l
  PROVE  HoldsFor(OrGroups(as, bs), l) <=> HoldsFor(as, l) \/ HoldsFor(bs, l)
<1> DEFINE shared == as \cap bs
           own == CrossProduct(as \ bs, bs \ as)
<1>1. CASE as \ bs = {} \/ bs \ as = {}
  <2>1. OrGroups(as, bs) = shared
    BY <1>1 DEF OrGroups
  <2>2. HoldsFor(as, l) \/ HoldsFor(bs, l) => HoldsFor(shared, l)
    BY DEF HoldsFor
  <2>3. shared = as \/ shared = bs
    BY <1>1
  <2> QED BY <2>1, <2>2, <2>3
<1>2. CASE ~(as \ bs = {} \/ bs \ as = {})
  <2>1. OrGroups(as, bs) = Simplify(shared \cup own)
    BY <1>2 DEF OrGroups
  <2>2. as \ bs \in SUBSET Group /\ bs \ as \in SUBSET Group
    OBVIOUS
  <2>3. own \in SUBSET Group
    BY <2>2, CrossProductType
  <2>4. shared \cup own \in SUBSET Group
    BY <2>3
  <2>5. HoldsFor(own, l) <=> HoldsFor(as \ bs, l) \/ HoldsFor(bs \ as, l)
    BY <2>2, CrossProductMeaning
  <2>6. HoldsFor(OrGroups(as, bs), l) <=> HoldsFor(shared \cup own, l)
    <3> HIDE DEF shared, own
    <3>1. HoldsFor(Simplify(shared \cup own), l) <=> HoldsFor(shared \cup own, l)
      BY <2>4, SimplifyMeaning
    <3> QED BY <2>1, <3>1
  <2>7. HoldsFor(shared \cup own, l) <=> HoldsFor(shared, l) /\ HoldsFor(own, l)
    BY DEF HoldsFor
  <2>8. HoldsFor(as, l) <=> HoldsFor(shared, l) /\ HoldsFor(as \ bs, l)
    BY DEF HoldsFor
  <2>9. HoldsFor(bs, l) <=> HoldsFor(shared, l) /\ HoldsFor(bs \ as, l)
    BY DEF HoldsFor
  <2> QED BY <2>5, <2>6, <2>7, <2>8, <2>9
<1> QED BY <1>1, <1>2

(***************************************************************************)
(* Or (activation_condition.cc) holds exactly when one of the two holds.   *)
(***************************************************************************)
THEOREM OrMeaning ==
  ASSUME NEW a \in Condition, NEW b \in Condition, NEW l
  PROVE  Holds(Or(a, b), l) <=> Holds(a, l) \/ Holds(b, l)
<1>1. a.groups \in SUBSET Group /\ b.groups \in SUBSET Group
  BY DEF Condition
<1>2. Or(a, b).groups = OrGroups(a.groups, b.groups)
  BY DEF Or
<1> QED BY <1>1, <1>2, OrGroupsMeaning DEF Holds

(***************************************************************************)
(* ReplaceSegments: the new condition holds for a load when the old one    *)
(* does for the segments which that load stands for after the merge, both  *)
(* on the conjunctive path and on the general one.                         *)
(***************************************************************************)
LEMMA ReplaceInGroupMeaning ==
  ASSUME NEW g, NEW base, NEW ss, NEW l
  PROVE  ReplaceInGroup(g, base, ss) \cap l # {}
            <=> g \cap AsMerged(l, base, ss) # {}
<1>1. CASE g \cap ss = {}
  BY <1>1 DEF ReplaceInGroup, AsMerged
<1>2. CASE g \cap ss # {}
  BY <1>2 DEF ReplaceInGroup, AsMerged
<1> QED BY <1>1, <1>2

(***************************************************************************)
(* ReplaceSegments (activation_condition.cc): the condition then holds when*)
(* it held with all merged segments loaded in place of the base.           *)
(***************************************************************************)
THEOREM ReplaceMeaning ==
  ASSUME NEW c \in Condition, NEW base \in Segment, NEW ss \in SUBSET Segment, NEW l
  PROVE  Holds(ReplaceSegments(c, base, ss), l)
            <=> Holds(c, AsMerged(l, base, ss))
<1> DEFINE merged == AsMerged(l, base, ss)
           new == {ReplaceInGroup(g, base, ss) : g \in c.groups}
<1>1. HoldsFor(new, l) <=> Holds(c, merged)
  BY ReplaceInGroupMeaning DEF HoldsFor, Holds
<1>2. CASE IsPurelyConjunctive(c)
  <2> DEFINE kept == {g \in c.groups : g \cap ss = {}}
             all == IF kept = c.groups THEN kept ELSE kept \cup {{base}}
  <2>1. ReplaceSegments(c, base, ss).groups = all
    BY <1>2 DEF ReplaceSegments
  <2>2. ASSUME NEW g \in c.groups, g \cap ss # {}
        PROVE  ReplaceInGroup(g, base, ss) = {base}
    BY <1>2, <2>2 DEF IsPurelyConjunctive, ReplaceInGroup
  <2>3. ASSUME NEW g \in c.groups, g \cap ss = {}
        PROVE  ReplaceInGroup(g, base, ss) = g
    BY <2>3 DEF ReplaceInGroup
  <2>4. all = new
    <3>1. ASSUME NEW x \in all PROVE x \in new
      BY <2>2, <2>3
    <3>2. ASSUME NEW x \in new PROVE x \in all
      BY <2>2, <2>3
    <3> QED BY <3>1, <3>2
  <2> QED BY <1>1, <2>1, <2>4 DEF Holds
<1>3. CASE ~IsPurelyConjunctive(c)
  <2>1. ReplaceSegments(c, base, ss).groups = Simplify(new)
    BY <1>3 DEF ReplaceSegments
  <2>2. new \in SUBSET Group
    BY DEF ReplaceInGroup, Group, Condition
  <2> QED BY <1>1, <2>1, <2>2, SimplifyMeaning DEF Holds
<1> QED BY <1>2, <1>3

(***************************************************************************)
(* RemoveIntersectingSubgroups is the condition with ss always loaded.     *)
(***************************************************************************)
THEOREM RemoveMeaning ==
  ASSUME NEW c \in Condition, NEW ss, NEW l
  PROVE  Holds(RemoveIntersectingSubgroups(c, ss), l) <=> Holds(c, l \cup ss)
<1>1. RemoveIntersectingSubgroups(c, ss).groups = {g \in c.groups : g \cap ss = {}}
  BY DEF RemoveIntersectingSubgroups, Condition
<1>2. ASSUME NEW g \in c.groups
      PROVE  g \cap (l \cup ss) # {} <=> (g \cap ss = {} => g \cap l # {})
  OBVIOUS
<1> QED BY <1>1, <1>2 DEF Holds, HoldsFor

(***************************************************************************)
(* The most preferred of the wide groups exists, so NonCompositeSuperset   *)
(* keeps a group of the condition.                                         *)
(***************************************************************************)
LEMMA LeastInGroup ==
  ASSUME NEW g \in Group, g # {}
  PROVE  Least(g) \in Nat
<1>1. g \subseteq Nat
  BY SegmentAssumption DEF Group
<1>2. PICK s \in g : \A t \in g : ~(<<t, s>> \in OpToRel(<, Nat))
  BY <1>1, NatLessThanWellFounded, WFMin
<1>3. \A t \in g : s <= t
  <2> SUFFICES ASSUME NEW t \in g PROVE s <= t
    OBVIOUS
  <2>1. s \in Nat /\ t \in Nat
    BY <1>1
  <2>2. ~(t < s)
    BY <1>2, <2>1 DEF OpToRel
  <2> QED BY <2>1, <2>2
<1>4. Least(g) \in g
  BY <1>3 DEF Least
<1> QED BY <1>1, <1>4

LEMMA PreferredExists ==
  ASSUME NEW wide \in SUBSET Group, wide # {}, {} \notin wide
  PROVE  \E g \in wide : \A h \in wide : Preferred(g, h)
<1> DEFINE better(g) == {h \in wide : ~Preferred(g, h)}
           R == StrictSubsetOrdering(Group)
           family == {better(g) : g \in wide}
<1>1. ASSUME NEW g \in wide
      PROVE  Least(g) \in Nat /\ Cardinality(g) \in Nat
  <2>1. g \in Group /\ g # {}
    OBVIOUS
  <2>2. IsFiniteSet(g)
    BY <2>1, SegmentAssumption, FS_Subset DEF Group
  <2> QED BY <2>1, <2>2, LeastInGroup, FS_CardinalityType
<1>2. ASSUME NEW g \in wide, NEW h \in wide, ~Preferred(g, h)
      PROVE  better(h) \subseteq better(g) /\ better(h) # better(g)
  <2>1. h \in better(g)
    BY <1>2
  <2>2. h \notin better(h)
    BY <1>1 DEF Preferred
  <2>3. ASSUME NEW k \in better(h) PROVE k \in better(g)
    <3>1. k \in wide /\ ~Preferred(h, k)
      BY <2>3
    <3>2. /\ Least(g) \in Nat /\ Least(h) \in Nat /\ Least(k) \in Nat
          /\ Cardinality(g) \in Nat /\ Cardinality(h) \in Nat /\ Cardinality(k) \in Nat
      BY <1>1, <3>1
    <3>3. ~Preferred(g, k)
      BY <1>2, <3>1, <3>2 DEF Preferred
    <3> QED BY <3>1, <3>3
  <2> QED BY <2>1, <2>2, <2>3
<1>3. IsWellFoundedOn(R, SUBSET Group)
  <2>1. IsFiniteSet(Group)
    BY FS_SUBSET, SegmentAssumption DEF Group
  <2> QED BY <2>1, FS_StrictSubsetOrderingWellFounded, FS_FiniteSubsetsOfFinite
<1>4. family \subseteq SUBSET Group /\ family # {}
  OBVIOUS
<1>5. PICK m \in family : \A y \in family : ~(<<y, m>> \in R)
  <2> HIDE DEF family, R
  <2> QED BY <1>3, <1>4, WFMin
<1>6. PICK g \in wide : m = better(g)
  OBVIOUS
<1>7. ASSUME NEW h \in wide PROVE Preferred(g, h)
  <2> SUFFICES ASSUME ~Preferred(g, h) PROVE FALSE
    OBVIOUS
  <2>1. better(h) \subseteq better(g) /\ better(h) # better(g)
    BY <1>2
  <2>2. <<better(h), better(g)>> \in R
    BY <2>1 DEF StrictSubsetOrdering
  <2>3. better(h) \in family
    OBVIOUS
  <2> QED BY <1>5, <1>6, <2>2, <2>3
<1> QED BY <1>7

LEMMA NonCompositeGroups ==
  ASSUME NEW c \in Condition
  PROVE  NonCompositeSuperset(c).groups \subseteq c.groups
<1> DEFINE single == {g \in c.groups : \E s \in g : g = {s}}
           wide == c.groups \ (single \cup {{}})
<1>1. CASE IsPurelyConjunctive(c) \/ IsPurelyDisjunctive(c) \/ IsAlwaysTrue(c)
  BY <1>1 DEF NonCompositeSuperset
<1>2. CASE ~(IsPurelyConjunctive(c) \/ IsPurelyDisjunctive(c) \/ IsAlwaysTrue(c))
  <2>1. CASE single # {}
    BY <1>2, <2>1 DEF NonCompositeSuperset
  <2>2. CASE single = {} /\ wide = {}
    <3>1. NonCompositeSuperset(c) = [c EXCEPT !.groups = {}]
      BY <1>2, <2>2 DEF NonCompositeSuperset
    <3> QED BY <3>1 DEF Condition
  <2>3. CASE single = {} /\ wide # {}
    <3> DEFINE keep == CHOOSE g \in wide : \A h \in wide : Preferred(g, h)
    <3>1. wide \in SUBSET Group /\ {} \notin wide
      BY DEF Condition
    <3>2. \E g \in wide : \A h \in wide : Preferred(g, h)
      <4> HIDE DEF wide
      <4> QED BY <2>3, <3>1, PreferredExists
    <3>3. keep \in wide
      BY <3>2
    <3>4. NonCompositeSuperset(c) = [c EXCEPT !.groups = {keep}]
      BY <1>2, <2>3 DEF NonCompositeSuperset
    <3>5. NonCompositeSuperset(c).groups = {keep}
      <4> HIDE DEF keep
      <4> QED BY <3>4 DEF Condition
    <3> QED BY <3>3, <3>5
  <2> QED BY <2>1, <2>2, <2>3
<1> QED BY <1>1, <1>2

(***************************************************************************)
(* NonCompositeSuperset activates at least whenever the condition does, as *)
(* its comment in activation_condition.h promises.                         *)
(***************************************************************************)
THEOREM NonCompositeMeaning ==
  ASSUME NEW c \in Condition, NEW l, Holds(c, l)
  PROVE  Holds(NonCompositeSuperset(c), l)
BY NonCompositeGroups DEF Holds, HoldsFor

-----------------------------------------------------------------------------
(***************************************************************************)
(* Every operation on conditions returns a condition.                      *)
(***************************************************************************)
LEMMA SimplifyType ==
  ASSUME NEW gs \in SUBSET Group
  PROVE  Simplify(gs) \in SUBSET Group
BY DEF Simplify

LEMMA AndType ==
  ASSUME NEW a \in Condition, NEW b \in Condition
  PROVE  And(a, b) \in Condition
<1>1. a.groups \cup b.groups \in SUBSET Group
  BY DEF Condition
<1>2. Simplify(a.groups \cup b.groups) \in SUBSET Group
  BY <1>1, SimplifyType
<1> QED BY <1>2 DEF And, CompositeCondition, Condition, IsExclusive, IsAlwaysTrue, IsUnitary

LEMMA OrType ==
  ASSUME NEW a \in Condition, NEW b \in Condition
  PROVE  Or(a, b) \in Condition
<1> DEFINE own == CrossProduct(a.groups \ b.groups, b.groups \ a.groups)
<1>1. a.groups \in SUBSET Group /\ b.groups \in SUBSET Group
  BY DEF Condition
<1>2. own \in SUBSET Group
  BY <1>1, CrossProductType
<1>3. Simplify((a.groups \cap b.groups) \cup own) \in SUBSET Group
  BY <1>1, <1>2, SimplifyType
<1>4. OrGroups(a.groups, b.groups) \in SUBSET Group
  BY <1>1, <1>3 DEF OrGroups
<1> QED BY <1>4 DEF Or, Condition

LEMMA ReplaceType ==
  ASSUME NEW a \in Condition, NEW base \in Segment, NEW ss \in SUBSET Segment
  PROVE  ReplaceSegments(a, base, ss) \in Condition
<1>1. a.groups \in SUBSET Group
  BY DEF Condition
<1>2. {ReplaceInGroup(g, base, ss) : g \in a.groups} \in SUBSET Group
  BY <1>1 DEF ReplaceInGroup, Group
<1>3. Simplify({ReplaceInGroup(g, base, ss) : g \in a.groups}) \in SUBSET Group
  BY <1>2, SimplifyType
<1>4. {base} \in Group
  BY DEF Group
<1> QED BY <1>1, <1>3, <1>4 DEF ReplaceSegments, IsExclusive, Condition

LEMMA RemoveType ==
  ASSUME NEW a \in Condition, NEW ss
  PROVE  RemoveIntersectingSubgroups(a, ss) \in Condition
BY DEF RemoveIntersectingSubgroups, Condition

LEMMA NonCompositeType ==
  ASSUME NEW a \in Condition
  PROVE  NonCompositeSuperset(a) \in Condition
<1>1. NonCompositeSuperset(a).groups \in SUBSET Group
  BY NonCompositeGroups DEF Condition
<1>2. /\ NonCompositeSuperset(a).exclusive \in BOOLEAN
      /\ NonCompositeSuperset(a) =
           [groups    |-> NonCompositeSuperset(a).groups,
            exclusive |-> NonCompositeSuperset(a).exclusive]
  BY DEF NonCompositeSuperset, Condition
<1> QED BY <1>1, <1>2 DEF Condition

(***************************************************************************)
(* Type correctness of ConditionAlgebra.                                   *)
(***************************************************************************)
THEOREM TypeCorrect == AlgebraSpec => []AlgebraTypeOK
<1>1. AlgebraInit => AlgebraTypeOK
  BY DEF AlgebraInit, AlgebraTypeOK, True, Condition
<1>2. AlgebraTypeOK /\ [AlgebraNext]_algebra_vars => AlgebraTypeOK'
  <2> SUFFICES ASSUME AlgebraTypeOK, [AlgebraNext]_algebra_vars PROVE AlgebraTypeOK'
    OBVIOUS
  <2> USE DEF AlgebraTypeOK
  <2>1. ASSUME NEW c \in Operand, Conjoin(c) PROVE AlgebraTypeOK'
    <3>1. And(cond, c) \in Condition
      BY OperandAssumption, AndType
    <3> QED BY <2>1, <3>1 DEF Conjoin
  <2>2. ASSUME NEW c \in Operand, Disjoin(c) PROVE AlgebraTypeOK'
    <3>1. Or(cond, c) \in Condition
      BY OperandAssumption, OrType
    <3>2. MeaningOf(c) \in SUBSET Loaded
      BY DEF MeaningOf
    <3> QED BY <2>2, <3>1, <3>2 DEF Disjoin
  <2>3. ASSUME NEW base \in Segment, NEW ss \in SUBSET Segment, MergeSegments(base, ss)
        PROVE  AlgebraTypeOK'
    BY <2>3, ReplaceType DEF MergeSegments
  <2>4. ASSUME NEW ss \in SUBSET Segment, MoveToInit(ss) PROVE AlgebraTypeOK'
    BY <2>4, RemoveType DEF MoveToInit
  <2>5. ASSUME Weaken PROVE AlgebraTypeOK'
    BY <2>5, NonCompositeType DEF Weaken, MeaningOf
  <2>6. CASE UNCHANGED algebra_vars
    BY <2>6 DEF AlgebraTypeOK, algebra_vars
  <2> QED BY <2>1, <2>2, <2>3, <2>4, <2>5, <2>6 DEF AlgebraNext
<1> QED BY <1>1, <1>2, PTL DEF AlgebraSpec

(***************************************************************************)
(* After any sequence of operations the groups of the condition say        *)
(* exactly what the condition is meant to say.                             *)
(***************************************************************************)
THEOREM MeaningIsExact == AlgebraSpec => []MeaningExact
<1>1. AlgebraInit => MeaningExact
  BY DEF AlgebraInit, MeaningExact, True, Holds, HoldsFor
<1>2. AlgebraTypeOK /\ MeaningExact /\ [AlgebraNext]_algebra_vars => MeaningExact'
  <2> SUFFICES ASSUME AlgebraTypeOK, MeaningExact, [AlgebraNext]_algebra_vars, NEW l \in Loaded
               PROVE  (Holds(cond, l) <=> l \in meaning)'
    BY DEF MeaningExact, Loaded
  <2>1. ASSUME NEW c \in Operand, Conjoin(c) PROVE Holds(cond', l) <=> l \in meaning'
    BY <2>1, OperandAssumption, AndMeaning DEF AlgebraTypeOK, MeaningExact, Conjoin, MeaningOf
  <2>2. ASSUME NEW c \in Operand, Disjoin(c) PROVE Holds(cond', l) <=> l \in meaning'
    BY <2>2, OperandAssumption, OrMeaning DEF AlgebraTypeOK, MeaningExact, Disjoin, MeaningOf
  <2>3. ASSUME NEW base \in Segment, NEW ss \in SUBSET Segment, MergeSegments(base, ss)
        PROVE  Holds(cond', l) <=> l \in meaning'
    <3>1. AsMerged(l, base, ss) \in Loaded
      BY DEF AsMerged, Loaded
    <3>2. Holds(cond', l) <=> Holds(cond, AsMerged(l, base, ss))
      BY <2>3, ReplaceMeaning DEF AlgebraTypeOK, MergeSegments
    <3> QED BY <2>3, <3>1, <3>2 DEF MeaningExact, MergeSegments
  <2>4. ASSUME NEW ss \in SUBSET Segment, MoveToInit(ss)
        PROVE  Holds(cond', l) <=> l \in meaning'
    <3>1. l \cup ss \in Loaded
      BY DEF Loaded
    <3>2. Holds(cond', l) <=> Holds(cond, l \cup ss)
      BY <2>4, RemoveMeaning DEF AlgebraTypeOK, MoveToInit
    <3> QED BY <2>4, <3>1, <3>2 DEF MeaningExact, MoveToInit
  <2>5. ASSUME Weaken PROVE Holds(cond', l) <=> l \in meaning'
    BY <2>5 DEF Weaken, MeaningOf
  <2>6. CASE UNCHANGED algebra_vars
    BY <2>6 DEF algebra_vars, MeaningExact
  <2> QED BY <2>1, <2>2, <2>3, <2>4, <2>5, <2>6 DEF AlgebraNext
<1> QED BY <1>1, <1>2, TypeCorrect, PTL DEF AlgebraSpec

-----------------------------------------------------------------------------
(***************************************************************************)
(* No operation leaves a group beside one that contains it, also where it  *)
(* does not call Simplify.                                                 *)
(***************************************************************************)
LEMMA SimplifiedMeans ==
  ASSUME NEW gs
  PROVE  Simplify(gs) = gs <=> \A g, h \in gs : h \subseteq g => h = g
BY DEF Simplify

LEMMA SimplifyTwice ==
  ASSUME NEW gs
  PROVE  Simplify(Simplify(gs)) = Simplify(gs)
BY DEF Simplify

LEMMA PartIsSimplified ==
  ASSUME NEW gs, Simplify(gs) = gs, NEW part \in SUBSET gs
  PROVE  Simplify(part) = part
BY DEF Simplify

LEMMA SingletonsAreSimplified ==
  ASSUME NEW gs, \A g \in gs : \E s \in g : g = {s}
  PROVE  Simplify(gs) = gs
BY DEF Simplify

(***************************************************************************)
(* The constructors of conditions, And and Or.                             *)
(***************************************************************************)
LEMMA ConstructorsAreSimplified ==
  /\ IsSimplified(True)
  /\ \A s : IsSimplified(ExclusiveSegment(s))
  /\ \A ss : IsSimplified(AndSegments(ss)) /\ IsSimplified(OrSegments(ss))
  /\ \A gs : IsSimplified(CompositeCondition(gs))
<1>1. IsSimplified(True)
  BY DEF IsSimplified, Simplify, True
<1>2. ASSUME NEW s PROVE IsSimplified(ExclusiveSegment(s))
  BY SingletonsAreSimplified DEF IsSimplified, ExclusiveSegment
<1>3. ASSUME NEW ss PROVE IsSimplified(AndSegments(ss)) /\ IsSimplified(OrSegments(ss))
  <2>1. IsSimplified(AndSegments(ss))
    BY SingletonsAreSimplified DEF IsSimplified, AndSegments
  <2>2. IsSimplified(OrSegments(ss))
    BY DEF IsSimplified, OrSegments, Simplify
  <2> QED BY <2>1, <2>2
<1>4. ASSUME NEW gs PROVE IsSimplified(CompositeCondition(gs))
  BY SimplifyTwice DEF IsSimplified, CompositeCondition
<1> QED BY <1>1, <1>2, <1>3, <1>4

LEMMA AndIsSimplified ==
  ASSUME NEW a, NEW b
  PROVE  IsSimplified(And(a, b))
<1>1. And(a, b).groups = Simplify(a.groups \cup b.groups)
  BY DEF And, CompositeCondition
<1> QED BY <1>1, SimplifyTwice DEF IsSimplified

LEMMA OrIsSimplified ==
  ASSUME NEW a, NEW b, IsSimplified(a)
  PROVE  IsSimplified(Or(a, b))
<1> DEFINE shared == a.groups \cap b.groups
           own == CrossProduct(a.groups \ b.groups, b.groups \ a.groups)
<1>1. Or(a, b).groups = shared \/ Or(a, b).groups = Simplify(shared \cup own)
  BY DEF Or, OrGroups
<1>2. Simplify(shared) = shared
  BY PartIsSimplified DEF IsSimplified
<1>3. Simplify(Simplify(shared \cup own)) = Simplify(shared \cup own)
  BY SimplifyTwice
<1> QED BY <1>1, <1>2, <1>3 DEF IsSimplified

(***************************************************************************)
(* ReplaceSegments: on the conjunctive path every group is one segment,    *)
(* for an empty one would be contained in the others.                      *)
(***************************************************************************)
LEMMA ReplaceIsSimplified ==
  ASSUME NEW c, IsSimplified(c), NEW base, NEW ss
  PROVE  IsSimplified(ReplaceSegments(c, base, ss))
<1>1. CASE IsPurelyConjunctive(c)
  <2> DEFINE kept == {g \in c.groups : g \cap ss = {}}
             all == IF kept = c.groups THEN kept ELSE kept \cup {{base}}
  <2>1. ReplaceSegments(c, base, ss).groups = all
    BY <1>1 DEF ReplaceSegments
  <2>2. ASSUME NEW g \in c.groups PROVE \E s \in g : g = {s}
    <3>1. PICK h \in c.groups : h # g
      BY <1>1 DEF IsPurelyConjunctive
    <3>2. g # {}
      BY <3>1, SimplifiedMeans DEF IsSimplified
    <3> QED BY <1>1, <3>2 DEF IsPurelyConjunctive
  <2>3. \A g \in all : \E s \in g : g = {s}
    BY <2>2
  <2> QED BY <2>1, <2>3, SingletonsAreSimplified DEF IsSimplified
<1>2. CASE ~IsPurelyConjunctive(c)
  <2>1. ReplaceSegments(c, base, ss).groups =
           Simplify({ReplaceInGroup(g, base, ss) : g \in c.groups})
    BY <1>2 DEF ReplaceSegments
  <2> QED BY <2>1, SimplifyTwice DEF IsSimplified
<1> QED BY <1>1, <1>2

LEMMA RemoveIsSimplified ==
  ASSUME NEW c \in Condition, IsSimplified(c), NEW ss
  PROVE  IsSimplified(RemoveIntersectingSubgroups(c, ss))
<1>1. RemoveIntersectingSubgroups(c, ss).groups \subseteq c.groups
  BY DEF RemoveIntersectingSubgroups, Condition
<1> QED BY <1>1, PartIsSimplified DEF IsSimplified

LEMMA NonCompositeIsSimplified ==
  ASSUME NEW c \in Condition, IsSimplified(c)
  PROVE  IsSimplified(NonCompositeSuperset(c))
BY NonCompositeGroups, PartIsSimplified DEF IsSimplified

(***************************************************************************)
(* Two conditions which hold for the same loads have the same groups: the  *)
(* groups of a simplified condition are the smallest of the sets which     *)
(* every load it holds for meets.  A set that contains no group is not     *)
(* met by the load of all other segments.                                  *)
(***************************************************************************)
THEOREM GroupsAreMinimal ==
  ASSUME NEW c \in Condition, IsSimplified(c), NEW loads \in SUBSET Loaded,
         \A l \in Loaded : Holds(c, l) <=> l \in loads
  PROVE  LET required == {g \in Group : \A l \in loads : g \cap l # {}}
         IN  c.groups = {g \in required : \A h \in (SUBSET g) \ {g} : h \notin required}
<1> DEFINE required == {g \in Group : \A l \in loads : g \cap l # {}}
<1>1. c.groups \in SUBSET Group
  BY DEF Condition
<1>2. ASSUME NEW g \in Group
      PROVE  g \in required <=> \E h \in c.groups : h \subseteq g
  <2>1. ASSUME NEW h \in c.groups, h \subseteq g PROVE g \in required
    <3> SUFFICES ASSUME NEW l \in loads PROVE g \cap l # {}
      OBVIOUS
    <3>1. h \cap l # {}
      BY DEF Holds, HoldsFor
    <3> QED BY <2>1, <3>1
  <2>2. ASSUME g \in required PROVE \E h \in c.groups : h \subseteq g
    <3> DEFINE others == Segment \ g
    <3> SUFFICES ASSUME \A h \in c.groups : ~(h \subseteq g) PROVE FALSE
      OBVIOUS
    <3>1. others \in Loaded
      BY DEF Loaded
    <3>2. ASSUME NEW h \in c.groups PROVE h \cap others # {}
      BY <1>1 DEF Group
    <3>3. Holds(c, others)
      BY <3>2 DEF Holds, HoldsFor
    <3> QED BY <2>2, <3>1, <3>3
  <2> QED BY <2>1, <2>2
<1> HIDE DEF required
<1>3. \A g, h \in c.groups : h \subseteq g => h = g
  BY SimplifiedMeans DEF IsSimplified
<1>4. required \subseteq Group
  BY DEF required
<1>5. ASSUME NEW g \in c.groups
      PROVE  g \in required /\ \A h \in (SUBSET g) \ {g} : h \notin required
  <2>1. g \in required
    BY <1>1, <1>2
  <2>2. ASSUME NEW h \in (SUBSET g) \ {g}, h \in required PROVE FALSE
    <3>1. PICK k \in c.groups : k \subseteq h
      BY <1>2, <1>4, <2>2
    <3>2. k \subseteq g /\ h # g
      BY <3>1
    <3>3. k = g
      BY <1>3, <3>2
    <3>4. h = g
      BY <3>1, <3>3
    <3> QED BY <3>2, <3>4
  <2> QED BY <2>1, <2>2
<1>6. ASSUME NEW g \in required, \A h \in (SUBSET g) \ {g} : h \notin required
      PROVE  g \in c.groups
  <2>1. PICK h \in c.groups : h \subseteq g
    BY <1>2, <1>4
  <2>2. h \in required
    BY <1>1, <1>2
  <2>3. h # g => h \in (SUBSET g) \ {g}
    BY <2>1
  <2> QED BY <1>6, <2>1, <2>2, <2>3
<1>7. c.groups = {g \in required : \A h \in (SUBSET g) \ {g} : h \notin required}
  BY <1>5, <1>6
<1> QED BY <1>7 DEF required

(***************************************************************************)
(* A condition is simplified after any sequence of operations, although    *)
(* only And calls Simplify on every path.                                  *)
(***************************************************************************)
THEOREM StaysSimplified == AlgebraSpec => []IsSimplified(cond)
<1>1. AlgebraInit => IsSimplified(cond)
  BY ConstructorsAreSimplified DEF AlgebraInit
<1>2. AlgebraTypeOK /\ IsSimplified(cond) /\ [AlgebraNext]_algebra_vars => IsSimplified(cond)'
  <2> SUFFICES ASSUME AlgebraTypeOK, IsSimplified(cond), [AlgebraNext]_algebra_vars
               PROVE  IsSimplified(cond')
    BY DEF IsSimplified
  <2>1. ASSUME NEW c \in Operand, Conjoin(c) PROVE IsSimplified(cond')
    BY <2>1, AndIsSimplified DEF Conjoin
  <2>2. ASSUME NEW c \in Operand, Disjoin(c) PROVE IsSimplified(cond')
    BY <2>2, OrIsSimplified DEF Disjoin
  <2>3. ASSUME NEW base \in Segment, NEW ss \in SUBSET Segment, MergeSegments(base, ss)
        PROVE  IsSimplified(cond')
    BY <2>3, ReplaceIsSimplified DEF MergeSegments
  <2>4. ASSUME NEW ss \in SUBSET Segment, MoveToInit(ss) PROVE IsSimplified(cond')
    BY <2>4, RemoveIsSimplified DEF MoveToInit, AlgebraTypeOK
  <2>5. ASSUME Weaken PROVE IsSimplified(cond')
    BY <2>5, NonCompositeIsSimplified DEF Weaken, AlgebraTypeOK
  <2>6. CASE UNCHANGED algebra_vars
    BY <2>6 DEF algebra_vars
  <2> QED BY <2>1, <2>2, <2>3, <2>4, <2>5, <2>6 DEF AlgebraNext
<1> QED BY <1>1, <1>2, TypeCorrect, PTL DEF AlgebraSpec

(***************************************************************************)
(* Equal conditions, as keys of the code's maps, are those which mean the  *)
(* same and agree about the exclusive flag.                                *)
(***************************************************************************)
THEOREM SameMeaningSameKey ==
  ASSUME NEW a \in Condition, IsSimplified(a), NEW b \in Condition, IsSimplified(b),
         MeaningOf(a) = MeaningOf(b), a.exclusive = b.exclusive
  PROVE  a = b
<1>1. MeaningOf(a) \in SUBSET Loaded
  BY DEF MeaningOf
<1>2. \A l \in Loaded : Holds(a, l) <=> l \in MeaningOf(a)
  BY DEF MeaningOf
<1>3. \A l \in Loaded : Holds(b, l) <=> l \in MeaningOf(a)
  BY DEF MeaningOf
<1>4. a.groups = b.groups
  BY <1>1, <1>2, <1>3, GroupsAreMinimal
<1> QED BY <1>4 DEF Condition

(***************************************************************************)
(* Where the exclusive flag survives an operation or is set by it, the     *)
(* condition is of one segment, or always true.                            *)
(***************************************************************************)
LEMMA AndExclusive ==
  ASSUME NEW a, NEW b
  PROVE  ExclusiveOnlyForOne(And(a, b))
BY DEF ExclusiveOnlyForOne, And, CompositeCondition, IsExclusive, IsUnitary

LEMMA ReplaceExclusive ==
  ASSUME NEW c \in Condition, IsSimplified(c), ExclusiveOnlyForOne(c),
         NEW base \in Segment, NEW ss \in SUBSET Segment
  PROVE  ExclusiveOnlyForOne(ReplaceSegments(c, base, ss))
<1> DEFINE d == ReplaceSegments(c, base, ss)
<1>1. CASE IsPurelyConjunctive(c)
  <2> DEFINE kept == {g \in c.groups : g \cap ss = {}}
             all == IF kept = c.groups THEN kept ELSE kept \cup {{base}}
  <2>1. d = [groups |-> all, exclusive |-> IsExclusive(c) \/ Cardinality(all) = 1]
    BY <1>1 DEF ReplaceSegments
  <2>2. PICK g \in c.groups, h \in c.groups : g # h
    BY <1>1 DEF IsPurelyConjunctive
  <2>3. ~IsUnitary(c) /\ ~IsAlwaysTrue(c)
    <3>1. \A k : c.groups # {k}
      BY <2>2
    <3>2. c.groups # {}
      BY <2>2
    <3> QED BY <3>1, <3>2 DEF IsUnitary, IsAlwaysTrue
  <2>4. ~IsExclusive(c)
    BY <2>3 DEF ExclusiveOnlyForOne
  <2>5. ASSUME NEW k \in c.groups PROVE \E s \in k : k = {s}
    <3>1. PICK m \in c.groups : m # k
      BY <2>2
    <3>2. k # {}
      BY <3>1, SimplifiedMeans DEF IsSimplified
    <3> QED BY <1>1, <3>2 DEF IsPurelyConjunctive
  <2>6. \A k \in all : \E s \in k : k = {s}
    BY <2>5
  <2>7. c.groups \in SUBSET SUBSET Segment
    BY DEF Condition, Group
  <2>8. IsFiniteSet(all)
    <3>1. IsFiniteSet(SUBSET Segment)
      BY SegmentAssumption, FS_SUBSET
    <3>2. all \subseteq SUBSET Segment
      BY <2>7
    <3> QED BY <3>1, <3>2, FS_Subset
  <2>9. ASSUME Cardinality(all) = 1 PROVE IsUnitary(d)
    <3>1. PICK k : all = {k}
      BY <2>8, <2>9, FS_Singleton
    <3>2. PICK s \in k : k = {s}
      BY <2>6, <3>1
    <3>3. d.groups = {{s}}
      BY <2>1, <3>1, <3>2
    <3> QED BY <3>3 DEF IsUnitary
  <2>10. d.exclusive => Cardinality(all) = 1
    <3> HIDE DEF all, d
    <3>1. d.exclusive = (IsExclusive(c) \/ Cardinality(all) = 1)
      BY <2>1
    <3> QED BY <2>4, <3>1
  <2> HIDE DEF all, d
  <2> QED BY <2>9, <2>10 DEF ExclusiveOnlyForOne, IsExclusive, d
<1>2. CASE ~IsPurelyConjunctive(c)
  <2> DEFINE replaced == {ReplaceInGroup(g, base, ss) : g \in c.groups}
  <2>1. d.groups = Simplify(replaced) /\ d.exclusive = c.exclusive
    BY <1>2 DEF ReplaceSegments
  <2>2. CASE IsAlwaysTrue(c)
    <3>1. d.groups = {}
      BY <2>1, <2>2 DEF IsAlwaysTrue, Simplify
    <3> QED BY <3>1 DEF ExclusiveOnlyForOne, IsAlwaysTrue
  <2>3. CASE IsUnitary(c)
    <3>1. PICK s : c.groups = {{s}}
      BY <2>3 DEF IsUnitary
    <3>2. PICK t : ReplaceInGroup({s}, base, ss) = {t}
      BY DEF ReplaceInGroup
    <3>3. replaced = {{t}}
      <4>1. replaced = {ReplaceInGroup({s}, base, ss)}
        BY <3>1
      <4> QED BY <3>2, <4>1
    <3>4. d.groups = {{t}}
      BY <2>1, <3>3 DEF Simplify
    <3> QED BY <3>4 DEF ExclusiveOnlyForOne, IsUnitary
  <2>4. CASE ~IsAlwaysTrue(c) /\ ~IsUnitary(c)
    BY <2>1, <2>4 DEF ExclusiveOnlyForOne, IsExclusive
  <2> QED BY <2>2, <2>3, <2>4
<1> QED BY <1>1, <1>2

LEMMA RemoveExclusive ==
  ASSUME NEW c \in Condition, ExclusiveOnlyForOne(c), NEW ss
  PROVE  ExclusiveOnlyForOne(RemoveIntersectingSubgroups(c, ss))
<1> DEFINE d == RemoveIntersectingSubgroups(c, ss)
<1>1. d.groups \subseteq c.groups /\ d.exclusive = c.exclusive
  BY DEF RemoveIntersectingSubgroups, Condition
<1> HIDE DEF d
<1>2. CASE d.groups = {}
  BY <1>2 DEF ExclusiveOnlyForOne, IsAlwaysTrue, d
<1>3. CASE d.groups # {} /\ ~IsExclusive(c)
  BY <1>1, <1>3 DEF ExclusiveOnlyForOne, IsExclusive, d
<1>4. CASE d.groups # {} /\ IsExclusive(c)
  <2>1. IsUnitary(c)
    BY <1>1, <1>4 DEF ExclusiveOnlyForOne, IsAlwaysTrue
  <2>2. PICK s : c.groups = {{s}}
    BY <2>1 DEF IsUnitary
  <2>3. d.groups = {{s}}
    BY <1>1, <1>4, <2>2
  <2> QED BY <2>3 DEF ExclusiveOnlyForOne, IsUnitary, d
<1> QED BY <1>2, <1>3, <1>4

LEMMA NonCompositeExclusive ==
  ASSUME NEW c \in Condition, ExclusiveOnlyForOne(c)
  PROVE  ExclusiveOnlyForOne(NonCompositeSuperset(c))
<1> DEFINE d == NonCompositeSuperset(c)
           single == {g \in c.groups : \E s \in g : g = {s}}
<1>1. CASE IsPurelyConjunctive(c) \/ IsPurelyDisjunctive(c) \/ IsAlwaysTrue(c)
  BY <1>1 DEF NonCompositeSuperset
<1>2. CASE ~(IsPurelyConjunctive(c) \/ IsPurelyDisjunctive(c) \/ IsAlwaysTrue(c))
  <2>1. ~IsExclusive(c)
    BY <1>2 DEF ExclusiveOnlyForOne, IsUnitary, IsPurelyDisjunctive
  <2>2. CASE single # {}
    <3>1. d = [groups |-> single, exclusive |-> c.exclusive \/ Cardinality(single) = 1]
      BY <1>2, <2>2 DEF NonCompositeSuperset
    <3>2. IsFiniteSet(single)
      <4>1. IsFiniteSet(SUBSET Segment)
        BY SegmentAssumption, FS_SUBSET
      <4>2. single \subseteq SUBSET Segment
        BY DEF Condition, Group
      <4> QED BY <4>1, <4>2, FS_Subset
    <3>3. ASSUME Cardinality(single) = 1 PROVE IsUnitary(d)
      <4>1. PICK k : single = {k}
        BY <3>2, <3>3, FS_Singleton
      <4>2. PICK s \in k : k = {s}
        BY <4>1
      <4>3. d.groups = {{s}}
        BY <3>1, <4>1, <4>2
      <4> QED BY <4>3 DEF IsUnitary
    <3>4. d.exclusive => Cardinality(single) = 1
      <4> HIDE DEF d, single
      <4>1. d.exclusive = (c.exclusive \/ Cardinality(single) = 1)
        BY <3>1
      <4> QED BY <2>1, <4>1 DEF IsExclusive
    <3> HIDE DEF d, single
    <3> QED BY <3>3, <3>4 DEF ExclusiveOnlyForOne, IsExclusive, d
  <2>3. CASE single = {}
    <3>1. d.exclusive = c.exclusive
      BY <1>2, <2>3 DEF NonCompositeSuperset, Condition
    <3> HIDE DEF d
    <3> QED BY <2>1, <3>1 DEF ExclusiveOnlyForOne, IsExclusive, d
  <2> QED BY <2>2, <2>3
<1> QED BY <1>1, <1>2

THEOREM StaysExclusiveForOne == AlgebraSpec => []ExclusiveOnlyForOne(cond)
<1>1. AlgebraInit => ExclusiveOnlyForOne(cond)
  BY DEF AlgebraInit, ExclusiveOnlyForOne, IsExclusive, True
<1>2. /\ AlgebraTypeOK
      /\ IsSimplified(cond)
      /\ ExclusiveOnlyForOne(cond)
      /\ [AlgebraNext]_algebra_vars
      => ExclusiveOnlyForOne(cond)'
  <2> SUFFICES ASSUME AlgebraTypeOK, IsSimplified(cond), ExclusiveOnlyForOne(cond),
                      [AlgebraNext]_algebra_vars
               PROVE  ExclusiveOnlyForOne(cond')
    BY DEF ExclusiveOnlyForOne, IsExclusive, IsUnitary, IsAlwaysTrue
  <2>1. ASSUME NEW c \in Operand, Conjoin(c) PROVE ExclusiveOnlyForOne(cond')
    BY <2>1, AndExclusive DEF Conjoin
  <2>2. ASSUME NEW c \in Operand, Disjoin(c) PROVE ExclusiveOnlyForOne(cond')
    BY <2>2 DEF Disjoin, Or, ExclusiveOnlyForOne, IsExclusive
  <2>3. ASSUME NEW base \in Segment, NEW ss \in SUBSET Segment, MergeSegments(base, ss)
        PROVE  ExclusiveOnlyForOne(cond')
    BY <2>3, ReplaceExclusive DEF MergeSegments, AlgebraTypeOK
  <2>4. ASSUME NEW ss \in SUBSET Segment, MoveToInit(ss) PROVE ExclusiveOnlyForOne(cond')
    BY <2>4, RemoveExclusive DEF MoveToInit, AlgebraTypeOK
  <2>5. ASSUME Weaken PROVE ExclusiveOnlyForOne(cond')
    BY <2>5, NonCompositeExclusive DEF Weaken, AlgebraTypeOK
  <2>6. CASE UNCHANGED algebra_vars
    BY <2>6 DEF algebra_vars
  <2> QED BY <2>1, <2>2, <2>3, <2>4, <2>5, <2>6 DEF AlgebraNext
<1> QED BY <1>1, <1>2, TypeCorrect, StaysSimplified, PTL DEF AlgebraSpec

(***************************************************************************)
(* After any sequence of operations the groups of the condition are those  *)
(* its meaning determines, and only the condition of a single segment, or  *)
(* the always true one, may carry the exclusive flag, the rest of the key. *)
(***************************************************************************)
THEOREM KeysFollowMeaning == AlgebraSpec => []KeyFollowsMeaning
<1>1. /\ AlgebraTypeOK /\ IsSimplified(cond)
      /\ MeaningExact /\ ExclusiveOnlyForOne(cond)
      => KeyFollowsMeaning
  BY GroupsAreMinimal
     DEF AlgebraTypeOK, MeaningExact, KeyFollowsMeaning, Minimal, Required
<1> QED BY <1>1, TypeCorrect, StaysSimplified, MeaningIsExact, StaysExclusiveForOne, PTL

(***************************************************************************)
(* NonCompositeSuperset leaves a single group, or groups of one segment.   *)
(***************************************************************************)
LEMMA NonCompositeShape ==
  ASSUME NEW c \in Condition
  PROVE  LET d == NonCompositeSuperset(c)
         IN  IsPurelyConjunctive(d) \/ IsPurelyDisjunctive(d) \/ IsAlwaysTrue(d)
<1> DEFINE d == NonCompositeSuperset(c)
           single == {g \in c.groups : \E s \in g : g = {s}}
           wide == c.groups \ (single \cup {{}})
<1>1. CASE IsPurelyConjunctive(c) \/ IsPurelyDisjunctive(c) \/ IsAlwaysTrue(c)
  BY <1>1 DEF NonCompositeSuperset
<1>2. CASE ~(IsPurelyConjunctive(c) \/ IsPurelyDisjunctive(c) \/ IsAlwaysTrue(c))
  <2>1. CASE single # {}
    <3>1. d.groups = single
      BY <1>2, <2>1 DEF NonCompositeSuperset
    <3>2. PICK g \in d.groups : TRUE
      BY <2>1, <3>1
    <3>3. CASE d.groups = {g}
      BY <3>3 DEF IsPurelyDisjunctive
    <3>4. CASE d.groups # {g}
      <4>1. \E h \in d.groups : h # g
        BY <3>2, <3>4
      <4>2. \A h \in d.groups : \A s, t \in h : s = t
        BY <3>1
      <4> QED BY <4>1, <4>2, <3>2 DEF IsPurelyConjunctive
    <3> QED BY <3>3, <3>4
  <2>2. CASE single = {} /\ wide = {}
    <3>1. d = [c EXCEPT !.groups = {}]
      BY <1>2, <2>2 DEF NonCompositeSuperset
    <3> QED BY <3>1 DEF Condition, IsAlwaysTrue
  <2>3. CASE single = {} /\ wide # {}
    <3> DEFINE keep == CHOOSE g \in wide : \A h \in wide : Preferred(g, h)
    <3>1. d = [c EXCEPT !.groups = {keep}]
      BY <1>2, <2>3 DEF NonCompositeSuperset
    <3> HIDE DEF keep, d
    <3>2. d.groups = {keep}
      BY <3>1 DEF Condition
    <3> QED BY <3>2 DEF IsPurelyDisjunctive, d
  <2> QED BY <2>1, <2>2, <2>3
<1> QED BY <1>1, <1>2

(***************************************************************************)
(* Weakening a condition takes no load away and leaves no mixed condition. *)
(***************************************************************************)
THEOREM WeakenGivesSuperset == AlgebraSpec => WeakenIsSuperset
<1>1. /\ AlgebraTypeOK /\ MeaningExact /\ Weaken
      => /\ meaning \subseteq meaning'
         /\ \/ IsPurelyConjunctive(cond')
            \/ IsPurelyDisjunctive(cond')
            \/ IsAlwaysTrue(cond')
  <2> SUFFICES ASSUME AlgebraTypeOK, MeaningExact, Weaken
               PROVE  /\ meaning \subseteq meaning'
                      /\ \/ IsPurelyConjunctive(cond')
                         \/ IsPurelyDisjunctive(cond')
                         \/ IsAlwaysTrue(cond')
    OBVIOUS
  <2>1. ASSUME NEW l \in meaning PROVE l \in meaning'
    <3>1. l \in Loaded /\ Holds(cond, l)
      BY DEF AlgebraTypeOK, MeaningExact
    <3> QED BY <3>1, NonCompositeMeaning DEF AlgebraTypeOK, Weaken, MeaningOf
  <2>2. \/ IsPurelyConjunctive(cond')
        \/ IsPurelyDisjunctive(cond')
        \/ IsAlwaysTrue(cond')
    BY NonCompositeShape DEF AlgebraTypeOK, Weaken
  <2> QED BY <2>1, <2>2
<1> QED BY <1>1, TypeCorrect, MeaningIsExact, PTL DEF AlgebraSpec, WeakenIsSuperset
=============================================================================
