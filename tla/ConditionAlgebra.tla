-------------------------- MODULE ConditionAlgebra --------------------------
(***************************************************************************)
(* A condition as the encoder handles it: built from the constructors,     *)
(* then combined, rewritten after a merge of segments, stripped of         *)
(* segments which moved into the initial font, and weakened, in any order. *)
(* "meaning" follows what the condition is meant to say, as the set of the *)
(* loaded segment sets for which the patch is needed.  It is the           *)
(* specification: it is never computed from the groups, except where the   *)
(* code is free to choose which weaker condition it takes (Weaken).        *)
(***************************************************************************)
EXTENDS ActivationConditions

CONSTANT Operand              \* the conditions to combine with

ExclusiveOnlyForOne(c) == IsExclusive(c) => IsUnitary(c) \/ IsAlwaysTrue(c)

\* conditions as the constructors and the operations leave them
ASSUME OperandAssumption ==
    Operand \subseteq {c \in Condition : IsSimplified(c) /\ ExclusiveOnlyForOne(c)}

VARIABLES cond, meaning
algebra_vars == <<cond, meaning>>

Loaded == SUBSET Segment
MeaningOf(c) == {l \in Loaded : Holds(c, l)}

AlgebraTypeOK == /\ cond \in Condition
                 /\ meaning \in SUBSET Loaded

AlgebraInit == /\ cond = True
               /\ meaning = Loaded

Conjoin(c) == /\ cond' = And(cond, c)
              /\ meaning' = meaning \cap MeaningOf(c)

Disjoin(c) == /\ cond' = Or(cond, c)
              /\ meaning' = meaning \cup MeaningOf(c)

(***************************************************************************)
(* The segments of ss were merged into base: to load base is now to load   *)
(* all of them, and the others are empty and can no longer be loaded.      *)
(***************************************************************************)
AsMerged(loaded, base, ss) ==
    IF base \in loaded THEN loaded \cup ss ELSE loaded \ ss

MergeSegments(base, ss) ==
    /\ cond' = ReplaceSegments(cond, base, ss)
    /\ meaning' = {l \in Loaded : AsMerged(l, base, ss) \in meaning}

(***************************************************************************)
(* The segments of ss moved into the initial font: always loaded.          *)
(***************************************************************************)
MoveToInit(ss) ==
    /\ cond' = RemoveIntersectingSubgroups(cond, ss)
    /\ meaning' = {l \in Loaded : l \cup ss \in meaning}

Weaken ==
    /\ cond' = NonCompositeSuperset(cond)
    /\ meaning' = MeaningOf(NonCompositeSuperset(cond))

AlgebraNext ==
    \/ \E c \in Operand : Conjoin(c) \/ Disjoin(c)
    \/ \E base \in Segment, ss \in SUBSET Segment : MergeSegments(base, ss)
    \/ \E ss \in SUBSET Segment : MoveToInit(ss)
    \/ Weaken

AlgebraSpec == AlgebraInit /\ [][AlgebraNext]_algebra_vars

-----------------------------------------------------------------------------
(***************************************************************************)
(* The groups say exactly what the condition is meant to say, whatever     *)
(* sequence of And, Or, ReplaceSegments and RemoveIntersectingSubgroups    *)
(* produced them: the shortcuts of Or and ReplaceSegments and the groups   *)
(* that Simplify drops never change when a patch is loaded.                *)
(***************************************************************************)
MeaningExact == \A l \in Loaded : Holds(cond, l) <=> l \in meaning

(***************************************************************************)
(* Conditions are keys of hash maps, and two of them are equal when their  *)
(* groups and their exclusive flags are (operator== and Hash).  So a       *)
(* meaning must have one key, as far as the code allows:                   *)
(*   - the groups are exactly the smallest sets that every needed load     *)
(*     meets, although Or's early return, RemoveIntersectingSubgroups and  *)
(*     the conjunctive path of ReplaceSegments skip Simplify;              *)
(*   - only the condition of a single segment may have the flag set, and   *)
(*     the always true one (when the segment moved into the initial font). *)
(* For those two the key does depend on how they came about: segments 0    *)
(* and 1 merged into 0 turn (0 and 1) into the exclusive condition of 0    *)
(* and (0 or 1) into its twin without the flag.  candidate_merge.cc knows  *)
(* (FindExistingCondition looks for both, ComputeCostDelta clears the      *)
(* flag), and And treats the always true conditions alike.                 *)
(***************************************************************************)
Required == {g \in Group : \A l \in meaning : g \cap l # {}}
Minimal == {g \in Required : \A h \in (SUBSET g) \ {g} : h \notin Required}

KeyFollowsMeaning == /\ cond.groups = Minimal
                     /\ ExclusiveOnlyForOne(cond)

(***************************************************************************)
(* NonCompositeSuperset returns a condition which activates at least       *)
(* whenever the original one does, and which is no longer mixed            *)
(* (activation_condition.h, the comment of NonCompositeSuperset).          *)
(***************************************************************************)
WeakenIsSuperset ==
    [][Weaken => /\ meaning \subseteq meaning'
                 /\ \/ IsPurelyConjunctive(cond')
                    \/ IsPurelyDisjunctive(cond')
                    \/ IsAlwaysTrue(cond')]_algebra_vars
=============================================================================
