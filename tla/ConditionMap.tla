---------------------------- MODULE ConditionMap ----------------------------
(***************************************************************************)
(* What ConditionToGlyphsIndex promises to the glyph groupings: each glyph *)
(* has at most one condition, and a condition is listed with all of its    *)
(* glyphs or not at all.  After an error nothing is promised: the callers  *)
(* return the error and give up the whole encoding.                        *)
(***************************************************************************)
CONSTANTS Cond,               \* the conditions
          Glyph,              \* the glyph ids
          NoCondition         \* a glyph which is not mapped

VARIABLES condition,          \* the condition of each glyph
          listed,             \* the conditions which have an entry
          failed              \* an operation returned an error
vars == <<condition, listed, failed>>

Assignment == [Glyph -> Cond \cup {NoCondition}]

TypeOK == /\ condition \in Assignment
          /\ listed \in SUBSET Cond
          /\ failed \in BOOLEAN

Init == /\ condition = [g \in Glyph |-> NoCondition]
        /\ listed = {}
        /\ failed = FALSE

GlyphsOf(c) == {g \in Glyph : condition[g] = c}

(***************************************************************************)
(* Lists c, with the glyphs of gs besides those which it already has; a    *)
(* glyph which belongs to another condition is never taken away from it.   *)
(***************************************************************************)
Assign(c, gs) ==
    /\ ~failed
    /\ \A g \in gs : condition[g] \in {NoCondition, c}
    /\ condition' = [g \in Glyph |-> IF g \in gs THEN c ELSE condition[g]]
    /\ listed' = listed \cup {c}
    /\ UNCHANGED failed

(***************************************************************************)
(* Forgets one glyph, and with its last glyph the condition.               *)
(***************************************************************************)
Forget(g) ==
    /\ ~failed
    /\ condition' = [condition EXCEPT ![g] = NoCondition]
    /\ listed' = {c \in listed : GlyphsOf(c) # {g}}
    /\ UNCHANGED failed

Drop(c) ==
    /\ ~failed
    /\ condition' = [g \in Glyph |-> IF condition[g] = c THEN NoCondition
                                     ELSE condition[g]]
    /\ listed' = listed \ {c}
    /\ UNCHANGED failed

(***************************************************************************)
(* An error is returned only where the assignment would take a glyph away  *)
(* from another condition, or, for Add, would leave out a glyph which the  *)
(* condition already has.                                                  *)
(***************************************************************************)
Refuse(c, gs) ==
    /\ ~failed
    /\ \/ \E g \in gs : condition[g] \notin {NoCondition, c}
       \/ ~(GlyphsOf(c) \subseteq gs)
    /\ failed' = TRUE
    /\ condition' \in Assignment
    /\ listed' \in SUBSET Cond

Next == \/ \E c \in Cond, gs \in SUBSET Glyph : Assign(c, gs) \/ Refuse(c, gs)
        \/ \E g \in Glyph : Forget(g)
        \/ \E c \in Cond : Drop(c)

Spec == Init /\ [][Next]_vars
=============================================================================
