--------------------------- MODULE ConditionIndex ---------------------------
(***************************************************************************)
(* ConditionToGlyphsIndex (ift/encoder/condition_to_glyphs_index.h): the   *)
(* map from conditions to glyphs, the two reverse indices and the ordered  *)
(* set, each updated by hand in every operation.  A map that has no entry  *)
(* for a key is a function without that key in its domain.                 *)
(***************************************************************************)
EXTENDS ActivationConditions, Integers

CONSTANTS Cond,               \* the conditions
          Gid,                \* the glyph ids
          NoCondition         \* a glyph which is not mapped

ASSUME IndexAssumption == /\ Gid \subseteq Int
                          /\ Cond \subseteq Condition
                          /\ NoCondition \notin Cond

VARIABLES conditions_and_glyphs,
          ordered_conditions,
          glyph_to_condition,
          triggering_segment_to_conditions,
          error               \* an operation returned an error
index_vars ==
    <<conditions_and_glyphs, ordered_conditions, glyph_to_condition,
      triggering_segment_to_conditions, error>>

Conditions == DOMAIN conditions_and_glyphs
Mapped == DOMAIN glyph_to_condition

IndexTypeOK ==
    /\ Conditions \subseteq Cond
    /\ conditions_and_glyphs \in [Conditions -> SUBSET Gid]
    /\ ordered_conditions \subseteq Cond
    /\ Mapped \subseteq Gid
    /\ glyph_to_condition \in [Mapped -> Cond]
    /\ DOMAIN triggering_segment_to_conditions \subseteq Segment
    /\ triggering_segment_to_conditions
          \in [DOMAIN triggering_segment_to_conditions -> SUBSET Cond]
    /\ error \in BOOLEAN

NoEntries == [x \in {} |-> {}]

IndexInit ==
    /\ conditions_and_glyphs = NoEntries
    /\ ordered_conditions = {}
    /\ glyph_to_condition = NoEntries
    /\ triggering_segment_to_conditions = NoEntries
    /\ error = FALSE

Entry(map, x) == IF x \in DOMAIN map THEN map[x] ELSE {}
Without(map, keys) == [x \in DOMAIN map \ keys |-> map[x]]

(***************************************************************************)
(* The segments' sets gain, or lose, the condition c; an emptied set goes. *)
(* Mutation: the emptied set stays and the entry of the condition with it. *)
(***************************************************************************)
IndexTriggering(c) ==
    [s \in DOMAIN triggering_segment_to_conditions \cup TriggeringSegments(c) |->
        Entry(triggering_segment_to_conditions, s)
          \cup (IF s \in TriggeringSegments(c) THEN {c} ELSE {})]

UnindexNothing(c) == triggering_segment_to_conditions

UnindexTriggering(c) ==
    LET left(s) == triggering_segment_to_conditions[s]
                     \ (IF s \in TriggeringSegments(c) THEN {c} ELSE {})
    IN  [s \in {t \in DOMAIN triggering_segment_to_conditions :
                   t \in TriggeringSegments(c) => left(t) # {}} |-> left(s)]

-----------------------------------------------------------------------------
(***************************************************************************)
(* Forgets one glyph, and with its last glyph the condition.               *)
(***************************************************************************)
Invalidate(gid) ==
    /\ ~error
    /\ gid \in Mapped
    /\ LET c    == glyph_to_condition[gid]
           left == conditions_and_glyphs[c] \ {gid}
       IN  /\ glyph_to_condition' = Without(glyph_to_condition, {gid})
           /\ IF left = {}
              THEN /\ conditions_and_glyphs' = Without(conditions_and_glyphs, {c})
                   /\ ordered_conditions' = ordered_conditions \ {c}
                   /\ triggering_segment_to_conditions' = UnindexTriggering(c)
              ELSE /\ conditions_and_glyphs' = [conditions_and_glyphs EXCEPT ![c] = left]
                   /\ UNCHANGED <<ordered_conditions, triggering_segment_to_conditions>>
    /\ UNCHANGED error

(***************************************************************************)
(* Forgets a condition and all of its glyphs.                              *)
(***************************************************************************)
Remove(c) ==
    /\ ~error
    /\ c \in Conditions
    /\ glyph_to_condition' = Without(glyph_to_condition, conditions_and_glyphs[c])
    /\ conditions_and_glyphs' = Without(conditions_and_glyphs, {c})
    /\ ordered_conditions' = ordered_conditions \ {c}
    /\ triggering_segment_to_conditions' = UnindexTriggering(c)
    /\ UNCHANGED error

WithGlyphs(c, gs) ==
    [d \in Conditions \cup {c} |->
        Entry(conditions_and_glyphs, d) \cup (IF d = c THEN gs ELSE {})]

(***************************************************************************)
(* The entries of the glyphs are written in ascending order up to the      *)
(* first one that clashes, which ends the operation with an error after    *)
(* the other indices were changed.                                         *)
(***************************************************************************)
Record(c, gs, clashing) ==
    LET written == {g \in gs : \A h \in clashing : g < h}
    IN  /\ glyph_to_condition' =
             [g \in Mapped \cup written |->
                 IF g \in written THEN c ELSE glyph_to_condition[g]]
        /\ error' = (clashing # {})

(***************************************************************************)
(* Mutation: a glyph of another condition is taken over without an error.  *)
(***************************************************************************)
ClashingNever(c, gs) == {}

Clashing(c, gs) == {g \in gs \cap Mapped : glyph_to_condition[g] # c}

Union(c, gs) ==
    /\ ~error
    /\ conditions_and_glyphs' = WithGlyphs(c, gs)
    /\ ordered_conditions' = ordered_conditions \cup {c}
    /\ triggering_segment_to_conditions' = IndexTriggering(c)
    /\ Record(c, gs, Clashing(c, gs))

(***************************************************************************)
(* Adds a condition, or glyphs to a condition that has no others.          *)
(***************************************************************************)
AddNew(c, gs) ==
    /\ ~error
    /\ c \notin Conditions
    /\ conditions_and_glyphs' = WithGlyphs(c, gs)
    /\ ordered_conditions' = ordered_conditions \cup {c}
    /\ triggering_segment_to_conditions' = IndexTriggering(c)
    /\ Record(c, gs, gs \cap Mapped)

AddExisting(c, gs) ==
    /\ ~error
    /\ c \in Conditions
    /\ ordered_conditions' = ordered_conditions \cup {c}
    /\ UNCHANGED triggering_segment_to_conditions
    /\ LET added == gs \ conditions_and_glyphs[c]
       IN  IF conditions_and_glyphs[c] \subseteq gs
           THEN /\ conditions_and_glyphs' = WithGlyphs(c, gs)
                /\ Record(c, added, added \cap Mapped)
           ELSE /\ error' = TRUE
                /\ UNCHANGED <<conditions_and_glyphs, glyph_to_condition>>

Add(c, gs) == AddNew(c, gs) \/ AddExisting(c, gs)

IndexNext ==
    \/ \E gid \in Gid : Invalidate(gid)
    \/ \E c \in Cond : Remove(c)
    \/ \E c \in Cond, gs \in SUBSET Gid : Union(c, gs) \/ Add(c, gs)

IndexSpec == IndexInit /\ [][IndexNext]_index_vars

-----------------------------------------------------------------------------
(***************************************************************************)
(* As long as no error was returned the four containers agree: each is the *)
(* one that the map from conditions to glyphs determines, and no empty set *)
(* is left under a segment (condition_to_glyphs_index.h, "Also maintains   *)
(* the reverse mapping indices").                                          *)
(***************************************************************************)
GlyphsAgree ==
    /\ \A g \in Mapped : /\ glyph_to_condition[g] \in Conditions
                         /\ g \in conditions_and_glyphs[glyph_to_condition[g]]
    /\ \A c \in Conditions : \A g \in conditions_and_glyphs[c] :
           g \in Mapped /\ glyph_to_condition[g] = c

SegmentsAgree ==
    /\ \A s \in Segment :
          Entry(triggering_segment_to_conditions, s)
            = {c \in Conditions : s \in TriggeringSegments(c)}
    /\ \A s \in DOMAIN triggering_segment_to_conditions :
          triggering_segment_to_conditions[s] # {}

IndexConsistent == ~error => /\ GlyphsAgree
                             /\ SegmentsAgree
                             /\ ordered_conditions = Conditions

(***************************************************************************)
(* The index implements the map of ConditionMap: it fails exactly where    *)
(* that map may refuse, and what it answers for a glyph is the condition   *)
(* the glyph was last given.                                               *)
(***************************************************************************)
Map == INSTANCE ConditionMap WITH
    Glyph     <- Gid,
    condition <- [g \in Gid |-> IF g \in Mapped THEN glyph_to_condition[g]
                                  ELSE NoCondition],
    listed    <- Conditions,
    failed    <- error
ImplementsMap == Map!Spec
=============================================================================
