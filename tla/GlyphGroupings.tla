--------------------------- MODULE GlyphGroupings ---------------------------
(***************************************************************************)
(* The glyphs of the font grouped by activation condition, kept up to date *)
(* while conditions change and patches are combined                        *)
(* (ift/encoder/glyph_groupings.{h,cc}).                                   *)
(*                                                                         *)
(* A ConditionToGlyphsIndex is here the condition of each glyph, which is  *)
(* what that class promises (ConditionMap, implemented by ConditionIndex). *)
(* The partition of combined patches is its set of groups (Partition,      *)
(* implemented by GlyphPartition), those of one glyph left out.  An entry  *)
(* of the exclusive or disjunctive groups without glyphs is no entry.      *)
(* Left out: the analysis without closures (additional_conditions_check,   *)
(* and simplify_combined_).                                                *)
(*                                                                         *)
(* `ok' turns FALSE where an operation returns an error.  The callers give *)
(* up at the first one, so what the other fields hold afterwards does not  *)
(* matter.                                                                 *)
(***************************************************************************)
EXTENDS GlyphConditionSet, FoundConditions

CONSTANT NoCondition          \* a glyph which is not mapped

ASSUME NoConditionAssumption == NoCondition \notin Condition

\* a condition of the tables: an exclusive one is on a single segment
GlyphCondition == {c \in Condition : IsExclusive(c) => IsUnitary(c)}

Table == [Glyph -> GlyphCondition \cup {NoCondition}]

Groupings == [post : Table, pre : Table,
              exclusive_groups : [Segment -> SUBSET Glyph],
              or_groups : [SUBSET Segment -> SUBSET Glyph],
              combined_patches : SUBSET SUBSET Glyph,
              dirty : BOOLEAN,
              combined_conditions : SUBSET GlyphCondition,
              combined_exclusive : SUBSET Segment,
              unmapped : SUBSET Glyph,
              found : SUBSET Glyph,   \* found_condition_glyphs_
              ok : BOOLEAN]

NoGroupings == [post |-> [g \in Glyph |-> NoCondition],
                pre  |-> [g \in Glyph |-> NoCondition],
                exclusive_groups |-> [s \in Segment |-> {}],
                or_groups |-> [ss \in SUBSET Segment |-> {}],
                combined_patches |-> {},
                dirty |-> FALSE,
                combined_conditions |-> {},
                combined_exclusive |-> {},
                unmapped |-> {},
                found |-> {},
                ok |-> TRUE]

-----------------------------------------------------------------------------
(***************************************************************************)
(* The tables, in the terms of ConditionMap.                               *)
(***************************************************************************)
Mapped(t) == {g \in Glyph : t[g] # NoCondition}
GlyphsOf(t, c) == {g \in Glyph : t[g] = c}
ConditionsOf(t) == {t[g] : g \in Mapped(t)}

Unset(t, gs) == [g \in Glyph |-> IF g \in gs THEN NoCondition ELSE t[g]]
Assign(t, c, gs) == [g \in Glyph |-> IF g \in gs THEN c ELSE t[g]]

\* a glyph is never taken away from another condition
CanUnion(t, c, gs) == \A g \in gs : t[g] \in {NoCondition, c}
\* and Add does not leave out a glyph of the condition
CanAdd(t, c, gs) == CanUnion(t, c, gs) /\ GlyphsOf(t, c) \subseteq gs

AddConditionAndGlyphs(G, c, gs) ==
    [G EXCEPT !.post = Assign(@, c, gs), !.pre = Assign(@, c, gs),
              !.ok = @ /\ CanAdd(G.post, c, gs) /\ CanAdd(G.pre, c, gs)]

UnionConditionAndGlyphs(G, c, gs) ==
    [G EXCEPT !.post = Assign(@, c, gs), !.pre = Assign(@, c, gs),
              !.ok = @ /\ CanUnion(G.post, c, gs) /\ CanUnion(G.pre, c, gs)]

\* only the final table, as the combinations do
UnionCombined(G, c, gs) ==
    [G EXCEPT !.post = Assign(@, c, gs), !.ok = @ /\ CanUnion(G.post, c, gs)]

-----------------------------------------------------------------------------
RemoveAllCombinedConditions(G) ==
    [G EXCEPT !.post = Unset(@, {g \in Glyph : @[g] \in G.combined_conditions}),
              !.dirty = TRUE,
              !.combined_conditions = {},
              !.combined_exclusive = {}]

(***************************************************************************)
(* Forgets some glyphs.  As soon as one of them belongs to a combined      *)
(* condition all combined conditions go, those of other glyphs included.   *)
(***************************************************************************)
Forget(G, gs) ==
    LET gone(ss) == {g \in gs : /\ G.pre[g] # NoCondition
                                /\ TriggeringSegments(G.pre[g]) = ss}
    IN  [G EXCEPT
          !.unmapped = @ \ gs,
          !.found = @ \ gs,
          !.post = Unset(@, gs),
          !.pre = Unset(@, gs),
          !.exclusive_groups = [s \in Segment |->
              @[s] \ {g \in gone({s}) : IsExclusive(G.pre[g])}],
          !.or_groups = [ss \in SUBSET Segment |->
              @[ss] \ {g \in gone(ss) : /\ ~IsExclusive(G.pre[g])
                                        /\ IsPurelyDisjunctive(G.pre[g])}]]

Invalidate(G, gs) ==
    IF \E g \in gs : G.post[g] \in G.combined_conditions
    THEN RemoveAllCombinedConditions(Forget(G, gs))
    ELSE Forget(G, gs)

-----------------------------------------------------------------------------
(***************************************************************************)
(* The partition of the glyphs.  Joining puts one more set of glyphs into  *)
(* the same group.                                                         *)
(***************************************************************************)
Join(blocks, gs) ==
    LET touched == {b \in blocks : b \cap gs # {}}
    IN  (blocks \ touched) \cup {gs \cup UNION touched}

JoinAll(blocks, sets) == FoldSet(LAMBDA gs, bs : Join(bs, gs), blocks, sets)

NonIdentityGroups(blocks) == {b \in blocks : Cardinality(b) > 1}

CombinePatches(G, gs) ==
    RemoveAllCombinedConditions(
        [G EXCEPT !.combined_patches = NonIdentityGroups(Join(@, gs))])

OrAll(conditions) ==
    LET first == CHOOSE c \in conditions : TRUE
    IN  FoldSet(Or, first, conditions \ {first})

(***************************************************************************)
(* Forms the combined patches from the glyphs' own conditions: a condition *)
(* with a glyph in a group joins the whole group, and all the conditions   *)
(* of one group become one.  The combined condition may be one that        *)
(* glyphs outside of the group have as their own: these come along.        *)
(***************************************************************************)
Affected(G) ==
    {G.pre[g] : g \in (UNION G.combined_patches) \cap Mapped(G.pre)}

CombinedBlocks(G) ==
    JoinAll(G.combined_patches, {GlyphsOf(G.pre, c) : c \in Affected(G)})

\* the affected conditions of a block, whose glyphs are not the whole block
MergedConditions(G, b) ==
    {c \in Affected(G) : GlyphsOf(G.pre, c) \subseteq b /\ GlyphsOf(G.pre, c) # b}

Separate(G) ==
    LET merging == UNION {MergedConditions(G, b) : b \in CombinedBlocks(G)}
        whole   == UNION {GlyphsOf(G.pre, c) : c \in Affected(G) \ merging}
    IN  [G EXCEPT
          !.post = [g \in Glyph |-> IF @[g] \in merging THEN NoCondition
                                    ELSE IF g \in whole THEN G.pre[g]
                                    ELSE @[g]],
          !.combined_exclusive =
              @ \cup UNION {TriggeringSegments(c) :
                                c \in {d \in merging : IsExclusive(d)}},
          !.ok = /\ @
                 /\ \A c \in Affected(G) \ merging :
                        CanAdd(G.post, c, GlyphsOf(G.pre, c))]

CombineBlock(G, b, affected) ==
    LET conditions == MergedConditions(G, b)
        merged == OrAll(conditions)
        own    == IF merged \in affected THEN {} ELSE GlyphsOf(G.pre, merged)
        gs     == UNION {GlyphsOf(G.pre, c) : c \in conditions}
    IN  [UnionCombined(G, merged, gs \cup own) EXCEPT
            !.combined_conditions = @ \cup {merged}]

RecomputeCombinedConditions(G) ==
    LET merges == {b \in CombinedBlocks(G) : MergedConditions(G, b) # {}}
    IN  [FoldSet(LAMBDA b, H : CombineBlock(H, b, Affected(G)),
                 IF Affected(G) = {} THEN G ELSE Separate(G), merges)
         EXCEPT !.dirty = FALSE]

RecomputeIfNeeded(G, gs) ==
    LET touched == ~G.dirty /\ gs \cap UNION G.combined_patches # {}
        H       == IF touched THEN RemoveAllCombinedConditions(G) ELSE G
    IN  IF H.dirty THEN RecomputeCombinedConditions(H) ELSE H

-----------------------------------------------------------------------------
(***************************************************************************)
(* What was exclusive to a segment before the combinations; nothing when   *)
(* the exclusive patch has been combined with another.                     *)
(***************************************************************************)
ExclusiveGlyphs(G, s) ==
    IF s \in G.combined_exclusive THEN {} ELSE G.exclusive_groups[s]

AddGlyphsToExclusiveGroup(G, s, gs) ==
    LET H == Invalidate(G, gs)
    IN  RecomputeIfNeeded(
            [UnionConditionAndGlyphs(H, ExclusiveSegment(s), gs) EXCEPT
                !.exclusive_groups[s] = @ \cup gs],
            gs)

(***************************************************************************)
(* The glyphs with a (final) condition on one of the segments.             *)
(***************************************************************************)
ModifiedGlyphs(G, ss) ==
    {g \in Mapped(G.post) : TriggeringSegments(G.post[g]) \cap ss # {}}

(***************************************************************************)
(* GroupGlyphs brings the groups of some glyphs up to date with their      *)
(* conditions, in the order of the code:                                   *)
(*  - the glyphs, and those conditioned on a modified segment, forget      *)
(*    their groups;                                                        *)
(*  - exclusive, conjunctive and mixed conditions take their glyphs;       *)
(*  - glyphs of a disjunction that need not be loaded by it alone are      *)
(*    unmapped (the fallback patch takes them), and the rest is added;     *)
(*  - conditions are found for unmapped glyphs if that is asked for;       *)
(*  - the combined patches are formed again when one is concerned.         *)
(***************************************************************************)
Sorted(G, gs, cs) ==
    [G EXCEPT
        !.exclusive_groups = [s \in Segment |->
            @[s] \cup {g \in gs : cs[g] = ExclusiveSegment(s)}],
        !.or_groups = [ss \in SUBSET Segment |->
            @[ss] \cup {g \in gs : cs[g] = OrSegments(ss)}]]

AddAll(G, new_groupings) ==
    FoldSet(LAMBDA c, H : AddConditionAndGlyphs(H, c, new_groupings[c]), G,
            DOMAIN new_groupings)

AddOrGroup(G, info, ss) ==
    LET others == AnalyzeSegment(info, Segment \ ss).or
        kept   == G.or_groups[ss] \ others
        c      == OrSegments(ss)
        H      == [G EXCEPT !.unmapped = @ \cup (G.or_groups[ss] \cap others),
                            !.or_groups[ss] = kept]
    IN  IF kept = {}
        THEN [H EXCEPT !.post = Unset(@, GlyphsOf(@, c)),
                       !.pre = Unset(@, GlyphsOf(@, c))]
        ELSE AddConditionAndGlyphs(H, c, kept)

(***************************************************************************)
(* The glyphs of condition c: those grouped now, those grouped before.     *)
(* Mutation: only those grouped now.                                       *)
(***************************************************************************)
NewGroupingOnly(t, conditions, gs, c) == {g \in gs : conditions[g] = c}

NewGrouping(t, conditions, gs, c) ==
    GlyphsOf(t, c) \cup {g \in gs : conditions[g] = c}

(***************************************************************************)
(* Each unmapped glyph gets the condition that is found for it, and joins  *)
(* those which have this condition already.                                *)
(***************************************************************************)
AssignFound(G, ss, gs) ==
    IF Cardinality(ss) = 1
    THEN UnionConditionAndGlyphs([G EXCEPT !.exclusive_groups[Least(ss)] = @ \cup gs],
                                 ExclusiveSegment(Least(ss)), gs)
    ELSE UnionConditionAndGlyphs([G EXCEPT !.or_groups[ss] = @ \cup gs],
                                 OrSegments(ss), gs)

FindFallbackGlyphConditions(G, info, conditions) ==
    LET found == [g \in G.unmapped |->
                     FoundSegments(info, conditions, Segment, G.unmapped, g)]
        of(ss) == {g \in G.unmapped : found[g] = ss}
    IN  IF G.unmapped = {} THEN G
        ELSE IF ~info.disjoint THEN [G EXCEPT !.ok = FALSE]
        ELSE FoldSet(LAMBDA ss, H : AssignFound(H, ss, of(ss)),
                     [G EXCEPT !.found = @ \cup G.unmapped, !.unmapped = {}],
                     {found[g] : g \in G.unmapped})

GroupGlyphs(G, info, conditions, glyphs, modified) ==
    LET first  == Invalidate(G, glyphs)
        more   == ModifiedGlyphs(first, modified)
        fresh  == Invalidate(first, more)
        all    == glyphs \cup more
        always == {g \in all : IsAlwaysTrue(conditions[g])}
        sorted == Sorted([fresh EXCEPT !.unmapped =
                             @ \cup (always \cap NonInitFontGlyphs(info))],
                         all \ always, conditions)
        ors    == {c \in {conditions[g] : g \in all \ always} :
                        IsPurelyDisjunctive(c) /\ ~IsExclusive(c)}
        rest   == {conditions[g] : g \in all \ always} \ ors
        added  == AddAll(sorted,
                      [c \in rest |-> NewGrouping(fresh.pre, conditions, all, c)])
        grouped == FoldSet(LAMBDA ss, H : AddOrGroup(H, info, ss), added,
                           {TriggeringSegments(c) : c \in ors})
    IN  RecomputeIfNeeded(
            IF info.handling = "FIND_CONDITIONS"
            THEN FindFallbackGlyphConditions(grouped, info, conditions)
            ELSE grouped,
            all)

=============================================================================
