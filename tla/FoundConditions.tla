--------------------------- MODULE FoundConditions ---------------------------
(***************************************************************************)
(* What the search for the conditions of unmapped glyphs comes to          *)
(* (ift/encoder/complex_condition_finder.cc), glyph by glyph and without   *)
(* its queue of tasks.  ComplexConditionFinder has the search itself, and  *)
(* shows that this is its result; a segmentation uses it as one step.      *)
(***************************************************************************)
EXTENDS SegmentationInfo, FiniteSetsExt

(***************************************************************************)
(* Of some segments that bring g together, in order, one after the other   *)
(* is left out unless g needs it beside those kept and those left.         *)
(***************************************************************************)
BroughtBy(info, g, ss) == g \in Closure(info.font, CombinedDefinition(info, ss))

SubCondition(info, g, to_be_tested) ==
    LET kept[tested \in SUBSET to_be_tested] ==
            LET s      == Max(tested)
                before == kept[tested \ {s}]
            IN  IF tested = {} THEN {}
                ELSE IF BroughtBy(info, g, before \cup (to_be_tested \ tested))
                THEN before
                ELSE before \cup {s}
    IN  kept[to_be_tested]

BroughtWithout(info, g, ss) == BroughtBy(info, g, NonEmptySegments(info) \ ss)

\* full, and more of the scope until no other segments bring g
Completed(info, inscope, g, full) ==
    LET further(ss) == SubCondition(info, g, (NonEmptySegments(info) \ ss) \cap inscope)
        found[ss \in SUBSET Segment] ==
            IF BroughtWithout(info, g, ss) THEN found[ss \cup further(ss)] ELSE ss
    IN  found[full]

ExistingSegments(c) ==
    IF ~IsExclusive(c) /\ IsPurelyDisjunctive(c) THEN TriggeringSegments(c) ELSE {}

(***************************************************************************)
(* The search starts from a disjunction that was found before, unless it   *)
(* is enough for all of the glyphs gs with that disjunction: then it       *)
(* starts from nothing again.                                              *)
(***************************************************************************)
FoundSegments(info, conditions, inscope, gs, g) ==
    LET existing == ExistingSegments(conditions[g])
        alike    == {h \in gs : ExistingSegments(conditions[h]) = existing}
        enough   == \A h \in alike : ~BroughtWithout(info, h, existing)
    IN  existing \cup Completed(info, inscope, g, IF enough THEN {} ELSE existing)
=============================================================================
