----------------------- MODULE ComplexConditionFinder -----------------------
(***************************************************************************)
(* The search for the conditions of glyphs that the analysis of single     *)
(* segments could not place (ift/encoder/complex_condition_finder.{h,cc}). *)
(* Such a glyph may need, say, (a and b) or (b and c).  The search finds   *)
(* a disjunction that holds whenever the true condition does, like (a or   *)
(* c) or b alone, by leaving out one segment after the other.              *)
(*                                                                         *)
(* Left out: the cache of closures, and logging.                           *)
(***************************************************************************)
EXTENDS GlyphConditionSet, FoundConditions, Sequences

CONSTANT Analysis             \* the calls: what is to be analysed

(***************************************************************************)
(* What the callers see to: the initial subset is closed                   *)
(* (ReassignInitSubset expands it), each segment of a disjunction found    *)
(* before brings the glyph and the initial subset does not, and the        *)
(* segments in scope bring what all segments would (the dependency graph   *)
(* finds those that interact with a glyph).                                *)
(***************************************************************************)
AnalysisOK(a) ==
    /\ a.info \in Info
    /\ a.conditions \in [Glyph -> Condition]
    /\ a.glyphs \subseteq Glyph
    /\ a.inscope \subseteq Segment
    /\ a.info.disjoint => SegmentsAreDisjoint(a.info.init, a.info.segments)
    /\ Closure(a.info.font, a.info.init) = a.info.init.gids
    /\ \A g \in a.glyphs :
          /\ \A s \in ExistingSegments(a.conditions[g]) :
                /\ BroughtBy(a.info, g, {s})
                /\ g \notin a.info.init.gids
          /\ \A ss \in SUBSET Segment :
                BroughtBy(a.info, g, ss) => BroughtBy(a.info, g, ss \cap a.inscope)

ASSUME AnalysisAssumption == \A a \in Analysis : AnalysisOK(a)

VARIABLES analysis,
          existing,           \* the existing conditions left to schedule
          unscheduled,        \* glyphs without a task
          queue,
          glyph_to_conditions,
          progress

finder_vars == <<analysis, existing, unscheduled, queue, glyph_to_conditions, progress>>

info == analysis.info
all_segments == NonEmptySegments(info)

Task == [full_condition : SUBSET Segment,   \* found before, now excluded
         sub_condition : SUBSET Segment,    \* found in this round
         to_be_tested : SUBSET Segment,
         subset_definition : Definition,
         glyphs : SUBSET Glyph]

FinderInit ==
    /\ analysis \in Analysis
    /\ existing = {}
    /\ unscheduled = analysis.glyphs
    /\ queue = <<>>
    /\ glyph_to_conditions = [g \in Glyph |-> {}]
    /\ progress = "new"

-----------------------------------------------------------------------------
SegmentClosure(ss) == Closure(info.font, CombinedDefinition(info, ss))
GlyphClosure(def) == Closure(info.font, def)
InClosure(ss, gs) == gs \subseteq SegmentClosure(ss)

\* the glyphs that the other segments bring, and these segments in scope
AdditionalConditionGlyphs(ss, gs) == gs \cap SegmentClosure(all_segments \ ss)
RemainingSegments(ss) == (all_segments \ ss) \cap analysis.inscope

CreateTask(full_condition, sub_condition, to_be_tested, gs) ==
    [full_condition |-> full_condition, sub_condition |-> sub_condition,
     to_be_tested |-> to_be_tested,
     subset_definition |-> CombinedDefinition(info, sub_condition \cup to_be_tested),
     glyphs |-> gs]

\* that of a disjunction, which needs more segments
ExistingConditionOf(g) == ExistingSegments(analysis.conditions[g])

WithExistingCondition(ss) == {g \in analysis.glyphs : ExistingConditionOf(g) = ss}

Begin ==
    /\ progress = "new"
    /\ existing' = {ExistingConditionOf(g) : g \in analysis.glyphs} \ {{}}
    /\ glyph_to_conditions' =
          [g \in Glyph |-> IF g \in analysis.glyphs THEN ExistingConditionOf(g) ELSE {}]
    /\ progress' = IF info.disjoint /\ analysis.glyphs \cap info.init.gids = {}
                   THEN "scheduling" ELSE "failed"
    /\ UNCHANGED <<analysis, unscheduled, queue>>

ScheduleExistingConditionTask(ss) ==
    LET gs   == WithExistingCondition(ss)
        more == AdditionalConditionGlyphs(ss, gs)
    IN  /\ progress = "scheduling"
        /\ existing' = existing \ {ss}
        /\ progress' = IF InClosure(ss, gs) THEN "scheduling" ELSE "failed"
        /\ IF more = {}
           THEN UNCHANGED <<queue, unscheduled>>
           ELSE /\ queue' = Append(queue, CreateTask(ss, {}, RemainingSegments(ss), more))
                /\ unscheduled' = unscheduled \ gs
        /\ UNCHANGED <<analysis, glyph_to_conditions>>

ScheduleRemainingGlyphs ==
    LET task == CreateTask({}, {}, all_segments \cap analysis.inscope, unscheduled)
    IN  /\ progress = "scheduling"
        /\ existing = {}
        /\ queue' = IF unscheduled = {} THEN queue ELSE Append(queue, task)
        /\ unscheduled' = {}
        /\ progress' = IF InClosure(all_segments, unscheduled) THEN "running" ELSE "failed"
        /\ UNCHANGED <<analysis, existing, glyph_to_conditions>>

-----------------------------------------------------------------------------
(***************************************************************************)
(* The queue is processed from its end.                                    *)
(***************************************************************************)
Newest == queue[Len(queue)]
Rest == SubSeq(queue, 1, Len(queue) - 1)

DropEmptyTask ==
    /\ progress = "running"
    /\ queue # <<>>
    /\ Newest.glyphs = {}
    /\ queue' = Rest
    /\ UNCHANGED <<analysis, existing, unscheduled, glyph_to_conditions, progress>>

CreateSubTask(task, gs, tested, keep) ==
    [full_condition |-> task.full_condition,
     sub_condition |-> IF keep THEN task.sub_condition \cup {tested}
                       ELSE task.sub_condition,
     to_be_tested |-> task.to_be_tested \ {tested},
     subset_definition |-> IF keep THEN task.subset_definition
                           ELSE Minus(task.subset_definition, Combined(info, {tested})),
     glyphs |-> gs]

(***************************************************************************)
(* The segments are tested in order.  Mutation: in reverse order.          *)
(***************************************************************************)
LastOf(ss) == CHOOSE s \in ss : \A t \in ss : t <= s
Smallest(ss) == CHOOSE s \in ss : \A t \in ss : s <= t

(***************************************************************************)
(* The two tasks after a test: for the glyphs that do without the segment  *)
(* and for those that need it.                                             *)
(* Mutation: the segment is kept for the former.                           *)
(***************************************************************************)
SubTasksSwapped(task, tested, closure) ==
    <<CreateSubTask(task, task.glyphs \cap closure, tested, TRUE),
      CreateSubTask(task, task.glyphs \ closure, tested, FALSE)>>

SubTasks(task, tested, closure) ==
    <<CreateSubTask(task, task.glyphs \cap closure, tested, FALSE),
      CreateSubTask(task, task.glyphs \ closure, tested, TRUE)>>

TestSegment ==
    LET task    == Newest
        tested  == Smallest(task.to_be_tested)
        closure == GlyphClosure(Minus(task.subset_definition, Combined(info, {tested})))
    IN  /\ progress = "running"
        /\ queue # <<>>
        /\ task.glyphs # {}
        /\ task.to_be_tested # {}
        /\ queue' = Rest \o SubTasks(task, tested, closure)
        /\ UNCHANGED <<analysis, existing, unscheduled, glyph_to_conditions, progress>>

(***************************************************************************)
(* All segments are tested: those kept are recorded, and the glyphs which  *)
(* the segments never found bring as well are searched again without them. *)
(* Mutations: all glyphs are searched again; there is no further search.   *)
(***************************************************************************)
FurtherTaskAllGlyphs(task) ==
    LET full == task.full_condition \cup task.sub_condition
    IN  CreateTask(full, {}, RemainingSegments(full), task.glyphs)

FurtherTaskNone(task) == CreateTask(task.full_condition, {}, {}, {})

FurtherTask(task) ==
    LET full == task.full_condition \cup task.sub_condition
        gs   == AdditionalConditionGlyphs(full, task.glyphs)
    IN  CreateTask(full, {}, RemainingSegments(full), gs)

RecordSubCondition ==
    LET task    == Newest
        further == FurtherTask(task)
    IN  /\ progress = "running"
        /\ queue # <<>>
        /\ task.glyphs # {}
        /\ task.to_be_tested = {}
        /\ glyph_to_conditions' =
              [g \in Glyph |-> IF g \in task.glyphs
                               THEN glyph_to_conditions[g] \cup task.sub_condition
                               ELSE glyph_to_conditions[g]]
        /\ IF further.glyphs # {} /\ further.to_be_tested = {}
           THEN progress' = "failed" /\ queue' = Rest
           ELSE progress' = progress /\ queue' = Append(Rest, further)
        /\ UNCHANGED <<analysis, existing, unscheduled>>

\* FindFallbackGlyphConditions (glyph_groupings.cc) takes what was found
Finish ==
    /\ progress = "running"
    /\ queue = <<>>
    /\ progress' = IF \E g \in analysis.glyphs : glyph_to_conditions[g] = {}
                   THEN "failed" ELSE "done"
    /\ UNCHANGED <<analysis, existing, unscheduled, queue, glyph_to_conditions>>

FinderNext ==
    \/ Begin
    \/ \E ss \in existing : ScheduleExistingConditionTask(ss)
    \/ ScheduleRemainingGlyphs
    \/ DropEmptyTask
    \/ TestSegment
    \/ RecordSubCondition
    \/ Finish

FinderSpec ==
    FinderInit /\ [][FinderNext]_finder_vars /\ WF_finder_vars(FinderNext)

FoundCondition(g) ==
    IF Cardinality(glyph_to_conditions[g]) = 1
    THEN ExclusiveSegment(CHOOSE s \in glyph_to_conditions[g] : TRUE)
    ELSE OrSegments(glyph_to_conditions[g])

-----------------------------------------------------------------------------
FinderTypeOK ==
    /\ existing \subseteq SUBSET Segment
    /\ unscheduled \subseteq analysis.glyphs
    /\ queue \in Seq(Task)
    /\ glyph_to_conditions \in [Glyph -> SUBSET Segment]
    /\ progress \in {"new", "scheduling", "running", "done", "failed"}

(***************************************************************************)
(* What is found activates at least whenever the true condition would: no  *)
(* loads bring a glyph whose condition they do not meet                    *)
(* (complex_condition_finder.h).                                           *)
(***************************************************************************)
ActivatesWhenNeeded ==
    progress = "done" =>
        \A g \in analysis.glyphs, loaded \in SUBSET Segment :
            g \in SegmentClosure(loaded) => Holds(FoundCondition(g), loaded)

(***************************************************************************)
(* A segment of a condition found is one of the true condition: for some   *)
(* loads it makes the difference (complex_condition_finder.h).             *)
(***************************************************************************)
MakesTheDifference(s, g) ==
    \E loaded \in SUBSET Segment : /\ g \notin SegmentClosure(loaded)
                                   /\ g \in SegmentClosure(loaded \cup {s})

OnlySegmentsOfTheCondition ==
    \A g \in analysis.glyphs : \A s \in glyph_to_conditions[g] : MakesTheDifference(s, g)

(***************************************************************************)
(* The queue and the grouping of glyphs into tasks do not matter: each     *)
(* glyph has the condition that a search for it alone finds, as the        *)
(* segmentation assumes when it takes the search as one step.              *)
(***************************************************************************)
FindsGlyphByGlyph ==
    progress = "done" =>
        \A g \in analysis.glyphs :
            glyph_to_conditions[g] =
                FoundSegments(info, analysis.conditions, analysis.inscope,
                              analysis.glyphs, g)

(***************************************************************************)
(* A search that was begun ends, with a condition for every glyph (no      *)
(* Additional conditions check has failed).                                *)
(***************************************************************************)
SearchEnds == progress # "new" ~> progress = "done"
=============================================================================
