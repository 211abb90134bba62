-------------------- MODULE ComplexConditionFinderProofs --------------------
(***************************************************************************)
(* Proofs about ComplexConditionFinder: for every font with a monotone     *)
(* closure, every segmentation and every order of the segments, what the   *)
(* search finds activates whenever a glyph is needed, names only segments  *)
(* that matter, and the search never runs out of segments.                 *)
(***************************************************************************)
EXTENDS ComplexConditionFinder, SegmentationInfoProofs

-----------------------------------------------------------------------------
(***************************************************************************)
(* Taking the codepoints of a segment out of a definition is leaving the   *)
(* segment out, when segments share no codepoints with each other and with *)
(* the initial subset.                                                     *)
(***************************************************************************)
LEMMA MinusIsWithout ==
  ASSUME NEW i \in Info, SegmentsAreDisjoint(i.init, i.segments),
         NEW ss \in SUBSET Segment, NEW s \in ss
  PROVE  Minus(CombinedDefinition(i, ss), Combined(i, {s}))
            = CombinedDefinition(i, ss \ {s})
<1> DEFINE d == CombinedDefinition(i, ss)
           e == CombinedDefinition(i, ss \ {s})
<1>1. /\ i.init \in Definition /\ i.segments \in [Segment -> SUBSET Codepoint]
      /\ s \in Segment
  BY DEF Info
<1>2. UNION {i.segments[t] : t \in {s}} = i.segments[s]
  OBVIOUS
<1>3. d.codepoints \ i.segments[s] = e.codepoints
  <2>1. /\ d.codepoints = (UNION {i.segments[t] : t \in ss}) \cup i.init.codepoints
        /\ e.codepoints = (UNION {i.segments[t] : t \in ss \ {s}}) \cup i.init.codepoints
    BY CombinedType
  <2> HIDE DEF d, e
  <2> DEFINE P(c) == c \in i.init.codepoints
             Q(c, t) == c \in i.segments[t]
  <2>2. \A c : /\ c \in d.codepoints <=> P(c) \/ \E t \in ss : Q(c, t)
               /\ c \in e.codepoints <=> P(c) \/ \E t \in ss \ {s} : Q(c, t)
    BY <2>1
  <2>3. \A c : ~(P(c) /\ Q(c, s))
    BY <1>1 DEF SegmentsAreDisjoint
  <2>4. \A c : \A t \in ss \ {s} : ~(Q(c, t) /\ Q(c, s))
    <3> SUFFICES ASSUME NEW t \in ss \ {s}
                 PROVE  i.segments[t] \cap i.segments[s] = {}
      OBVIOUS
    <3>1. t \in Segment /\ t # s
      OBVIOUS
    <3> QED BY <1>1, <3>1 DEF SegmentsAreDisjoint
  <2>5. \A c : c \in i.segments[s] <=> Q(c, s)
    OBVIOUS
  <2> HIDE DEF P, Q
  <2>6. ASSUME NEW c
        PROVE  c \in e.codepoints <=> c \in d.codepoints /\ c \notin i.segments[s]
    <3>1. (\E t \in ss : Q(c, t)) <=> (Q(c, s) \/ \E t \in ss \ {s} : Q(c, t))
      OBVIOUS
    <3>2. /\ c \in d.codepoints <=> P(c) \/ \E t \in ss : Q(c, t)
          /\ c \in e.codepoints <=> P(c) \/ \E t \in ss \ {s} : Q(c, t)
      BY <2>2
    <3>3. c \in i.segments[s] <=> Q(c, s)
      BY <2>5
    <3>4. ~(P(c) /\ Q(c, s)) /\ \A t \in ss \ {s} : ~(Q(c, t) /\ Q(c, s))
      BY <2>3, <2>4
    <3> QED BY <3>1, <3>2, <3>3, <3>4
  <2> QED BY <2>6
<1>4. d.gids = i.init.gids
  BY CombinedType
<1>5. Combined(i, {s}) = [codepoints |-> i.segments[s], gids |-> {}]
  BY <1>2 DEF Combined, Codepoints
<1>6. Minus(d, Combined(i, {s})) = [codepoints |-> e.codepoints, gids |-> e.gids]
  <2>1. e.gids = d.gids
    BY CombinedType
  <2> HIDE DEF d, e
  <2>2. /\ Combined(i, {s}).codepoints = i.segments[s]
        /\ Combined(i, {s}).gids = {}
    BY <1>5
  <2>3. d.gids \ {} = d.gids
    OBVIOUS
  <2> QED BY <1>3, <2>1, <2>2, <2>3 DEF Minus
<1>7. e = [codepoints |-> e.codepoints, gids |-> e.gids]
  <2>1. e \in Definition
    BY CombinedType
  <2> HIDE DEF e
  <2> QED BY <2>1 DEF Definition
<1> QED BY <1>6, <1>7

LEMMA SmallestIsElement ==
  ASSUME NEW ss \in SUBSET Segment, ss # {}
  PROVE  Smallest(ss) \in ss
<1>1. ss \subseteq Nat
  BY SegmentAssumption
<1>2. PICK s \in ss : \A t \in ss : ~(<<t, s>> \in OpToRel(<, Nat))
  BY <1>1, NatLessThanWellFounded, WFMin
<1>3. \A t \in ss : s <= t
  <2> SUFFICES ASSUME NEW t \in ss PROVE s <= t
    OBVIOUS
  <2>1. s \in Nat /\ t \in Nat
    BY <1>1
  <2>2. ~(t < s)
    BY <1>2, <2>1 DEF OpToRel
  <2> QED BY <2>1, <2>2
<1> QED BY <1>3 DEF Smallest

-----------------------------------------------------------------------------
(***************************************************************************)
(* The inductive invariant.  A task says truly what its segments bring,    *)
(* and every glyph is still to be searched unless the segments never found *)
(* do not bring it.                                                        *)
(***************************************************************************)
Matters(a, s, g) ==
    \E loaded \in SUBSET Segment : /\ ~BroughtBy(a.info, g, loaded)
                                   /\ BroughtBy(a.info, g, loaded \cup {s})

TaskFits(a, found, t) ==
    /\ t.glyphs \subseteq a.glyphs
    /\ t.sub_condition \cap t.to_be_tested = {}
    /\ t.subset_definition =
          CombinedDefinition(a.info, t.sub_condition \cup t.to_be_tested)
    /\ \A g \in t.glyphs :
          /\ t.full_condition \subseteq found[g]
          /\ BroughtBy(a.info, g, t.sub_condition \cup t.to_be_tested)
          /\ \A s \in t.sub_condition : Matters(a, s, g)

OnQueue(q, g) == \E k \in 1 .. Len(q) : g \in q[k].glyphs
Excluded(a, found, g) == ~BroughtBy(a.info, g, NonEmptySegments(a.info) \ found[g])

Accounted(a, found, left, q, g) ==
    /\ ExistingSegments(a.conditions[g]) \subseteq found[g]
    /\ g \in left \/ BroughtBy(a.info, g, NonEmptySegments(a.info))
    /\ g \in left \/ OnQueue(q, g) \/ Excluded(a, found, g)

StartInv == progress = "new" => queue = <<>> /\ unscheduled = analysis.glyphs

TasksInv ==
    progress # "failed" =>
        \A k \in 1 .. Len(queue) : TaskFits(analysis, glyph_to_conditions, queue[k])

GlyphsInv ==
    progress \in {"scheduling", "running", "done"} =>
        /\ analysis.info.disjoint
        /\ analysis.glyphs \cap analysis.info.init.gids = {}
        /\ \A g \in analysis.glyphs :
              Accounted(analysis, glyph_to_conditions, unscheduled, queue, g)

EndInv == /\ progress \in {"running", "done"} => unscheduled = {}
          /\ progress = "done" => queue = <<>>

FoundInv == \A g \in analysis.glyphs : \A s \in glyph_to_conditions[g] :
                Matters(analysis, s, g)

IInv == /\ analysis \in Analysis
        /\ FinderTypeOK
        /\ StartInv
        /\ TasksInv
        /\ GlyphsInv
        /\ EndInv
        /\ FoundInv

-----------------------------------------------------------------------------
LEMMA NothingIsInit ==
  ASSUME NEW a, AnalysisOK(a), NEW g, g \notin a.info.init.gids
  PROVE  ~BroughtBy(a.info, g, {})
<1>1. a.info \in Info /\ {} \in SUBSET Segment
  BY DEF AnalysisOK
<1>2. CombinedDefinition(a.info, {}) = a.info.init
  <2> DEFINE d == CombinedDefinition(a.info, {})
  <2>1. /\ d \in Definition
        /\ d.codepoints = (UNION {a.info.segments[s] : s \in {}})
                              \cup a.info.init.codepoints
        /\ d.gids = a.info.init.gids
    BY <1>1, CombinedType
  <2>2. d.codepoints = a.info.init.codepoints
    BY <2>1
  <2> HIDE DEF d
  <2>3. a.info.init \in Definition
    BY <1>1 DEF Info
  <2>4. d = a.info.init
    BY <2>1, <2>2, <2>3 DEF Definition
  <2> QED BY <2>4 DEF d
<1> QED BY <1>2 DEF AnalysisOK, BroughtBy

LEMMA BroughtMonotone ==
  ASSUME NEW a, AnalysisOK(a), NEW g, NEW ss \in SUBSET Segment,
         NEW tt \in SUBSET Segment, ss \cap NonEmptySegments(a.info) \subseteq tt,
         BroughtBy(a.info, g, ss)
  PROVE  BroughtBy(a.info, g, tt)
<1>1. a.info \in Info
  BY DEF AnalysisOK
<1> QED BY <1>1, BringsMonotone DEF BroughtBy

LEMMA ExcludedByFewer ==
  ASSUME NEW a, AnalysisOK(a), NEW g \in Glyph,
         NEW found \in [Glyph -> SUBSET Segment], NEW ss \in SUBSET found[g],
         ~BroughtBy(a.info, g, NonEmptySegments(a.info) \ ss)
  PROVE  Excluded(a, found, g)
<1>1. /\ NonEmptySegments(a.info) \ ss \in SUBSET Segment
      /\ NonEmptySegments(a.info) \ found[g] \in SUBSET Segment
  BY DEF NonEmptySegments
<1> QED BY <1>1, BroughtMonotone DEF Excluded

LEMMA ExistingType ==
  ASSUME NEW c \in Condition
  PROVE  ExistingSegments(c) \in SUBSET Segment
BY DEF ExistingSegments, TriggeringSegments, Condition, Group

LEMMA ExistingMatters ==
  ASSUME NEW a, AnalysisOK(a), NEW g \in a.glyphs,
         NEW s \in ExistingSegments(a.conditions[g])
  PROVE  Matters(a, s, g)
<1>1. BroughtBy(a.info, g, {s}) /\ ~BroughtBy(a.info, g, {})
  BY NothingIsInit DEF AnalysisOK
<1>2. {} \cup {s} = {s} /\ {} \in SUBSET Segment
  OBVIOUS
<1> QED BY <1>1, <1>2 DEF Matters

(***************************************************************************)
(* The queue: the tasks without the newest, and two more tasks.            *)
(***************************************************************************)
LEMMA SubSeqType ==
  ASSUME NEW S, NEW q, NEW m \in Int, NEW n \in Int, \A k \in m .. n : q[k] \in S
  PROVE  /\ SubSeq(q, m, n) \in Seq(S)
         /\ Len(SubSeq(q, m, n)) = IF m <= n THEN n - m + 1 ELSE 0
         /\ \A k \in 1 .. n - m + 1 : SubSeq(q, m, n)[k] = q[m + k - 1]
OBVIOUS

LEMMA RestType ==
  ASSUME NEW S, NEW q \in Seq(S), q # <<>>
  PROVE  /\ SubSeq(q, 1, Len(q) - 1) \in Seq(S)
         /\ Len(SubSeq(q, 1, Len(q) - 1)) = Len(q) - 1
         /\ \A k \in 1 .. Len(q) - 1 : SubSeq(q, 1, Len(q) - 1)[k] = q[k]
         /\ Len(q) \in 1 .. Len(q) /\ q[Len(q)] \in S
<1>1. Len(q) \in Nat \ {0} /\ \A k \in 1 .. Len(q) : q[k] \in S
  OBVIOUS
<1> DEFINE n == Len(q) - 1
<1>2. n \in Nat /\ \A k \in 1 .. n : q[k] \in S
  BY <1>1
<1>3. 1 \in Int /\ n \in Int
  BY <1>2
<1> HIDE DEF n
<1>4. SubSeq(q, 1, n) \in Seq(S)
  BY <1>2, <1>3, SubSeqType, Zenon
<1>5. Len(SubSeq(q, 1, n)) = n /\ \A k \in 1 .. n : SubSeq(q, 1, n)[k] = q[k]
  BY <1>2
<1> QED BY <1>1, <1>4, <1>5 DEF n

LEMMA AppendType ==
  ASSUME NEW S, NEW q \in Seq(S), NEW x \in S
  PROVE  /\ Append(q, x) \in Seq(S)
         /\ Len(Append(q, x)) = Len(q) + 1
         /\ \A k \in 1 .. Len(q) : Append(q, x)[k] = q[k]
         /\ Append(q, x)[Len(q) + 1] = x
<1>1. Append(q, x) \in Seq(S) /\ Len(Append(q, x)) = Len(q) + 1
  OBVIOUS
<1>2. \A k \in 1 .. Len(q) : Append(q, x)[k] = q[k]
  OBVIOUS
<1>3. Append(q, x)[Len(q) + 1] = x
  OBVIOUS
<1> QED BY <1>1, <1>2, <1>3

LEMMA ConcatTwoType ==
  ASSUME NEW S, NEW q \in Seq(S), NEW x \in S, NEW y \in S
  PROVE  /\ q \o <<x, y>> \in Seq(S)
         /\ Len(q \o <<x, y>>) = Len(q) + 2
         /\ \A k \in 1 .. Len(q) : (q \o <<x, y>>)[k] = q[k]
         /\ (q \o <<x, y>>)[Len(q) + 1] = x
         /\ (q \o <<x, y>>)[Len(q) + 2] = y
<1> DEFINE p == Append(q, x)
<1>1. q \o <<x, y>> = Append(p, y)
  OBVIOUS
<1>2. /\ p \in Seq(S) /\ Len(p) = Len(q) + 1 /\ p[Len(q) + 1] = x
      /\ \A k \in 1 .. Len(q) : p[k] = q[k]
  BY AppendType
<1> HIDE DEF p
<1>3. /\ Append(p, y) \in Seq(S) /\ Len(Append(p, y)) = Len(p) + 1
      /\ Append(p, y)[Len(p) + 1] = y
      /\ \A k \in 1 .. Len(p) : Append(p, y)[k] = p[k]
  BY <1>2, AppendType
<1>4. Len(q) \in Nat /\ Len(p) = Len(q) + 1
  BY <1>2
<1> DEFINE r == Append(p, y)
<1> HIDE DEF r
<1>5. Len(r) = Len(q) + 2 /\ r[Len(q) + 1] = x /\ r[Len(q) + 2] = y
  <2>1. Len(q) + 1 \in 1 .. Len(p) /\ Len(p) + 1 = Len(q) + 2
    BY <1>4
  <2> QED BY <1>2, <1>3, <2>1 DEF r
<1>6. \A k \in 1 .. Len(q) : r[k] = q[k]
  <2>1. \A k \in 1 .. Len(q) : k \in 1 .. Len(p)
    BY <1>4
  <2> QED BY <1>2, <1>3, <2>1 DEF r
<1> QED BY <1>1, <1>3, <1>5, <1>6 DEF r

-----------------------------------------------------------------------------
(***************************************************************************)
(* The tasks that the actions create fit.                                  *)
(***************************************************************************)
LEMMA SubTasksFit ==
  ASSUME AnalysisOK(analysis), info.disjoint, NEW found, NEW t \in Task,
         TaskFits(analysis, found, t), NEW c \in t.to_be_tested, NEW closure,
         closure = GlyphClosure(Minus(t.subset_definition, Combined(info, {c})))
  PROVE  LET one == CreateSubTask(t, t.glyphs \cap closure, c, FALSE)
             two == CreateSubTask(t, t.glyphs \ closure, c, TRUE)
         IN  /\ one \in Task /\ TaskFits(analysis, found, one)
             /\ two \in Task /\ TaskFits(analysis, found, two)
             /\ t.glyphs \subseteq one.glyphs \cup two.glyphs
<1> DEFINE ss == t.sub_condition \cup t.to_be_tested
           rest == ss \ {c}
           one == CreateSubTask(t, t.glyphs \cap closure, c, FALSE)
           two == CreateSubTask(t, t.glyphs \ closure, c, TRUE)
<1>1. /\ info \in Info /\ SegmentsAreDisjoint(info.init, info.segments)
      /\ t.full_condition \in SUBSET Segment /\ t.sub_condition \in SUBSET Segment
      /\ t.to_be_tested \in SUBSET Segment /\ t.glyphs \in SUBSET Glyph
      /\ t.subset_definition \in Definition
  BY DEF AnalysisOK, info, Task
<1>2. /\ ss \in SUBSET Segment /\ rest \in SUBSET Segment
      /\ c \in ss /\ c \notin t.sub_condition /\ c \in Segment
  BY <1>1 DEF TaskFits
<1>3. /\ t.subset_definition = CombinedDefinition(info, ss)
      /\ \A g \in t.glyphs : /\ t.full_condition \subseteq found[g]
                             /\ BroughtBy(info, g, ss)
                             /\ \A s \in t.sub_condition : Matters(analysis, s, g)
      /\ t.glyphs \subseteq analysis.glyphs
      /\ t.sub_condition \cap t.to_be_tested = {}
  BY DEF TaskFits, info
<1>4. /\ t.sub_condition \cup (t.to_be_tested \ {c}) = rest
      /\ (t.sub_condition \cup {c}) \cup (t.to_be_tested \ {c}) = ss
      /\ rest \cup {c} = ss
  BY <1>2
<1> HIDE DEF ss, rest
<1>5. Minus(t.subset_definition, Combined(info, {c})) = CombinedDefinition(info, rest)
  BY <1>1, <1>2, <1>3, MinusIsWithout DEF rest
<1>6. CombinedDefinition(info, rest) \in Definition
  BY <1>1, <1>2, CombinedType
<1>7. \A g : g \in closure <=> BroughtBy(info, g, rest)
  BY <1>5 DEF GlyphClosure, BroughtBy
<1>8. one = [full_condition |-> t.full_condition, sub_condition |-> t.sub_condition,
             to_be_tested |-> t.to_be_tested \ {c},
             subset_definition |-> CombinedDefinition(info, rest),
             glyphs |-> t.glyphs \cap closure]
  BY <1>5 DEF CreateSubTask
<1>9. two = [full_condition |-> t.full_condition,
             sub_condition |-> t.sub_condition \cup {c},
             to_be_tested |-> t.to_be_tested \ {c},
             subset_definition |-> t.subset_definition,
             glyphs |-> t.glyphs \ closure]
  BY DEF CreateSubTask
<1> HIDE DEF one, two
<1>10. one \in Task /\ two \in Task
  BY <1>1, <1>2, <1>6, <1>8, <1>9 DEF Task
<1>11. TaskFits(analysis, found, one)
  <2>1. /\ one.full_condition = t.full_condition /\ one.sub_condition = t.sub_condition
        /\ one.to_be_tested = t.to_be_tested \ {c} /\ one.glyphs = t.glyphs \cap closure
        /\ one.subset_definition = CombinedDefinition(info, rest)
    BY <1>8
  <2>2. one.glyphs \subseteq analysis.glyphs /\ one.sub_condition \cap one.to_be_tested = {}
    BY <1>3, <2>1
  <2>3. ASSUME NEW g \in one.glyphs
        PROVE  /\ one.full_condition \subseteq found[g]
               /\ BroughtBy(info, g, one.sub_condition \cup one.to_be_tested)
               /\ \A s \in one.sub_condition : Matters(analysis, s, g)
    <3>1. g \in t.glyphs /\ g \in closure
      BY <2>1
    <3>2. BroughtBy(info, g, rest)
      BY <1>7, <3>1
    <3> QED BY <1>3, <1>4, <2>1, <3>1, <3>2
  <2>4. one.subset_definition
           = CombinedDefinition(info, one.sub_condition \cup one.to_be_tested)
    BY <1>4, <2>1
  <2> QED BY <2>2, <2>3, <2>4 DEF TaskFits, info
<1>12. TaskFits(analysis, found, two)
  <2>1. /\ two.full_condition = t.full_condition
        /\ two.sub_condition = t.sub_condition \cup {c}
        /\ two.to_be_tested = t.to_be_tested \ {c} /\ two.glyphs = t.glyphs \ closure
        /\ two.subset_definition = CombinedDefinition(info, ss)
    BY <1>3, <1>9
  <2>2. two.glyphs \subseteq analysis.glyphs /\ two.sub_condition \cap two.to_be_tested = {}
    BY <1>3, <2>1
  <2>3. ASSUME NEW g \in two.glyphs
        PROVE  /\ two.full_condition \subseteq found[g]
               /\ BroughtBy(info, g, two.sub_condition \cup two.to_be_tested)
               /\ \A s \in two.sub_condition : Matters(analysis, s, g)
    <3>1. g \in t.glyphs /\ g \notin closure
      BY <2>1
    <3>2. ~BroughtBy(info, g, rest) /\ BroughtBy(info, g, rest \cup {c})
      BY <1>3, <1>4, <1>7, <3>1
    <3>3. Matters(analysis, c, g)
      BY <1>2, <3>2 DEF Matters, info
    <3> QED BY <1>3, <1>4, <2>1, <3>1, <3>3
  <2>4. two.subset_definition
           = CombinedDefinition(info, two.sub_condition \cup two.to_be_tested)
    BY <1>4, <2>1
  <2> QED BY <2>2, <2>3, <2>4 DEF TaskFits, info
<1>13. t.glyphs \subseteq one.glyphs \cup two.glyphs
  BY <1>8, <1>9
<1> QED BY <1>10, <1>11, <1>12, <1>13 DEF one, two

LEMMA CreatedTaskFits ==
  ASSUME AnalysisOK(analysis), NEW found, NEW full \in SUBSET Segment,
         NEW ss \in SUBSET Segment, NEW gs \in SUBSET analysis.glyphs,
         \A g \in gs : full \subseteq found[g] /\ BroughtBy(info, g, ss)
  PROVE  /\ CreateTask(full, {}, ss, gs) \in Task
         /\ TaskFits(analysis, found, CreateTask(full, {}, ss, gs))
         /\ CreateTask(full, {}, ss, gs).glyphs = gs
         /\ CreateTask(full, {}, ss, gs).to_be_tested = ss
<1> DEFINE t == CreateTask(full, {}, ss, gs)
<1>1. {} \cup ss = ss
  OBVIOUS
<1>2. t = [full_condition |-> full, sub_condition |-> {}, to_be_tested |-> ss,
           subset_definition |-> CombinedDefinition(info, ss), glyphs |-> gs]
  BY <1>1 DEF CreateTask
<1>3. CombinedDefinition(info, ss) \in Definition /\ gs \in SUBSET Glyph
  BY CombinedType DEF AnalysisOK, info
<1> HIDE DEF t
<1>4. t \in Task
  BY <1>2, <1>3 DEF Task
<1>5. TaskFits(analysis, found, t)
  BY <1>1, <1>2 DEF TaskFits, info
<1> QED BY <1>2, <1>4, <1>5 DEF t

(***************************************************************************)
(* The segments in scope are enough.                                       *)
(***************************************************************************)
LEMMA BroughtInScope ==
  ASSUME AnalysisOK(analysis), NEW g \in analysis.glyphs, NEW ss,
         BroughtBy(info, g, all_segments \ ss)
  PROVE  BroughtBy(info, g, RemainingSegments(ss)) /\ RemainingSegments(ss) \in SUBSET Segment
<1>1. all_segments \ ss \in SUBSET Segment
  BY DEF all_segments, NonEmptySegments
<1>2. BroughtBy(info, g, (all_segments \ ss) \cap analysis.inscope)
  BY <1>1 DEF AnalysisOK, info
<1> QED BY <1>1, <1>2 DEF RemainingSegments

-----------------------------------------------------------------------------
(***************************************************************************)
(* Each action preserves the invariant.                                    *)
(***************************************************************************)
LEMMA InitEstablishes == FinderInit => IInv
<1> SUFFICES ASSUME FinderInit PROVE IInv
  OBVIOUS
<1> USE DEF FinderInit
<1>1. AnalysisOK(analysis)
  BY AnalysisAssumption
<1>2. FinderTypeOK
  BY DEF FinderTypeOK
<1>3. StartInv /\ TasksInv /\ GlyphsInv /\ EndInv
  BY DEF StartInv, TasksInv, GlyphsInv, EndInv
<1>4. FoundInv
  BY <1>1 DEF FoundInv, AnalysisOK
<1> QED BY <1>2, <1>3, <1>4 DEF IInv

LEMMA BeginPreserves == IInv /\ Begin => IInv'
<1> SUFFICES ASSUME IInv, Begin PROVE IInv'
  OBVIOUS
<1>1. /\ AnalysisOK(analysis) /\ analysis \in Analysis /\ analysis' = analysis
      /\ queue = <<>> /\ queue' = <<>>
      /\ unscheduled = analysis.glyphs /\ unscheduled' = unscheduled
      /\ progress' \in {"scheduling", "failed"}
  BY AnalysisAssumption DEF IInv, Begin, StartInv
<1>2. \A g \in analysis.glyphs :
         ExistingConditionOf(g) \in SUBSET Segment /\ g \in Glyph
  BY <1>1, ExistingType DEF ExistingConditionOf, AnalysisOK
<1>3. FinderTypeOK'
  <2>1. existing' \subseteq SUBSET Segment
    BY <1>2 DEF Begin
  <2>2. glyph_to_conditions' \in [Glyph -> SUBSET Segment]
    BY <1>2 DEF Begin
  <2>3. queue' \in Seq(Task)
    BY <1>1
  <2> QED BY <1>1, <2>1, <2>2, <2>3 DEF FinderTypeOK
<1>4. \A g \in analysis.glyphs :
         glyph_to_conditions'[g] = ExistingSegments(analysis.conditions[g])
  BY <1>2 DEF Begin, ExistingConditionOf
<1>5. StartInv' /\ EndInv'
  BY <1>1 DEF StartInv, EndInv
<1>6. TasksInv'
  BY <1>1 DEF TasksInv
<1>7. GlyphsInv'
  BY <1>1, <1>4 DEF GlyphsInv, Begin, Accounted, info
<1>8. FoundInv'
  BY <1>1, <1>4, ExistingMatters DEF FoundInv
<1> QED BY <1>1, <1>3, <1>5, <1>6, <1>7, <1>8 DEF IInv

(***************************************************************************)
(* A longer queue still accounts for the glyphs of its tasks.              *)
(***************************************************************************)
LEMMA OnLongerQueue ==
  ASSUME NEW q \in Seq(Task), NEW r \in Seq(Task), NEW g,
         Len(q) <= Len(r), \A k \in 1 .. Len(q) : r[k] = q[k],
         OnQueue(q, g)
  PROVE  OnQueue(r, g)
<1>1. PICK k \in 1 .. Len(q) : g \in q[k].glyphs
  BY DEF OnQueue
<1>2. k \in 1 .. Len(r) /\ r[k] = q[k]
  OBVIOUS
<1> QED BY <1>1, <1>2 DEF OnQueue

LEMMA ScheduleExistingPreserves ==
  ASSUME IInv, NEW ss \in existing, ScheduleExistingConditionTask(ss)
  PROVE  IInv'
<1> DEFINE gs == WithExistingCondition(ss)
           more == AdditionalConditionGlyphs(ss, gs)
           task == CreateTask(ss, {}, RemainingSegments(ss), more)
<1>1. /\ AnalysisOK(analysis) /\ analysis \in Analysis /\ analysis' = analysis
      /\ glyph_to_conditions' = glyph_to_conditions
      /\ progress = "scheduling" /\ progress' \in {"scheduling", "failed"}
      /\ progress' # "failed" => InClosure(ss, gs)
      /\ queue \in Seq(Task) /\ ss \in SUBSET Segment
      /\ glyph_to_conditions \in [Glyph -> SUBSET Segment]
      /\ unscheduled \subseteq analysis.glyphs
      /\ analysis.glyphs \subseteq Glyph
  BY AnalysisAssumption DEF IInv, ScheduleExistingConditionTask, FinderTypeOK, AnalysisOK
<1>2. /\ analysis.info.disjoint /\ analysis.glyphs \cap analysis.info.init.gids = {}
      /\ \A g \in analysis.glyphs :
            Accounted(analysis, glyph_to_conditions, unscheduled, queue, g)
      /\ \A k \in 1 .. Len(queue) : TaskFits(analysis, glyph_to_conditions, queue[k])
  BY <1>1 DEF IInv, GlyphsInv, TasksInv
<1>3. /\ gs \subseteq analysis.glyphs /\ more \subseteq gs
      /\ \A g \in gs : ss \subseteq glyph_to_conditions[g]
  BY <1>2 DEF WithExistingCondition, ExistingConditionOf, Accounted,
              AdditionalConditionGlyphs
<1>4. \A g \in gs : g \in more <=> BroughtBy(info, g, all_segments \ ss)
  BY DEF AdditionalConditionGlyphs, SegmentClosure, BroughtBy
<1>5. \A g \in gs : g \in more \/ Excluded(analysis, glyph_to_conditions, g)
  BY <1>1, <1>3, <1>4, ExcludedByFewer DEF all_segments, info
<1>6. progress' # "failed" =>
         \A g \in gs : BroughtBy(info, g, all_segments)
  <2> SUFFICES ASSUME progress' # "failed", NEW g \in gs
               PROVE  BroughtBy(info, g, all_segments)
    OBVIOUS
  <2>1. BroughtBy(info, g, ss)
    BY <1>1 DEF InClosure, SegmentClosure, BroughtBy
  <2>2. all_segments \in SUBSET Segment /\ ss \cap all_segments \subseteq all_segments
    BY DEF all_segments, NonEmptySegments
  <2> QED BY <1>1, <2>1, <2>2, BroughtMonotone DEF all_segments, info
<1> HIDE DEF gs, more
<1>7. CASE more = {}
  <2>1. queue' = queue /\ unscheduled' = unscheduled
    BY <1>7 DEF ScheduleExistingConditionTask, gs, more
  <2>2. existing' \subseteq existing
    BY DEF ScheduleExistingConditionTask
  <2>3. FinderTypeOK'
    BY <1>1, <2>1, <2>2 DEF IInv, FinderTypeOK
  <2>4. StartInv' /\ EndInv' /\ TasksInv' /\ GlyphsInv'
    BY <1>1, <1>2, <2>1 DEF StartInv, EndInv, TasksInv, GlyphsInv
  <2>5. FoundInv'
    BY <1>1 DEF IInv, FoundInv
  <2> QED BY <1>1, <2>3, <2>4, <2>5 DEF IInv
<1>8. CASE more # {}
  <2>1. queue' = Append(queue, task) /\ unscheduled' = unscheduled \ gs
    BY <1>8 DEF ScheduleExistingConditionTask, gs, more
  <2>2. /\ task \in Task /\ TaskFits(analysis, glyph_to_conditions, task)
        /\ task.glyphs = more
    <3>1. \A g \in more : /\ ss \subseteq glyph_to_conditions[g]
                          /\ BroughtBy(info, g, RemainingSegments(ss))
      BY <1>1, <1>3, <1>4, BroughtInScope
    <3>2. RemainingSegments(ss) \in SUBSET Segment /\ more \in SUBSET analysis.glyphs
      BY <1>3 DEF RemainingSegments, all_segments, NonEmptySegments
    <3>3. AnalysisOK(analysis) /\ ss \in SUBSET Segment
      BY <1>1
    <3>4. ASSUME NEW found, \A g \in more : /\ ss \subseteq found[g]
                                             /\ BroughtBy(info, g, RemainingSegments(ss))
          PROVE  LET t == CreateTask(ss, {}, RemainingSegments(ss), more)
                 IN  t \in Task /\ TaskFits(analysis, found, t) /\ t.glyphs = more
      <4> HIDE DEF more
      <4> QED BY <3>2, <3>3, <3>4, CreatedTaskFits
    <3> HIDE DEF more
    <3> QED BY <3>1, <3>4
  <2> HIDE DEF task
  <2>3. /\ queue' \in Seq(Task) /\ Len(queue') = Len(queue) + 1
        /\ \A k \in 1 .. Len(queue) : queue'[k] = queue[k]
        /\ queue'[Len(queue) + 1] = task
    BY <1>1, <2>1, <2>2, AppendType
  <2>4. FinderTypeOK'
    <3>1. existing' \subseteq existing
      BY DEF ScheduleExistingConditionTask
    <3> QED BY <1>1, <2>1, <2>3, <3>1 DEF IInv, FinderTypeOK
  <2>5. TasksInv'
    <3>1. ASSUME NEW k \in 1 .. Len(queue')
          PROVE  TaskFits(analysis, glyph_to_conditions, queue'[k])
      <4>1. Len(queue) \in Nat /\ (k \in 1 .. Len(queue) \/ k = Len(queue) + 1)
        BY <1>1, <2>3
      <4> QED BY <1>2, <2>2, <2>3, <4>1
    <3> QED BY <1>1, <3>1 DEF TasksInv
  <2>6. GlyphsInv'
    <3>1. ASSUME NEW g \in analysis.glyphs, progress' # "failed"
          PROVE  Accounted(analysis, glyph_to_conditions, unscheduled', queue', g)
      <4>1. Accounted(analysis, glyph_to_conditions, unscheduled, queue, g)
        BY <1>2
      <4>2. OnQueue(queue, g) => OnQueue(queue', g)
        <5>1. Len(queue) <= Len(queue')
          BY <1>1, <2>3
        <5> QED BY <1>1, <2>3, <5>1, OnLongerQueue
      <4>3. CASE g \notin gs
        BY <2>1, <4>1, <4>2, <4>3 DEF Accounted
      <4>4. CASE g \in gs
        <5>1. BroughtBy(analysis.info, g, NonEmptySegments(analysis.info))
          BY <1>6, <3>1, <4>4 DEF all_segments, info
        <5>2. g \in more => OnQueue(queue', g)
          <6>1. Len(queue) + 1 \in 1 .. Len(queue')
            BY <1>1, <2>3
          <6> QED BY <2>2, <2>3, <6>1 DEF OnQueue
        <5> QED BY <1>5, <4>1, <4>4, <5>1, <5>2 DEF Accounted
      <4> QED BY <4>3, <4>4
    <3> QED BY <1>1, <1>2, <3>1 DEF GlyphsInv
  <2>7. StartInv' /\ EndInv'
    BY <1>1 DEF StartInv, EndInv
  <2>8. FoundInv'
    BY <1>1 DEF IInv, FoundInv
  <2> QED BY <1>1, <2>4, <2>5, <2>6, <2>7, <2>8 DEF IInv
<1> QED BY <1>7, <1>8

LEMMA ScheduleRemainingPreserves == IInv /\ ScheduleRemainingGlyphs => IInv'
<1> SUFFICES ASSUME IInv, ScheduleRemainingGlyphs PROVE IInv'
  OBVIOUS
<1> DEFINE scope == all_segments \cap analysis.inscope
           task == CreateTask({}, {}, scope, unscheduled)
<1>1. /\ AnalysisOK(analysis) /\ analysis \in Analysis /\ analysis' = analysis
      /\ glyph_to_conditions' = glyph_to_conditions
      /\ progress = "scheduling" /\ progress' \in {"running", "failed"}
      /\ progress' # "failed" => InClosure(all_segments, unscheduled)
      /\ queue \in Seq(Task) /\ unscheduled' = {}
      /\ existing' = existing
      /\ glyph_to_conditions \in [Glyph -> SUBSET Segment]
      /\ unscheduled \subseteq analysis.glyphs
      /\ queue' = IF unscheduled = {} THEN queue ELSE Append(queue, task)
  BY AnalysisAssumption DEF IInv, ScheduleRemainingGlyphs, FinderTypeOK
<1>2. /\ analysis.info.disjoint /\ analysis.glyphs \cap analysis.info.init.gids = {}
      /\ \A g \in analysis.glyphs :
            Accounted(analysis, glyph_to_conditions, unscheduled, queue, g)
      /\ \A k \in 1 .. Len(queue) : TaskFits(analysis, glyph_to_conditions, queue[k])
  BY <1>1 DEF IInv, GlyphsInv, TasksInv
<1>3. task \in Task /\ task.glyphs = unscheduled
  <2>1. scope \in SUBSET Segment /\ unscheduled \in SUBSET Glyph
    BY <1>1 DEF all_segments, NonEmptySegments, AnalysisOK
  <2>2. scope \cup {} = scope /\ CombinedDefinition(info, scope) \in Definition
    BY <1>1, <2>1, CombinedType DEF AnalysisOK, info
  <2> HIDE DEF scope
  <2>3. task = [full_condition |-> {}, sub_condition |-> {}, to_be_tested |-> scope,
                subset_definition |-> CombinedDefinition(info, scope),
                glyphs |-> unscheduled]
    <3>1. {} \cup scope = scope
      OBVIOUS
    <3> QED BY <3>1 DEF CreateTask
  <2> HIDE DEF task
  <2> QED BY <2>1, <2>2, <2>3 DEF Task
<1>4. queue' \in Seq(Task)
  <2> HIDE DEF task
  <2> QED BY <1>1, <1>3, AppendType
<1>5. FinderTypeOK'
  BY <1>1, <1>4 DEF IInv, FinderTypeOK
<1>6. StartInv' /\ EndInv'
  BY <1>1 DEF StartInv, EndInv
<1>7. FoundInv'
  BY <1>1 DEF IInv, FoundInv
<1>8. CASE progress' = "failed"
  BY <1>1, <1>5, <1>6, <1>7, <1>8 DEF IInv, TasksInv, GlyphsInv
<1>9. CASE progress' # "failed"
  <2>1. \A g \in unscheduled : /\ BroughtBy(info, g, all_segments)
                               /\ BroughtBy(info, g, all_segments \ {})
    <3>1. all_segments \ {} = all_segments
      OBVIOUS
    <3> QED BY <1>1, <1>9, <3>1 DEF InClosure, SegmentClosure, BroughtBy
  <2>2. TaskFits(analysis, glyph_to_conditions, task)
    <3>1. RemainingSegments({}) = scope
      BY DEF RemainingSegments
    <3>2. \A g \in unscheduled : BroughtBy(info, g, scope)
      BY <1>1, <2>1, <3>1, BroughtInScope
    <3>3. scope \in SUBSET Segment /\ {} \in SUBSET Segment
      BY DEF all_segments, NonEmptySegments
    <3>4. \A g \in unscheduled : {} \subseteq glyph_to_conditions[g]
      OBVIOUS
    <3> HIDE DEF scope
    <3>5. TaskFits(analysis, glyph_to_conditions, CreateTask({}, {}, scope, unscheduled))
      BY <1>1, <3>2, <3>3, <3>4, CreatedTaskFits
    <3> QED BY <3>5
  <2> HIDE DEF task
  <2>3. CASE unscheduled = {}
    <3>1. queue' = queue /\ unscheduled' = unscheduled
      BY <1>1, <2>3
    <3> QED BY <1>1, <1>2, <1>5, <1>6, <1>7, <3>1 DEF IInv, TasksInv, GlyphsInv
  <2>4. CASE unscheduled # {}
    <3>1. /\ queue' = Append(queue, task) /\ Len(queue') = Len(queue) + 1
          /\ \A k \in 1 .. Len(queue) : queue'[k] = queue[k]
          /\ queue'[Len(queue) + 1] = task
      BY <1>1, <1>3, <2>4, AppendType
    <3>2. ASSUME NEW k \in 1 .. Len(queue')
          PROVE  TaskFits(analysis, glyph_to_conditions, queue'[k])
      <4>1. Len(queue) \in Nat /\ (k \in 1 .. Len(queue) \/ k = Len(queue) + 1)
        BY <1>1, <3>1
      <4> QED BY <1>2, <2>2, <3>1, <4>1
    <3>3. ASSUME NEW g \in analysis.glyphs
          PROVE  Accounted(analysis, glyph_to_conditions, unscheduled', queue', g)
      <4>1. Accounted(analysis, glyph_to_conditions, unscheduled, queue, g)
        BY <1>2
      <4>2. OnQueue(queue, g) => OnQueue(queue', g)
        <5>1. Len(queue) <= Len(queue')
          BY <1>1, <3>1
        <5> QED BY <1>1, <1>4, <3>1, <5>1, OnLongerQueue
      <4>3. g \in unscheduled => OnQueue(queue', g)
        <5>1. Len(queue) + 1 \in 1 .. Len(queue')
          BY <1>1, <3>1
        <5> QED BY <1>3, <3>1, <5>1 DEF OnQueue
      <4>4. g \in unscheduled => BroughtBy(analysis.info, g, NonEmptySegments(analysis.info))
        BY <2>1 DEF all_segments, info
      <4> QED BY <4>1, <4>2, <4>3, <4>4 DEF Accounted
    <3>4. TasksInv'
      BY <1>1, <3>2 DEF TasksInv
    <3>5. GlyphsInv'
      BY <1>1, <1>2, <3>3 DEF GlyphsInv
    <3> QED BY <1>1, <1>5, <1>6, <1>7, <3>4, <3>5 DEF IInv
  <2> QED BY <2>3, <2>4
<1> QED BY <1>8, <1>9

(***************************************************************************)
(* What the steps that take the newest task start from.                    *)
(***************************************************************************)
LEMMA NewestFits ==
  ASSUME IInv, progress = "running", queue # <<>>
  PROVE  /\ AnalysisOK(analysis) /\ analysis.info.disjoint
         /\ analysis.glyphs \cap analysis.info.init.gids = {}
         /\ queue \in Seq(Task) /\ Newest \in Task
         /\ TaskFits(analysis, glyph_to_conditions, Newest)
         /\ unscheduled = {}
         /\ \A g \in analysis.glyphs :
               Accounted(analysis, glyph_to_conditions, unscheduled, queue, g)
         /\ Rest \in Seq(Task) /\ Len(Rest) = Len(queue) - 1
         /\ \A k \in 1 .. Len(Rest) :
               Rest[k] = queue[k] /\ TaskFits(analysis, glyph_to_conditions, Rest[k])
         /\ \A g : OnQueue(queue, g) => OnQueue(Rest, g) \/ g \in Newest.glyphs
<1>1. /\ AnalysisOK(analysis) /\ analysis.info.disjoint /\ unscheduled = {}
      /\ analysis.glyphs \cap analysis.info.init.gids = {}
      /\ queue \in Seq(Task)
      /\ \A g \in analysis.glyphs :
            Accounted(analysis, glyph_to_conditions, unscheduled, queue, g)
      /\ \A k \in 1 .. Len(queue) : TaskFits(analysis, glyph_to_conditions, queue[k])
  BY AnalysisAssumption DEF IInv, GlyphsInv, TasksInv, EndInv, FinderTypeOK
<1>2. /\ Rest \in Seq(Task) /\ Len(Rest) = Len(queue) - 1
      /\ \A k \in 1 .. Len(queue) - 1 : Rest[k] = queue[k]
      /\ Len(queue) \in 1 .. Len(queue) /\ Newest \in Task
  BY <1>1, RestType DEF Rest, Newest
<1>3. \A k \in 1 .. Len(Rest) : k \in 1 .. Len(queue) /\ Rest[k] = queue[k]
  BY <1>1, <1>2
<1>4. ASSUME NEW g, OnQueue(queue, g) PROVE OnQueue(Rest, g) \/ g \in Newest.glyphs
  <2>1. PICK k \in 1 .. Len(queue) : g \in queue[k].glyphs
    BY <1>4 DEF OnQueue
  <2>2. k \in 1 .. Len(Rest) \/ k = Len(queue)
    BY <1>1, <1>2
  <2> QED BY <1>3, <2>1, <2>2 DEF OnQueue, Newest
<1> QED BY <1>1, <1>2, <1>3, <1>4 DEF Newest

LEMMA DropPreserves == IInv /\ DropEmptyTask => IInv'
<1> SUFFICES ASSUME IInv, DropEmptyTask PROVE IInv'
  OBVIOUS
<1>1. /\ progress = "running" /\ queue # <<>> /\ Newest.glyphs = {} /\ queue' = Rest
      /\ analysis' = analysis /\ existing' = existing /\ unscheduled' = unscheduled
      /\ glyph_to_conditions' = glyph_to_conditions /\ progress' = progress
  BY DEF DropEmptyTask
<1>2. FinderTypeOK'
  BY <1>1, NewestFits DEF IInv, FinderTypeOK
<1>3. TasksInv'
  BY <1>1, NewestFits DEF TasksInv
<1>4. GlyphsInv'
  BY <1>1, NewestFits DEF GlyphsInv, Accounted
<1>5. StartInv' /\ EndInv' /\ FoundInv'
  BY <1>1 DEF IInv, StartInv, EndInv, FoundInv
<1> QED BY <1>1, <1>2, <1>3, <1>4, <1>5 DEF IInv

LEMMA TestPreserves == IInv /\ TestSegment => IInv'
<1> SUFFICES ASSUME IInv, TestSegment PROVE IInv'
  OBVIOUS
<1> DEFINE task == Newest
           c == Smallest(task.to_be_tested)
           closure == GlyphClosure(Minus(task.subset_definition, Combined(info, {c})))
           one == CreateSubTask(task, task.glyphs \cap closure, c, FALSE)
           two == CreateSubTask(task, task.glyphs \ closure, c, TRUE)
<1>1. /\ progress = "running" /\ queue # <<>> /\ task.to_be_tested # {}
      /\ queue' = Rest \o <<one, two>>
      /\ analysis' = analysis /\ existing' = existing /\ unscheduled' = unscheduled
      /\ glyph_to_conditions' = glyph_to_conditions /\ progress' = progress
  BY DEF TestSegment, SubTasks
<1>2. task \in Task /\ c \in task.to_be_tested
  <2>1. task \in Task
    BY <1>1, NewestFits
  <2>2. task.to_be_tested \in SUBSET Segment
    BY <2>1 DEF Task
  <2> QED BY <1>1, <2>1, <2>2, SmallestIsElement
<1>3. /\ one \in Task /\ TaskFits(analysis, glyph_to_conditions, one)
      /\ two \in Task /\ TaskFits(analysis, glyph_to_conditions, two)
      /\ task.glyphs \subseteq one.glyphs \cup two.glyphs
  <2>1. AnalysisOK(analysis) /\ info.disjoint /\ TaskFits(analysis, glyph_to_conditions, task)
    BY <1>1, NewestFits DEF info
  <2> HIDE DEF task, c
  <2> QED BY <1>2, <2>1, SubTasksFit
<1> HIDE DEF one, two, c, closure
<1>4. /\ queue' \in Seq(Task) /\ Len(queue') = Len(Rest) + 2
      /\ \A k \in 1 .. Len(Rest) : queue'[k] = Rest[k]
      /\ queue'[Len(Rest) + 1] = one /\ queue'[Len(Rest) + 2] = two
  <2>1. Rest \in Seq(Task)
    BY <1>1, NewestFits
  <2> HIDE DEF task
  <2> QED BY <1>1, <1>3, <2>1, ConcatTwoType
<1>5. Len(Rest) \in Nat /\ Len(Rest) + 1 \in 1 .. Len(queue')
      /\ Len(Rest) + 2 \in 1 .. Len(queue') /\ Len(Rest) <= Len(queue')
  <2>1. Rest \in Seq(Task)
    BY <1>1, NewestFits
  <2>2. Len(Rest) \in Nat
    BY <2>1
  <2> QED BY <1>4, <2>2
<1>6. FinderTypeOK'
  BY <1>1, <1>4 DEF IInv, FinderTypeOK
<1>7. TasksInv'
  <2>1. ASSUME NEW k \in 1 .. Len(queue')
        PROVE  TaskFits(analysis, glyph_to_conditions, queue'[k])
    <3>1. k \in 1 .. Len(Rest) \/ k = Len(Rest) + 1 \/ k = Len(Rest) + 2
      BY <1>4, <1>5
    <3> QED BY <1>1, <1>3, <1>4, <3>1, NewestFits
  <2> QED BY <1>1, <2>1 DEF TasksInv
<1>8. GlyphsInv'
  <2>1. ASSUME NEW g \in analysis.glyphs
        PROVE  Accounted(analysis, glyph_to_conditions, unscheduled, queue', g)
    <3>1. Accounted(analysis, glyph_to_conditions, unscheduled, queue, g)
      BY <1>1, NewestFits
    <3>2. OnQueue(Rest, g) => OnQueue(queue', g)
      <4>1. Rest \in Seq(Task)
        BY <1>1, NewestFits
      <4> QED BY <1>4, <1>5, <4>1, OnLongerQueue
    <3>3. g \in task.glyphs => OnQueue(queue', g)
      BY <1>3, <1>4, <1>5 DEF OnQueue
    <3>4. OnQueue(queue, g) => OnQueue(Rest, g) \/ g \in task.glyphs
      BY <1>1, NewestFits
    <3> QED BY <3>1, <3>2, <3>3, <3>4 DEF Accounted
  <2>2. analysis.info.disjoint /\ analysis.glyphs \cap analysis.info.init.gids = {}
    BY <1>1, NewestFits
  <2> QED BY <1>1, <2>1, <2>2 DEF GlyphsInv
<1>9. StartInv' /\ EndInv' /\ FoundInv'
  BY <1>1 DEF IInv, StartInv, EndInv, FoundInv
<1> QED BY <1>1, <1>6, <1>7, <1>8, <1>9 DEF IInv

(***************************************************************************)
(* Recording a task: its segments become part of what was found, and the   *)
(* glyphs that other segments bring as well are searched again.            *)
(***************************************************************************)
LEMMA RecordFits ==
  ASSUME IInv, RecordSubCondition
  PROVE  LET further == FurtherTask(Newest)
         IN  /\ glyph_to_conditions' \in [Glyph -> SUBSET Segment]
             /\ \A g \in Glyph : glyph_to_conditions[g] \subseteq glyph_to_conditions'[g]
             /\ further \in Task
             /\ TaskFits(analysis, glyph_to_conditions', further)
             /\ \A g \in Newest.glyphs :
                   \/ g \in further.glyphs
                   \/ Excluded(analysis, glyph_to_conditions', g)
             /\ ~(further.glyphs # {} /\ further.to_be_tested = {})
             /\ FoundInv'
<1> DEFINE task == Newest
           full == task.full_condition \cup task.sub_condition
           gs == AdditionalConditionGlyphs(full, task.glyphs)
<1>1. /\ progress = "running" /\ queue # <<>> /\ analysis' = analysis
      /\ glyph_to_conditions' =
              [g \in Glyph |-> IF g \in task.glyphs
                               THEN glyph_to_conditions[g] \cup task.sub_condition
                               ELSE glyph_to_conditions[g]]
      /\ glyph_to_conditions \in [Glyph -> SUBSET Segment]
  BY DEF RecordSubCondition, IInv, FinderTypeOK
<1>2. /\ AnalysisOK(analysis) /\ task \in Task
      /\ analysis.glyphs \cap analysis.info.init.gids = {}
      /\ TaskFits(analysis, glyph_to_conditions, task)
  BY <1>1, NewestFits
<1>3. /\ full \in SUBSET Segment /\ task.sub_condition \in SUBSET Segment
      /\ task.glyphs \subseteq analysis.glyphs /\ analysis.glyphs \subseteq Glyph
  BY <1>2 DEF Task, TaskFits, AnalysisOK
<1> HIDE DEF task
<1>4. /\ glyph_to_conditions' \in [Glyph -> SUBSET Segment]
      /\ \A g \in Glyph : glyph_to_conditions[g] \subseteq glyph_to_conditions'[g]
  BY <1>1, <1>3
<1>5. \A g \in task.glyphs : full \subseteq glyph_to_conditions'[g]
  <2> SUFFICES ASSUME NEW g \in task.glyphs PROVE full \subseteq glyph_to_conditions'[g]
    OBVIOUS
  <2>1. g \in Glyph /\ task.full_condition \subseteq glyph_to_conditions[g]
    BY <1>2, <1>3 DEF TaskFits
  <2>2. glyph_to_conditions'[g] = glyph_to_conditions[g] \cup task.sub_condition
    BY <1>1, <2>1
  <2> QED BY <2>1, <2>2
<1>6. /\ gs \subseteq task.glyphs
      /\ \A g \in task.glyphs : g \in gs <=> BroughtBy(info, g, all_segments \ full)
  BY DEF AdditionalConditionGlyphs, SegmentClosure, BroughtBy
<1>7. FurtherTask(task) = CreateTask(full, {}, RemainingSegments(full), gs)
  BY DEF FurtherTask
<1> HIDE DEF gs, full
<1>8. /\ RemainingSegments(full) \in SUBSET Segment /\ gs \in SUBSET analysis.glyphs
      /\ \A g \in gs : /\ full \subseteq glyph_to_conditions'[g]
                       /\ BroughtBy(info, g, RemainingSegments(full))
  <2>1. RemainingSegments(full) \in SUBSET Segment
    BY DEF RemainingSegments, all_segments, NonEmptySegments
  <2> QED BY <1>2, <1>3, <1>5, <1>6, <2>1, BroughtInScope
<1>9. /\ CreateTask(full, {}, RemainingSegments(full), gs) \in Task
      /\ TaskFits(analysis, glyph_to_conditions', CreateTask(full, {}, RemainingSegments(full), gs))
      /\ CreateTask(full, {}, RemainingSegments(full), gs).glyphs = gs
      /\ CreateTask(full, {}, RemainingSegments(full), gs).to_be_tested = RemainingSegments(full)
  <2> DEFINE more == RemainingSegments(full)
  <2>0. PICK found : found = glyph_to_conditions'
    OBVIOUS
  <2>1. /\ more \in SUBSET Segment /\ full \in SUBSET Segment
        /\ gs \in SUBSET analysis.glyphs /\ AnalysisOK(analysis)
        /\ \A g \in gs : full \subseteq found[g] /\ BroughtBy(info, g, more)
    BY <1>2, <1>3, <1>8, <2>0
  <2> HIDE DEF more
  <2>2. /\ CreateTask(full, {}, more, gs) \in Task
        /\ TaskFits(analysis, found, CreateTask(full, {}, more, gs))
        /\ CreateTask(full, {}, more, gs).glyphs = gs
        /\ CreateTask(full, {}, more, gs).to_be_tested = more
    <3>1. CreateTask(full, {}, more, gs) \in Task
      BY <2>1, CreatedTaskFits
    <3>2. TaskFits(analysis, found, CreateTask(full, {}, more, gs))
      BY <2>1, CreatedTaskFits
    <3>3. CreateTask(full, {}, more, gs).glyphs = gs
      BY DEF CreateTask
    <3>4. CreateTask(full, {}, more, gs).to_be_tested = more
      BY DEF CreateTask
    <3> QED BY <3>1, <3>2, <3>3, <3>4
  <2> QED BY <2>0, <2>2 DEF more
<1>10. \A g \in task.glyphs : g \in gs \/ Excluded(analysis, glyph_to_conditions', g)
  BY <1>2, <1>3, <1>4, <1>5, <1>6, ExcludedByFewer DEF all_segments, info
<1>11. ~(gs # {} /\ RemainingSegments(full) = {})
  <2> SUFFICES ASSUME NEW g \in gs, RemainingSegments(full) = {} PROVE FALSE
    OBVIOUS
  <2>1. BroughtBy(info, g, {}) /\ g \in analysis.glyphs
    BY <1>8
  <2>2. g \notin analysis.info.init.gids
    BY <1>2, <2>1
  <2> QED BY <1>2, <2>1, <2>2, NothingIsInit DEF info
<1>12. FoundInv'
  <2> SUFFICES ASSUME NEW g \in analysis.glyphs, NEW s \in glyph_to_conditions'[g]
               PROVE  Matters(analysis, s, g)
    BY <1>1 DEF FoundInv
  <2>1. CASE s \in glyph_to_conditions[g]
    BY <2>1 DEF IInv, FoundInv
  <2>2. CASE s \notin glyph_to_conditions[g]
    <3>1. g \in task.glyphs /\ s \in task.sub_condition
      BY <1>1, <1>3, <2>2
    <3> QED BY <1>2, <3>1 DEF TaskFits
  <2> QED BY <2>1, <2>2
<1> QED BY <1>4, <1>7, <1>9, <1>10, <1>11, <1>12 DEF task

LEMMA RecordPreserves == IInv /\ RecordSubCondition => IInv'
<1> SUFFICES ASSUME IInv, RecordSubCondition PROVE IInv'
  OBVIOUS
<1> DEFINE task == Newest
           further == FurtherTask(task)
<1>1. /\ progress = "running" /\ queue # <<>> /\ analysis' = analysis
      /\ existing' = existing /\ unscheduled' = unscheduled
      /\ IF further.glyphs # {} /\ further.to_be_tested = {}
         THEN progress' = "failed" /\ queue' = Rest
         ELSE progress' = progress /\ queue' = Append(Rest, further)
  BY DEF RecordSubCondition
<1>2. /\ glyph_to_conditions' \in [Glyph -> SUBSET Segment]
      /\ \A g \in Glyph : glyph_to_conditions[g] \subseteq glyph_to_conditions'[g]
      /\ further \in Task
      /\ TaskFits(analysis, glyph_to_conditions', further)
      /\ \A g \in task.glyphs :
            g \in further.glyphs \/ Excluded(analysis, glyph_to_conditions', g)
      /\ ~(further.glyphs # {} /\ further.to_be_tested = {})
      /\ FoundInv'
  BY RecordFits
<1>3. /\ AnalysisOK(analysis) /\ analysis.info.disjoint
      /\ analysis.glyphs \cap analysis.info.init.gids = {}
      /\ unscheduled = {} /\ Rest \in Seq(Task)
      /\ \A g \in analysis.glyphs :
            Accounted(analysis, glyph_to_conditions, unscheduled, queue, g)
      /\ \A k \in 1 .. Len(Rest) : TaskFits(analysis, glyph_to_conditions, Rest[k])
      /\ \A g : OnQueue(queue, g) => OnQueue(Rest, g) \/ g \in task.glyphs
      /\ analysis.glyphs \subseteq Glyph
  BY <1>1, NewestFits DEF AnalysisOK
<1> HIDE DEF task, further
<1>4. progress' = "running" /\ queue' = Append(Rest, further)
  BY <1>1, <1>2
<1>5. /\ queue' \in Seq(Task) /\ Len(queue') = Len(Rest) + 1
      /\ \A k \in 1 .. Len(Rest) : queue'[k] = Rest[k]
      /\ queue'[Len(Rest) + 1] = further
  BY <1>2, <1>3, <1>4, AppendType
<1>6. /\ Len(Rest) \in Nat /\ Len(Rest) + 1 \in 1 .. Len(queue')
      /\ Len(Rest) <= Len(queue')
  BY <1>3, <1>5
<1>7. FinderTypeOK'
  BY <1>1, <1>2, <1>4, <1>5 DEF IInv, FinderTypeOK
<1>8. TasksInv'
  <2>1. ASSUME NEW t, TaskFits(analysis, glyph_to_conditions, t)
        PROVE  TaskFits(analysis, glyph_to_conditions', t)
    <3>1. \A g \in t.glyphs :
             g \in Glyph /\ glyph_to_conditions[g] \subseteq glyph_to_conditions'[g]
      BY <1>2, <1>3, <2>1 DEF TaskFits
    <3> QED BY <2>1, <3>1 DEF TaskFits
  <2>2. ASSUME NEW k \in 1 .. Len(queue')
        PROVE  TaskFits(analysis, glyph_to_conditions', queue'[k])
    <3>1. k \in 1 .. Len(Rest) \/ k = Len(Rest) + 1
      BY <1>5, <1>6
    <3> QED BY <1>2, <1>3, <1>5, <2>1, <3>1
  <2> QED BY <1>1, <2>2 DEF TasksInv
<1>9. GlyphsInv'
  <2>1. ASSUME NEW g \in analysis.glyphs
        PROVE  Accounted(analysis, glyph_to_conditions', unscheduled, queue', g)
    <3>1. Accounted(analysis, glyph_to_conditions, unscheduled, queue, g)
      BY <1>3
    <3>2. /\ g \in Glyph
          /\ glyph_to_conditions[g] \in SUBSET glyph_to_conditions'[g]
      BY <1>2, <1>3
    <3>3. Excluded(analysis, glyph_to_conditions, g)
             => Excluded(analysis, glyph_to_conditions', g)
      <4>1. PICK found : found = glyph_to_conditions'
        OBVIOUS
      <4> SUFFICES ASSUME ~BroughtBy(analysis.info, g, NonEmptySegments(analysis.info)
                                                           \ glyph_to_conditions[g])
                   PROVE  Excluded(analysis, found, g)
        BY <4>1 DEF Excluded
      <4>2. found \in [Glyph -> SUBSET Segment] /\ glyph_to_conditions[g] \in SUBSET found[g]
        BY <1>2, <3>2, <4>1
      <4> QED BY <1>3, <3>2, <4>2, ExcludedByFewer
    <3>4. OnQueue(Rest, g) => OnQueue(queue', g)
      BY <1>3, <1>5, <1>6, OnLongerQueue
    <3>5. g \in further.glyphs => OnQueue(queue', g)
      BY <1>5, <1>6 DEF OnQueue
    <3>6. \/ g \in unscheduled \/ OnQueue(queue', g)
          \/ Excluded(analysis, glyph_to_conditions', g)
      BY <1>2, <1>3, <3>1, <3>3, <3>4, <3>5 DEF Accounted
    <3> QED BY <3>1, <3>2, <3>6 DEF Accounted
  <2> QED BY <1>1, <1>3, <2>1 DEF GlyphsInv
<1>10. StartInv' /\ EndInv'
  BY <1>1, <1>3, <1>4 DEF StartInv, EndInv
<1>11. analysis' \in Analysis
  BY <1>1 DEF IInv
<1> QED BY <1>2, <1>7, <1>8, <1>9, <1>10, <1>11 DEF IInv

LEMMA FinishPreserves == IInv /\ Finish => IInv'
<1> SUFFICES ASSUME IInv, Finish PROVE IInv'
  OBVIOUS
<1>1. /\ progress = "running" /\ queue = <<>> /\ queue' = queue
      /\ analysis' = analysis /\ existing' = existing /\ unscheduled' = unscheduled
      /\ glyph_to_conditions' = glyph_to_conditions /\ progress' \in {"failed", "done"}
  BY DEF Finish
<1>2. FinderTypeOK' /\ StartInv' /\ TasksInv' /\ GlyphsInv' /\ EndInv' /\ FoundInv'
  BY <1>1 DEF IInv, FinderTypeOK, StartInv, TasksInv, GlyphsInv, EndInv, FoundInv
<1> QED BY <1>1, <1>2 DEF IInv

(***************************************************************************)
(* Finish always finds a condition for every glyph: the segments together  *)
(* bring it, and those never found do not.                                 *)
(***************************************************************************)
LEMMA FinishSucceeds == IInv /\ Finish => progress' = "done"
<1> SUFFICES ASSUME IInv, Finish, NEW g \in analysis.glyphs,
                    glyph_to_conditions[g] = {}
             PROVE  FALSE
  BY DEF Finish
<1>1. Accounted(analysis, glyph_to_conditions, unscheduled, queue, g)
  BY DEF IInv, GlyphsInv, Finish
<1>2. unscheduled = {} /\ Len(queue) = 0
  BY DEF IInv, EndInv, Finish
<1>3. ~OnQueue(queue, g)
  BY <1>2 DEF OnQueue
<1>4. NonEmptySegments(analysis.info) \ {} = NonEmptySegments(analysis.info)
  OBVIOUS
<1> QED BY <1>1, <1>2, <1>3, <1>4 DEF Accounted, Excluded

LEMMA NextPreserves == IInv /\ [FinderNext]_finder_vars => IInv'
<1> SUFFICES ASSUME IInv, [FinderNext]_finder_vars PROVE IInv'
  OBVIOUS
<1>1. CASE Begin
  BY <1>1, BeginPreserves
<1>2. CASE \E ss \in existing : ScheduleExistingConditionTask(ss)
  BY <1>2, ScheduleExistingPreserves
<1>3. CASE ScheduleRemainingGlyphs
  BY <1>3, ScheduleRemainingPreserves
<1>4. CASE DropEmptyTask
  BY <1>4, DropPreserves
<1>5. CASE TestSegment
  BY <1>5, TestPreserves
<1>6. CASE RecordSubCondition
  BY <1>6, RecordPreserves
<1>7. CASE Finish
  BY <1>7, FinishPreserves
<1>8. CASE UNCHANGED finder_vars
  BY <1>8 DEF finder_vars, IInv, FinderTypeOK, StartInv, TasksInv, GlyphsInv, EndInv, FoundInv
<1> QED BY <1>1, <1>2, <1>3, <1>4, <1>5, <1>6, <1>7, <1>8 DEF FinderNext

LEMMA Invariance == FinderSpec => []IInv
BY InitEstablishes, NextPreserves, PTL DEF FinderSpec

-----------------------------------------------------------------------------
(***************************************************************************)
(* The variables keep to their types (the fields of the class              *)
(* ComplexConditionFinder).                                                *)
(***************************************************************************)
THEOREM TypeCorrect == FinderSpec => []FinderTypeOK
<1>1. IInv => FinderTypeOK
  BY DEF IInv
<1> QED BY <1>1, Invariance, PTL

(***************************************************************************)
(* Whatever the order of the tasks and the glyphs that share them: when    *)
(* the search is done, no loads bring a glyph whose condition they do not  *)
(* meet.                                                                   *)
(***************************************************************************)
THEOREM FoundConditionsActivate == FinderSpec => []ActivatesWhenNeeded
<1>1. IInv => ActivatesWhenNeeded
  <2> SUFFICES ASSUME IInv, progress = "done", NEW g \in analysis.glyphs,
                      NEW loaded \in SUBSET Segment, g \in SegmentClosure(loaded)
               PROVE  Holds(FoundCondition(g), loaded)
    BY DEF ActivatesWhenNeeded
  <2> DEFINE found == glyph_to_conditions[g]
  <2>1. /\ AnalysisOK(analysis) /\ g \in Glyph
        /\ glyph_to_conditions \in [Glyph -> SUBSET Segment]
    BY AnalysisAssumption DEF IInv, FinderTypeOK, AnalysisOK
  <2>2. found \in SUBSET Segment
    BY <2>1
  <2>3. Excluded(analysis, glyph_to_conditions, g)
    <3>1. Accounted(analysis, glyph_to_conditions, unscheduled, queue, g)
      BY DEF IInv, GlyphsInv
    <3>2. g \notin unscheduled /\ ~OnQueue(queue, g)
      BY DEF IInv, EndInv, OnQueue
    <3> QED BY <3>1, <3>2 DEF Accounted
  <2>4. found \cap loaded # {}
    <3> SUFFICES ASSUME found \cap loaded = {} PROVE FALSE
      OBVIOUS
    <3>1. /\ NonEmptySegments(analysis.info) \ found \in SUBSET Segment
          /\ loaded \cap NonEmptySegments(analysis.info)
                \subseteq NonEmptySegments(analysis.info) \ found
      BY DEF NonEmptySegments
    <3>2. BroughtBy(analysis.info, g, loaded)
      BY DEF SegmentClosure, BroughtBy, info
    <3> QED BY <2>1, <2>3, <3>1, <3>2, BroughtMonotone DEF Excluded
  <2>5. FoundCondition(g).groups = {found}
    <3>1. CASE Cardinality(found) = 1
      <4>1. PICK s : found = {s}
        BY <2>2, <3>1, SegmentAssumption, FS_Subset, FS_CardinalityType, FS_Singleton
      <4> HIDE DEF found
      <4>2. (CHOOSE x \in found : TRUE) = s
        BY <4>1
      <4> QED BY <3>1, <4>1, <4>2 DEF FoundCondition, ExclusiveSegment, found
    <3>2. CASE Cardinality(found) # 1
      BY <3>2 DEF FoundCondition, OrSegments
    <3> QED BY <3>1, <3>2
  <2> QED BY <2>4, <2>5 DEF Holds, HoldsFor
<1> QED BY <1>1, Invariance, PTL

(***************************************************************************)
(* The search never names a segment without need: at any time, and in the  *)
(* result, each segment found for a glyph makes the difference for it.     *)
(***************************************************************************)
THEOREM FoundSegmentsMatter == FinderSpec => []OnlySegmentsOfTheCondition
<1>1. IInv => OnlySegmentsOfTheCondition
  BY DEF IInv, FoundInv, Matters, OnlySegmentsOfTheCondition, MakesTheDifference,
         SegmentClosure, BroughtBy, info
<1> QED BY <1>1, Invariance, PTL

(***************************************************************************)
(* Once the glyphs are scheduled no check of the search fails: a further   *)
(* task has segments to test, and every glyph ends with a condition.       *)
(***************************************************************************)
THEOREM SearchNeverFails == FinderSpec => [][progress = "running" => progress' # "failed"]_finder_vars
<1>1. IInv /\ [FinderNext]_finder_vars => [progress = "running" => progress' # "failed"]_finder_vars
  <2> SUFFICES ASSUME IInv, FinderNext, progress = "running" PROVE progress' # "failed"
    OBVIOUS
  <2>1. CASE DropEmptyTask \/ TestSegment
    BY <2>1 DEF DropEmptyTask, TestSegment
  <2>2. CASE RecordSubCondition
    BY <2>2, RecordFits DEF RecordSubCondition
  <2>3. CASE Finish
    BY <2>3, FinishSucceeds
  <2> QED BY <2>1, <2>2, <2>3 DEF FinderNext, Begin, ScheduleExistingConditionTask,
                                  ScheduleRemainingGlyphs
<1> QED BY <1>1, Invariance, PTL DEF FinderSpec
=============================================================================
