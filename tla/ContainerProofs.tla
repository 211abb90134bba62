-------------------------- MODULE ContainerProofs ---------------------------
(***************************************************************************)
(* The two containers of GlyphGroupings, for any conditions, segments and  *)
(* glyphs, after every sequence of calls.                                  *)
(*                                                                         *)
(* The index of the conditions is consistent as long as no operation       *)
(* returned an error, and implements ConditionMap.  IndexTypeOK /\         *)
(* IndexConsistent is inductive.                                           *)
(*                                                                         *)
(* The partition of the combined patches implements Partition.  ForestsOK  *)
(* /\ CachesOK is inductive: the instances are forests in which ranks grow *)
(* towards the roots and trees are as large as their ranks say, and a      *)
(* valid cache holds the sets.                                             *)
(***************************************************************************)
EXTENDS ConditionIndex, GlyphPartition, Recursion

-----------------------------------------------------------------------------
(***************************************************************************)
(* A condition has its segments.                                           *)
(***************************************************************************)
LEMMA TriggeringType ==
  ASSUME NEW c \in Cond
  PROVE  TriggeringSegments(c) \in SUBSET Segment
BY IndexAssumption DEF TriggeringSegments, Condition, Group

(***************************************************************************)
(* Every operation keeps the type, also when it ends with an error.        *)
(***************************************************************************)
LEMMA IndexTriggeringType ==
  ASSUME IndexTypeOK, NEW c \in Cond
  PROVE  /\ DOMAIN IndexTriggering(c) \subseteq Segment
         /\ IndexTriggering(c) \in [DOMAIN IndexTriggering(c) -> SUBSET Cond]
BY TriggeringType DEF IndexTypeOK, IndexTriggering, Entry

LEMMA UnindexTriggeringType ==
  ASSUME IndexTypeOK, NEW c \in Cond
  PROVE  /\ DOMAIN UnindexTriggering(c) \subseteq Segment
         /\ UnindexTriggering(c) \in [DOMAIN UnindexTriggering(c) -> SUBSET Cond]
BY TriggeringType DEF IndexTypeOK, UnindexTriggering

LEMMA WithGlyphsType ==
  ASSUME IndexTypeOK, NEW c \in Cond, NEW gs \in SUBSET Gid
  PROVE  /\ DOMAIN WithGlyphs(c, gs) \subseteq Cond
         /\ WithGlyphs(c, gs) \in [DOMAIN WithGlyphs(c, gs) -> SUBSET Gid]
BY DEF IndexTypeOK, WithGlyphs, Entry

LEMMA RecordType ==
  ASSUME IndexTypeOK, NEW c \in Cond, NEW gs \in SUBSET Gid, NEW clashing,
         Record(c, gs, clashing)
  PROVE  /\ DOMAIN glyph_to_condition' \subseteq Gid
         /\ glyph_to_condition' \in [DOMAIN glyph_to_condition' -> Cond]
         /\ error' \in BOOLEAN
BY DEF IndexTypeOK, Record, Mapped

(***************************************************************************)
(* The four containers of the condition index keep their types.            *)
(***************************************************************************)
THEOREM TypeCorrect == IndexSpec => []IndexTypeOK
<1>1. IndexInit => IndexTypeOK
  BY DEF IndexInit, IndexTypeOK, NoEntries, Conditions, Mapped
<1>2. IndexTypeOK /\ [IndexNext]_index_vars => IndexTypeOK'
  <2> SUFFICES ASSUME IndexTypeOK, [IndexNext]_index_vars PROVE IndexTypeOK'
    OBVIOUS
  <2>1. ASSUME NEW gid \in Gid, Invalidate(gid) PROVE IndexTypeOK'
    <3> DEFINE c == glyph_to_condition[gid]
    <3>1. c \in Cond
      BY <2>1 DEF IndexTypeOK, Invalidate
    <3>2. /\ DOMAIN glyph_to_condition' \subseteq Gid
          /\ glyph_to_condition' \in [DOMAIN glyph_to_condition' -> Cond]
      BY <2>1 DEF IndexTypeOK, Invalidate, Without, Mapped
    <3>3. CASE conditions_and_glyphs[c] \ {gid} = {}
      BY <2>1, <3>1, <3>2, <3>3, UnindexTriggeringType
         DEF IndexTypeOK, Invalidate, Without, Conditions, Mapped
    <3>4. CASE conditions_and_glyphs[c] \ {gid} # {}
      BY <2>1, <3>1, <3>2, <3>4 DEF IndexTypeOK, Invalidate, Conditions, Mapped
    <3> QED BY <3>3, <3>4
  <2>2. ASSUME NEW c \in Cond, Remove(c) PROVE IndexTypeOK'
    BY <2>2, UnindexTriggeringType DEF IndexTypeOK, Remove, Without, Conditions, Mapped
  <2>3. ASSUME NEW c \in Cond, NEW gs \in SUBSET Gid, Union(c, gs) PROVE IndexTypeOK'
    <3>1. Record(c, gs, Clashing(c, gs))
      BY <2>3 DEF Union
    <3>2. /\ DOMAIN glyph_to_condition' \subseteq Gid
          /\ glyph_to_condition' \in [DOMAIN glyph_to_condition' -> Cond]
          /\ error' \in BOOLEAN
      BY <3>1, RecordType
    <3>3. /\ DOMAIN conditions_and_glyphs' \subseteq Cond
          /\ conditions_and_glyphs' \in [DOMAIN conditions_and_glyphs' -> SUBSET Gid]
      BY <2>3, WithGlyphsType DEF Union
    <3>4. /\ DOMAIN triggering_segment_to_conditions' \subseteq Segment
          /\ triggering_segment_to_conditions'
                \in [DOMAIN triggering_segment_to_conditions' -> SUBSET Cond]
      BY <2>3, IndexTriggeringType DEF Union
    <3>5. ordered_conditions' \subseteq Cond
      BY <2>3 DEF Union, IndexTypeOK
    <3> QED BY <3>2, <3>3, <3>4, <3>5 DEF IndexTypeOK, Conditions, Mapped
  <2>4. ASSUME NEW c \in Cond, NEW gs \in SUBSET Gid, AddNew(c, gs) PROVE IndexTypeOK'
    <3>1. Record(c, gs, gs \cap Mapped)
      BY <2>4 DEF AddNew
    <3>2. /\ DOMAIN glyph_to_condition' \subseteq Gid
          /\ glyph_to_condition' \in [DOMAIN glyph_to_condition' -> Cond]
          /\ error' \in BOOLEAN
      BY <3>1, RecordType
    <3>3. /\ DOMAIN conditions_and_glyphs' \subseteq Cond
          /\ conditions_and_glyphs' \in [DOMAIN conditions_and_glyphs' -> SUBSET Gid]
      BY <2>4, WithGlyphsType DEF AddNew
    <3>4. /\ DOMAIN triggering_segment_to_conditions' \subseteq Segment
          /\ triggering_segment_to_conditions'
                \in [DOMAIN triggering_segment_to_conditions' -> SUBSET Cond]
      BY <2>4, IndexTriggeringType DEF AddNew
    <3>5. ordered_conditions' \subseteq Cond
      BY <2>4 DEF AddNew, IndexTypeOK
    <3> QED BY <3>2, <3>3, <3>4, <3>5 DEF IndexTypeOK, Conditions, Mapped
  <2>5. ASSUME NEW c \in Cond, NEW gs \in SUBSET Gid, AddExisting(c, gs) PROVE IndexTypeOK'
    <3> DEFINE added == gs \ conditions_and_glyphs[c]
    <3>1. CASE conditions_and_glyphs[c] \subseteq gs
      <4>1. Record(c, added, added \cap Mapped)
        BY <2>5, <3>1 DEF AddExisting
      <4>2. /\ DOMAIN glyph_to_condition' \subseteq Gid
            /\ glyph_to_condition' \in [DOMAIN glyph_to_condition' -> Cond]
            /\ error' \in BOOLEAN
        BY <4>1, RecordType
      <4>3. /\ DOMAIN conditions_and_glyphs' \subseteq Cond
            /\ conditions_and_glyphs' \in [DOMAIN conditions_and_glyphs' -> SUBSET Gid]
        BY <2>5, <3>1, WithGlyphsType DEF AddExisting
      <4> QED BY <2>5, <4>2, <4>3 DEF IndexTypeOK, AddExisting, Conditions, Mapped
    <3>2. CASE ~(conditions_and_glyphs[c] \subseteq gs)
      BY <2>5, <3>2 DEF IndexTypeOK, AddExisting, Conditions, Mapped
    <3> QED BY <3>1, <3>2
  <2>6. CASE UNCHANGED index_vars
    BY <2>6 DEF IndexTypeOK, index_vars, Conditions, Mapped
  <2> QED BY <2>1, <2>2, <2>3, <2>4, <2>5, <2>6 DEF IndexNext, Add
<1> QED BY <1>1, <1>2, PTL DEF IndexSpec

-----------------------------------------------------------------------------
(***************************************************************************)
(* A condition which is listed, or no longer listed, appears below exactly *)
(* its segments, and no segment is left with an empty set.                 *)
(***************************************************************************)
SegmentsAgreeFor(map, listed) ==
    /\ \A s \in Segment : Entry(map, s) = {c \in listed : s \in TriggeringSegments(c)}
    /\ \A s \in DOMAIN map : map[s] # {}

LEMMA IndexTriggeringAgrees ==
  ASSUME IndexTypeOK, SegmentsAgree, NEW c \in Cond
  PROVE  SegmentsAgreeFor(IndexTriggering(c), Conditions \cup {c})
<1>1. \A s \in DOMAIN IndexTriggering(c) : IndexTriggering(c)[s] # {}
  BY DEF IndexTriggering, SegmentsAgree, Entry
<1>2. ASSUME NEW s \in Segment
      PROVE  Entry(IndexTriggering(c), s)
               = Entry(triggering_segment_to_conditions, s)
                   \cup (IF s \in TriggeringSegments(c) THEN {c} ELSE {})
  BY DEF IndexTriggering, Entry
<1>3. \A s \in Segment : Entry(IndexTriggering(c), s)
                           = {d \in Conditions \cup {c} : s \in TriggeringSegments(d)}
  BY <1>2 DEF SegmentsAgree
<1> QED BY <1>1, <1>3 DEF SegmentsAgreeFor

LEMMA UnindexTriggeringAgrees ==
  ASSUME IndexTypeOK, SegmentsAgree, NEW c \in Conditions
  PROVE  SegmentsAgreeFor(UnindexTriggering(c), Conditions \ {c})
<1>1. \A s \in DOMAIN UnindexTriggering(c) : UnindexTriggering(c)[s] # {}
  BY DEF UnindexTriggering, SegmentsAgree
<1>2. ASSUME NEW s \in Segment
      PROVE  Entry(UnindexTriggering(c), s)
               = Entry(triggering_segment_to_conditions, s)
                   \ (IF s \in TriggeringSegments(c) THEN {c} ELSE {})
  BY DEF UnindexTriggering, Entry
<1>3. \A s \in Segment : Entry(UnindexTriggering(c), s)
                           = {d \in Conditions \ {c} : s \in TriggeringSegments(d)}
  BY <1>2 DEF SegmentsAgree
<1> QED BY <1>1, <1>3 DEF SegmentsAgreeFor

LEMMA SegmentsAgreePrime ==
  SegmentsAgreeFor(triggering_segment_to_conditions', Conditions') => SegmentsAgree'
BY DEF SegmentsAgreeFor, SegmentsAgree, Entry

Consistent == GlyphsAgree /\ SegmentsAgree /\ ordered_conditions = Conditions

LEMMA InvalidateConsistent ==
  ASSUME IndexTypeOK, Consistent, NEW gid \in Gid, Invalidate(gid)
  PROVE  Consistent'
<1> DEFINE c == glyph_to_condition[gid]
           left == conditions_and_glyphs[c] \ {gid}
<1>1. c \in Conditions /\ gid \in conditions_and_glyphs[c]
  BY DEF Invalidate, Consistent, GlyphsAgree
<1>2. CASE left = {}
  <2>1. Conditions' = Conditions \ {c}
    BY <1>2 DEF Invalidate, Without, Conditions
  <2>2. SegmentsAgree'
    BY <1>1, <1>2, <2>1, UnindexTriggeringAgrees, SegmentsAgreePrime DEF Invalidate, Consistent
  <2>3. GlyphsAgree'
    BY <1>1, <1>2, <2>1
       DEF Invalidate, Without, Consistent, GlyphsAgree, Mapped, Conditions, IndexTypeOK
  <2> QED BY <1>2, <2>1, <2>2, <2>3 DEF Consistent, Invalidate
<1>3. CASE left # {}
  <2>1. Conditions' = Conditions
    BY <1>3 DEF Invalidate, Conditions
  <2>2. SegmentsAgree'
    BY <1>3, <2>1 DEF Invalidate, Consistent, SegmentsAgree, Entry
  <2>3. GlyphsAgree'
    BY <1>1, <1>3, <2>1
       DEF Invalidate, Without, Consistent, GlyphsAgree, Mapped, Conditions, IndexTypeOK
  <2> QED BY <1>3, <2>1, <2>2, <2>3 DEF Consistent, Invalidate
<1> QED BY <1>2, <1>3

LEMMA RemoveConsistent ==
  ASSUME IndexTypeOK, Consistent, NEW c \in Cond, Remove(c)
  PROVE  Consistent'
<1>1. Conditions' = Conditions \ {c} /\ c \in Conditions
  BY DEF Remove, Without, Conditions
<1>2. SegmentsAgree'
  BY <1>1, UnindexTriggeringAgrees, SegmentsAgreePrime DEF Remove, Consistent
<1>3. GlyphsAgree'
  BY <1>1 DEF Remove, Without, Consistent, GlyphsAgree, Mapped, Conditions, IndexTypeOK
<1> QED BY <1>1, <1>2, <1>3 DEF Consistent, Remove

GivenTo(c, gs) ==
    [g \in Mapped \cup gs |-> IF g \in gs THEN c ELSE glyph_to_condition[g]]

(***************************************************************************)
(* A record without a clash writes the entries of all the glyphs.          *)
(***************************************************************************)
LEMMA RecordAll ==
  ASSUME NEW c, NEW gs, Record(c, gs, {})
  PROVE  glyph_to_condition' = GivenTo(c, gs)
<1>1. {g \in gs : \A h \in {} : g < h} = gs
  OBVIOUS
<1> QED BY <1>1 DEF Record, GivenTo

(***************************************************************************)
(* The two maps between conditions and glyphs agree after c was given the  *)
(* glyphs of gs, none of which belongs to another condition.               *)
(***************************************************************************)
LEMMA GivenGlyphsAgree ==
  ASSUME IndexTypeOK, GlyphsAgree, NEW c \in Cond, NEW gs \in SUBSET Gid,
         NEW added \in SUBSET gs,
         \A g \in gs \cap Mapped : glyph_to_condition[g] = c,
         \A g \in gs \ added : g \in Mapped,
         conditions_and_glyphs' = WithGlyphs(c, gs),
         glyph_to_condition' = GivenTo(c, added)
  PROVE  GlyphsAgree' /\ Conditions' = Conditions \cup {c}
BY DEF GlyphsAgree, GivenTo, WithGlyphs, Entry, Mapped, Conditions, IndexTypeOK

LEMMA UnionConsistent ==
  ASSUME IndexTypeOK, Consistent, NEW c \in Cond, NEW gs \in SUBSET Gid, Union(c, gs), ~error'
  PROVE  Consistent'
<1>1. /\ Clashing(c, gs) = {}
      /\ glyph_to_condition' = GivenTo(c, gs)
  <2>1. Record(c, gs, Clashing(c, gs))
    BY DEF Union
  <2>2. Clashing(c, gs) = {}
    BY <2>1 DEF Record
  <2>3. Record(c, gs, {})
    BY <2>1, <2>2
  <2> QED BY <2>2, <2>3, RecordAll
<1>2. \A g \in gs \cap Mapped : glyph_to_condition[g] = c
  BY <1>1 DEF Clashing
<1>3. GlyphsAgree' /\ Conditions' = Conditions \cup {c}
  BY <1>1, <1>2, GivenGlyphsAgree DEF Union, Consistent
<1>4. SegmentsAgree'
  BY <1>3, IndexTriggeringAgrees, SegmentsAgreePrime DEF Union, Consistent
<1> QED BY <1>3, <1>4 DEF Union, Consistent

LEMMA AddNewConsistent ==
  ASSUME IndexTypeOK, Consistent, NEW c \in Cond, NEW gs \in SUBSET Gid, AddNew(c, gs), ~error'
  PROVE  Consistent'
<1>1. /\ gs \cap Mapped = {}
      /\ glyph_to_condition' = GivenTo(c, gs)
  <2>1. Record(c, gs, gs \cap Mapped)
    BY DEF AddNew
  <2>2. gs \cap Mapped = {}
    BY <2>1 DEF Record
  <2>3. Record(c, gs, {})
    BY <2>1, <2>2
  <2> QED BY <2>2, <2>3, RecordAll
<1>2. GlyphsAgree' /\ Conditions' = Conditions \cup {c}
  BY <1>1, GivenGlyphsAgree DEF AddNew, Consistent
<1>3. SegmentsAgree'
  BY <1>2, IndexTriggeringAgrees, SegmentsAgreePrime DEF AddNew, Consistent
<1> QED BY <1>2, <1>3 DEF AddNew, Consistent

LEMMA AddExistingConsistent ==
  ASSUME IndexTypeOK, Consistent, NEW c \in Cond, NEW gs \in SUBSET Gid, AddExisting(c, gs), ~error'
  PROVE  Consistent'
<1> DEFINE added == gs \ conditions_and_glyphs[c]
<1>1. /\ c \in Conditions
      /\ conditions_and_glyphs[c] \subseteq gs
      /\ conditions_and_glyphs' = WithGlyphs(c, gs)
      /\ Record(c, added, added \cap Mapped)
      /\ UNCHANGED triggering_segment_to_conditions
      /\ ordered_conditions' = ordered_conditions \cup {c}
  BY DEF AddExisting
<1>2. /\ added \cap Mapped = {}
      /\ glyph_to_condition' = GivenTo(c, added)
  <2>1. added \cap Mapped = {}
    BY <1>1 DEF Record
  <2>2. Record(c, added, {})
    BY <1>1, <2>1
  <2>3. added \in SUBSET Gid
    OBVIOUS
  <2> HIDE DEF added
  <2> QED BY <2>1, <2>2, <2>3, RecordAll
<1>3. \A g \in conditions_and_glyphs[c] : g \in Mapped /\ glyph_to_condition[g] = c
  BY <1>1 DEF Consistent, GlyphsAgree
<1>4. /\ \A g \in gs \cap Mapped : glyph_to_condition[g] = c
      /\ \A g \in gs \ added : g \in Mapped
  BY <1>2, <1>3
<1>5. GlyphsAgree' /\ Conditions' = Conditions \cup {c}
  <2>1. added \in SUBSET gs
    OBVIOUS
  <2> HIDE DEF added
  <2> QED BY <1>1, <1>2, <1>4, <2>1, GivenGlyphsAgree DEF Consistent
<1>6. SegmentsAgree'
  BY <1>1, <1>5 DEF Consistent, SegmentsAgree, Entry
<1> QED BY <1>1, <1>5, <1>6 DEF Consistent

(***************************************************************************)
(* The containers of the index agree as long as no error was returned.     *)
(***************************************************************************)
THEOREM IndexIsConsistent == IndexSpec => []IndexConsistent
<1> DEFINE IInv == ~error => Consistent
<1>1. IndexInit => IInv
  BY DEF IndexInit, Consistent, GlyphsAgree, SegmentsAgree, Entry, NoEntries, Conditions, Mapped
<1>2. IndexTypeOK /\ IInv /\ [IndexNext]_index_vars => IInv'
  <2> SUFFICES ASSUME IndexTypeOK, IInv, [IndexNext]_index_vars, ~error' PROVE Consistent'
    OBVIOUS
  <2>1. CASE IndexNext
    <3>1. ~error
      BY <2>1 DEF IndexNext, Invalidate, Remove, Union, Add, AddNew, AddExisting
    <3>2. Consistent
      BY <3>1
    <3> QED BY <2>1, <3>2, InvalidateConsistent, RemoveConsistent, UnionConsistent,
               AddNewConsistent, AddExistingConsistent DEF IndexNext, Add
  <2>2. CASE UNCHANGED index_vars
    BY <2>2 DEF index_vars, Consistent, GlyphsAgree, SegmentsAgree, Entry, Conditions, Mapped
  <2> QED BY <2>1, <2>2
<1>3. IInv => IndexConsistent
  BY DEF Consistent, IndexConsistent
<1> QED BY <1>1, <1>2, <1>3, TypeCorrect, PTL DEF IndexSpec

-----------------------------------------------------------------------------
(***************************************************************************)
(* The refinement: every step of the index is a step of ConditionMap.      *)
(***************************************************************************)
LEMMA GlyphsOfListed ==
  ASSUME IndexTypeOK, GlyphsAgree, NEW c \in Cond
  PROVE  Map!GlyphsOf(c) = Entry(conditions_and_glyphs, c)
BY IndexAssumption DEF IndexTypeOK, GlyphsAgree, Entry, Map!GlyphsOf, Conditions, Mapped

(***************************************************************************)
(* Where an operation reports an error, the map may refuse it.             *)
(***************************************************************************)
LEMMA ErrorRefines ==
  ASSUME IndexTypeOK, IndexTypeOK', ~error, error' = TRUE,
         NEW c \in Cond, NEW gs \in SUBSET Gid,
         \/ \E g \in gs \cap Mapped : glyph_to_condition[g] # c
         \/ ~(Map!GlyphsOf(c) \subseteq gs)
  PROVE  Map!Next
<1> DEFINE condition == [g \in Gid |-> IF g \in Mapped THEN glyph_to_condition[g]
                                           ELSE NoCondition]
<1>1. \/ \E g \in gs : condition[g] \notin {NoCondition, c}
      \/ ~(Map!GlyphsOf(c) \subseteq gs)
  BY IndexAssumption DEF IndexTypeOK
<1>2. condition' \in Map!Assignment /\ Conditions' \in SUBSET Cond
  BY DEF IndexTypeOK, Map!Assignment
<1>3. Map!Refuse(c, gs)
  BY <1>1, <1>2 DEF Map!Refuse
<1> QED BY <1>3 DEF Map!Next

(***************************************************************************)
(* Where it reports none, the glyphs are assigned.                         *)
(***************************************************************************)
LEMMA AssignRefines ==
  ASSUME IndexTypeOK, ~error, error' = FALSE,
         NEW c \in Cond, NEW gs \in SUBSET Gid, NEW added \in SUBSET gs,
         \A g \in gs \cap Mapped : glyph_to_condition[g] = c,
         \A g \in gs \ added : g \in Mapped,
         conditions_and_glyphs' = WithGlyphs(c, gs),
         glyph_to_condition' = GivenTo(c, added)
  PROVE  Map!Next
<1>1. Conditions' = Conditions \cup {c}
  BY DEF Conditions, WithGlyphs
<1>2. Mapped' = Mapped \cup gs
  BY DEF Mapped, GivenTo
<1>3. \A g \in Gid : g \in Mapped' => glyph_to_condition'[g]
                                        = IF g \in gs THEN c ELSE glyph_to_condition[g]
  BY <1>2 DEF GivenTo
<1> DEFINE condition == [g \in Gid |-> IF g \in Mapped THEN glyph_to_condition[g]
                                           ELSE NoCondition]
<1>4. \A g \in gs : condition[g] \in {NoCondition, c}
  OBVIOUS
<1>5. condition' = [g \in Gid |-> IF g \in gs THEN c ELSE condition[g]]
  BY <1>2, <1>3
<1>6. error' = error
  BY DEF IndexTypeOK
<1>7. Map!Assign(c, gs)
  BY <1>1, <1>4, <1>5, <1>6 DEF Map!Assign
<1> QED BY <1>7 DEF Map!Next

LEMMA InvalidateRefines ==
  ASSUME IndexTypeOK, Consistent, NEW gid \in Gid, Invalidate(gid)
  PROVE  Map!Next
<1> DEFINE c == glyph_to_condition[gid]
           left == conditions_and_glyphs[c] \ {gid}
<1>1. c \in Conditions /\ gid \in conditions_and_glyphs[c]
  BY DEF Invalidate, Consistent, GlyphsAgree
<1>2. Mapped' = Mapped \ {gid} /\ \A g \in Mapped' : glyph_to_condition'[g] = glyph_to_condition[g]
  BY DEF Invalidate, Without, Mapped
<1>3. \A d \in Conditions : Map!GlyphsOf(d) = {gid} <=> d = c /\ left = {}
  <2> SUFFICES ASSUME NEW d \in Conditions
               PROVE  Map!GlyphsOf(d) = {gid} <=> d = c /\ left = {}
    OBVIOUS
  <2>1. Map!GlyphsOf(d) = conditions_and_glyphs[d]
    BY GlyphsOfListed DEF Consistent, IndexTypeOK, Entry
  <2>2. gid \in conditions_and_glyphs[d] => d = c
    BY DEF Consistent, GlyphsAgree
  <2> QED BY <1>1, <2>1, <2>2
<1>4. Conditions' = {d \in Conditions : Map!GlyphsOf(d) # {gid}}
  <2>1. CASE left = {}
    <3>1. Conditions' = Conditions \ {c}
      BY <2>1 DEF Invalidate, Without, Conditions
    <3> QED BY <1>3, <2>1, <3>1
  <2>2. CASE left # {}
    <3>1. Conditions' = Conditions
      BY <2>2 DEF Invalidate, Conditions
    <3> QED BY <1>3, <2>2, <3>1
  <2> QED BY <2>1, <2>2
<1>5. ~error /\ UNCHANGED error
  BY DEF Invalidate
<1>6. Map!Forget(gid)
  BY <1>2, <1>4, <1>5 DEF Map!Forget
<1> QED BY <1>6 DEF Map!Next

LEMMA RemoveRefines ==
  ASSUME IndexTypeOK, Consistent, NEW c \in Cond, Remove(c)
  PROVE  Map!Next
<1>1. Conditions' = Conditions \ {c} /\ c \in Conditions
  BY DEF Remove, Without, Conditions
<1>2. /\ Mapped' = Mapped \ conditions_and_glyphs[c]
      /\ \A g \in Mapped' : glyph_to_condition'[g] = glyph_to_condition[g]
  BY DEF Remove, Without, Mapped
<1>3. \A g \in Mapped : g \in conditions_and_glyphs[c] <=> glyph_to_condition[g] = c
  BY <1>1 DEF Consistent, GlyphsAgree
<1>4. ~error /\ UNCHANGED error
  BY DEF Remove
<1>5. Map!Drop(c)
  BY <1>1, <1>2, <1>3, <1>4, IndexAssumption DEF Map!Drop
<1> QED BY <1>5 DEF Map!Next

LEMMA UnionRefines ==
  ASSUME IndexTypeOK, IndexTypeOK', NEW c \in Cond, NEW gs \in SUBSET Gid, Union(c, gs)
  PROVE  Map!Next
<1>1. ~error /\ Record(c, gs, Clashing(c, gs))
  BY DEF Union
<1>2. error' = (Clashing(c, gs) # {})
  BY <1>1 DEF Record
<1>3. CASE Clashing(c, gs) = {}
  <2>1. glyph_to_condition' = GivenTo(c, gs)
    BY <1>1, <1>3, RecordAll
  <2>2. \A g \in gs \cap Mapped : glyph_to_condition[g] = c
    BY <1>3 DEF Clashing
  <2>3. conditions_and_glyphs' = WithGlyphs(c, gs)
    BY DEF Union
  <2>4. error' = FALSE
    BY <1>2, <1>3
  <2> QED BY <1>1, <2>1, <2>2, <2>3, <2>4, AssignRefines
<1>4. CASE Clashing(c, gs) # {}
  <2>1. \E g \in gs \cap Mapped : glyph_to_condition[g] # c
    BY <1>4 DEF Clashing
  <2>2. error' = TRUE
    BY <1>2, <1>4
  <2> QED BY <1>1, <2>1, <2>2, ErrorRefines
<1> QED BY <1>3, <1>4

LEMMA AddNewRefines ==
  ASSUME IndexTypeOK, IndexTypeOK', Consistent, NEW c \in Cond, NEW gs \in SUBSET Gid, AddNew(c, gs)
  PROVE  Map!Next
<1>1. ~error /\ Record(c, gs, gs \cap Mapped)
  BY DEF AddNew
<1>2. error' = (gs \cap Mapped # {})
  BY <1>1 DEF Record
<1>3. CASE gs \cap Mapped = {}
  <2>1. glyph_to_condition' = GivenTo(c, gs)
    BY <1>1, <1>3, RecordAll
  <2>2. conditions_and_glyphs' = WithGlyphs(c, gs)
    BY DEF AddNew
  <2>3. error' = FALSE
    BY <1>2, <1>3
  <2> QED BY <1>1, <1>3, <2>1, <2>2, <2>3, AssignRefines
<1>4. CASE gs \cap Mapped # {}
  <2>1. \E g \in gs \cap Mapped : glyph_to_condition[g] # c
    BY <1>4 DEF AddNew, Consistent, GlyphsAgree
  <2>2. error' = TRUE
    BY <1>2, <1>4
  <2> QED BY <1>1, <2>1, <2>2, ErrorRefines
<1> QED BY <1>3, <1>4

LEMMA AddExistingRefines ==
  ASSUME IndexTypeOK, IndexTypeOK', Consistent, NEW c \in Cond, NEW gs \in SUBSET Gid, AddExisting(c, gs)
  PROVE  Map!Next
<1> DEFINE added == gs \ conditions_and_glyphs[c]
<1>1. ~error /\ c \in Conditions
  BY DEF AddExisting
<1>2. \A g \in Mapped : g \in conditions_and_glyphs[c] <=> glyph_to_condition[g] = c
  BY <1>1 DEF Consistent, GlyphsAgree
<1>3. \A g \in conditions_and_glyphs[c] : g \in Mapped
  BY <1>1 DEF Consistent, GlyphsAgree
<1>4. CASE conditions_and_glyphs[c] \subseteq gs
  <2>1. /\ conditions_and_glyphs' = WithGlyphs(c, gs)
        /\ Record(c, added, added \cap Mapped)
    BY <1>4 DEF AddExisting
  <2>2. error' = (added \cap Mapped # {})
    BY <2>1 DEF Record
  <2>3. CASE added \cap Mapped = {}
    <3>1. glyph_to_condition' = GivenTo(c, added)
      BY <2>1, <2>3, RecordAll
    <3>2. /\ \A g \in gs \cap Mapped : glyph_to_condition[g] = c
          /\ \A g \in gs \ added : g \in Mapped
      BY <1>2, <1>3, <2>3
    <3>3. error' = FALSE /\ added \in SUBSET gs
      BY <2>2, <2>3
    <3> HIDE DEF added
    <3> QED BY <1>1, <2>1, <3>1, <3>2, <3>3, AssignRefines
  <2>4. CASE added \cap Mapped # {}
    <3>1. \E g \in gs \cap Mapped : glyph_to_condition[g] # c
      BY <1>2, <2>4
    <3>2. error' = TRUE
      BY <2>2, <2>4
    <3> QED BY <1>1, <3>1, <3>2, ErrorRefines
  <2> QED BY <2>3, <2>4
<1>5. CASE ~(conditions_and_glyphs[c] \subseteq gs)
  <2>1. Map!GlyphsOf(c) = conditions_and_glyphs[c]
    BY <1>1, GlyphsOfListed DEF Entry, Consistent, Conditions
  <2>2. error' = TRUE
    BY <1>5 DEF AddExisting
  <2> QED BY <1>1, <1>5, <2>1, <2>2, ErrorRefines
<1> QED BY <1>4, <1>5

(***************************************************************************)
(* ConditionToGlyphsIndex implements ConditionMap: what the three indices  *)
(* hold is one map from glyphs to conditions, and an operation fails only  *)
(* where it would take a glyph away from a condition.                      *)
(***************************************************************************)
THEOREM IndexImplementsMap == IndexSpec => ImplementsMap
<1> DEFINE IInv == ~error => Consistent
<1>1. IndexInit => Map!Init
  BY DEF IndexInit, Map!Init, NoEntries, Conditions, Mapped
<1>2. IndexTypeOK /\ IndexTypeOK' /\ IndexConsistent /\ [IndexNext]_index_vars => [Map!Next]_Map!vars
  <2> SUFFICES ASSUME IndexTypeOK, IndexTypeOK', IndexConsistent, [IndexNext]_index_vars
               PROVE  [Map!Next]_Map!vars
    OBVIOUS
  <2>1. CASE IndexNext
    <3>1. ~error
      BY <2>1 DEF IndexNext, Invalidate, Remove, Union, Add, AddNew, AddExisting
    <3>2. Consistent
      BY <3>1 DEF IndexConsistent, Consistent
    <3> QED BY <2>1, <3>2, InvalidateRefines, RemoveRefines, UnionRefines,
               AddNewRefines, AddExistingRefines DEF IndexNext, Add
  <2>2. CASE UNCHANGED index_vars
    BY <2>2 DEF index_vars, Map!vars, Conditions, Mapped
  <2> QED BY <2>1, <2>2
<1> QED BY <1>1, <1>2, TypeCorrect, IndexIsConsistent, PTL DEF IndexSpec, ImplementsMap, Map!Spec

-----------------------------------------------------------------------------
(***************************************************************************)
(* The forest.  Ranks grow towards the root, so that following the parents *)
(* ends; and a tree has at least twice as many glyphs as the rank of its   *)
(* root says, so that ranks stay small.                                    *)
(***************************************************************************)
CacheOfSets == UNION {[D -> SUBSET GlyphId] : D \in SUBSET GlyphId}

Forest ==
    [rank : [GlyphId -> 0 .. NumGlyphs \div 2], parent : [GlyphId -> GlyphId],
     cache_valid : BOOLEAN, rep_to_set : CacheOfSets,
     non_identity_groups : SUBSET SUBSET GlyphId]

Ranked(f) == \A g \in GlyphId : f.parent[g] # g => f.rank[g] < f.rank[f.parent[g]]

Heavy(f) ==
    \A g \in GlyphId : f.parent[g] = g => 2 * f.rank[g] <= Cardinality(Tree(f, g))

Forests == {f \in Forest : Ranked(f) /\ Heavy(f)}

LEMMA GlyphsAreCounted ==
    /\ NumGlyphs \in Nat /\ NumGlyphs \div 2 \in Nat /\ NumGlyphs \div 2 <= NumGlyphs
    /\ IsFiniteSet(GlyphId) /\ Cardinality(GlyphId) = NumGlyphs
    /\ 0 \in GlyphId
<1>1. NumGlyphs \in Nat /\ NumGlyphs # 0
  BY PartitionAssumption
<1>2. IsFiniteSet(0 .. NumGlyphs - 1) /\ Cardinality(0 .. NumGlyphs - 1) = NumGlyphs
  BY <1>1, FS_Interval
<1> QED BY <1>1, <1>2 DEF GlyphId

\* what holds for a root, and for a glyph whose parent it holds for
LEMMA UpTheTree ==
    ASSUME NEW f \in Forest, Ranked(f), NEW T,
           \A g \in GlyphId : f.parent[g] = g => g \in T,
           \A g \in GlyphId : f.parent[g] \in T => g \in T
    PROVE  \A g \in GlyphId : g \in T
<1> DEFINE left(g) == NumGlyphs - f.rank[g]
           bad == {n \in Nat : \E g \in GlyphId : g \notin T /\ n = left(g)}
<1>1. \A g \in GlyphId : left(g) \in Nat /\ f.rank[g] \in Nat /\ f.parent[g] \in GlyphId
  BY GlyphsAreCounted DEF Forest
<1> SUFFICES ASSUME NEW x \in GlyphId, x \notin T PROVE FALSE
  OBVIOUS
<1>2. left(x) \in bad
  BY <1>1
<1>3. PICK n \in bad : \A m \in bad : ~(<<m, n>> \in OpToRel(<, Nat))
  <2>1. bad \subseteq Nat /\ bad # {}
    BY <1>2
  <2> HIDE DEF bad
  <2> QED BY <2>1, NatLessThanWellFounded, WFMin
<1>4. PICK g \in GlyphId : g \notin T /\ n = left(g)
  OBVIOUS
<1>5. f.parent[g] # g /\ f.parent[g] \in GlyphId /\ f.parent[g] \notin T
  BY <1>1, <1>4
<1>6. f.rank[g] < f.rank[f.parent[g]]
  BY <1>5 DEF Ranked
<1>7. left(f.parent[g]) \in bad /\ left(f.parent[g]) < n
  BY <1>1, <1>4, <1>5, <1>6, GlyphsAreCounted
<1>8. <<left(f.parent[g]), n>> \in OpToRel(<, Nat)
  <2>1. left(f.parent[g]) \in Nat /\ n \in Nat
    BY <1>1, <1>5
  <2> HIDE DEF left
  <2> QED BY <1>7, <2>1 DEF OpToRel
<1> QED BY <1>3, <1>7, <1>8

LEMMA RootEquation ==
    ASSUME NEW f, f.parent \in [GlyphId -> GlyphId], NEW g \in GlyphId
    PROVE  Root(f, g) = IF f.parent[g] = g THEN g ELSE Root(f, f.parent[g])
<1> DEFINE stop == {x \in GlyphId : f.parent[x] = x}
           out == [x \in GlyphId |-> x]
           IsRoot(h) == h = [x \in GlyphId |-> IF f.parent[x] = x THEN x ELSE h[f.parent[x]]]
           root == CHOOSE h : IsRoot(h)
<1>1. \A x : Root(f, x) = root[x]
  BY DEF Root
<1>2. PICK h \in [GlyphId -> GlyphId] : IsIteration(h, GlyphId, stop, f.parent, out)
  <2>1. stop \in SUBSET GlyphId /\ out \in [GlyphId -> GlyphId]
    OBVIOUS
  <2> HIDE DEF stop, out
  <2> QED BY <2>1, IterationExists
<1>3. IsRoot(h)
  BY <1>2 DEF IsIteration
<1>4. IsRoot(root)
  <2> HIDE DEF IsRoot
  <2> QED BY <1>3
<1> HIDE DEF root
<1> QED BY <1>1, <1>4

LEMMA RootOfTree ==
    ASSUME NEW f \in Forest, Ranked(f), NEW g \in GlyphId
    PROVE  /\ Root(f, g) \in GlyphId
           /\ f.parent[Root(f, g)] = Root(f, g)
           /\ Root(f, f.parent[g]) = Root(f, g)
           /\ f.parent[g] = g <=> Root(f, g) = g
           /\ f.parent[g] # g => f.rank[g] < f.rank[Root(f, g)]
<1> DEFINE T == {x \in GlyphId : /\ Root(f, x) \in GlyphId
                                 /\ f.parent[Root(f, x)] = Root(f, x)
                                 /\ f.parent[x] # x => f.rank[x] < f.rank[Root(f, x)]}
<1>1. f.parent \in [GlyphId -> GlyphId] /\ \A x \in GlyphId : f.rank[x] \in Nat
  BY GlyphsAreCounted DEF Forest
<1>2. \A x \in GlyphId : Root(f, x) = IF f.parent[x] = x THEN x ELSE Root(f, f.parent[x])
  BY <1>1, RootEquation
<1>3. ASSUME NEW x \in GlyphId, f.parent[x] = x PROVE x \in T
  BY <1>2, <1>3
<1>4. ASSUME NEW x \in GlyphId, f.parent[x] \in T PROVE x \in T
  <2> DEFINE p == f.parent[x]
             r == Root(f, p)
  <2>1. CASE p = x
    BY <1>3, <2>1
  <2>2. CASE p # x
    <3>1. Root(f, x) = r /\ f.rank[x] < f.rank[p] /\ p \in GlyphId
      BY <1>1, <1>2, <2>2 DEF Ranked
    <3>2. r \in GlyphId /\ f.parent[r] = r /\ (f.parent[p] # p => f.rank[p] < f.rank[r])
      BY <1>4 DEF p, r
    <3>3. f.parent[p] = p => r = p
      BY <1>2, <3>1
    <3>4. f.rank[x] \in Nat /\ f.rank[p] \in Nat /\ f.rank[r] \in Nat
      BY <1>1, <3>1, <3>2
    <3>5. f.rank[x] < f.rank[r]
      <4> HIDE DEF p, r
      <4> QED BY <3>1, <3>2, <3>3, <3>4
    <3> HIDE DEF p, r
    <3> QED BY <3>1, <3>2, <3>5
  <2> QED BY <2>1, <2>2
<1>5. \A x \in GlyphId : x \in T
  <2> HIDE DEF T
  <2> QED BY <1>3, <1>4, UpTheTree
<1>6. g \in T /\ f.parent[g] \in GlyphId
  BY <1>1, <1>5
<1>7. f.parent[g] = g <=> Root(f, g) = g
  <2>1. f.parent[g] = g => Root(f, g) = g
    BY <1>2
  <2>2. Root(f, g) = g => f.parent[g] = g
    BY <1>6
  <2> QED BY <2>1, <2>2
<1>8. Root(f, f.parent[g]) = Root(f, g)
  <2>1. CASE f.parent[g] = g
    BY <2>1
  <2>2. CASE f.parent[g] # g
    BY <1>2, <2>2
  <2> QED BY <2>1, <2>2
<1> QED BY <1>6, <1>7, <1>8

\* what follows the parents gives the roots
LEMMA RootsAre ==
    ASSUME NEW f \in Forest, Ranked(f), NEW R \in [GlyphId -> GlyphId],
           \A g \in GlyphId : f.parent[g] = g => R[g] = g,
           \A g \in GlyphId : f.parent[g] # g => R[f.parent[g]] = R[g]
    PROVE  \A g \in GlyphId : Root(f, g) = R[g]
<1> DEFINE T == {x \in GlyphId : Root(f, x) = R[x]}
<1>1. \A x \in GlyphId : f.parent[x] \in GlyphId /\ Root(f, f.parent[x]) = Root(f, x)
  BY RootOfTree DEF Forest
<1>2. ASSUME NEW x \in GlyphId, f.parent[x] = x PROVE x \in T
  BY <1>2, RootOfTree
<1>3. ASSUME NEW x \in GlyphId, f.parent[x] \in T PROVE x \in T
  BY <1>1, <1>3
<1>4. \A x \in GlyphId : x \in T
  <2> HIDE DEF T
  <2> QED BY <1>2, <1>3, UpTheTree
<1> QED BY <1>4

LEMMA PathEquation ==
    ASSUME NEW f, f.parent \in [GlyphId -> GlyphId], NEW g \in GlyphId
    PROVE  Path(f, g) = IF f.parent[g] = g THEN {g} ELSE {g} \cup Path(f, f.parent[g])
<1> DEFINE closed(C) == \A z \in C : f.parent[z] \in C
           reach(x) == {y \in GlyphId : \A C \in SUBSET GlyphId : x \in C /\ closed(C) => y \in C}
           IsPath(h) == h = [x \in GlyphId |-> IF f.parent[x] = x THEN {x}
                                               ELSE {x} \cup h[f.parent[x]]]
           path == CHOOSE h : IsPath(h)
           all == [x \in GlyphId |-> reach(x)]
<1>1. \A x : Path(f, x) = path[x]
  BY DEF Path
<1>2. ASSUME NEW x \in GlyphId, f.parent[x] = x PROVE reach(x) = {x}
  <2>1. {x} \in SUBSET GlyphId /\ closed({x})
    BY <1>2
  <2> QED BY <2>1
<1>3. ASSUME NEW x \in GlyphId PROVE reach(x) = {x} \cup reach(f.parent[x])
  <2>1. f.parent[x] \in GlyphId
    OBVIOUS
  <2>2. ASSUME NEW y \in reach(f.parent[x]) PROVE y \in reach(x)
    <3> SUFFICES ASSUME NEW C \in SUBSET GlyphId, x \in C, closed(C) PROVE y \in C
      BY <2>2
    <3>1. f.parent[x] \in C
      OBVIOUS
    <3> QED BY <2>2, <3>1
  <2>3. ASSUME NEW y \in reach(x), y # x PROVE y \in reach(f.parent[x])
    <3> SUFFICES ASSUME NEW C \in SUBSET GlyphId, f.parent[x] \in C, closed(C) PROVE y \in C
      BY <2>3
    <3>1. C \cup {x} \in SUBSET GlyphId /\ closed(C \cup {x}) /\ x \in C \cup {x}
      OBVIOUS
    <3>2. y \in C \cup {x}
      BY <2>3, <3>1
    <3> QED BY <2>3, <3>2
  <2>4. x \in reach(x)
    OBVIOUS
  <2> HIDE DEF reach
  <2> QED BY <2>2, <2>3, <2>4
<1>4. IsPath(all)
  <2>1. ASSUME NEW x \in GlyphId
        PROVE  all[x] = IF f.parent[x] = x THEN {x} ELSE {x} \cup all[f.parent[x]]
    <3>1. f.parent[x] \in GlyphId
      OBVIOUS
    <3> HIDE DEF reach
    <3> QED BY <1>2, <1>3, <3>1
  <2> HIDE DEF reach
  <2> QED BY <2>1
<1>5. IsPath(path)
  <2> HIDE DEF IsPath, all
  <2> QED BY <1>4
<1> HIDE DEF path
<1> QED BY <1>1, <1>5

LEMMA PathKeepsRoot ==
    ASSUME NEW f \in Forest, Ranked(f), NEW g \in GlyphId
    PROVE  \A x \in Path(f, g) : x \in GlyphId /\ Root(f, x) = Root(f, g)
<1> DEFINE T == {y \in GlyphId : \A x \in Path(f, y) : x \in GlyphId /\ Root(f, x) = Root(f, y)}
<1>1. f.parent \in [GlyphId -> GlyphId]
  BY DEF Forest
<1>2. \A y \in GlyphId : /\ Path(f, y) = IF f.parent[y] = y THEN {y}
                                         ELSE {y} \cup Path(f, f.parent[y])
                         /\ f.parent[y] \in GlyphId
                         /\ Root(f, f.parent[y]) = Root(f, y)
  BY <1>1, PathEquation, RootOfTree
<1>3. ASSUME NEW y \in GlyphId, f.parent[y] = y PROVE y \in T
  BY <1>2, <1>3
<1>4. ASSUME NEW y \in GlyphId, f.parent[y] \in T PROVE y \in T
  <2> SUFFICES ASSUME NEW x \in Path(f, y) PROVE x \in GlyphId /\ Root(f, x) = Root(f, y)
    OBVIOUS
  <2>1. x = y \/ x \in Path(f, f.parent[y])
    BY <1>2
  <2> QED BY <1>2, <1>4, <2>1
<1>5. \A y \in GlyphId : y \in T
  <2> HIDE DEF T
  <2> QED BY <1>3, <1>4, UpTheTree
<1> QED BY <1>5

(***************************************************************************)
(* Find: the path to the root is compressed, and the trees stay.           *)
(***************************************************************************)
SameForest(h, f) ==
    /\ \A g \in GlyphId : Root(h, g) = Root(f, g)
    /\ \A r : Tree(h, r) = Tree(f, r)
    /\ Trees(h) = Trees(f)

LEMMA SameRoots ==
    ASSUME NEW f \in Forest, Ranked(f), NEW h \in Forest, Ranked(h),
           \A g \in GlyphId : Root(h, g) = Root(f, g)
    PROVE  SameForest(h, f)
<1>1. \A r : Tree(h, r) = Tree(f, r)
  BY DEF Tree
<1>2. \A g \in GlyphId : h.parent[g] = g <=> f.parent[g] = g
  BY RootOfTree
<1>3. {g \in GlyphId : h.parent[g] = g} = {g \in GlyphId : f.parent[g] = g}
  BY <1>2
<1>4. Trees(h) = Trees(f)
  BY <1>1, <1>3 DEF Trees
<1> QED BY <1>1, <1>4 DEF SameForest

\* parents may be replaced by anything nearer to the root
LEMMA ShorterWays ==
    ASSUME NEW f \in Forests, NEW P \in [GlyphId -> GlyphId],
           \A g \in GlyphId : P[g] = f.parent[g] \/ P[g] = Root(f, g)
    PROVE  LET h == [f EXCEPT !.parent = P]
           IN  h \in Forests /\ SameForest(h, f)
<1> DEFINE h == [f EXCEPT !.parent = P]
           R == [g \in GlyphId |-> Root(f, g)]
<1>1. f \in Forest /\ Ranked(f) /\ Heavy(f)
  BY DEF Forests
<1>2. h \in Forest /\ h.parent = P /\ h.rank = f.rank
  BY <1>1 DEF Forest
<1>3. \A g \in GlyphId : /\ Root(f, g) \in GlyphId
                         /\ f.parent[Root(f, g)] = Root(f, g)
                         /\ Root(f, f.parent[g]) = Root(f, g)
                         /\ f.parent[g] = g <=> Root(f, g) = g
                         /\ f.parent[g] # g => f.rank[g] < f.rank[Root(f, g)]
                         /\ f.parent[g] # g => f.rank[g] < f.rank[f.parent[g]]
                         /\ f.parent[g] \in GlyphId
  BY <1>1, RootOfTree DEF Ranked, Forest
<1> HIDE DEF h
<1>4. Ranked(h)
  <2> SUFFICES ASSUME NEW g \in GlyphId, P[g] # g PROVE f.rank[g] < f.rank[P[g]]
    BY <1>2 DEF Ranked
  <2>1. f.parent[g] # g
    BY <1>3
  <2> QED BY <1>3, <2>1
<1>5. R \in [GlyphId -> GlyphId]
  BY <1>3
<1>6. ASSUME NEW g \in GlyphId, P[g] = g PROVE R[g] = g
  BY <1>3, <1>6
<1>7. ASSUME NEW g \in GlyphId, P[g] # g PROVE R[P[g]] = R[g]
  <2>1. CASE P[g] = f.parent[g]
    BY <1>3, <2>1
  <2>2. CASE P[g] = Root(f, g)
    <3>1. Root(f, Root(f, g)) = Root(f, g)
      BY <1>3
    <3> QED BY <1>3, <2>2, <3>1
  <2> QED BY <2>1, <2>2
<1>8. \A g \in GlyphId : Root(h, g) = R[g]
  <2> HIDE DEF R
  <2> QED BY <1>2, <1>4, <1>5, <1>6, <1>7, RootsAre
<1>9. SameForest(h, f)
  BY <1>1, <1>2, <1>4, <1>8, SameRoots
<1>10. Heavy(h)
  <2> SUFFICES ASSUME NEW g \in GlyphId, h.parent[g] = g
               PROVE  2 * h.rank[g] <= Cardinality(Tree(h, g))
    BY DEF Heavy
  <2>1. f.parent[g] = g
    BY <1>3, <1>2
  <2>2. Tree(h, g) = Tree(f, g)
    BY <1>9 DEF SameForest
  <2> QED BY <1>1, <1>2, <2>1, <2>2 DEF Heavy
<1> QED BY <1>2, <1>4, <1>9, <1>10 DEF h, Forests

LEMMA FindKeepsSets ==
    ASSUME NEW f \in Forests, NEW glyph \in GlyphId
    PROVE  /\ Compressed(f, glyph) \in Forests
           /\ SameForest(Compressed(f, glyph), f)
           /\ Compressed(f, glyph).rank = f.rank
           /\ Compressed(f, glyph).cache_valid = f.cache_valid
           /\ Compressed(f, glyph).rep_to_set = f.rep_to_set
           /\ Compressed(f, glyph).non_identity_groups = f.non_identity_groups
<1> DEFINE P == [g \in GlyphId |-> IF g \in Path(f, glyph) THEN Root(f, glyph)
                                   ELSE f.parent[g]]
<1>1. f \in Forest /\ Ranked(f)
  BY DEF Forests
<1>2. Compressed(f, glyph) = [f EXCEPT !.parent = P]
  BY DEF Compressed
<1>3. \A g \in Path(f, glyph) : Root(f, g) = Root(f, glyph)
  BY <1>1, PathKeepsRoot
<1>4. Root(f, glyph) \in GlyphId /\ \A g \in GlyphId : f.parent[g] \in GlyphId
  BY <1>1, RootOfTree DEF Forest
<1>5. P \in [GlyphId -> GlyphId]
  BY <1>4
<1>6. \A g \in GlyphId : P[g] = f.parent[g] \/ P[g] = Root(f, g)
  BY <1>3
<1> HIDE DEF P
<1>7. [f EXCEPT !.parent = P] \in Forests /\ SameForest([f EXCEPT !.parent = P], f)
  BY <1>5, <1>6, ShorterWays
<1> QED BY <1>1, <1>2, <1>7 DEF Forest

LEMMA FindAllKeepsSets ==
    ASSUME NEW f \in Forests
    PROVE  CompressedAll(f) \in Forests /\ SameForest(CompressedAll(f), f)
<1> DEFINE P == [g \in GlyphId |-> Root(f, g)]
<1>1. CompressedAll(f) = [f EXCEPT !.parent = P]
  BY DEF CompressedAll
<1>2. P \in [GlyphId -> GlyphId]
  BY RootOfTree DEF Forests
<1>3. \A g \in GlyphId : P[g] = f.parent[g] \/ P[g] = Root(f, g)
  OBVIOUS
<1> HIDE DEF P
<1> QED BY <1>1, <1>2, <1>3, ShorterWays

(***************************************************************************)
(* Partitions are compared by which sets they hold together: T holds s     *)
(* together when s is part of one of its sets.                             *)
(***************************************************************************)
IsPartition(T) ==
    /\ T \subseteq SUBSET GlyphId
    /\ {} \notin T
    /\ \A g \in GlyphId : \E t \in T : g \in t
    /\ \A s, t \in T : s \cap t # {} => s = t

Partitions == {T \in SUBSET SUBSET GlyphId : IsPartition(T)}

Together(T, s) == \E t \in T : s \subseteq t

\* R is P with the sets of Q united
Joins(R, P, Q) ==
    /\ R \in Partitions
    /\ \A T \in Partitions :
          (\A r \in R : Together(T, r)) <=> (\A s \in P \cup Q : Together(T, s))

LEMMA SetsOfPartition ==
    ASSUME NEW T \in Partitions
    PROVE  /\ T \in SUBSET SUBSET GlyphId
           /\ \A t \in T : t # {} /\ Together(T, t)
           /\ \A s, t \in T : s \cap t # {} => s = t
           /\ \A g \in GlyphId : \E t \in T : g \in t
  BY DEF Partitions, IsPartition, Together

LEMMA JoinIsUnique ==
    ASSUME NEW P, NEW Q, NEW R, Joins(R, P, Q), NEW S, Joins(S, P, Q)
    PROVE  R = S
<1>1. R \in Partitions /\ S \in Partitions
  BY DEF Joins
<1>2. /\ \A r \in R : Together(S, r)
      /\ \A s \in S : Together(R, s)
  <2>1. (\A r \in R : Together(R, r)) /\ (\A s \in S : Together(S, s))
    BY <1>1, SetsOfPartition
  <2> QED BY <1>1, <2>1 DEF Joins
<1>3. ASSUME NEW A \in Partitions, NEW B \in Partitions,
             \A a \in A : Together(B, a), \A b \in B : Together(A, b), NEW a \in A
      PROVE  a \in B
  <2>1. PICK b \in B : a \subseteq b
    BY <1>3 DEF Together
  <2>2. PICK c \in A : b \subseteq c
    BY <1>3 DEF Together
  <2>3. a \cap c # {}
    BY <1>3, <2>1, <2>2, SetsOfPartition
  <2>4. a = c
    BY <1>3, <2>3, SetsOfPartition
  <2> QED BY <2>1, <2>2, <2>4
<1>4. \A a \in R : a \in S
  <2>1. ASSUME NEW a \in R PROVE a \in S
    BY <1>1, <1>2, <1>3, <2>1
  <2> QED BY <2>1
<1>5. \A a \in S : a \in R
  <2>1. ASSUME NEW a \in S PROVE a \in R
    BY <1>1, <1>2, <1>3, <2>1
  <2> QED BY <2>1
<1> QED BY <1>4, <1>5

LEMMA PairsTogether ==
    ASSUME NEW T \in Partitions, NEW a \in GlyphId, NEW b \in GlyphId, NEW c \in GlyphId
    PROVE  /\ Together(T, {a, a})
           /\ Together(T, {a, b}) => Together(T, {b, a})
           /\ Together(T, {a, b}) /\ Together(T, {b, c}) => Together(T, {a, c})
<1>1. Together(T, {a, a})
  BY SetsOfPartition DEF Together
<1>2. ASSUME Together(T, {a, b}), Together(T, {b, c}) PROVE Together(T, {a, c})
  <2>1. PICK s \in T : a \in s /\ b \in s
    BY <1>2 DEF Together
  <2>2. PICK t \in T : b \in t /\ c \in t
    BY <1>2 DEF Together
  <2>3. s = t
    <3>1. s \cap t # {}
      BY <2>1, <2>2
    <3> QED BY <3>1, SetsOfPartition
  <2> QED BY <2>1, <2>2, <2>3 DEF Together
<1>3. Together(T, {a, b}) => Together(T, {b, a})
  BY DEF Together
<1> QED BY <1>1, <1>2, <1>3

\* a set is held together when one of its glyphs is with each of the others
LEMMA SetTogether ==
    ASSUME NEW T \in Partitions, NEW s \in SUBSET GlyphId, NEW a \in s
    PROVE  Together(T, s) <=> \A b \in s : Together(T, {a, b})
<1>1. ASSUME Together(T, s), NEW b \in s PROVE Together(T, {a, b})
  BY <1>1 DEF Together
<1>2. ASSUME \A b \in s : Together(T, {a, b}) PROVE Together(T, s)
  <2>1. PICK t \in T : a \in t
    BY SetsOfPartition
  <2>2. ASSUME NEW b \in s PROVE b \in t
    <3>1. PICK u \in T : a \in u /\ b \in u
      BY <1>2 DEF Together
    <3>2. u \cap t # {}
      BY <2>1, <3>1
    <3>3. u = t
      BY <3>2, SetsOfPartition
    <3> QED BY <3>1, <3>3
  <2> QED BY <2>2 DEF Together
<1> QED BY <1>1, <1>2

(***************************************************************************)
(* The trees of a forest are a partition, which holds each glyph and its   *)
(* root together.                                                          *)
(***************************************************************************)
Respects(T, f) == \A g \in GlyphId : Together(T, {Root(f, g), g})

LEMMA TreesArePartition ==
    ASSUME NEW f \in Forests
    PROVE  /\ Trees(f) \in Partitions
           /\ \A g \in GlyphId : Tree(f, Root(f, g)) \in Trees(f) /\ g \in Tree(f, Root(f, g))
           /\ \A t \in Trees(f) : \A g \in t : g \in GlyphId /\ t = Tree(f, Root(f, g))
           /\ \A T \in Partitions : (\A t \in Trees(f) : Together(T, t)) <=> Respects(T, f)
<1>1. f \in Forest /\ Ranked(f)
  BY DEF Forests
<1>2. \A g \in GlyphId : /\ Root(f, g) \in GlyphId
                         /\ f.parent[Root(f, g)] = Root(f, g)
                         /\ f.parent[g] = g <=> Root(f, g) = g
  BY <1>1, RootOfTree
<1>3. ASSUME NEW g \in GlyphId PROVE Tree(f, Root(f, g)) \in Trees(f) /\ g \in Tree(f, Root(f, g))
  BY <1>2 DEF Trees, Tree
<1>4. ASSUME NEW t \in Trees(f)
      PROVE  \E r \in GlyphId : /\ f.parent[r] = r /\ t = Tree(f, r) /\ Root(f, r) = r
                                /\ r \in t
  <2>1. PICK r \in GlyphId : f.parent[r] = r /\ t = Tree(f, r)
    BY DEF Trees
  <2> QED BY <1>2, <2>1 DEF Tree
<1>5. ASSUME NEW t \in Trees(f), NEW g \in t PROVE g \in GlyphId /\ t = Tree(f, Root(f, g))
  BY <1>4 DEF Tree
<1>6. Trees(f) \in Partitions
  <2>1. \A t \in Trees(f) : t \in SUBSET GlyphId /\ t # {}
    BY <1>4, <1>5
  <2>2. ASSUME NEW s \in Trees(f), NEW t \in Trees(f), s \cap t # {} PROVE s = t
    <3>1. PICK g \in s : g \in t
      BY <2>2
    <3> QED BY <1>5, <3>1
  <2> QED BY <1>3, <2>1, <2>2 DEF Partitions, IsPartition
<1>7. ASSUME NEW T \in Partitions
      PROVE  (\A t \in Trees(f) : Together(T, t)) <=> Respects(T, f)
  <2>1. ASSUME \A t \in Trees(f) : Together(T, t), NEW g \in GlyphId
        PROVE  Together(T, {Root(f, g), g})
    <3>1. Root(f, g) \in Tree(f, Root(f, g)) /\ g \in Tree(f, Root(f, g))
      BY <1>2 DEF Tree
    <3> QED BY <1>3, <2>1, <3>1 DEF Together
  <2>2. ASSUME Respects(T, f), NEW t \in Trees(f) PROVE Together(T, t)
    <3>1. PICK r \in t : t = Tree(f, r)
      BY <1>4
    <3>2. \A b \in t : Together(T, {r, b})
      BY <2>2, <3>1 DEF Respects, Tree
    <3>3. t \in SUBSET GlyphId
      BY <1>5
    <3> QED BY <3>1, <3>2, <3>3, SetTogether
  <2> QED BY <2>1, <2>2 DEF Respects
<1> QED BY <1>3, <1>5, <1>6, <1>7

(***************************************************************************)
(* Link: the two trees become one, and nothing is forgotten or added.      *)
(***************************************************************************)
IsRootOf(f, r) == r \in GlyphId /\ f.parent[r] = r

\* low is put under top, which gets the rank n
IsLinked(h, f, top, low, n) ==
    /\ IsRootOf(f, top) /\ IsRootOf(f, low) /\ top # low
    /\ h.parent = [f.parent EXCEPT ![low] = top]
    /\ h.rank = [f.rank EXCEPT ![top] = n]
    /\ \/ n = f.rank[top] /\ f.rank[low] < f.rank[top]
       \/ n = f.rank[top] + 1 /\ f.rank[low] = f.rank[top]
    /\ h = [f EXCEPT !.parent = h.parent, !.rank = h.rank, !.cache_valid = FALSE]

LEMMA Linked ==
    ASSUME NEW f \in Forests, NEW h, NEW top, NEW low, NEW n, IsLinked(h, f, top, low, n)
    PROVE  /\ h \in Forests
           /\ \A g \in GlyphId : Root(h, g) = IF Root(f, g) = low THEN top ELSE Root(f, g)
<1> DEFINE R == [g \in GlyphId |-> IF Root(f, g) = low THEN top ELSE Root(f, g)]
<1>1. f \in Forest /\ Ranked(f) /\ Heavy(f) /\ top \in GlyphId /\ low \in GlyphId
      /\ f.parent[top] = top /\ f.parent[low] = low /\ top # low
  BY DEF Forests, IsRootOf, IsLinked
<1>0. /\ h.parent = [f.parent EXCEPT ![low] = top]
      /\ h.rank = [f.rank EXCEPT ![top] = n]
      /\ \/ n = f.rank[top] /\ f.rank[low] < f.rank[top]
         \/ n = f.rank[top] + 1 /\ f.rank[low] = f.rank[top]
      /\ h = [f EXCEPT !.parent = h.parent, !.rank = h.rank, !.cache_valid = FALSE]
  BY DEF IsLinked
<1>2. \A g \in GlyphId : /\ Root(f, g) \in GlyphId
                         /\ f.parent[Root(f, g)] = Root(f, g)
                         /\ Root(f, f.parent[g]) = Root(f, g)
                         /\ f.parent[g] = g <=> Root(f, g) = g
                         /\ f.parent[g] \in GlyphId
                         /\ f.rank[g] \in Nat
                         /\ f.parent[g] # g => f.rank[g] < f.rank[f.parent[g]]
  BY <1>1, RootOfTree, GlyphsAreCounted DEF Ranked, Forest
<1>3. n \in Nat /\ f.rank[top] <= n /\ f.rank[low] < n
  BY <1>0, <1>1, <1>2
<1>4. \A g \in GlyphId : h.parent[g] = IF g = low THEN top ELSE f.parent[g]
  BY <1>0, <1>1 DEF Forest
<1>5. \A g \in GlyphId : h.rank[g] = IF g = top THEN n ELSE f.rank[g]
  BY <1>0, <1>1 DEF Forest
<1>6. IsFiniteSet(Tree(f, top)) /\ IsFiniteSet(Tree(f, low))
      /\ Cardinality(Tree(f, top)) \in Nat /\ Cardinality(Tree(f, low)) \in Nat
  <2>1. Tree(f, top) \subseteq GlyphId /\ Tree(f, low) \subseteq GlyphId
    BY DEF Tree
  <2> QED BY <2>1, GlyphsAreCounted, FS_Subset, FS_CardinalityType
<1> DEFINE both == Tree(f, top) \cup Tree(f, low)
<1>7. Cardinality(both) = Cardinality(Tree(f, top)) + Cardinality(Tree(f, low))
  <2>1. Tree(f, top) \cap Tree(f, low) = {}
    BY <1>1 DEF Tree
  <2>2. Cardinality({}) = 0
    BY FS_EmptySet
  <2>3. Cardinality(both) = Cardinality(Tree(f, top)) + Cardinality(Tree(f, low))
                              - Cardinality(Tree(f, top) \cap Tree(f, low))
    BY <1>6, FS_Union
  <2> HIDE DEF both
  <2>4. Cardinality(both) = Cardinality(Tree(f, top)) + Cardinality(Tree(f, low)) - 0
    BY <2>1, <2>2, <2>3
  <2> QED BY <1>6, <2>4
<1>8. 2 * n <= Cardinality(both) /\ Cardinality(both) <= NumGlyphs /\ Cardinality(both) \in Nat
  <2>1. 2 * f.rank[top] <= Cardinality(Tree(f, top)) /\ 2 * f.rank[low] <= Cardinality(Tree(f, low))
    BY <1>1 DEF Heavy
  <2>2. Cardinality(Tree(f, top)) # 0 /\ Cardinality(Tree(f, low)) # 0
    <3>1. top \in Tree(f, top) /\ low \in Tree(f, low)
      BY <1>1, <1>2 DEF Tree
    <3> QED BY <1>6, <3>1, FS_EmptySet
  <2>3. both \subseteq GlyphId
    BY DEF Tree
  <2>4. Cardinality(both) <= NumGlyphs /\ Cardinality(both) \in Nat
    BY <2>3, GlyphsAreCounted, FS_Subset, FS_CardinalityType
  <2>5. f.rank[top] \in Nat /\ f.rank[low] \in Nat
    BY <1>1, <1>2
  <2> HIDE DEF both
  <2>6. CASE n = f.rank[top]
    BY <1>6, <1>7, <2>1, <2>4, <2>5, <2>6
  <2>7. CASE n = f.rank[top] + 1 /\ f.rank[low] = f.rank[top]
    BY <1>6, <1>7, <2>1, <2>2, <2>4, <2>5, <2>7
  <2> QED BY <1>0, <2>6, <2>7
<1>9. n \in 0 .. NumGlyphs \div 2
  <2> HIDE DEF both
  <2> QED BY <1>3, <1>8, GlyphsAreCounted
<1>10. h \in Forest
  <2>1. h.parent \in [GlyphId -> GlyphId] /\ h.rank \in [GlyphId -> 0 .. NumGlyphs \div 2]
    BY <1>0, <1>1, <1>9 DEF Forest
  <2>2. \A P \in [GlyphId -> GlyphId], N \in [GlyphId -> 0 .. NumGlyphs \div 2] :
           [f EXCEPT !.parent = P, !.rank = N, !.cache_valid = FALSE] \in Forest
    BY <1>1 DEF Forest
  <2>3. [f EXCEPT !.parent = h.parent, !.rank = h.rank, !.cache_valid = FALSE] \in Forest
    BY <2>1, <2>2, Zenon
  <2> QED BY <1>0, <2>3, Zenon
<1>11. Ranked(h)
  <2> SUFFICES ASSUME NEW g \in GlyphId, h.parent[g] # g PROVE h.rank[g] < h.rank[h.parent[g]]
    BY DEF Ranked
  <2>1. CASE g = low
    BY <1>1, <1>3, <1>4, <1>5, <2>1
  <2>2. CASE g # low
    <3> DEFINE p == f.parent[g]
    <3>1. h.parent[g] = p /\ p # g /\ p \in GlyphId /\ g # top
      BY <1>1, <1>2, <1>4, <2>2
    <3>2. f.rank[g] < f.rank[p] /\ f.rank[g] \in Nat /\ f.rank[p] \in Nat
      BY <1>2, <3>1
    <3>3. h.rank[g] = f.rank[g] /\ h.rank[p] = IF p = top THEN n ELSE f.rank[p]
      BY <1>5, <3>1
    <3> HIDE DEF p
    <3> QED BY <1>3, <3>1, <3>2, <3>3
  <2> QED BY <2>1, <2>2
<1>12. R \in [GlyphId -> GlyphId]
  BY <1>1, <1>2
<1>13. ASSUME NEW g \in GlyphId, h.parent[g] = g PROVE R[g] = g
  <2>1. g # low /\ f.parent[g] = g
    BY <1>1, <1>4, <1>13
  <2> QED BY <1>2, <2>1
<1>14. ASSUME NEW g \in GlyphId, h.parent[g] # g PROVE R[h.parent[g]] = R[g]
  <2>1. CASE g = low
    <3>1. h.parent[g] = top /\ Root(f, top) = top /\ Root(f, low) = low
      BY <1>1, <1>2, <1>4, <2>1
    <3> QED BY <1>1, <2>1, <3>1
  <2>2. CASE g # low
    BY <1>2, <1>4, <2>2
  <2> QED BY <2>1, <2>2
<1>15. \A g \in GlyphId : Root(h, g) = R[g]
  <2> HIDE DEF R
  <2> QED BY <1>10, <1>11, <1>12, <1>13, <1>14, RootsAre
<1>16. Heavy(h)
  <2> SUFFICES ASSUME NEW g \in GlyphId, h.parent[g] = g
               PROVE  2 * h.rank[g] <= Cardinality(Tree(h, g))
    BY DEF Heavy
  <2>1. g # low /\ f.parent[g] = g
    BY <1>1, <1>4
  <2>2. CASE g = top
    <3>1. Tree(h, g) = both
      BY <1>15, <2>2 DEF Tree
    <3>2. h.rank[g] = n
      BY <1>5, <2>2
    <3> HIDE DEF both
    <3> QED BY <1>8, <3>1, <3>2
  <2>3. CASE g # top
    <3>1. Tree(h, g) = Tree(f, g)
      BY <1>15, <2>1, <2>3 DEF Tree
    <3>2. h.rank[g] = f.rank[g]
      BY <1>5, <2>3
    <3> QED BY <1>1, <2>1, <3>1, <3>2 DEF Heavy
  <2> QED BY <2>2, <2>3
<1> QED BY <1>10, <1>11, <1>15, <1>16 DEF Forests

LEMMA LinkJoins ==
    ASSUME NEW f \in Forests, NEW root1, IsRootOf(f, root1), NEW root2, IsRootOf(f, root2),
           root1 # root2
    PROVE  /\ Link(f, root1, root2) \in Forests
           /\ ~Link(f, root1, root2).cache_valid
           /\ \E top \in {root1, root2} : \A g \in GlyphId :
                 Root(Link(f, root1, root2), g) =
                    IF Root(f, g) \in {root1, root2} THEN top ELSE Root(f, g)
<1> DEFINE first == ~(f.rank[root1] < f.rank[root2])
           top == IF f.rank[root1] < f.rank[root2] THEN root2 ELSE root1
           low == IF f.rank[root1] < f.rank[root2] THEN root1 ELSE root2
           h == Link(f, root1, root2)
           n == h.rank[top]
<1>1. f \in Forest /\ root1 \in GlyphId /\ root2 \in GlyphId
  BY DEF Forests, IsRootOf
<1>2. f.rank[root1] \in Nat /\ f.rank[root2] \in Nat
  BY <1>1, GlyphsAreCounted DEF Forest
<1>3. IsRootOf(f, top) /\ IsRootOf(f, low) /\ top # low /\ {top, low} = {root1, root2}
      /\ top \in GlyphId
  BY DEF IsRootOf
<1>4. /\ h.parent = [f.parent EXCEPT ![low] = top]
      /\ h.rank = [f.rank EXCEPT ![top] = IF f.rank[root1] = f.rank[root2] THEN @ + 1 ELSE @]
  BY <1>1 DEF Link, Forest
<1>5. n = IF f.rank[root1] = f.rank[root2] THEN f.rank[top] + 1 ELSE f.rank[top]
  <2> HIDE DEF h, top, low
  <2> QED BY <1>1, <1>3, <1>4 DEF Forest
<1>6. h.rank = [f.rank EXCEPT ![top] = n]
  <2> HIDE DEF h, top, low
  <2> QED BY <1>1, <1>3, <1>4, <1>5 DEF Forest
<1>7. /\ h = [f EXCEPT !.parent = h.parent, !.rank = h.rank, !.cache_valid = FALSE]
      /\ h.cache_valid = FALSE
  <2>1. h = [f EXCEPT !.parent = [f.parent EXCEPT ![low] = top],
                      !.rank = [f.rank EXCEPT ![top] =
                                   IF f.rank[root1] = f.rank[root2] THEN @ + 1 ELSE @],
                      !.cache_valid = FALSE]
    BY DEF Link
  <2>2. h.cache_valid = FALSE
    BY <1>1, <2>1 DEF Forest
  <2> HIDE DEF h, top, low
  <2> QED BY <1>4, <2>1, <2>2
<1>8. \/ n = f.rank[top] /\ f.rank[low] < f.rank[top]
      \/ n = f.rank[top] + 1 /\ f.rank[low] = f.rank[top]
  BY <1>2, <1>5
<1> HIDE DEF top, low, h, n
<1>9. /\ h \in Forests
      /\ \A g \in GlyphId : Root(h, g) = IF Root(f, g) = low THEN top ELSE Root(f, g)
  <2>1. IsLinked(h, f, top, low, n)
    BY <1>3, <1>4, <1>6, <1>7, <1>8 DEF IsLinked
  <2> QED BY <2>1, Linked
<1>10. \A g \in GlyphId : Root(h, g) = IF Root(f, g) \in {root1, root2} THEN top ELSE Root(f, g)
  BY <1>3, <1>9
<1> QED BY <1>3, <1>7, <1>9, <1>10 DEF h

(***************************************************************************)
(* What a partition must hold together to respect a forest after a union.  *)
(***************************************************************************)
LEMMA UnionPairJoins ==
    ASSUME NEW f \in Forests, NEW a \in GlyphId, NEW b \in GlyphId
    PROVE  /\ UnionPair(f, a, b) \in Forests
           /\ \A T \in Partitions : Respects(T, UnionPair(f, a, b)) <=>
                                       Respects(T, f) /\ Together(T, {a, b})
           /\ UnionPair(f, a, b).cache_valid =>
                 /\ f.cache_valid
                 /\ SameForest(UnionPair(f, a, b), f)
                 /\ UnionPair(f, a, b).rep_to_set = f.rep_to_set
                 /\ UnionPair(f, a, b).non_identity_groups = f.non_identity_groups
<1> DEFINE once == Compressed(f, a)
           found == Compressed(once, b)
           root1 == Root(f, a)
           root2 == Root(f, b)
           h == UnionPair(f, a, b)
<1>1. /\ once \in Forests /\ SameForest(once, f) /\ once.cache_valid = f.cache_valid
      /\ once.rep_to_set = f.rep_to_set /\ once.non_identity_groups = f.non_identity_groups
  BY FindKeepsSets
<1> HIDE DEF once
<1>2. /\ found \in Forests /\ SameForest(found, once) /\ found.cache_valid = once.cache_valid
      /\ found.rep_to_set = once.rep_to_set
      /\ found.non_identity_groups = once.non_identity_groups
  BY <1>1, FindKeepsSets
<1>3. h = IF root1 = root2 THEN found ELSE Link(found, root1, root2)
  BY DEF UnionPair, once
<1> HIDE DEF found, h
<1>4. SameForest(found, f)
  BY <1>1, <1>2 DEF SameForest
<1>5. \A g \in GlyphId : Root(f, g) \in GlyphId /\ Root(f, Root(f, g)) = Root(f, g)
  BY RootOfTree DEF Forests
<1>6. CASE root1 = root2
  <2>1. h = found
    BY <1>3, <1>6
  <2>2. \A g \in GlyphId : Root(h, g) = Root(f, g)
    BY <1>4, <2>1 DEF SameForest
  <2>3. \A T : Respects(T, h) <=> Respects(T, f)
    BY <2>2 DEF Respects
  <2>4. ASSUME NEW T \in Partitions, Respects(T, f) PROVE Together(T, {a, b})
    <3>1. Together(T, {root1, a}) /\ Together(T, {root1, b})
      BY <1>6, <2>4 DEF Respects
    <3> HIDE DEF root1
    <3> QED BY <1>5, <3>1, PairsTogether DEF root1
  <2> QED BY <1>1, <1>2, <1>4, <2>1, <2>3, <2>4 DEF h
<1>7. CASE root1 # root2
  <2>1. IsRootOf(found, root1) /\ IsRootOf(found, root2)
    <3>1. \A g \in GlyphId : Root(found, g) = Root(f, g)
      BY <1>4 DEF SameForest
    <3>2. \A g \in GlyphId : found.parent[Root(found, g)] = Root(found, g)
      BY <1>2, RootOfTree DEF Forests
    <3> QED BY <1>5, <3>1, <3>2 DEF IsRootOf
  <2>2. h = Link(found, root1, root2)
    BY <1>3, <1>7
  <2> HIDE DEF root1, root2
  <2>3. /\ h \in Forests /\ ~h.cache_valid
        /\ \E top \in {root1, root2} : \A g \in GlyphId :
              Root(h, g) = IF Root(found, g) \in {root1, root2} THEN top ELSE Root(found, g)
    BY <1>2, <1>7, <2>1, <2>2, LinkJoins
  <2>4. PICK top \in {root1, root2} : \A g \in GlyphId :
            Root(h, g) = IF Root(f, g) \in {root1, root2} THEN top ELSE Root(f, g)
    <3>1. \A g \in GlyphId : Root(found, g) = Root(f, g)
      BY <1>4 DEF SameForest
    <3> QED BY <2>3, <3>1
  <2>5. root1 \in GlyphId /\ root2 \in GlyphId /\ top \in GlyphId
        /\ Root(f, root1) = root1 /\ Root(f, root2) = root2
        /\ Root(f, a) = root1 /\ Root(f, b) = root2
    BY <1>5 DEF root1, root2
  <2>6. ASSUME NEW T \in Partitions, Respects(T, h)
        PROVE  Respects(T, f) /\ Together(T, {a, b})
    <3>1. \A g \in GlyphId : Together(T, {Root(h, g), g})
      BY <2>6 DEF Respects
    <3>2. Root(h, a) = top /\ Root(h, b) = top
      BY <2>4, <2>5
    <3>3. Together(T, {a, b})
      BY <2>5, <3>1, <3>2, PairsTogether
    <3>4. ASSUME NEW g \in GlyphId PROVE Together(T, {Root(f, g), g})
      <4> DEFINE r == Root(f, g)
                 q == Root(h, g)
      <4>1. r \in GlyphId /\ Root(f, r) = r
        BY <1>5
      <4>2. Root(h, r) = q /\ q \in GlyphId
        BY <2>4, <2>5, <4>1
      <4>3. Together(T, {q, g}) /\ Together(T, {q, r})
        BY <3>1, <4>1, <4>2
      <4> HIDE DEF r, q
      <4>4. Together(T, {r, q})
        BY <4>1, <4>2, <4>3, PairsTogether
      <4>5. Together(T, {r, g})
        BY <4>1, <4>2, <4>3, <4>4, PairsTogether
      <4> QED BY <4>5 DEF r
    <3> QED BY <3>3, <3>4 DEF Respects
  <2>7. ASSUME NEW T \in Partitions, Respects(T, f), Together(T, {a, b}) PROVE Respects(T, h)
    <3>1. Together(T, {root1, a}) /\ Together(T, {root2, b})
      BY <2>5, <2>7 DEF Respects
    <3>2. Together(T, {root1, b})
      BY <2>5, <2>7, <3>1, PairsTogether
    <3>3. Together(T, {b, root2})
      BY <2>5, <3>1, PairsTogether
    <3>4. Together(T, {root1, root2})
      BY <2>5, <3>2, <3>3, PairsTogether
    <3>5. \A r \in {root1, root2} : Together(T, {top, r})
      <4>1. Together(T, {root2, root1}) /\ Together(T, {root1, root1}) /\ Together(T, {root2, root2})
        BY <2>5, <3>4, PairsTogether
      <4> QED BY <3>4, <4>1
    <3>6. ASSUME NEW g \in GlyphId PROVE Together(T, {Root(h, g), g})
      <4>1. Together(T, {Root(f, g), g}) /\ Root(f, g) \in GlyphId
        BY <1>5, <2>7 DEF Respects
      <4>2. CASE Root(f, g) \in {root1, root2}
        <5>1. Together(T, {top, Root(f, g)}) /\ Root(h, g) = top
          BY <2>4, <3>5, <4>2
        <5> QED BY <2>5, <4>1, <5>1, PairsTogether
      <4>3. CASE Root(f, g) \notin {root1, root2}
        BY <2>4, <4>1, <4>3
      <4> QED BY <4>2, <4>3
    <3> QED BY <3>6 DEF Respects
  <2> QED BY <2>3, <2>6, <2>7 DEF h
<1> QED BY <1>6, <1>7

(***************************************************************************)
(* h is what becomes of f when each set of Q is united.  Only what changes *)
(* nothing leaves the cache valid.                                         *)
(***************************************************************************)
SameCache(h, f) == /\ h.rep_to_set = f.rep_to_set
                   /\ h.non_identity_groups = f.non_identity_groups

Unites(h, f, Q) ==
    /\ h \in Forests
    /\ \A T \in Partitions :
          Respects(T, h) <=> Respects(T, f) /\ \A s \in Q : Together(T, s)
    /\ h.cache_valid => f.cache_valid /\ SameForest(h, f) /\ SameCache(h, f)

LEMMA UnitesNothing == ASSUME NEW f \in Forests PROVE Unites(f, f, {})
  BY DEF Unites, SameForest, SameCache

LEMMA UnitesMore ==
    ASSUME NEW f, NEW g, NEW h, NEW Q, NEW R, Unites(g, f, Q), Unites(h, g, R)
    PROVE  Unites(h, f, Q \cup R)
<1>1. h \in Forests
  BY DEF Unites
<1>2. ASSUME NEW T \in Partitions
      PROVE  Respects(T, h) <=> Respects(T, f) /\ \A s \in Q \cup R : Together(T, s)
  BY DEF Unites
<1>3. ASSUME h.cache_valid PROVE f.cache_valid /\ SameForest(h, f) /\ SameCache(h, f)
  BY <1>3 DEF Unites, SameForest, SameCache
<1> QED BY <1>1, <1>2, <1>3 DEF Unites

LEMMA UnionPairUnites ==
    ASSUME NEW f \in Forests, NEW a \in GlyphId, NEW b \in GlyphId
    PROVE  Unites(UnionPair(f, a, b), f, {{a, b}})
<1> DEFINE h == UnionPair(f, a, b)
<1>1. /\ h \in Forests
      /\ \A T \in Partitions : Respects(T, h) <=> Respects(T, f) /\ Together(T, {a, b})
      /\ h.cache_valid => /\ f.cache_valid /\ SameForest(h, f)
                          /\ h.rep_to_set = f.rep_to_set
                          /\ h.non_identity_groups = f.non_identity_groups
  BY UnionPairJoins
<1> HIDE DEF h
<1>2. Unites(h, f, {{a, b}})
  BY <1>1 DEF Unites, SameCache
<1> QED BY <1>2 DEF h

LEMMA SmallestGlyph ==
    ASSUME NEW s \in SUBSET GlyphId, s # {}
    PROVE  Min(s) \in s
<1>1. PICK k \in s : \A j \in s : ~(<<j, k>> \in OpToRel(<, Nat))
  <2>1. s \subseteq Nat
    BY GlyphsAreCounted DEF GlyphId
  <2> QED BY <2>1, NatLessThanWellFounded, WFMin
<1>2. \A j \in s : k <= j
  <2>1. ASSUME NEW j \in s PROVE k <= j
    <3>1. j \in Nat /\ k \in Nat
      BY GlyphsAreCounted DEF GlyphId
    <3>2. ~(<<j, k>> \in OpToRel(<, Nat))
      BY <1>1
    <3>3. ~(j < k)
      BY <3>1, <3>2 DEF OpToRel
    <3> QED BY <3>1, <3>3
  <2> QED BY <2>1
<1> QED BY <1>2 DEF Min

(***************************************************************************)
(* A loop over the glyphs: what each round makes of the forest.            *)
(***************************************************************************)
IsUniting(united, f, sets) ==
    /\ united[0] = f
    /\ \A k \in 1 .. NumGlyphs : \A g \in Forests :
          united[k - 1] = g => Unites(united[k], g, sets[k])

AllOf(sets) == UNION {sets[k] : k \in 1 .. NumGlyphs}

LEMMA RoundsUnite ==
    ASSUME NEW f \in Forests, NEW united, NEW sets, IsUniting(united, f, sets)
    PROVE  Unites(united[NumGlyphs], f, AllOf(sets))
<1> DEFINE upTo(k) == UNION {sets[j] : j \in 1 .. k}
           T == {k \in 0 .. NumGlyphs : Unites(united[k], f, upTo(k))}
<1>1. NumGlyphs \in Nat
  BY GlyphsAreCounted
<1>2. 0 \in T
  <2>1. upTo(0) = {}
    OBVIOUS
  <2>2. united[0] = f
    BY DEF IsUniting
  <2> HIDE DEF upTo
  <2> QED BY <1>1, <2>1, <2>2, UnitesNothing
<1>3. ASSUME NEW k \in 1 .. NumGlyphs, k - 1 \in T PROVE k \in T
  <2>1. k \in 0 .. NumGlyphs
    BY <1>1
  <2>2. Unites(united[k - 1], f, upTo(k - 1))
    BY <1>3
  <2>3. united[k - 1] \in Forests
    BY <2>2 DEF Unites
  <2>4. Unites(united[k], united[k - 1], sets[k])
    BY <2>3 DEF IsUniting
  <2>5. upTo(k) = upTo(k - 1) \cup sets[k]
    BY <1>1
  <2> HIDE DEF upTo
  <2>6. Unites(united[k], f, upTo(k))
    BY <2>2, <2>4, <2>5, UnitesMore
  <2> QED BY <2>1, <2>6
<1>4. NumGlyphs \in T
  <2> HIDE DEF T
  <2>1. \A k \in 0 .. NumGlyphs : k \in T
    BY <1>1, <1>2, <1>3, CountingUp
  <2> QED BY <1>1, <2>1
<1> QED BY <1>4 DEF AllOf
LEMMA UnionSetUnites ==
    ASSUME NEW f \in Forests, NEW glyphs
    PROVE  Unites(UnionSet(f, glyphs), f, {glyphs \cap GlyphId})
<1> DEFINE valid == glyphs \cap GlyphId
           first == Min(valid)
           rest == valid \ {first}
           IsUnited(h) == h = [k \in 0 .. NumGlyphs |->
                                  IF k = 0 THEN f
                                  ELSE IF k - 1 \in rest
                                       THEN UnionPair(h[k - 1], first, k - 1)
                                       ELSE h[k - 1]]
           united == CHOOSE h : IsUnited(h)
           step == [p \in Forests \X (1 .. NumGlyphs) |->
                       IF p[2] - 1 \in rest THEN UnionPair(p[1], first, p[2] - 1) ELSE p[1]]
           sets == [k \in 1 .. NumGlyphs |->
                       IF k - 1 \in rest THEN {{first, k - 1}} ELSE {}]
<1>1. UnionSet(f, glyphs) = IF valid = {} THEN f ELSE united[NumGlyphs]
  BY DEF UnionSet
<1>2. NumGlyphs \in Nat /\ valid \in SUBSET GlyphId
  BY GlyphsAreCounted
<1>3. \A T \in Partitions : Together(T, {})
  BY GlyphsAreCounted, SetsOfPartition DEF Together
<1>4. CASE valid = {}
  <2>1. Unites(f, f, {})
    BY UnitesNothing
  <2>2. Unites(f, f, {{}})
    BY <1>3, <2>1 DEF Unites
  <2> QED BY <1>1, <1>4, <2>2
<1>5. CASE valid # {}
  <2>1. first \in valid /\ first \in GlyphId
    BY <1>2, <1>5, SmallestGlyph
  <2> HIDE DEF first
  <2>2. \A g \in Forests, b \in rest : UnionPair(g, first, b) \in Forests
                                       /\ Unites(UnionPair(g, first, b), g, {{first, b}})
    <3>1. ASSUME NEW g \in Forests, NEW b \in rest
          PROVE  Unites(UnionPair(g, first, b), g, {{first, b}})
      BY <2>1, UnionPairUnites
    <3> QED BY <3>1 DEF Unites
  <2> HIDE DEF valid
  <2>3. step \in [Forests \X (1 .. NumGlyphs) -> Forests]
    <3> SUFFICES ASSUME NEW p \in Forests \X (1 .. NumGlyphs) PROVE step[p] \in Forests
      OBVIOUS
    <3>1. p[1] \in Forests
      OBVIOUS
    <3>2. CASE p[2] - 1 \in rest
      <4> HIDE DEF rest
      <4> QED BY <2>2, <3>1, <3>2
    <3>3. CASE ~(p[2] - 1 \in rest)
      <4> HIDE DEF rest
      <4> QED BY <3>1, <3>3
    <3> QED BY <3>2, <3>3
  <2>4. PICK h \in [0 .. NumGlyphs -> Forests] : IsLoop(h, NumGlyphs, f, step)
    <3> HIDE DEF step
    <3> QED BY <1>2, <2>3, LoopExists
  <2> HIDE DEF rest
  <2>5. ASSUME NEW k \in 1 .. NumGlyphs
        PROVE  h[k] = IF k - 1 \in rest THEN UnionPair(h[k - 1], first, k - 1) ELSE h[k - 1]
    <3>1. k - 1 \in 0 .. NumGlyphs
      BY <1>2
    <3>2. <<h[k - 1], k>> \in Forests \X (1 .. NumGlyphs)
      BY <2>4, <3>1
    <3>3. step[<<h[k - 1], k>>] = IF k - 1 \in rest THEN UnionPair(h[k - 1], first, k - 1)
                                  ELSE h[k - 1]
      BY <3>2
    <3> QED BY <2>4, <3>3 DEF IsLoop
  <2>6. IsUnited(h)
    <3>1. h[0] = f /\ h \in [0 .. NumGlyphs -> Forests]
      BY <2>4 DEF IsLoop
    <3>2. ASSUME NEW k \in 0 .. NumGlyphs
          PROVE  h[k] = IF k = 0 THEN f
                        ELSE IF k - 1 \in rest THEN UnionPair(h[k - 1], first, k - 1)
                             ELSE h[k - 1]
      <4>1. k # 0 => k \in 1 .. NumGlyphs
        BY <1>2
      <4> QED BY <2>5, <3>1, <4>1
    <3> QED BY <3>1, <3>2
  <2>7. IsUnited(united)
    <3> HIDE DEF IsUnited
    <3> QED BY <2>6
  <2> HIDE DEF united
  <2>8. united[0] = f
    BY <1>2, <2>7
  <2>9. ASSUME NEW k \in 1 .. NumGlyphs, NEW g \in Forests, united[k - 1] = g
        PROVE  Unites(united[k], g, sets[k])
    <3>1. united[k] = IF k - 1 \in rest THEN UnionPair(g, first, k - 1) ELSE g
      <4>1. k \in 0 .. NumGlyphs /\ k # 0
        BY <1>2
      <4> QED BY <2>7, <2>9, <4>1
    <3>2. CASE k - 1 \in rest
      <4>1. Unites(UnionPair(g, first, k - 1), g, {{first, k - 1}})
        BY <2>2, <3>2
      <4> QED BY <3>1, <3>2, <4>1
    <3>3. CASE k - 1 \notin rest
      BY <3>1, <3>3, UnitesNothing
    <3> QED BY <3>2, <3>3
  <2> DEFINE all == UNION {sets[k] : k \in 1 .. NumGlyphs}
  <2>10. Unites(united[NumGlyphs], f, all)
    <3> HIDE DEF sets
    <3>1. IsUniting(united, f, sets)
      BY <2>8, <2>9 DEF IsUniting
    <3>2. Unites(united[NumGlyphs], f, AllOf(sets))
      BY <3>1, RoundsUnite
    <3> QED BY <3>2 DEF AllOf
  <2>11. all = {{first, b} : b \in rest}
    <3>1. ASSUME NEW b \in rest PROVE {first, b} \in all
      <4>1. b \in GlyphId
        BY DEF rest, valid
      <4>2. b + 1 \in 1 .. NumGlyphs /\ (b + 1) - 1 = b
        BY <1>2, <4>1 DEF GlyphId
      <4>3. sets[b + 1] = {{first, b}}
        BY <4>2
      <4> HIDE DEF sets
      <4> QED BY <4>2, <4>3
    <3>2. ASSUME NEW x \in all PROVE \E b \in rest : x = {first, b}
      OBVIOUS
    <3> HIDE DEF all
    <3> QED BY <3>1, <3>2
  <2> HIDE DEF all, sets
  <2>12. ASSUME NEW T \in Partitions
         PROVE  (\A s \in all : Together(T, s)) <=> Together(T, valid)
    <3>1. Together(T, valid) <=> \A b \in valid : Together(T, {first, b})
      BY <1>2, <2>1, SetTogether
    <3>2. Together(T, {first, first})
      BY <2>1, PairsTogether
    <3> QED BY <2>11, <3>1, <3>2 DEF rest
  <2>13. Unites(united[NumGlyphs], f, {valid})
    BY <2>10, <2>12 DEF Unites
  <2> QED BY <1>1, <1>5, <2>13 DEF valid
<1> QED BY <1>4, <1>5

(***************************************************************************)
(* Disjoint sets are united in any order.                                  *)
(***************************************************************************)
AreDisjoint(sets) ==
    /\ sets \subseteq SUBSET GlyphId
    /\ {} \notin sets
    /\ \A s, t \in sets : s \cap t # {} => s = t

\* the sets that start with a glyph, and the loop over the glyphs
Starting(sets, k) == {s \in sets : Min(s) = k - 1}
FirstOf(sets, k) == CHOOSE s \in Starting(sets, k) : TRUE

IsUnionAll(united, f, sets) ==
    /\ united \in [0 .. NumGlyphs -> Forests]
    /\ united[0] = f
    /\ \A k \in 1 .. NumGlyphs :
          united[k] = IF Starting(sets, k) = {} THEN united[k - 1]
                      ELSE UnionSet(united[k - 1], FirstOf(sets, k))
    /\ UnionAll(f, sets) = united[NumGlyphs]

LEMMA UnionAllIsLoop ==
    ASSUME NEW f \in Forests, NEW sets
    PROVE  \E united : IsUnionAll(united, f, sets)
<1> DEFINE IsUnited(h) == h = [k \in 0 .. NumGlyphs |->
                                  IF k = 0 THEN f
                                  ELSE IF Starting(sets, k) = {} THEN h[k - 1]
                                       ELSE UnionSet(h[k - 1], FirstOf(sets, k))]
           united == CHOOSE h : IsUnited(h)
           step == [p \in Forests \X (1 .. NumGlyphs) |->
                       IF Starting(sets, p[2]) = {} THEN p[1]
                       ELSE UnionSet(p[1], FirstOf(sets, p[2]))]
<1>1. UnionAll(f, sets) = united[NumGlyphs]
  BY DEF UnionAll, Starting, FirstOf
<1>2. NumGlyphs \in Nat
  BY GlyphsAreCounted
<1>3. \A g \in Forests : \A s : UnionSet(g, s) \in Forests
  BY UnionSetUnites DEF Unites
<1>4. step \in [Forests \X (1 .. NumGlyphs) -> Forests]
  BY <1>3
<1>5. PICK h \in [0 .. NumGlyphs -> Forests] : IsLoop(h, NumGlyphs, f, step)
  <2> HIDE DEF step
  <2> QED BY <1>2, <1>4, LoopExists
<1>6. ASSUME NEW k \in 1 .. NumGlyphs
      PROVE  h[k] = IF Starting(sets, k) = {} THEN h[k - 1]
                    ELSE UnionSet(h[k - 1], FirstOf(sets, k))
  <2>1. k - 1 \in 0 .. NumGlyphs
    BY <1>2
  <2>2. <<h[k - 1], k>> \in Forests \X (1 .. NumGlyphs)
    BY <1>5, <2>1
  <2>3. step[<<h[k - 1], k>>] = IF Starting(sets, k) = {} THEN h[k - 1]
                                ELSE UnionSet(h[k - 1], FirstOf(sets, k))
    BY <2>2
  <2> QED BY <1>5, <2>3 DEF IsLoop
<1>7. h[0] = f /\ h \in [0 .. NumGlyphs -> Forests]
  BY <1>5 DEF IsLoop
<1>8. IsUnited(h)
  <2>1. ASSUME NEW k \in 0 .. NumGlyphs
        PROVE  h[k] = IF k = 0 THEN f
                      ELSE IF Starting(sets, k) = {} THEN h[k - 1]
                           ELSE UnionSet(h[k - 1], FirstOf(sets, k))
    <3>1. k # 0 => k \in 1 .. NumGlyphs
      BY <1>2
    <3> QED BY <1>6, <1>7, <3>1
  <2> QED BY <1>7, <2>1
<1>9. IsUnited(united)
  <2> HIDE DEF IsUnited
  <2> QED BY <1>8
<1> HIDE DEF united
<1>10. /\ united[0] = f
       /\ \A k \in 1 .. NumGlyphs :
             united[k] = IF Starting(sets, k) = {} THEN united[k - 1]
                         ELSE UnionSet(united[k - 1], FirstOf(sets, k))
  <2>1. 0 \in 0 .. NumGlyphs /\ \A k \in 1 .. NumGlyphs : k \in 0 .. NumGlyphs /\ k # 0
    BY <1>2
  <2> QED BY <1>9, <2>1
<1> DEFINE T == {k \in 0 .. NumGlyphs : united[k] \in Forests}
<1>11. 0 \in T
  BY <1>2, <1>10
<1>12. ASSUME NEW k \in 1 .. NumGlyphs, k - 1 \in T PROVE k \in T
  <2>1. k \in 0 .. NumGlyphs
    BY <1>2
  <2> QED BY <1>3, <1>10, <1>12, <2>1
<1>13. \A k \in 0 .. NumGlyphs : k \in T
  <2> HIDE DEF T
  <2> QED BY <1>2, <1>11, <1>12, CountingUp
<1>14. united \in [0 .. NumGlyphs -> Forests]
  <2>1. \A k \in 0 .. NumGlyphs : united[k] \in Forests
    BY <1>13
  <2> QED BY <1>9, <2>1
<1> QED BY <1>1, <1>10, <1>14 DEF IsUnionAll

LEMMA UnionAllIsForest ==
    ASSUME NEW f \in Forests, NEW sets
    PROVE  UnionAll(f, sets) \in Forests
<1>1. PICK united : IsUnionAll(united, f, sets)
  BY UnionAllIsLoop
<1>2. NumGlyphs \in 0 .. NumGlyphs
  BY GlyphsAreCounted
<1> QED BY <1>1, <1>2 DEF IsUnionAll

LEMMA UnionAllUnites ==
    ASSUME NEW f \in Forests, NEW sets, AreDisjoint(sets)
    PROVE  Unites(UnionAll(f, sets), f, sets)
<1> DEFINE now == [k \in 1 .. NumGlyphs |-> Starting(sets, k)]
<1>1. PICK united : IsUnionAll(united, f, sets)
  BY UnionAllIsLoop
<1>2. NumGlyphs \in Nat
  BY GlyphsAreCounted
<1>3. \A s \in sets : s \in SUBSET GlyphId /\ Min(s) \in s /\ Min(s) \in GlyphId
  <2>1. ASSUME NEW s \in sets PROVE s \in SUBSET GlyphId /\ Min(s) \in s
    <3>1. s \in SUBSET GlyphId /\ s # {}
      BY DEF AreDisjoint
    <3> QED BY <3>1, SmallestGlyph
  <2> QED BY <2>1
<1>4. ASSUME NEW k \in 1 .. NumGlyphs, Starting(sets, k) # {}
      PROVE  Starting(sets, k) = {FirstOf(sets, k) \cap GlyphId}
  <2> DEFINE the == FirstOf(sets, k)
  <2>1. the \in Starting(sets, k)
    BY <1>4 DEF FirstOf
  <2>2. ASSUME NEW s \in Starting(sets, k), NEW t \in Starting(sets, k) PROVE s = t
    <3>1. s \cap t # {}
      BY <1>3 DEF Starting
    <3> QED BY <3>1 DEF AreDisjoint, Starting
  <2>3. the \in sets
    BY <2>1 DEF Starting
  <2> HIDE DEF the
  <2>4. the \cap GlyphId = the
    BY <1>3, <2>3
  <2> QED BY <2>1, <2>2, <2>4 DEF the
<1>5. ASSUME NEW k \in 1 .. NumGlyphs, NEW g \in Forests, united[k - 1] = g
      PROVE  Unites(united[k], g, now[k])
  <2>1. united[k] = IF Starting(sets, k) = {} THEN g ELSE UnionSet(g, FirstOf(sets, k))
    BY <1>1, <1>5 DEF IsUnionAll
  <2>2. now[k] = Starting(sets, k)
    OBVIOUS
  <2> HIDE DEF now
  <2>3. CASE Starting(sets, k) = {}
    BY <2>1, <2>2, <2>3, UnitesNothing
  <2>4. CASE Starting(sets, k) # {}
    BY <1>4, <2>1, <2>2, <2>4, UnionSetUnites
  <2> QED BY <2>3, <2>4
<1> DEFINE all == UNION {now[k] : k \in 1 .. NumGlyphs}
<1>6. Unites(united[NumGlyphs], f, all)
  <2> HIDE DEF now
  <2>1. IsUniting(united, f, now)
    BY <1>1, <1>5 DEF IsUniting, IsUnionAll
  <2>2. Unites(united[NumGlyphs], f, AllOf(now))
    BY <2>1, RoundsUnite
  <2> QED BY <2>2 DEF AllOf
<1>7. all = sets
  <2>1. ASSUME NEW s \in sets PROVE s \in all
    <3>1. Min(s) + 1 \in 1 .. NumGlyphs /\ (Min(s) + 1) - 1 = Min(s)
      BY <1>2, <1>3 DEF GlyphId
    <3>2. s \in now[Min(s) + 1]
      BY <3>1 DEF Starting
    <3> HIDE DEF now
    <3> QED BY <3>1, <3>2
  <2>2. ASSUME NEW s \in all PROVE s \in sets
    BY DEF Starting
  <2> QED BY <2>1, <2>2
<1> QED BY <1>1, <1>6, <1>7 DEF IsUnionAll

(***************************************************************************)
(* The cache: what it has to hold while it is valid.                       *)
(***************************************************************************)
CacheOK(f) ==
    f.cache_valid =>
        /\ f.rep_to_set = [r \in {Root(f, g) : g \in GlyphId} |-> Tree(f, r)]
        /\ f.non_identity_groups = Sets!NonIdentity(Trees(f))

LEMMA CacheStays ==
    ASSUME NEW f, NEW h, CacheOK(f),
           h.cache_valid => f.cache_valid /\ SameForest(h, f) /\ SameCache(h, f)
    PROVE  CacheOK(h)
<1> SUFFICES ASSUME h.cache_valid
             PROVE  /\ h.rep_to_set = [r \in {Root(h, g) : g \in GlyphId} |-> Tree(h, r)]
                    /\ h.non_identity_groups = Sets!NonIdentity(Trees(h))
  BY DEF CacheOK
<1>1. /\ f.rep_to_set = [r \in {Root(f, g) : g \in GlyphId} |-> Tree(f, r)]
      /\ f.non_identity_groups = Sets!NonIdentity(Trees(f))
  BY DEF CacheOK
<1>2. {Root(h, g) : g \in GlyphId} = {Root(f, g) : g \in GlyphId}
  BY DEF SameForest
<1>3. \A r : Tree(h, r) = Tree(f, r)
  BY DEF SameForest
<1>4. Trees(h) = Trees(f)
  BY DEF SameForest
<1>5. h.rep_to_set = f.rep_to_set /\ h.non_identity_groups = f.non_identity_groups
  BY DEF SameCache
<1> QED BY <1>1, <1>2, <1>3, <1>4, <1>5

\* the trees are those of the parents
LEMMA SameParents ==
    ASSUME NEW f \in Forests, NEW h \in Forest, h.parent = f.parent, h.rank = f.rank
    PROVE  h \in Forests /\ SameForest(h, f)
<1> DEFINE R == [g \in GlyphId |-> Root(f, g)]
<1>1. f \in Forest /\ Ranked(f) /\ Heavy(f) /\ Ranked(h)
  BY DEF Forests, Ranked
<1>2. \A g \in GlyphId : /\ Root(f, g) \in GlyphId
                         /\ Root(f, f.parent[g]) = Root(f, g)
                         /\ f.parent[g] = g <=> Root(f, g) = g
                         /\ f.parent[g] \in GlyphId
  BY <1>1, RootOfTree DEF Forest
<1>3. R \in [GlyphId -> GlyphId]
  BY <1>2
<1>4. \A g \in GlyphId : Root(h, g) = R[g]
  <2>1. /\ \A g \in GlyphId : h.parent[g] = g => R[g] = g
        /\ \A g \in GlyphId : h.parent[g] # g => R[h.parent[g]] = R[g]
    BY <1>2
  <2> HIDE DEF R
  <2> QED BY <1>1, <1>3, <2>1, RootsAre
<1>5. SameForest(h, f)
  BY <1>1, <1>4, SameRoots
<1>6. Heavy(h)
  <2> SUFFICES ASSUME NEW g \in GlyphId, h.parent[g] = g
               PROVE  2 * h.rank[g] <= Cardinality(Tree(h, g))
    BY DEF Heavy
  <2>1. Tree(h, g) = Tree(f, g)
    BY <1>5 DEF SameForest
  <2> QED BY <1>1, <2>1 DEF Heavy
<1> QED BY <1>1, <1>5, <1>6 DEF Forests

LEMMA CopyHasNoCache ==
    ASSUME NEW f \in Forests
    PROVE  /\ CopyOf(f) \in Forests /\ SameForest(CopyOf(f), f)
           /\ CacheOK(CopyOf(f))
<1> DEFINE h == CopyOf(f)
<1>1. f \in Forest
  BY DEF Forests
<1>2. NoCache \in CacheOfSets
  <2>1. NoCache \in [{} -> SUBSET GlyphId] /\ {} \in SUBSET GlyphId
    BY DEF NoCache
  <2> QED BY <2>1 DEF CacheOfSets
<1>3. h \in Forest /\ h.parent = f.parent /\ h.rank = f.rank /\ h.cache_valid = FALSE
  BY <1>1, <1>2 DEF CopyOf, Forest
<1> HIDE DEF h
<1>4. h \in Forests /\ SameForest(h, f) /\ CacheOK(h)
  BY <1>3, SameParents DEF CacheOK
<1> QED BY <1>4 DEF h

LEMMA AssignedHasForest ==
    ASSUME NEW t \in Forests, NEW f \in Forests
    PROVE  AssignedFrom(t, f) \in Forests /\ SameForest(AssignedFrom(t, f), f)
<1> DEFINE h == AssignedFrom(t, f)
<1>1. t \in Forest /\ f \in Forest
  BY DEF Forests
<1>2. h \in Forest /\ h.parent = f.parent /\ h.rank = f.rank
  BY <1>1 DEF AssignedFrom, Forest
<1> HIDE DEF h
<1>3. h \in Forests /\ SameForest(h, f)
  BY <1>2, SameParents
<1> QED BY <1>3 DEF h

\* a set of glyphs has more than one when two of them differ
LEMMA MoreThanOne ==
    ASSUME NEW s \in SUBSET GlyphId
    PROVE  Cardinality(s) > 1 <=> \E g, h \in s : g # h
<1>1. IsFiniteSet(s) /\ Cardinality(s) \in Nat
  BY GlyphsAreCounted, FS_Subset, FS_CardinalityType
<1>2. CASE s = {}
  BY <1>2, FS_EmptySet
<1>3. CASE s # {}
  <2>1. PICK g \in s : TRUE
    BY <1>3
  <2>2. IsFiniteSet(s \ {g}) /\ Cardinality(s \ {g}) = Cardinality(s) - 1
    BY <1>1, <2>1, FS_RemoveElement
  <2>3. Cardinality(s \ {g}) \in Nat /\ (Cardinality(s \ {g}) = 0 <=> s \ {g} = {})
    BY <2>2, FS_CardinalityType, FS_EmptySet
  <2>4. Cardinality(s) > 1 <=> s \ {g} # {}
    BY <1>1, <2>2, <2>3
  <2> QED BY <2>1, <2>4
<1> QED BY <1>2, <1>3

LEMMA RebuiltIsCache ==
    ASSUME NEW f \in Forests
    PROVE  /\ Rebuilt(f) \in Forests /\ SameForest(Rebuilt(f), f)
           /\ Rebuilt(f).cache_valid /\ CacheOK(Rebuilt(f))
<1> DEFINE roots == {Root(f, g) : g \in GlyphId}
           sets == [r \in roots |-> Tree(f, r)]
           large == {sets[r] : r \in {q \in DOMAIN sets : Cardinality(sets[q]) > 1}}
           c == CompressedAll(f)
           h == Rebuilt(f)
<1>1. c \in Forests /\ c \in Forest /\ SameForest(c, f)
  BY FindAllKeepsSets DEF Forests
<1>2. \A g \in GlyphId : /\ Root(f, g) \in GlyphId /\ f.parent[Root(f, g)] = Root(f, g)
                         /\ f.parent[g] = g => Root(f, g) = g
  BY RootOfTree DEF Forests
<1>3. sets \in CacheOfSets
  <2>1. roots \in SUBSET GlyphId
    BY <1>2
  <2>2. sets \in [roots -> SUBSET GlyphId]
    BY DEF Tree
  <2> HIDE DEF roots, sets
  <2> QED BY <2>1, <2>2 DEF CacheOfSets
<1>4. large = Sets!NonIdentity(Trees(f))
  <2>1. \A r \in roots : Tree(f, r) \in SUBSET GlyphId
    BY DEF Tree
  <2>2. \A r \in roots : Cardinality(sets[r]) > 1 <=> \E a, b \in Tree(f, r) : a # b
    BY <2>1, MoreThanOne
  <2>3. roots = {r \in GlyphId : f.parent[r] = r}
    BY <1>2
  <2>4. Trees(f) = {Tree(f, r) : r \in roots}
    BY <2>3 DEF Trees
  <2>5. large = {Tree(f, r) : r \in {q \in roots : \E a, b \in Tree(f, q) : a # b}}
    BY <2>2
  <2>6. Sets!NonIdentity(Trees(f)) = {s \in Trees(f) : \E a, b \in s : a # b}
    BY DEF Sets!NonIdentity
  <2> HIDE DEF large, roots
  <2>7. ASSUME NEW s PROVE s \in large <=> s \in Sets!NonIdentity(Trees(f))
    BY <2>4, <2>5, <2>6
  <2> QED BY <2>7
<1>5. large \in SUBSET SUBSET GlyphId
  BY DEF Tree
<1>6. h = [c EXCEPT !.rep_to_set = sets, !.non_identity_groups = large, !.cache_valid = TRUE]
  BY DEF Rebuilt
<1> HIDE DEF h, c, sets, large
<1>7. /\ h \in Forest /\ h.parent = c.parent /\ h.rank = c.rank
      /\ h.rep_to_set = sets /\ h.non_identity_groups = large /\ h.cache_valid = TRUE
  BY <1>1, <1>3, <1>5, <1>6 DEF Forest
<1>8. h \in Forests /\ SameForest(h, c)
  BY <1>1, <1>7, SameParents
<1>9. SameForest(h, f)
  BY <1>1, <1>8 DEF SameForest
<1>10. CacheOK(h)
  <2>1. {Root(h, g) : g \in GlyphId} = roots /\ (\A r : Tree(h, r) = Tree(f, r))
        /\ Trees(h) = Trees(f)
    BY <1>9 DEF SameForest
  <2>2. sets = [r \in {Root(h, g) : g \in GlyphId} |-> Tree(h, r)]
    BY <2>1 DEF sets
  <2> QED BY <1>4, <1>7, <2>1, <2>2 DEF CacheOK
<1> QED BY <1>7, <1>8, <1>9, <1>10 DEF h

LEMMA CachedIsForest == ASSUME NEW f \in Forests PROVE Cached(f) \in Forests
  BY RebuiltIsCache DEF Cached

LEMMA CachedHasSets ==
    ASSUME NEW f \in Forests, CacheOK(f)
    PROVE  /\ Cached(f) \in Forests /\ SameForest(Cached(f), f) /\ CacheOK(Cached(f))
           /\ Cached(f).cache_valid
           /\ Cached(f).rep_to_set = [r \in {Root(f, g) : g \in GlyphId} |-> Tree(f, r)]
           /\ Cached(f).non_identity_groups = Sets!NonIdentity(Trees(f))
<1> DEFINE h == Cached(f)
<1>1. h \in Forests /\ SameForest(h, f) /\ CacheOK(h) /\ h.cache_valid
  <2>1. CASE f.cache_valid
    <3>1. h = f
      BY <2>1 DEF Cached
    <3> HIDE DEF h
    <3> QED BY <2>1, <3>1 DEF SameForest
  <2>2. CASE ~f.cache_valid
    <3>1. h = Rebuilt(f)
      BY <2>2 DEF Cached
    <3> HIDE DEF h
    <3> QED BY <3>1, RebuiltIsCache
  <2> QED BY <2>1, <2>2
<1> HIDE DEF h
<1>2. /\ h.rep_to_set = [r \in {Root(h, g) : g \in GlyphId} |-> Tree(h, r)]
      /\ h.non_identity_groups = Sets!NonIdentity(Trees(h))
  BY <1>1 DEF CacheOK
<1>3. {Root(h, g) : g \in GlyphId} = {Root(f, g) : g \in GlyphId}
      /\ (\A r : Tree(h, r) = Tree(f, r)) /\ Trees(h) = Trees(f)
  BY <1>1 DEF SameForest
<1>4. h.rep_to_set = [r \in {Root(f, g) : g \in GlyphId} |-> Tree(f, r)]
  BY <1>2, <1>3
<1> QED BY <1>1, <1>2, <1>3, <1>4 DEF h

(***************************************************************************)
(* The abstract operations are joins, too.                                 *)
(***************************************************************************)
LEMMA MergedJoins ==
    ASSUME NEW P \in Partitions, NEW gs \in SUBSET GlyphId
    PROVE  Joins(Sets!Merged(P, gs), P, {gs})
<1> DEFINE met == {s \in P : s \cap gs # {}}
           R == Sets!Merged(P, gs)
<1>1. R = (P \ met) \cup (IF met = {} THEN {} ELSE {UNION met})
  BY DEF Sets!Merged
<1>2. /\ P \in SUBSET SUBSET GlyphId
      /\ \A t \in P : t # {}
      /\ \A s, t \in P : s \cap t # {} => s = t
      /\ \A g \in GlyphId : \E t \in P : g \in t
  BY SetsOfPartition
<1> HIDE DEF R
<1>3. \A s \in P : \E r \in R : s \subseteq r
  <2>1. ASSUME NEW s \in P PROVE \E r \in R : s \subseteq r
    <3>1. CASE s \in met
      <4>1. UNION met \in R /\ s \subseteq UNION met
        BY <1>1, <3>1
      <4> HIDE DEF met
      <4> QED BY <4>1
    <3>2. CASE s \notin met
      <4>1. s \in R
        BY <1>1, <3>2
      <4> QED BY <4>1
    <3> QED BY <3>1, <3>2
  <2> QED BY <2>1
<1>4. ASSUME NEW r \in R
      PROVE  \/ r \in P /\ r \cap gs = {}
             \/ r = UNION met /\ met # {}
  BY <1>1
<1>5. R \in Partitions
  <2>1. ASSUME NEW r \in R PROVE r \in SUBSET GlyphId /\ r # {}
    BY <1>2, <1>4
  <2>2. \A g \in GlyphId : \E r \in R : g \in r
    BY <1>2, <1>3
  <2>3. ASSUME NEW r \in R, r \in P, r \cap gs = {} PROVE r \cap UNION met = {}
    <3> SUFFICES ASSUME NEW g \in r, NEW s \in met, g \in s PROVE FALSE
      OBVIOUS
    <3>1. r = s
      BY <1>2, <2>3
    <3> QED BY <2>3, <3>1
  <2>4. ASSUME NEW r \in R, NEW s \in R, r \cap s # {} PROVE r = s
    <3>1. CASE r \in P /\ s \in P
      BY <1>2, <2>4, <3>1
    <3>2. CASE ~(r \in P /\ s \in P)
      <4>1. (r \in P /\ r \cap gs = {}) \/ r = UNION met
        BY <1>4
      <4>2. (s \in P /\ s \cap gs = {}) \/ s = UNION met
        BY <1>4
      <4> HIDE DEF met
      <4> QED BY <2>3, <2>4, <3>2, <4>1, <4>2
    <3> QED BY <3>1, <3>2
  <2> QED BY <2>1, <2>2, <2>4 DEF Partitions, IsPartition
<1>6. \E r \in R : gs \subseteq r
  <2>1. CASE met = {}
    <3>1. gs = {}
      BY <1>2, <2>1
    <3>2. \E r \in R : TRUE
      BY <1>2, <1>3, GlyphsAreCounted
    <3> QED BY <3>1, <3>2
  <2>2. CASE met # {}
    <3>1. UNION met \in R
      BY <1>1, <2>2
    <3>2. gs \subseteq UNION met
      BY <1>2
    <3> HIDE DEF met
    <3> QED BY <3>1, <3>2
  <2> QED BY <2>1, <2>2
<1>7. ASSUME NEW T \in Partitions, \A r \in R : Together(T, r), NEW s \in P \cup {gs}
      PROVE  Together(T, s)
  <2>1. PICK r \in R : s \subseteq r
    BY <1>3, <1>6
  <2>2. PICK t \in T : r \subseteq t
    BY <1>7 DEF Together
  <2> QED BY <2>1, <2>2 DEF Together
<1>8. ASSUME NEW T \in Partitions, \A s \in P \cup {gs} : Together(T, s), NEW r \in R
      PROVE  Together(T, r)
  <2>1. CASE r \in P
    BY <1>8, <2>1
  <2>2. CASE r = UNION met
    <3>1. PICK t \in T : gs \subseteq t
      BY <1>8 DEF Together
    <3>2. ASSUME NEW s \in met PROVE s \subseteq t
      <4>1. PICK u \in T : s \subseteq u
        BY <1>8 DEF Together
      <4>2. u \cap t # {}
        BY <3>1, <4>1
      <4>3. u = t
        BY <4>2, SetsOfPartition
      <4> QED BY <4>1, <4>3
    <3>3. UNION met \subseteq t
      BY <3>2
    <3> QED BY <2>2, <3>3 DEF Together
  <2> QED BY <1>4, <2>1, <2>2
<1> QED BY <1>5, <1>7, <1>8 DEF Joins, R

LEMMA JoinNothing == ASSUME NEW P \in Partitions PROVE Joins(P, P, {})
  BY DEF Joins

LEMMA JoinMore ==
    ASSUME NEW P, NEW R, NEW S, NEW Q, NEW q, Joins(R, P, Q), Joins(S, R, {q})
    PROVE  Joins(S, P, Q \cup {q})
<1>1. S \in Partitions
  BY DEF Joins
<1>2. ASSUME NEW T \in Partitions
      PROVE  (\A r \in S : Together(T, r)) <=> \A s \in P \cup (Q \cup {q}) : Together(T, s)
  <2>1. (\A r \in S : Together(T, r)) <=> \A s \in R \cup {q} : Together(T, s)
    BY DEF Joins
  <2>2. (\A r \in R : Together(T, r)) <=> \A s \in P \cup Q : Together(T, s)
    BY DEF Joins
  <2> QED BY <2>1, <2>2
<1> QED BY <1>1, <1>2 DEF Joins

MergedAll(P, Q) == Sets!FoldSet(LAMBDA gs, sets : Sets!Merged(sets, gs), P, Q)

LEMMA MergedAllJoins ==
    ASSUME NEW P \in Partitions, NEW Q \in SUBSET SUBSET GlyphId
    PROVE  Joins(MergedAll(P, Q), P, Q)
<1> DEFINE pick == [T \in (SUBSET Q) \ {{}} |-> CHOOSE e \in T : TRUE]
           step == [p \in Partitions \X (SUBSET Q) |->
                       IF p[2] = {} THEN p[1] ELSE Sets!Merged(p[1], pick[p[2]])]
           IsFold(f) == f = [T \in SUBSET Q |->
                               IF T = {} THEN P
                               ELSE Sets!Merged(f[T \ {CHOOSE e \in T : TRUE}],
                                                CHOOSE e \in T : TRUE)]
           iter == CHOOSE f : IsFold(f)
<1>1. MergedAll(P, Q) = iter[Q]
  BY DEF MergedAll, Sets!FoldSet, Sets!MapThenFoldSet
<1>0. IsFiniteSet(Q)
  <2>1. IsFiniteSet(SUBSET GlyphId)
    BY GlyphsAreCounted, FS_SUBSET
  <2> QED BY <2>1, FS_Subset
<1>2. /\ pick \in [(SUBSET Q) \ {{}} -> Q]
      /\ \A T \in (SUBSET Q) \ {{}} : pick[T] \in T
  OBVIOUS
<1>3. step \in [Partitions \X (SUBSET Q) -> Partitions]
  <2> SUFFICES ASSUME NEW p \in Partitions \X (SUBSET Q) PROVE step[p] \in Partitions
    OBVIOUS
  <2>1. p[2] # {} => pick[p[2]] \in SUBSET GlyphId
    BY <1>2
  <2>2. p[2] # {} => Sets!Merged(p[1], pick[p[2]]) \in Partitions
    <3> HIDE DEF pick
    <3> QED BY <2>1, MergedJoins DEF Joins
  <2> HIDE DEF pick
  <2> QED BY <2>2
<1>4. PICK f \in [SUBSET Q -> Partitions] : IsSetRecursion(f, Q, P, pick, step)
  <2> HIDE DEF pick, step
  <2> QED BY <1>0, <1>2, <1>3, SetRecursionExists
<1>5. IsFold(f)
  <2>1. ASSUME NEW T \in SUBSET Q
        PROVE  f[T] = IF T = {} THEN P
                      ELSE Sets!Merged(f[T \ {CHOOSE e \in T : TRUE}], CHOOSE e \in T : TRUE)
    <3>1. f[T] = IF T = {} THEN P ELSE step[<<f[T \ {pick[T]}], T>>]
      BY <1>4 DEF IsSetRecursion
    <3>2. CASE T # {}
      <4>1. pick[T] = CHOOSE e \in T : TRUE
        BY <3>2
      <4>2. <<f[T \ {pick[T]}], T>> \in Partitions \X (SUBSET Q)
        <5>1. T \ {pick[T]} \in SUBSET Q
          OBVIOUS
        <5> HIDE DEF pick
        <5> QED BY <1>4, <5>1
      <4> HIDE DEF pick
      <4>3. step[<<f[T \ {pick[T]}], T>>] = Sets!Merged(f[T \ {pick[T]}], pick[T])
        BY <3>2, <4>2
      <4> QED BY <3>1, <3>2, <4>1, <4>3
    <3> QED BY <3>1, <3>2
  <2> QED BY <2>1
<1>6. IsFold(iter)
  <2> HIDE DEF IsFold
  <2> QED BY <1>5
<1> DEFINE good == [T \in SUBSET Q |-> {u \in Partitions : Joins(u, P, T)}]
<1> HIDE DEF iter
<1>7. iter[{}] \in good[{}]
  <2>1. iter[{}] = P
    BY <1>6
  <2> QED BY <2>1, JoinNothing
<1>8. ASSUME NEW T \in (SUBSET Q) \ {{}}
      PROVE  \E x \in T : iter[T \ {x}] \in good[T \ {x}] => iter[T] \in good[T]
  <2> DEFINE x == CHOOSE e \in T : TRUE
             u == iter[T \ {x}]
  <2>1. x \in T
    OBVIOUS
  <2>2. iter[T] = Sets!Merged(u, x)
    BY <1>6
  <2> HIDE DEF x
  <2>3. /\ T \in SUBSET Q /\ T \ {x} \in SUBSET Q /\ T = (T \ {x}) \cup {x}
        /\ x \in SUBSET GlyphId
    BY <2>1
  <2>4. ASSUME u \in good[T \ {x}] PROVE iter[T] \in good[T]
    <3> HIDE DEF u
    <3>1. u \in Partitions /\ Joins(u, P, T \ {x})
      BY <2>3, <2>4
    <3>2. Joins(Sets!Merged(u, x), u, {x})
      BY <2>3, <3>1, MergedJoins
    <3>3. Joins(Sets!Merged(u, x), P, (T \ {x}) \cup {x})
      BY <3>1, <3>2, JoinMore
    <3>4. Sets!Merged(u, x) \in Partitions
      BY <3>2 DEF Joins
    <3> QED BY <2>2, <2>3, <3>3, <3>4
  <2> QED BY <2>1, <2>4
<1>9. \A T \in SUBSET Q : iter[T] \in good[T]
  <2> HIDE DEF good
  <2> QED BY <1>0, <1>7, <1>8, RecursionKeeps
<1>10. Joins(iter[Q], P, Q)
  BY <1>9
<1> QED BY <1>1, <1>10

(***************************************************************************)
(* What the operations on a forest do to its sets.                         *)
(***************************************************************************)
LEMMA UnitesJoins ==
    ASSUME NEW f \in Forests, NEW h, NEW Q, Unites(h, f, Q)
    PROVE  Joins(Trees(h), Trees(f), Q)
<1>1. h \in Forests
  BY DEF Unites
<1>2. Trees(h) \in Partitions
  BY <1>1, TreesArePartition
<1>3. ASSUME NEW T \in Partitions
      PROVE  (\A r \in Trees(h) : Together(T, r)) <=> \A s \in Trees(f) \cup Q : Together(T, s)
  <2>1. (\A r \in Trees(h) : Together(T, r)) <=> Respects(T, h)
    BY <1>1, TreesArePartition
  <2>2. (\A r \in Trees(f) : Together(T, r)) <=> Respects(T, f)
    BY TreesArePartition
  <2>3. Respects(T, h) <=> Respects(T, f) /\ \A s \in Q : Together(T, s)
    BY DEF Unites
  <2> QED BY <2>1, <2>2, <2>3
<1> QED BY <1>2, <1>3 DEF Joins

LEMMA UnionSetIsMerged ==
    ASSUME NEW f \in Forests, NEW glyphs
    PROVE  /\ UnionSet(f, glyphs) \in Forests
           /\ CacheOK(f) => CacheOK(UnionSet(f, glyphs))
           /\ Trees(UnionSet(f, glyphs)) = Sets!Merged(Trees(f), glyphs \cap GlyphId)
<1> DEFINE h == UnionSet(f, glyphs)
           gs == glyphs \cap GlyphId
<1>1. Unites(h, f, {gs})
  BY UnionSetUnites
<1> HIDE DEF h
<1>2. Trees(f) \in Partitions /\ gs \in SUBSET GlyphId
  BY TreesArePartition
<1> HIDE DEF gs
<1>3. Trees(h) = Sets!Merged(Trees(f), gs)
  BY <1>1, <1>2, UnitesJoins, MergedJoins, JoinIsUnique
<1>4. h \in Forests /\ (CacheOK(f) => CacheOK(h))
  BY <1>1, CacheStays DEF Unites
<1> QED BY <1>3, <1>4 DEF h, gs

\* a set of one glyph adds nothing to a union
LEMMA SinglesAddNothing ==
    ASSUME NEW P, NEW Q \in Partitions, NEW R, Joins(R, P, Sets!NonIdentity(Q))
    PROVE  Joins(R, P, Q)
<1>1. R \in Partitions
  BY DEF Joins
<1>2. ASSUME NEW T \in Partitions, NEW s \in Q, s \notin Sets!NonIdentity(Q)
      PROVE  Together(T, s)
  <2>1. s \in SUBSET GlyphId /\ s # {}
    BY SetsOfPartition
  <2>2. \A g, h \in s : g = h
    BY <1>2 DEF Sets!NonIdentity
  <2>3. PICK g \in s : s = {g}
    BY <2>1, <2>2
  <2>4. PICK t \in T : g \in t
    BY <2>1, SetsOfPartition
  <2> QED BY <2>3, <2>4 DEF Together
<1>3. Sets!NonIdentity(Q) \subseteq Q
  BY DEF Sets!NonIdentity
<1>4. ASSUME NEW T \in Partitions
      PROVE  (\A r \in R : Together(T, r)) <=> \A s \in P \cup Q : Together(T, s)
  <2>1. (\A r \in R : Together(T, r)) <=> \A s \in P \cup Sets!NonIdentity(Q) : Together(T, s)
    BY DEF Joins
  <2> QED BY <1>2, <1>3, <2>1
<1> QED BY <1>1, <1>4 DEF Joins

LEMMA UnionAllIsMergedAll ==
    ASSUME NEW f \in Forests, NEW other \in Forests
    PROVE  LET h == UnionAll(f, Sets!NonIdentity(Trees(other)))
           IN  /\ CacheOK(f) => CacheOK(h)
               /\ Trees(h) = MergedAll(Trees(f), Trees(other))
<1> DEFINE Q == Trees(other)
           h == UnionAll(f, Sets!NonIdentity(Q))
<1>1. Q \in Partitions /\ Trees(f) \in Partitions
  BY TreesArePartition
<1> HIDE DEF Q
<1>2. AreDisjoint(Sets!NonIdentity(Q))
  <2>1. Sets!NonIdentity(Q) \subseteq Q
    BY DEF Sets!NonIdentity
  <2> QED BY <1>1, <2>1, SetsOfPartition DEF AreDisjoint
<1>3. Unites(h, f, Sets!NonIdentity(Q))
  BY <1>2, UnionAllUnites
<1> HIDE DEF h
<1>4. Joins(Trees(h), Trees(f), Q)
  BY <1>1, <1>3, UnitesJoins, SinglesAddNothing
<1>5. Joins(MergedAll(Trees(f), Q), Trees(f), Q)
  <2>1. Q \in SUBSET SUBSET GlyphId
    BY <1>1, SetsOfPartition
  <2> QED BY <1>1, <2>1, MergedAllJoins
<1>6. Trees(h) = MergedAll(Trees(f), Q)
  BY <1>4, <1>5, JoinIsUnique
<1>7. CacheOK(f) => CacheOK(h)
  BY <1>3, CacheStays DEF Unites
<1> QED BY <1>6, <1>7 DEF h, Q

LEMMA CompressedKeeps ==
    ASSUME NEW f \in Forests, NEW glyph \in GlyphId
    PROVE  /\ Compressed(f, glyph) \in Forests
           /\ CacheOK(f) => CacheOK(Compressed(f, glyph))
           /\ SameForest(Compressed(f, glyph), f)
<1> DEFINE h == Compressed(f, glyph)
<1>1. h \in Forests /\ SameForest(h, f) /\ h.cache_valid = f.cache_valid /\ SameCache(h, f)
  BY FindKeepsSets DEF SameCache
<1> HIDE DEF h
<1>2. CacheOK(f) => CacheOK(h)
  BY <1>1, CacheStays
<1> QED BY <1>1, <1>2 DEF h

\* what GlyphsFor leaves and returns
LEMMA LookedUp ==
    ASSUME NEW f \in Forests, NEW glyph \in GlyphId, CacheOK(f), f.cache_valid
    PROVE  /\ Root(f, glyph) \in DOMAIN f.rep_to_set
           /\ f.rep_to_set[Root(f, glyph)] = Tree(f, Root(f, glyph))
           /\ {Tree(f, Root(f, glyph))} = {s \in Trees(f) : glyph \in s}
           /\ [Compressed(f, glyph) EXCEPT !.rep_to_set = f.rep_to_set] = Compressed(f, glyph)
<1>1. f.rep_to_set = [r \in {Root(f, g) : g \in GlyphId} |-> Tree(f, r)]
  BY DEF CacheOK
<1>2. Root(f, glyph) \in {Root(f, g) : g \in GlyphId}
  OBVIOUS
<1>3. {Tree(f, Root(f, glyph))} = {s \in Trees(f) : glyph \in s}
  BY TreesArePartition
<1>4. Compressed(f, glyph).rep_to_set = f.rep_to_set /\ Compressed(f, glyph) \in Forest
  BY FindKeepsSets DEF Forests
<1>5. ASSUME NEW h \in Forest, h.rep_to_set = f.rep_to_set
      PROVE  [h EXCEPT !.rep_to_set = f.rep_to_set] = h
  BY <1>5 DEF Forest
<1>6. [Compressed(f, glyph) EXCEPT !.rep_to_set = f.rep_to_set] = Compressed(f, glyph)
  BY <1>4, <1>5
<1> QED BY <1>1, <1>2, <1>3, <1>6

(***************************************************************************)
(* The invariant: the instances are forests, and the caches of those that  *)
(* are not assigned to hold their sets.                                    *)
(***************************************************************************)
ForestsOK == partition \in [Instance -> Forests]
CachesOK == \A p \in Instance \ Assigned : CacheOK(partition[p])
Groups == [p \in Instance |-> Trees(partition[p])]

LEMMA OneChanges ==
    ASSUME ForestsOK, NEW p \in Instance, NEW f,
           partition' = [partition EXCEPT ![p] = f]
    PROVE  /\ f \in Forests => ForestsOK'
           /\ CachesOK /\ (p \notin Assigned => CacheOK(f)) => CachesOK'
           /\ Groups' = [Groups EXCEPT ![p] = Trees(f)]
<1>1. \A q \in Instance : partition'[q] = IF q = p THEN f ELSE partition[q]
  BY DEF ForestsOK
<1>2. f \in Forests => ForestsOK'
  BY DEF ForestsOK
<1>3. ASSUME CachesOK, p \notin Assigned => CacheOK(f) PROVE CachesOK'
  <2>1. \A q \in Instance \ Assigned : CacheOK(partition'[q])
    BY <1>1, <1>3 DEF CachesOK
  <2> QED BY <2>1 DEF CachesOK
<1>4. Groups' = [q \in Instance |-> Trees(partition'[q])]
  BY DEF Groups
<1>5. Groups' = [Groups EXCEPT ![p] = Trees(f)]
  <2>1. [Groups EXCEPT ![p] = Trees(f)] =
           [q \in Instance |-> IF q = p THEN Trees(f) ELSE Trees(partition[q])]
    BY DEF Groups
  <2>2. \A q \in Instance : Trees(partition'[q]) = IF q = p THEN Trees(f) ELSE Trees(partition[q])
    BY <1>1
  <2> QED BY <1>4, <2>1, <2>2
<1> QED BY <1>2, <1>3, <1>5

LEMMA SameSets ==
    ASSUME ForestsOK, NEW p \in Instance, NEW f, SameForest(f, partition[p]),
           partition' = [partition EXCEPT ![p] = f]
    PROVE  Groups' = Groups
<1>1. Groups' = [Groups EXCEPT ![p] = Trees(f)]
  BY OneChanges
<1>2. Trees(f) = Trees(partition[p])
  BY DEF SameForest
<1> QED BY <1>1, <1>2 DEF Groups

(***************************************************************************)
(* Step by step.                                                           *)
(***************************************************************************)
LEMMA UnionGlyphsStep ==
    ASSUME ForestsOK, NEW p \in Instance, NEW glyphs, UnionGlyphs(p, glyphs)
    PROVE  ForestsOK' /\ (CachesOK => CachesOK') /\ Sets!Union(p, glyphs \cap GlyphId)
<1> DEFINE f == partition[p]
           h == UnionSet(f, glyphs)
<1>1. f \in Forests /\ partition' = [partition EXCEPT ![p] = h] /\ answer' = {}
  BY DEF ForestsOK, UnionGlyphs
<1> HIDE DEF f
<1>2. /\ h \in Forests /\ (CacheOK(f) => CacheOK(h))
      /\ Trees(h) = Sets!Merged(Trees(f), glyphs \cap GlyphId)
  BY <1>1, UnionSetIsMerged
<1>3. CachesOK /\ p \notin Assigned => CacheOK(f)
  BY DEF CachesOK, f
<1> HIDE DEF h
<1>4. ForestsOK' /\ (CachesOK => CachesOK') /\ Groups' = [Groups EXCEPT ![p] = Trees(h)]
  BY <1>1, <1>2, <1>3, OneChanges
<1>5. Groups[p] = Trees(f)
  BY DEF Groups, f
<1>6. Groups' = [Groups EXCEPT ![p] = Sets!Merged(@, glyphs \cap GlyphId)]
  BY <1>2, <1>4, <1>5
<1>7. Sets!Union(p, glyphs \cap GlyphId)
  BY <1>1, <1>6 DEF Sets!Union, Sets!NoAnswer, Groups
<1> QED BY <1>4, <1>7

LEMMA FindStep ==
    ASSUME ForestsOK, NEW p \in Instance, NEW glyph \in GlyphId, Find(p, glyph)
    PROVE  ForestsOK' /\ (CachesOK => CachesOK') /\ Sets!Union(p, {})
<1> DEFINE f == partition[p]
           h == Compressed(f, glyph)
<1>1. f \in Forests /\ partition' = [partition EXCEPT ![p] = h] /\ answer' = {}
  BY DEF ForestsOK, Find
<1> HIDE DEF f
<1>2. h \in Forests /\ (CacheOK(f) => CacheOK(h)) /\ SameForest(h, f)
  BY <1>1, CompressedKeeps
<1>3. CachesOK /\ p \notin Assigned => CacheOK(f)
  BY DEF CachesOK, f
<1> HIDE DEF h
<1>4. ForestsOK' /\ (CachesOK => CachesOK') /\ Groups' = Groups
  BY <1>1, <1>2, <1>3, OneChanges, SameSets DEF f
<1>5. Sets!Merged(Groups[p], {}) = Groups[p]
  BY DEF Sets!Merged
<1>6. Groups' = [Groups EXCEPT ![p] = Sets!Merged(@, {})]
  BY <1>4, <1>5 DEF Groups
<1>7. Sets!Union(p, {})
  BY <1>1, <1>6 DEF Sets!Union, Sets!NoAnswer, Groups
<1> QED BY <1>4, <1>7

LEMMA UnionWithStep ==
    ASSUME ForestsOK, NEW p \in Instance, NEW q \in Instance, UnionWith(p, q)
    PROVE  /\ ForestsOK'
           /\ CachesOK /\ q \notin Assigned => CachesOK' /\ Sets!UnionWith(p, q)
<1> DEFINE f == partition[p]
           g == partition[q]
           other == Cached(g)
           h == UnionAll(f, other.non_identity_groups)
           between == [partition EXCEPT ![q] = other]
<1>1. /\ p # q /\ f \in Forests /\ g \in Forests /\ answer' = {}
      /\ partition' = [partition EXCEPT ![q] = other, ![p] = h]
  BY DEF ForestsOK, UnionWith
<1>2. \A r \in Instance : partition'[r] = IF r = p THEN h ELSE IF r = q THEN other ELSE partition[r]
  BY <1>1 DEF ForestsOK
<1>3. other \in Forests /\ h \in Forests
  BY <1>1, CachedIsForest, UnionAllIsForest
<1> HIDE DEF f, g, other, h
<1>4. ForestsOK'
  BY <1>1, <1>3 DEF ForestsOK
<1>5. ASSUME CachesOK, q \notin Assigned PROVE CachesOK' /\ Sets!UnionWith(p, q)
  <2>1. CacheOK(g) /\ (p \notin Assigned => CacheOK(f))
    BY <1>5 DEF CachesOK, f, g
  <2>2. /\ SameForest(other, g) /\ CacheOK(other)
        /\ other.non_identity_groups = Sets!NonIdentity(Trees(g))
    BY <1>1, <2>1, CachedHasSets DEF other
  <2>3. (CacheOK(f) => CacheOK(h)) /\ Trees(h) = MergedAll(Trees(f), Trees(g))
    BY <1>1, <2>2, UnionAllIsMergedAll DEF h
  <2>4. CachesOK'
    <3>1. \A r \in Instance \ Assigned : CacheOK(partition'[r])
      BY <1>2, <1>5, <2>1, <2>2, <2>3 DEF CachesOK
    <3> QED BY <3>1 DEF CachesOK
  <2>5. Trees(other) = Trees(g)
    BY <2>2 DEF SameForest
  <2>6. \A r \in Instance : Trees(partition'[r]) = IF r = p THEN Trees(h) ELSE Trees(partition[r])
    BY <1>2, <2>5 DEF g
  <2>7. Groups' = [r \in Instance |-> Trees(partition'[r])]
    BY DEF Groups
  <2>8. Groups' = [Groups EXCEPT ![p] = MergedAll(Groups[p], Groups[q])]
    <3>1. Groups[p] = Trees(f) /\ Groups[q] = Trees(g)
      BY DEF Groups, f, g
    <3> QED BY <2>3, <2>6, <2>7, <3>1 DEF Groups
  <2>9. Sets!UnionWith(p, q)
    BY <1>1, <2>8 DEF Sets!UnionWith, Sets!NoAnswer, Groups, MergedAll
  <2> QED BY <2>4, <2>9
<1> QED BY <1>4, <1>5

LEMMA GlyphsForStep ==
    ASSUME ForestsOK, NEW p \in Instance, NEW glyph \in GlyphId, GlyphsFor(p, glyph)
    PROVE  /\ ForestsOK'
           /\ CachesOK /\ p \notin Assigned => CachesOK' /\ Sets!GlyphsFor(p, glyph)
<1> DEFINE f == Cached(partition[p])
           rep == Root(f, glyph)
           sets == IF rep \in DOMAIN f.rep_to_set THEN f.rep_to_set
                   ELSE [r \in DOMAIN f.rep_to_set \cup {rep} |->
                            IF r = rep THEN {} ELSE f.rep_to_set[r]]
           c == Compressed(f, glyph)
           h == [c EXCEPT !.rep_to_set = sets]
<1>1. /\ f \in Forests /\ partition[p] \in Forests
      /\ partition' = [partition EXCEPT ![p] = h] /\ answer' = {sets[rep]}
  BY CachedIsForest DEF ForestsOK, GlyphsFor
<1> HIDE DEF f
<1>2. c \in Forests /\ c \in Forest
  BY <1>1, FindKeepsSets DEF Forests
<1>3. sets \in CacheOfSets
  <2>1. f.rep_to_set \in CacheOfSets /\ rep \in GlyphId
    BY <1>1, RootOfTree DEF Forests, Forest
  <2>2. PICK D \in SUBSET GlyphId : f.rep_to_set \in [D -> SUBSET GlyphId]
    BY <2>1 DEF CacheOfSets
  <2> HIDE DEF rep
  <2>3. CASE rep \in D
    BY <2>1, <2>2, <2>3
  <2>4. CASE rep \notin D
    <3>1. sets \in [D \cup {rep} -> SUBSET GlyphId]
      BY <2>2, <2>4
    <3>2. D \cup {rep} \in SUBSET GlyphId
      BY <2>1
    <3> HIDE DEF sets
    <3> QED BY <3>1, <3>2 DEF CacheOfSets
  <2> QED BY <2>3, <2>4
<1>4. h \in Forests
  <2> HIDE DEF sets, c
  <2>1. h \in Forest /\ h.parent = c.parent /\ h.rank = c.rank
    BY <1>2, <1>3 DEF Forest
  <2> HIDE DEF h
  <2> QED BY <1>2, <2>1, SameParents
<1>5. ForestsOK'
  <2> HIDE DEF h
  <2> QED BY <1>1, <1>4, OneChanges
<1>6. ASSUME CachesOK, p \notin Assigned PROVE CachesOK' /\ Sets!GlyphsFor(p, glyph)
  <2>1. CacheOK(partition[p])
    BY <1>6 DEF CachesOK
  <2>2. SameForest(f, partition[p]) /\ CacheOK(f) /\ f.cache_valid
    BY <1>1, <2>1, CachedHasSets DEF f
  <2>3. /\ rep \in DOMAIN f.rep_to_set /\ f.rep_to_set[rep] = Tree(f, rep)
        /\ {Tree(f, rep)} = {s \in Trees(f) : glyph \in s}
        /\ [c EXCEPT !.rep_to_set = f.rep_to_set] = c
    BY <1>1, <2>2, LookedUp
  <2> HIDE DEF rep, c
  <2>4. sets = f.rep_to_set /\ h = c /\ sets[rep] = Tree(f, rep)
    BY <2>3
  <2>5. CacheOK(c) /\ SameForest(c, f)
    BY <1>1, <2>2, CompressedKeeps DEF c
  <2>6. SameForest(c, partition[p])
    BY <2>2, <2>5 DEF SameForest
  <2> HIDE DEF h, sets
  <2>7. CachesOK' /\ Groups' = Groups
    BY <1>1, <1>6, <2>4, <2>5, <2>6, OneChanges, SameSets
  <2>8. Groups[p] = Trees(f)
    BY <2>2 DEF Groups, SameForest
  <2>9. answer' = {s \in Groups[p] : glyph \in s}
    BY <1>1, <2>3, <2>4, <2>8
  <2>10. Sets!GlyphsFor(p, glyph)
    BY <2>7, <2>9 DEF Sets!GlyphsFor, Groups
  <2> QED BY <2>7, <2>10
<1> QED BY <1>5, <1>6

LEMMA NonIdentityGroupsStep ==
    ASSUME ForestsOK, NEW p \in Instance, NonIdentityGroups(p)
    PROVE  /\ ForestsOK'
           /\ CachesOK /\ p \notin Assigned => CachesOK' /\ Sets!NonIdentityGroups(p)
<1> DEFINE f == partition[p]
           h == Cached(f)
<1>1. /\ f \in Forests /\ h \in Forests /\ partition' = [partition EXCEPT ![p] = h]
      /\ answer' = h.non_identity_groups
  BY CachedIsForest DEF ForestsOK, NonIdentityGroups
<1> HIDE DEF h
<1>2. ForestsOK'
  BY <1>1, OneChanges
<1>3. ASSUME CachesOK, p \notin Assigned PROVE CachesOK' /\ Sets!NonIdentityGroups(p)
  <2>1. CacheOK(f)
    BY <1>3 DEF CachesOK
  <2>2. /\ SameForest(h, f) /\ CacheOK(h)
        /\ h.non_identity_groups = Sets!NonIdentity(Trees(f))
    BY <1>1, <2>1, CachedHasSets DEF h
  <2>3. CachesOK' /\ Groups' = Groups
    BY <1>1, <1>3, <2>2, OneChanges, SameSets
  <2>4. Groups[p] = Trees(f)
    BY DEF Groups
  <2>5. answer' = Sets!NonIdentity(Groups[p])
    BY <1>1, <2>2, <2>4
  <2>6. Sets!NonIdentityGroups(p)
    BY <2>3, <2>5 DEF Sets!NonIdentityGroups, Groups
  <2> QED BY <2>3, <2>6
<1> QED BY <1>2, <1>3

LEMMA CopyStep ==
    ASSUME ForestsOK, NEW p \in Instance, NEW q \in Instance,
           Construct(p, q) \/ (Assign(p, q) /\ q \in Assigned)
    PROVE  ForestsOK' /\ (CachesOK => CachesOK') /\ Sets!Copy(p, q)
<1> DEFINE f == partition[p]
<1>1. f \in Forests /\ partition[q] \in Forests /\ answer' = {}
  BY DEF ForestsOK, Construct, Assign
<1>2. \E h \in Forests : /\ SameForest(h, f)
                         /\ q \notin Assigned => CacheOK(h)
                         /\ partition' = [partition EXCEPT ![q] = h]
  <2>1. CASE Construct(p, q)
    BY <1>1, <2>1, CopyHasNoCache DEF Construct
  <2>2. CASE Assign(p, q) /\ q \in Assigned
    <3>1. partition' = [partition EXCEPT ![q] = AssignedFrom(partition[q], f)]
      BY <2>2 DEF Assign
    <3> QED BY <1>1, <2>2, <3>1, AssignedHasForest
  <2> QED BY <2>1, <2>2
<1>3. PICK h \in Forests : /\ SameForest(h, f)
                           /\ q \notin Assigned => CacheOK(h)
                           /\ partition' = [partition EXCEPT ![q] = h]
  BY <1>2
<1> HIDE DEF f
<1>4. ForestsOK' /\ (CachesOK => CachesOK') /\ Groups' = [Groups EXCEPT ![q] = Trees(h)]
  BY <1>3, OneChanges
<1>5. Trees(h) = Groups[p]
  BY <1>3 DEF SameForest, Groups, f
<1>6. Groups' = [Groups EXCEPT ![q] = Groups[p]]
  BY <1>4, <1>5
<1>7. Sets!Copy(p, q)
  BY <1>1, <1>6 DEF Sets!Copy, Sets!NoAnswer, Groups
<1> QED BY <1>4, <1>7

(***************************************************************************)
(* A new partition has every glyph on its own.                             *)
(***************************************************************************)
LEMMA IdentityIsForest ==
    /\ Identity \in Forests /\ CacheOK(Identity)
    /\ Trees(Identity) = Sets!Identity
<1> DEFINE f == Identity
<1>1. NoCache \in CacheOfSets
  <2>1. NoCache \in [{} -> SUBSET GlyphId] /\ {} \in SUBSET GlyphId
    BY DEF NoCache
  <2> QED BY <2>1 DEF CacheOfSets
<1>2. /\ f \in Forest /\ f.cache_valid = FALSE
      /\ \A g \in GlyphId : f.parent[g] = g /\ f.rank[g] = 0
  BY <1>1, GlyphsAreCounted DEF Identity, Forest
<1> HIDE DEF f
<1>3. Ranked(f)
  BY <1>2 DEF Ranked
<1>4. \A g \in GlyphId : Root(f, g) = g
  BY <1>2, <1>3, RootOfTree
<1>5. Heavy(f)
  <2> SUFFICES ASSUME NEW g \in GlyphId PROVE 2 * f.rank[g] <= Cardinality(Tree(f, g))
    BY DEF Heavy
  <2>1. IsFiniteSet(Tree(f, g))
    <3>1. Tree(f, g) \subseteq GlyphId
      BY DEF Tree
    <3> QED BY <3>1, GlyphsAreCounted, FS_Subset
  <2>2. Cardinality(Tree(f, g)) \in Nat
    BY <2>1, FS_CardinalityType
  <2> QED BY <1>2, <2>2
<1>6. CacheOK(f)
  BY <1>2 DEF CacheOK
<1>7. Trees(f) = Sets!Identity
  <2>1. \A g \in GlyphId : Tree(f, g) = {g}
    BY <1>4 DEF Tree
  <2>2. {g \in GlyphId : f.parent[g] = g} = GlyphId
    BY <1>2
  <2>3. Trees(f) = {Tree(f, g) : g \in GlyphId}
    BY <2>2 DEF Trees
  <2> QED BY <2>1, <2>3 DEF Sets!Identity
<1> QED BY <1>2, <1>3, <1>5, <1>6, <1>7 DEF f, Forests

LEMMA PartitionStarts ==
    PartitionInit => ForestsOK /\ CachesOK /\ Sets!Init
<1> SUFFICES ASSUME PartitionInit PROVE ForestsOK /\ CachesOK /\ Sets!Init
  OBVIOUS
<1>1. partition = [p \in Instance |-> Identity] /\ answer = {}
  BY DEF PartitionInit
<1>2. ForestsOK /\ CachesOK
  BY <1>1, IdentityIsForest DEF ForestsOK, CachesOK
<1>3. Groups = [p \in Instance |-> Sets!Identity]
  BY <1>1, IdentityIsForest DEF Groups
<1>4. Sets!Init
  BY <1>1, <1>3 DEF Sets!Init, Sets!NoAnswer, Groups
<1> QED BY <1>2, <1>4

LEMMA PartitionStep ==
    ASSUME ForestsOK, PartitionNext
    PROVE  /\ ForestsOK'
           /\ CachesOK /\ Assigned \cap Read = {} => CachesOK' /\ Sets!Next
<1>0. Assigned \subseteq Instance /\ Read \subseteq Instance
  BY PartitionAssumption
<1>1. ASSUME NEW p \in Instance, NEW glyphs \in SUBSET (0 .. NumGlyphs), UnionGlyphs(p, glyphs)
      PROVE  ForestsOK' /\ (CachesOK => CachesOK' /\ Sets!Next)
  <2>1. ForestsOK' /\ (CachesOK => CachesOK') /\ Sets!Union(p, glyphs \cap GlyphId)
    BY <1>1, UnionGlyphsStep
  <2>2. glyphs \cap GlyphId \in SUBSET GlyphId
    OBVIOUS
  <2>3. Sets!Next
    BY <2>1, <2>2 DEF Sets!Next
  <2> QED BY <2>1, <2>3
<1>2. ASSUME NEW p \in Instance, NEW glyph \in GlyphId, Find(p, glyph)
      PROVE  ForestsOK' /\ (CachesOK => CachesOK' /\ Sets!Next)
  <2>1. ForestsOK' /\ (CachesOK => CachesOK') /\ Sets!Union(p, {})
    BY <1>2, FindStep
  <2>2. {} \in SUBSET GlyphId
    OBVIOUS
  <2>3. Sets!Next
    BY <2>1, <2>2 DEF Sets!Next
  <2> QED BY <2>1, <2>3
<1>3. ASSUME NEW p \in Read, NEW glyph \in GlyphId, GlyphsFor(p, glyph)
      PROVE  ForestsOK' /\ (CachesOK /\ p \notin Assigned => CachesOK' /\ Sets!Next)
  <2>1. /\ ForestsOK'
        /\ CachesOK /\ p \notin Assigned => CachesOK' /\ Sets!GlyphsFor(p, glyph)
    BY <1>0, <1>3, GlyphsForStep
  <2>2. Sets!GlyphsFor(p, glyph) => Sets!Next
    BY <1>0 DEF Sets!Next
  <2> QED BY <2>1, <2>2
<1>4. ASSUME NEW p \in Read, NonIdentityGroups(p)
      PROVE  ForestsOK' /\ (CachesOK /\ p \notin Assigned => CachesOK' /\ Sets!Next)
  <2>1. /\ ForestsOK'
        /\ CachesOK /\ p \notin Assigned => CachesOK' /\ Sets!NonIdentityGroups(p)
    BY <1>0, <1>4, NonIdentityGroupsStep
  <2>2. Sets!NonIdentityGroups(p) => Sets!Next
    BY <1>0 DEF Sets!Next
  <2> QED BY <2>1, <2>2
<1>5. ASSUME NEW p \in Read, NEW q \in Instance, UnionWith(q, p)
      PROVE  ForestsOK' /\ (CachesOK /\ p \notin Assigned => CachesOK' /\ Sets!Next)
  <2>1. /\ ForestsOK'
        /\ CachesOK /\ p \notin Assigned => CachesOK' /\ Sets!UnionWith(q, p)
    BY <1>0, <1>5, UnionWithStep
  <2>2. Sets!UnionWith(q, p) => Sets!Next
    BY <1>0 DEF Sets!Next
  <2> QED BY <2>1, <2>2
<1>6. ASSUME NEW p \in Instance, NEW q \in Instance,
             Construct(p, q) \/ (Assign(p, q) /\ q \in Assigned)
      PROVE  ForestsOK' /\ (CachesOK => CachesOK' /\ Sets!Next)
  <2>1. ForestsOK' /\ (CachesOK => CachesOK') /\ Sets!Copy(p, q)
    BY <1>6, CopyStep
  <2>2. Sets!Next
    BY <2>1 DEF Sets!Next
  <2> QED BY <2>1, <2>2
<1> QED BY <1>0, <1>1, <1>2, <1>3, <1>4, <1>5, <1>6 DEF PartitionNext

LEMMA PartitionStutters ==
    ASSUME UNCHANGED partition_vars
    PROVE  /\ ForestsOK => ForestsOK'
           /\ CachesOK => CachesOK'
           /\ UNCHANGED Sets!vars
<1>1. partition' = partition /\ answer' = answer
  BY DEF partition_vars
<1>2. CachesOK => CachesOK'
  <2>1. CachesOK => \A p \in Instance \ Assigned : CacheOK(partition'[p])
    BY <1>1 DEF CachesOK
  <2> QED BY <2>1 DEF CachesOK
<1>3. UNCHANGED Sets!vars
  BY <1>1 DEF Sets!vars
<1> QED BY <1>1, <1>2, <1>3 DEF ForestsOK

(***************************************************************************)
(* Every instance of GlyphPartition is a forest after every sequence of    *)
(* calls: parents lead to a root along growing ranks (Find ends), and a    *)
(* rank is at most half the number of glyphs.                              *)
(***************************************************************************)
THEOREM PartitionForests == PartitionSpec => []ForestsOK
<1>1. PartitionInit => ForestsOK
  BY PartitionStarts
<1>2. ForestsOK /\ [PartitionNext]_partition_vars => ForestsOK'
  BY PartitionStep, PartitionStutters
<1> QED BY <1>1, <1>2, PTL DEF PartitionSpec

(***************************************************************************)
(* The fields of every instance have the types of glyph_partition.h after  *)
(* every sequence of calls.                                                *)
(***************************************************************************)
THEOREM PartitionTypeCorrect == PartitionSpec => []PartitionTypeOK
<1>1. ForestsOK => PartitionTypeOK
  <2> SUFFICES ASSUME ForestsOK, NEW p \in Instance
               PROVE  /\ partition[p].rank \in [GlyphId -> 0 .. NumGlyphs \div 2]
                      /\ partition[p].parent \in [GlyphId -> GlyphId]
                      /\ partition[p].cache_valid \in BOOLEAN
                      /\ DOMAIN partition[p].rep_to_set \subseteq GlyphId
                      /\ \A r \in DOMAIN partition[p].rep_to_set :
                            partition[p].rep_to_set[r] \subseteq GlyphId
                      /\ partition[p].non_identity_groups \subseteq SUBSET GlyphId
    BY DEF PartitionTypeOK
  <2>1. partition[p] \in Forest
    BY DEF ForestsOK, Forests
  <2> DEFINE f == partition[p]
  <2> HIDE DEF f
  <2>2. /\ f.rank \in [GlyphId -> 0 .. NumGlyphs \div 2] /\ f.parent \in [GlyphId -> GlyphId]
        /\ f.cache_valid \in BOOLEAN /\ f.rep_to_set \in CacheOfSets
        /\ f.non_identity_groups \in SUBSET SUBSET GlyphId
    BY <2>1 DEF Forest, f
  <2>3. PICK D \in SUBSET GlyphId : f.rep_to_set \in [D -> SUBSET GlyphId]
    BY <2>2 DEF CacheOfSets
  <2>4. DOMAIN f.rep_to_set \subseteq GlyphId
        /\ \A r \in DOMAIN f.rep_to_set : f.rep_to_set[r] \subseteq GlyphId
    BY <2>3
  <2> QED BY <2>2, <2>4 DEF f
<1> QED BY <1>1, PartitionForests, PTL

(***************************************************************************)
(* GlyphPartition implements Partition, if nobody asks for the sets of a   *)
(* partition that was assigned to: the link by rank, the compression of    *)
(* the paths, the order in which sets are united and the cache which is    *)
(* rebuilt late do not show.                                               *)
(***************************************************************************)
THEOREM PartitionImplementsSets ==
    ASSUME Assigned \cap Read = {}
    PROVE  PartitionSpec => ImplementsPartition
<1>1. PartitionInit => CachesOK /\ Sets!Init
  BY PartitionStarts
<1>2. ForestsOK /\ CachesOK /\ [PartitionNext]_partition_vars
         => CachesOK' /\ [Sets!Next]_Sets!vars
  BY PartitionStep, PartitionStutters
<1> QED BY <1>1, <1>2, PartitionForests, PTL DEF PartitionSpec, ImplementsPartition, Sets!Spec
=============================================================================
