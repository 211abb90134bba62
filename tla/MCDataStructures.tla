-------------------------- MODULE MCDataStructures --------------------------
(***************************************************************************)
(* The data structures which the components compute with, each under every *)
(* sequence of calls: a condition; the two containers in which             *)
(* GlyphGroupings keeps its results and which update derived data by hand, *)
(* the index of the conditions' glyphs and the partition of the combined   *)
(* patches; and a patch map with its encoding, sets of integers included.  *)
(* None touches another, so that a behaviour is about one of them.         *)
(***************************************************************************)
EXTENDS ConditionAlgebra, ConditionIndex, GlyphPartition, Format2PatchMap,
        MCComplexConditionFinder

CONSTANTS p1, p2

(***************************************************************************)
(* The operands are what the callers combine conditions with: the          *)
(* exclusive and disjunctive conditions of glyph_condition_set.h, the      *)
(* conjunctions, and one mixed condition of the dependency graph.  The     *)
(* index has conditions on either of two segments and on both, so that a   *)
(* segment has an entry for one, for two and for none.  Of the two         *)
(* partitions p1 plays the combined patches, whose sets are read; p2 is a  *)
(* copy that is only extended and searched.                                *)
(***************************************************************************)
MCOperand ==
    {ExclusiveSegment(s) : s \in Segment}
    \cup {OrSegments(ss) : ss \in SUBSET Segment \ {{}}}
    \cup {AndSegments(ss) : ss \in SUBSET Segment \ {{}}}
    \cup {CompositeCondition({{0, 1}, {1, 2}})}

\* what PartitionImplementsSets supposes
ASSUME AssignmentAssumption == Assigned \cap Read = {}

MCCond == {ExclusiveSegment(0), ExclusiveSegment(1), OrSegments({0, 1})}

-----------------------------------------------------------------------------
(***************************************************************************)
(* Tables of one entry with each of a family of sets of six bit numbers,   *)
(* with ends around the sizes of nodes, twigs and the whole range; and     *)
(* tables of two or three entries that differ in everything else.          *)
(***************************************************************************)
Plain(cps, indices) ==
    [features |-> {}, child_indices |-> {}, conjunctive |-> FALSE,
     patch_indices |-> indices, encoding |-> "GLYPH_KEYED", codepoints |-> cps,
     ignored |-> FALSE]

Ends == {0, 1, 3, 15, 16, 31, 47, 62, 63}

Interval == {a .. b : a \in Ends, b \in Ends} \ {{}}

MCSet ==
    Interval
      \cup {i \cup {63} : i \in Interval}
      \cup {(0 .. 63) \ {e} : e \in Ends}
      \cup {(0 .. 3) \cup (8 .. 11), (0 .. 15) \cup (32 .. 47), (16 .. 47) \ {20}}

OneEntry == {<<Plain(s, <<1>>)>> : s \in MCSet}

FirstEntry ==
    {Plain({0, 1}, <<1>>),
     [Plain({}, <<3>>) EXCEPT !.features = {"smcp"}, !.encoding = "TABLE_KEYED_FULL"],
     [Plain({7, 8}, <<4, 2>>) EXCEPT !.ignored = TRUE]}

SecondEntry ==
    {Plain({5, 20}, <<2>>),
     [Plain({}, <<2, 1, 3>>) EXCEPT !.child_indices = {0}],
     [Plain({}, <<4>>) EXCEPT !.child_indices = {0}, !.conjunctive = TRUE,
                              !.encoding = "TABLE_KEYED_PARTIAL"],
     [Plain({2}, <<1>>) EXCEPT !.child_indices = {1}],
     Plain({2}, <<>>),
     [Plain({1}, <<5>>) EXCEPT !.features = {"smcp"}, !.conjunctive = TRUE]}

ThirdEntry ==
    {[Plain({}, <<6, 2, 5>>) EXCEPT !.child_indices = {0, 1},
                                    !.encoding = "TABLE_KEYED_PARTIAL"],
     Plain({16, 17}, <<3, 8>>),
     Plain({1}, <<1, 9>>)}

MCPatchMapEntries ==
    OneEntry \cup (FirstEntry \X SecondEntry)
             \cup (FirstEntry \X SecondEntry \X ThirdEntry)

-----------------------------------------------------------------------------
VARIABLE kind

vars == <<kind, algebra_vars, index_vars, partition_vars, table_vars, finder_vars>>

(***************************************************************************)
(* The font to be searched and the table to be encoded are chosen when a   *)
(* behaviour is about them.                                                *)
(***************************************************************************)
NoSearch ==
    /\ analysis = [info |-> {}, conditions |-> <<>>, glyphs |-> {}, inscope |-> {}]
    /\ existing = {}
    /\ unscheduled = {}
    /\ queue = <<>>
    /\ glyph_to_conditions = <<>>
    /\ progress = "new"

NoTable == entries = <<Plain({0}, <<1>>)>>

Init == /\ \/ kind = "search" /\ FinderInit /\ NoTable
           \/ kind = "table" /\ NoSearch
           \/ kind \in {"condition", "index", "partition"} /\ NoTable /\ NoSearch
        /\ AlgebraInit
        /\ IndexInit
        /\ PartitionInit
        /\ TableInit

Search == /\ kind = "search" /\ FinderNext
          /\ UNCHANGED <<kind, algebra_vars, index_vars, partition_vars, table_vars>>

Next == \/ /\ kind = "condition" /\ AlgebraNext
           /\ UNCHANGED <<kind, index_vars, partition_vars, table_vars, finder_vars>>
        \/ /\ kind = "index" /\ IndexNext
           /\ UNCHANGED <<kind, algebra_vars, partition_vars, table_vars, finder_vars>>
        \/ /\ kind = "partition" /\ PartitionNext
           /\ UNCHANGED <<kind, algebra_vars, index_vars, table_vars, finder_vars>>
        \/ /\ kind = "table" /\ TableNext
           /\ UNCHANGED <<kind, algebra_vars, index_vars, partition_vars, finder_vars>>
        \/ Search

Spec == Init /\ [][Next]_vars /\ WF_vars(Search)
=============================================================================
