----------------------------- MODULE Partition ------------------------------
(***************************************************************************)
(* What a GlyphPartition promises: disjoint sets of glyphs which only ever *)
(* grow together, copies which are independent of each other, and answers  *)
(* that are the sets of the moment (the comments of glyph_partition.h).    *)
(***************************************************************************)
EXTENDS FiniteSetsExt

CONSTANTS Glyph,              \* the glyph ids
          Instance            \* the partitions of the program

VARIABLES groups,             \* the disjoint sets of each partition
          answer              \* the set of sets that the last call returned
vars == <<groups, answer>>

Identity == {{g} : g \in Glyph}
NoAnswer == {}

Init == groups = [p \in Instance |-> Identity] /\ answer = NoAnswer

Merged(sets, gs) ==
    LET met == {s \in sets : s \cap gs # {}}
    IN  (sets \ met) \cup (IF met = {} THEN {} ELSE {UNION met})

NonIdentity(sets) == {s \in sets : \E g, h \in s : g # h}

Union(p, gs) == /\ groups' = [groups EXCEPT ![p] = Merged(@, gs)]
                /\ answer' = NoAnswer

(***************************************************************************)
(* Each set of q becomes part of one set of p.                             *)
(***************************************************************************)
UnionWith(p, q) ==
    /\ groups' = [groups EXCEPT ![p] =
                     FoldSet(LAMBDA gs, sets : Merged(sets, gs), @, groups[q])]
    /\ answer' = NoAnswer

Copy(p, q) == /\ groups' = [groups EXCEPT ![q] = groups[p]]
              /\ answer' = NoAnswer

GlyphsFor(p, g) == /\ answer' = {s \in groups[p] : g \in s}
                   /\ UNCHANGED groups

NonIdentityGroups(p) == /\ answer' = NonIdentity(groups[p])
                        /\ UNCHANGED groups

Next == \E p \in Instance :
           \/ \E gs \in SUBSET Glyph : Union(p, gs)
           \/ \E q \in Instance : UnionWith(p, q) \/ Copy(p, q)
           \/ \E g \in Glyph : GlyphsFor(p, g)
           \/ NonIdentityGroups(p)

Spec == Init /\ [][Next]_vars
=============================================================================
