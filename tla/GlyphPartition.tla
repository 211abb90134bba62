--------------------------- MODULE GlyphPartition ---------------------------
(***************************************************************************)
(* GlyphPartition (ift/encoder/glyph_partition.{h,cc}): a union-find       *)
(* forest with ranks and path compression, and a cache of the sets which   *)
(* is rebuilt when it is read after a change.                              *)
(***************************************************************************)
EXTENDS Naturals, FiniteSets, FiniteSetsExt

CONSTANTS NumGlyphs,          \* the glyph ids are 0 .. NumGlyphs - 1
          Instance,           \* the partitions of the program
          Assigned,           \* those which are assigned to
          Read                \* those whose sets are asked for

ASSUME PartitionAssumption == /\ NumGlyphs \in Nat \ {0}
                              /\ Assigned \subseteq Instance
                              /\ Read \subseteq Instance

GlyphId == 0 .. NumGlyphs - 1

VARIABLES partition, answer
partition_vars == <<partition, answer>>

NoCache == [x \in {} |-> {}]
Identity == [rank                |-> [g \in GlyphId |-> 0],
             parent              |-> [g \in GlyphId |-> g],
             cache_valid         |-> FALSE,
             rep_to_set          |-> NoCache,
             non_identity_groups |-> {}]

PartitionTypeOK ==
    \A p \in Instance :
        /\ partition[p].rank \in [GlyphId -> 0 .. NumGlyphs \div 2]
        /\ partition[p].parent \in [GlyphId -> GlyphId]
        /\ partition[p].cache_valid \in BOOLEAN
        /\ DOMAIN partition[p].rep_to_set \subseteq GlyphId
        /\ \A r \in DOMAIN partition[p].rep_to_set :
              partition[p].rep_to_set[r] \subseteq GlyphId
        /\ partition[p].non_identity_groups \subseteq SUBSET GlyphId

PartitionInit == /\ partition = [p \in Instance |-> Identity]
                 /\ answer = {}

-----------------------------------------------------------------------------
Root(f, glyph) ==
    LET root[g \in GlyphId] == IF f.parent[g] = g THEN g ELSE root[f.parent[g]]
    IN  root[glyph]

Path(f, glyph) ==
    LET path[g \in GlyphId] ==
            IF f.parent[g] = g THEN {g} ELSE {g} \cup path[f.parent[g]]
    IN  path[glyph]

Tree(f, root) == {g \in GlyphId : Root(f, g) = root}
Trees(f) == {Tree(f, g) : g \in {h \in GlyphId : f.parent[h] = h}}

(***************************************************************************)
(* Find returns the root and makes it the parent of the glyphs on the way. *)
(***************************************************************************)
Compressed(f, glyph) ==
    [f EXCEPT !.parent =
        [g \in GlyphId |-> IF g \in Path(f, glyph) THEN Root(f, glyph) ELSE @[g]]]

CompressedAll(f) == [f EXCEPT !.parent = [g \in GlyphId |-> Root(f, g)]]

(***************************************************************************)
(* The tree of the smaller rank is put under the root of the other.        *)
(* Mutation: the cache stays valid.                                        *)
(***************************************************************************)
LinkKeepsCache(f, root1, root2) ==
    LET top == IF f.rank[root1] < f.rank[root2] THEN root2 ELSE root1
        low == IF f.rank[root1] < f.rank[root2] THEN root1 ELSE root2
    IN  [f EXCEPT !.parent[low] = top,
                  !.rank[top] = IF f.rank[root1] = f.rank[root2] THEN @ + 1 ELSE @]

Link(f, root1, root2) ==
    LET top == IF f.rank[root1] < f.rank[root2] THEN root2 ELSE root1
        low == IF f.rank[root1] < f.rank[root2] THEN root1 ELSE root2
    IN  [f EXCEPT !.parent[low] = top,
                  !.rank[top] = IF f.rank[root1] = f.rank[root2] THEN @ + 1 ELSE @,
                  !.cache_valid = FALSE]

UnionPair(f, glyph1, glyph2) ==
    LET found == Compressed(Compressed(f, glyph1), glyph2)
        root1 == Root(f, glyph1)
        root2 == Root(f, glyph2)
    IN  IF root1 = root2 THEN found ELSE Link(found, root1, root2)

(***************************************************************************)
(* The ids come in ascending order, so that an id out of bounds, which     *)
(* ends the call with an error, is met after the others were united.       *)
(***************************************************************************)
UnionSet(f, glyphs) ==
    LET valid == glyphs \cap GlyphId
        first == Min(valid)
        united[k \in 0 .. NumGlyphs] ==     \* with the ids below k
            IF k = 0 THEN f
            ELSE IF k - 1 \in valid \ {first} THEN UnionPair(united[k - 1], first, k - 1)
            ELSE united[k - 1]
    IN  IF valid = {} THEN f ELSE united[NumGlyphs]

\* disjoint sets, in the order of their smallest glyphs
UnionAll(f, sets) ==
    LET united[k \in 0 .. NumGlyphs] ==     \* the sets that start below k
            IF k = 0 THEN f
            ELSE LET starting == {s \in sets : Min(s) = k - 1}
                 IN  IF starting = {} THEN united[k - 1]
                     ELSE UnionSet(united[k - 1], CHOOSE s \in starting : TRUE)
    IN  united[NumGlyphs]

Rebuilt(f) ==
    LET sets == [r \in {Root(f, g) : g \in GlyphId} |-> Tree(f, r)]
    IN  [CompressedAll(f) EXCEPT
            !.rep_to_set = sets,
            !.non_identity_groups =
               {sets[r] : r \in {q \in DOMAIN sets : Cardinality(sets[q]) > 1}},
            !.cache_valid = TRUE]

Cached(f) == IF f.cache_valid THEN f ELSE Rebuilt(f)

(***************************************************************************)
(* Both kinds of copy take the forest only.  A constructed copy has no     *)
(* cache; an assignment leaves the target's cache as it was.               *)
(***************************************************************************)
CopyOf(f) == [f EXCEPT !.cache_valid = FALSE, !.rep_to_set = NoCache,
                       !.non_identity_groups = {}]

AssignedFrom(target, f) == [target EXCEPT !.rank = f.rank, !.parent = f.parent]

-----------------------------------------------------------------------------
UnionGlyphs(p, glyphs) ==
    /\ partition' = [partition EXCEPT ![p] = UnionSet(@, glyphs)]
    /\ answer' = {}

UnionWith(p, q) ==
    /\ p # q
    /\ LET other == Cached(partition[q])
       IN  partition' = [partition EXCEPT ![q] = other,
                                          ![p] = UnionAll(@, other.non_identity_groups)]
    /\ answer' = {}

Find(p, glyph) ==
    /\ partition' = [partition EXCEPT ![p] = Compressed(@, glyph)]
    /\ answer' = {}

GlyphsFor(p, glyph) ==
    LET f   == Cached(partition[p])
        rep == Root(f, glyph)
        sets == IF rep \in DOMAIN f.rep_to_set THEN f.rep_to_set
                ELSE [r \in DOMAIN f.rep_to_set \cup {rep} |->
                         IF r = rep THEN {} ELSE f.rep_to_set[r]]
    IN  /\ partition' = [partition EXCEPT
                            ![p] = [Compressed(f, glyph) EXCEPT !.rep_to_set = sets]]
        /\ answer' = {sets[rep]}

NonIdentityGroups(p) ==
    /\ partition' = [partition EXCEPT ![p] = Cached(@)]
    /\ answer' = Cached(partition[p]).non_identity_groups

Construct(p, q) ==
    /\ partition' = [partition EXCEPT ![q] = CopyOf(partition[p])]
    /\ answer' = {}

Assign(p, q) ==
    /\ partition' = [partition EXCEPT ![q] = AssignedFrom(@, partition[p])]
    /\ answer' = {}

PartitionNext ==
    \/ \E p \in Instance :
          \/ \E glyphs \in SUBSET (0 .. NumGlyphs) : UnionGlyphs(p, glyphs)
          \/ \E glyph \in GlyphId : Find(p, glyph)
    \/ \E p \in Read :
          \/ \E glyph \in GlyphId : GlyphsFor(p, glyph)
          \/ NonIdentityGroups(p)
          \/ \E q \in Instance : UnionWith(q, p)
    \/ \E p, q \in Instance : p # q /\ Construct(p, q)
    \/ \E p \in Instance, q \in Assigned : p # q /\ Assign(p, q)

PartitionSpec == PartitionInit /\ [][PartitionNext]_partition_vars

-----------------------------------------------------------------------------
(***************************************************************************)
(* The forest and its lazily rebuilt cache implement Partition: the sets   *)
(* change only by unions and copies, copies are independent, and what      *)
(* GlyphsFor and NonIdentityGroups return are the sets of the moment       *)
(* (glyph_partition.h, "Returns all members of the group the glyph         *)
(* belongs too" and "Returns all groups in this partition that have more   *)
(* than one member").                                                      *)
(***************************************************************************)
Sets == INSTANCE Partition WITH
    Glyph  <- GlyphId,
    groups <- [p \in Instance |-> Trees(partition[p])]
ImplementsPartition == Sets!Spec
=============================================================================
