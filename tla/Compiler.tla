------------------------------ MODULE Compiler ------------------------------
(***************************************************************************)
(* The compiler (ift/encoder/compiler.{h,cc}): from an initial subset and  *)
(* the subsets by which it can be extended to an initial font and patches. *)
(* The fonts that a client can have form a graph: each node is a subset    *)
(* definition, each edge adds one or more extension subsets, in one jump   *)
(* or several, and each jump is a table keyed patch.  Compile builds a     *)
(* node, calling itself for the nodes that its edges lead to.  When there  *)
(* is glyph data (mixed mode), the outlines come from glyph keyed patches, *)
(* one set of them for each design space.                                  *)
(*                                                                         *)
(* Compatibility ids and patch ids are numbered from 1; the random ids of  *)
(* the code are taken to differ.  A font is what its tables were made      *)
(* from, a patch the fonts it was made from.  That conditions become       *)
(* entries which select the same patches is EntryGraph's.                  *)
(***************************************************************************)
EXTENDS SubsetDefinition, Sequences, SequencesExt

CONSTANTS Input,              \* the configurations: see RequestOK
          DefaultFeatures,    \* AddInitSubsetDefaults
          AxisDefault         \* the default position of each axis of the font

\* glyph_conditions: when the glyph data patch of an id is needed; none of
\* them: no mixed mode.  sizes: the sizes that patches may turn out to have.
RequestOK(r) ==
    /\ r.init \in Definition
    /\ r.extensions \in Seq(Definition)
    /\ r.glyph_conditions \in [DOMAIN r.glyph_conditions -> Definition]
    /\ DOMAIN r.glyph_conditions \subseteq Nat \ {0}
    /\ r.jump_ahead \in Nat \ {0}
    /\ r.use_prefetch_lists \in BOOLEAN
    /\ r.sizes \subseteq Nat

ASSUME CompilerAssumption ==
    /\ \A r \in Input : RequestOK(r)
    /\ DefaultFeatures \subseteq Feature
    /\ AxisDefault \in [Axis -> Position]

VARIABLES request,
          context,            \* ProcessingContext
          stack,              \* the calls of Compile, the innermost one first
          status              \* start, compiling, done, failed (an error is
                              \* returned) or undefined
compiler_vars == <<request, context, stack, status>>

EmptyMap == [x \in {} |-> x]
Put(f, k, v) == [x \in DOMAIN f \cup {k} |-> IF x = k THEN v ELSE f[x]]

IsMixedMode == DOMAIN request.glyph_conditions # {}

InitSubset == UnionOf(request.init, [Nothing EXCEPT !.features = DefaultFeatures])

-----------------------------------------------------------------------------
(***************************************************************************)
(* Edges.  An edge is the sequence of what it adds, a jump a pair of       *)
(* definitions.                                                            *)
(* Mutations: a subset of which the node has a part is no longer offered;  *)
(* no edge is noticed to change the design space; a jump leads to what the *)
(* edge adds only.                                                         *)
(***************************************************************************)
\* every choice of that many elements of in, in the order of the elements
AddCombinations(in, choose) ==
    LET first(i) == <<in[i]>>
        from[c \in 1 .. choose] ==       \* of c elements, the first one at next or later
            LET fewer == from[c - 1]
            IN  [next \in 1 .. Len(in) + 1 |->
                    FlattenSeq([i \in 1 .. Len(in) + 1 - next |->
                        IF c = 1 THEN <<first(next + i - 1)>>
                        ELSE [k \in DOMAIN fewer[next + i] |->
                                 first(next + i - 1) \o fewer[next + i][k]]])]
    IN  from[choose][1]

RemainingUntouched(node) ==
    FlattenSeq([k \in DOMAIN request.extensions |->
        LET d == request.extensions[k]
        IN  IF d = Nothing \/ Intersects(node, d) THEN <<>> ELSE <<d>>])
Remaining(node) ==
    FlattenSeq([k \in DOMAIN request.extensions |->
        LET filtered == Subtract(request.extensions[k], node)
        IN  IF filtered = Nothing THEN <<>> ELSE <<filtered>>])

OutgoingEdges(node) ==
    FlattenSeq([choose \in 1 .. request.jump_ahead |->
                   AddCombinations(Remaining(node), choose)])

\* node with the first k of the subsets, for each k
Reached(node, subsets) ==
    LET reached[k \in 0 .. Len(subsets)] ==
            IF k = 0 THEN node ELSE UnionOf(reached[k - 1], subsets[k])
    IN  reached

Combined(edge) == Reached(Nothing, edge)[Len(edge)]

ChangesDesignSpace(edge, node) ==
    UnionOf(Combined(edge), node).design_space # node.design_space

\* one jump, or one for each subset that adds to the ones before
JumpsToAdded(edge, node) == <<<<node, Combined(edge)>>>>
Jumps(edge, node) ==
    LET next == UnionOf(node, Combined(edge))
        reached == IF request.use_prefetch_lists THEN Reached(node, edge)
                   ELSE [k \in 0 .. 1 |-> IF k = 0 THEN node ELSE next]
        steps == IF request.use_prefetch_lists THEN Len(edge) ELSE 1
    IN  FlattenSeq([k \in 1 .. steps |->
            IF reached[k] = reached[k - 1] THEN <<>>
            ELSE <<<<reached[k - 1], reached[k]>>>>])

\* all jumps of all edges: the loops over them in EstimateEdgeSizes, Compile
Calls(edges, node) ==
    FlattenSeq([e \in DOMAIN edges |->
        LET jumps == Jumps(edges[e], node)
        IN  [k \in DOMAIN jumps |->
                [edge |-> e, first |-> k = 1, jump |-> jumps[k]]]])

-----------------------------------------------------------------------------
(***************************************************************************)
(* Fonts.  What the tables of a font were made from: subset the tables     *)
(* without outlines, glyf and gvar the design spaces which the outlines of *)
(* each glyph data patch were cut for (gvar stands for CFF2, too), with    *)
(* Base for the glyphs which the node has by itself.  ift and iftx are the *)
(* table keyed and the glyph keyed patch map.                              *)
(***************************************************************************)
Base == 0
NoPatchSet == [url |-> 0, compat |-> 0]
NoMap == [compat |-> 0, entries |-> <<>>]
NoGlyphMap == [patch_set |-> NoPatchSet, applied |-> {}]

\* HarfBuzz keeps the default position of an axis inside the range it cuts
FullDesignSpace ==
    Reached(InitSubset, request.extensions)[Len(request.extensions)].design_space

DefaultPosition(space) ==
    [x \in Axis |->
        LET range == IF x \in DOMAIN space THEN space[x]
                     ELSE IF x \in DOMAIN FullDesignSpace THEN FullDesignSpace[x]
                     ELSE <<AxisDefault[x], AxisDefault[x]>>
        IN  IF AxisDefault[x] < range[1] THEN range[1]
            ELSE IF AxisDefault[x] > range[2] THEN range[2] ELSE AxisDefault[x]]

CutSubset(node) ==
    [subset |-> node, round_trip |-> FALSE,
     glyf |-> [g \in {Base} |-> DefaultPosition(node.design_space)],
     gvar |-> [g \in {Base} |-> node.design_space],
     ift |-> NoMap, iftx |-> NoGlyphMap]

\* CompileResult
Result(node, font, compat, patch_set) ==
    [node |-> node, font |-> font, compat |-> compat, patch_set |-> patch_set]

(***************************************************************************)
(* A call of Compile for a node.  What is kept of a call: its own result,  *)
(* the result which the next jump starts at (current), the jumps left, and *)
(* the sizes of the edges.                                                 *)
(***************************************************************************)
Frame(own, edges, phase) ==
    [own |-> own, edges |-> edges, phase |-> phase, current |-> own,
     left |-> Calls(edges, own.node), sizes |-> [e \in DOMAIN edges |-> 0]]

(***************************************************************************)
(* AllocatePatchSet and EnsureGlyphKeyedPatchesPopulated: the first node   *)
(* of a design space gets a patch for each id.                             *)
(* Mutation: the patches are cut from the font as it is.                   *)
(***************************************************************************)
GlyphPatchNotInstanced(compat, space) == [compat |-> compat, design_space |-> EmptyMap]
GlyphPatch(compat, space) == [compat |-> compat, design_space |-> space]

EnsureGlyphKeyedPatchesPopulated(c, space) ==
    LET set == [url |-> c.next_patch_set_id, compat |-> c.next_compat_id]
        new == {set.url} \X DOMAIN request.glyph_conditions
    IN  IF ~IsMixedMode \/ space \in DOMAIN c.patch_sets THEN c
        ELSE [c EXCEPT
                !.next_patch_set_id = @ + 1,
                !.next_compat_id = @ + 1,
                !.patch_sets = Put(@, space, set),
                !.glyph_patches = [url \in DOMAIN @ \cup new |->
                    IF url \in new THEN GlyphPatch(set.compat, space) ELSE @[url]]]

PatchSetOf(c, space) ==
    IF IsMixedMode THEN c.patch_sets[space] ELSE NoPatchSet

\* the beginning of Compile, for a node which is not in built_subsets_
CompileNode(node) ==
    LET compat == context.next_compat_id
        c == EnsureGlyphKeyedPatchesPopulated(
                 [context EXCEPT !.next_compat_id = @ + 1], node.design_space)
        edges == OutgoingEdges(node)
        font == CutSubset(node)
        leaf == Result(node, font, 0, NoPatchSet)
        own == Result(node, font, compat, PatchSetOf(c, node.design_space))
    IN  IF edges = <<>> /\ ~IsMixedMode
        THEN /\ context' = [c EXCEPT !.built_subsets = Put(@, node, leaf)]
             /\ UNCHANGED stack
        ELSE /\ context' = c
             /\ stack' = <<Frame(own, edges, "estimate")>> \o stack

-----------------------------------------------------------------------------
(***************************************************************************)
(* The public Compile, and the recursion.                                  *)
(***************************************************************************)
Init ==
    /\ request \in Input
    /\ context = [built_subsets |-> EmptyMap,
                  estimated_patch_sizes |-> EmptyMap,  \* by jump
                  table_keyed_patch_id |-> EmptyMap,   \* by jump
                  patches |-> EmptyMap,                \* table keyed, by id
                  glyph_patches |-> EmptyMap,          \* by URL: set and id
                  patch_sets |-> EmptyMap,             \* by design space
                  next_patch_set_id |-> 1, next_compat_id |-> 1]
    /\ stack = <<>>
    /\ status = "start"

Top == Head(stack)
Call == Head(Top.left)
Working(phase) == status = "compiling" /\ stack # <<>> /\ Top.phase = phase

(***************************************************************************)
(* The result that the jump of the call starts at, and the caller when the *)
(* jump is done.                                                           *)
(* Mutation: a jump whose patch is there already is passed over.           *)
(***************************************************************************)
Current == IF Call.first THEN Top.own ELSE Top.current

AdvancedUnlessBuilt(frame, next) ==
    IF /\ frame.phase = "patches"
       /\ context.table_keyed_patch_id[Call.jump] \in DOMAIN context.patches
    THEN [frame EXCEPT !.left = Tail(@)]
    ELSE [frame EXCEPT !.left = Tail(@), !.current = next]
Advanced(frame, next) == [frame EXCEPT !.left = Tail(@), !.current = next]

StartCompile ==
    /\ status = "start"
    /\ CompileNode(InitSubset)
    /\ status' = "compiling"
    /\ UNCHANGED request

\* the body of the two loops over the jumps, with "Base mismatch with the
\* current jump."
TakeJump(step) ==
    /\ status = "compiling" /\ stack # <<>> /\ Top.left # <<>>
    /\ IF Call.jump[1] # Current.node
       THEN status' = "failed" /\ UNCHANGED <<context, stack>>
       ELSE step /\ UNCHANGED status
    /\ UNCHANGED request

Target == Call.jump[2]
Built(node) == node \in DOMAIN context.built_subsets

\* the call of Compile for the end of the jump: here it is not built yet
CompileChild == TakeJump(~Built(Target) /\ CompileNode(Target))

\* and here it is
EstimateJump ==
    TakeJump(
    /\ Built(Target) /\ Top.phase = "estimate"
    /\ \E size \in IF Call.jump \in DOMAIN context.estimated_patch_sizes
                   THEN {context.estimated_patch_sizes[Call.jump]} ELSE request.sizes :
          /\ context' = [context EXCEPT !.estimated_patch_sizes = Put(@, Call.jump, size)]
          /\ stack' = <<[Advanced(Top, context.built_subsets[Target]) EXCEPT
                            !.sizes[Call.edge] = @ + size]>> \o Tail(stack))

-----------------------------------------------------------------------------
(***************************************************************************)
(* The patch map of a node: the edges, the smallest first (the sort is     *)
(* stable), become conditions with the patches of their jumps.             *)
(***************************************************************************)
SortedEdges ==
    LET smaller(e, f) == \/ Top.sizes[e] < Top.sizes[f]
                         \/ Top.sizes[e] = Top.sizes[f] /\ e < f
        place(e) == Cardinality({f \in DOMAIN Top.edges : smaller(f, e)}) + 1
    IN  [k \in DOMAIN Top.edges |->
            Top.edges[CHOOSE e \in DOMAIN Top.edges : place(e) = k]]

\* a new id for each jump that has none
\* Mutation: jumps with the same end share their patch.
PatchIdsByEnd(edges, node) ==
    LET calls == Calls(edges, node)
        ids[k \in 0 .. Len(calls)] ==
            IF k = 0 THEN context.table_keyed_patch_id
            ELSE LET before == ids[k - 1]
                     same == {j \in DOMAIN before : j[2] = calls[k].jump[2]}
                 IN  Put(before, calls[k].jump,
                         IF same # {} THEN before[CHOOSE j \in same : TRUE]
                         ELSE Cardinality(DOMAIN before) + 1)
    IN  ids[Len(calls)]

PatchIds(edges, node) ==
    LET calls == Calls(edges, node)
        ids[k \in 0 .. Len(calls)] ==
            IF k = 0 THEN context.table_keyed_patch_id
            ELSE LET before == ids[k - 1]
                 IN  IF calls[k].jump \in DOMAIN before THEN before
                     ELSE Put(before, calls[k].jump, Cardinality(DOMAIN before) + 1)
    IN  ids[Len(calls)]

Encoding(edge, node) ==
    IF IsMixedMode /\ ~ChangesDesignSpace(edge, node) THEN "PARTIAL" ELSE "FULL"

\* EdgesToActivationConditions
Conditions(edges, node) ==
    [e \in DOMAIN edges |->
        LET jumps == Jumps(edges[e], node)
        IN  [segments |-> ToSet(edges[e]),
             patches  |-> [k \in DOMAIN jumps |-> PatchIds(edges, node)[jumps[k]]],
             encoding |-> Encoding(edges[e], node)]]

(***************************************************************************)
(* PopulateTableKeyedPatchMap and AddToFont.  The first patch of an edge   *)
(* without a jump is read from an empty vector; the entry graph refuses    *)
(* two conditions with the same segments (Conflicting patch mappings).     *)
(***************************************************************************)
PopulateMaps ==
    LET own == Top.own
        conditions == Conditions(SortedEdges, own.node)
        font == [own.font EXCEPT
                    !.ift = [compat |-> own.compat, entries |-> conditions],
                    !.iftx = [patch_set |-> own.patch_set, applied |-> {}],
                    !.round_trip = Len(stack) = 1]
        result == [own EXCEPT !.font = font]
    IN  /\ Working("estimate") /\ Top.left = <<>>
        /\ IF \E e \in DOMAIN conditions : conditions[e].patches = <<>>
           THEN status' = "undefined" /\ UNCHANGED <<context, stack>>
           ELSE IF \E e, f \in DOMAIN conditions :
                       e # f /\ conditions[e].segments = conditions[f].segments
           THEN status' = "failed" /\ UNCHANGED <<context, stack>>
           ELSE /\ context' = [context EXCEPT
                       !.table_keyed_patch_id = PatchIds(SortedEdges, own.node),
                       !.built_subsets = Put(@, own.node, result)]
                /\ stack' = <<Frame(result, Top.edges, "patches")>> \o Tail(stack)
                /\ UNCHANGED status
        /\ UNCHANGED request

-----------------------------------------------------------------------------
(***************************************************************************)
(* The patch of a jump (GetDifferFor): in mixed mode it leaves the         *)
(* outlines alone, but replaces gvar and the glyph keyed map when the URL  *)
(* template of the latter changes.                                         *)
(* Mutation: it never replaces them.                                       *)
(***************************************************************************)
ModeOfNoReplacement(current, next) == IF IsMixedMode THEN "keep" ELSE "whole"
ModeOf(current, next) ==
    IF ~IsMixedMode THEN "whole"
    ELSE IF next.patch_set.url # current.patch_set.url THEN "replace" ELSE "keep"

PatchFrom(current, next) ==
    [compat |-> current.compat, base |-> current.font, result |-> next.font,
     mode |-> ModeOf(current, next)]

BuildPatch ==
    LET next == context.built_subsets[Target]
        id == context.table_keyed_patch_id[Call.jump]
    IN  TakeJump(
        /\ Built(Target) /\ Top.phase = "patches"
        /\ IF id \in DOMAIN context.patches THEN UNCHANGED context
           ELSE context' = [context EXCEPT
                               !.patches = Put(@, id, PatchFrom(Current, next))]
        /\ stack' = <<Advanced(Top, next)>> \o Tail(stack))

Return == /\ Working("patches") /\ Top.left = <<>>
          /\ stack' = Tail(stack)
          /\ UNCHANGED <<request, context, status>>

FinishCompile == /\ status = "compiling" /\ stack = <<>>
                 /\ status' = "done"
                 /\ UNCHANGED <<request, context, stack>>

InitFont == context.built_subsets[InitSubset].font

CompilerNext ==
    \/ StartCompile \/ CompileChild \/ EstimateJump \/ PopulateMaps
    \/ BuildPatch \/ Return \/ FinishCompile
=============================================================================
