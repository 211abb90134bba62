---------------------------- MODULE SparseBitSet ----------------------------
(***************************************************************************)
(* Sets of integers as trees (ift/common/sparse_bit_set.cc, with           *)
(* branch_factor.h, bit_input_buffer.cc and bit_output_buffer.cc).  A node *)
(* has one bit for each child with values below it, a leaf one for each    *)
(* value; a node whose values are all there is written as zero and has no  *)
(* children.  The nodes come layer by layer.                               *)
(*                                                                         *)
(* Values have Width bits (32), and the limits follow from it: at 32 a     *)
(* tree of two way nodes would be too deep for its header.  Node bits are  *)
(* sets of positions, and so are bytes; the header byte is a record.       *)
(***************************************************************************)
EXTENDS Integers, Sequences, FiniteSets
LOCAL INSTANCE SequencesExt

CONSTANT Width

ASSUME WidthAssumption == Width \in 3 .. 30

Largest == 2 ^ Width - 1
Narrow(n) == n % (Largest + 1)

BranchFactor == {"BF2", "BF4", "BF8", "BF32"}
kBFNodeSizeLog2 == [BF2 |-> 1, BF4 |-> 2, BF8 |-> 3, BF32 |-> 5]
kBFNodeSize(bf) == 2 ^ kBFNodeSizeLog2[bf]
kBFTwigSizeLog2(bf) == 2 * kBFNodeSizeLog2[bf]
kBFTwigSize(bf) == 2 ^ kBFTwigSizeLog2(bf)

Ceiling(a, b) == (a + b - 1) \div b
kBFMaxDepth(bf) == IF bf = "BF2" THEN Width - 1 ELSE Ceiling(Width, kBFNodeSizeLog2[bf])

ShiftRight(n, bits) == IF bits > Width THEN 0 ELSE n \div 2 ^ bits

TreeDepthFor(max, bf) ==
    CHOOSE d \in 1 .. Width :
        /\ ShiftRight(max, d * kBFNodeSizeLog2[bf]) = 0
        /\ d = 1 \/ ShiftRight(max, (d - 1) * kBFNodeSizeLog2[bf]) # 0

ValuesPerBitLog2ForLayer(layer, height, bf) ==
    kBFNodeSizeLog2[bf] * (height - layer - 1)

\* the members of a set below a limit, in order
Ascending(set, limit) ==
    SelectSeq([i \in 1 .. limit |-> i - 1], LAMBDA v : v \in set)

InOrder(set) == Ascending(set, Largest + 1)

-----------------------------------------------------------------------------
(***************************************************************************)
(* The twigs, the nodes right above leaves, that are filled: a count of    *)
(* successive values, looked at where a twig ends.  ChooseBranchFactor     *)
(* counts in its own way, on from twig to twig and from the second value.  *)
(* Its estimates of the sizes, which decide only which tree it takes, are  *)
(* left out.                                                               *)
(***************************************************************************)
EndsTwig(cp, bf) == (cp + 1) % kBFTwigSize(bf) = 0

Successive(cps, i) == i > 1 /\ cps[i] = cps[i - 1] + 1

FindFilledTwigs(cps, bf) ==
    LET length[i \in DOMAIN cps] ==
            IF Successive(cps, i) /\ ~EndsTwig(cps[i - 1], bf) THEN length[i - 1] + 1 ELSE 1
        filled == {i \in DOMAIN cps : EndsTwig(cps[i], bf) /\ length[i] = kBFTwigSize(bf)}
    IN  {cps[i] \div kBFTwigSize(bf) : i \in filled}

TwigsOnTheWay(cps, bf) ==
    LET length[i \in DOMAIN cps] ==
            IF Successive(cps, i) THEN length[i - 1] + 1 ELSE 1
        filled == {i \in DOMAIN cps : EndsTwig(cps[i], bf) /\ length[i] >= kBFTwigSize(bf)}
    IN  {cps[i] \div kBFTwigSize(bf) : i \in filled}

(***************************************************************************)
(* The factors that may be chosen: a tree of four way nodes is never too   *)
(* deep.                                                                   *)
(***************************************************************************)
ChooseBranchFactor(cps) ==
    {"BF4"} \cup {bf \in BranchFactor : TreeDepthFor(Last(cps), bf) <= kBFMaxDepth(bf)}

(***************************************************************************)
(* The layer at which a filled twig is written as zero.  From the layer    *)
(* above the twigs upwards, neighbours that make up a node are merged; if  *)
(* fewer nodes were merged than one further up needs, that is the end.     *)
(***************************************************************************)
FindFilledNodes(bf, height, twigs) ==
    LET Merge(st, layer) ==
          LET node_twigs(n) == n * st.node_size .. (n + 1) * st.node_size - 1
              merged == {n \in {t \div st.node_size : t \in twigs} :
                            \A t \in node_twigs(n) :
                                t \in twigs /\ st.levels[t] = layer + 1}
          IN  IF st.done THEN st
              ELSE [levels |-> [t \in twigs |-> IF t \div st.node_size \in merged
                                               THEN layer ELSE st.levels[t]],
                    node_size |-> st.node_size * kBFNodeSize(bf),
                    done |-> Cardinality(merged) < kBFNodeSize(bf)]
        start == [levels |-> [t \in twigs |-> height - 2],
                  node_size |-> kBFNodeSize(bf), done |-> FALSE]
    IN  IF height < 2 THEN [t \in {} |-> 0]
        ELSE FoldLeft(Merge, start, [i \in 1 .. height - 2 |-> height - 2 - i]).levels

-----------------------------------------------------------------------------
(***************************************************************************)
(* EncodeLayer: a state machine over the values.  ctx is the EncodeContext *)
(* and the state.                                                          *)
(***************************************************************************)
NewContext(layer, bf, height, filled_levels, node_bases) ==
    [layer |-> layer, bf |-> bf, height |-> height, filled_levels |-> filled_levels,
     node_bases |-> node_bases, state |-> "START", next_node_base |-> 1,
     node_base |-> Largest, node_max |-> Largest, filled_max |-> Largest,
     node_mask |-> {}, next_node_bases |-> <<>>, nodes |-> <<>>]

PerBitLog2(ctx) == ValuesPerBitLog2ForLayer(ctx.layer, ctx.height, ctx.bf)
NodeValues(ctx) == 2 ^ (kBFNodeSizeLog2[ctx.bf] + PerBitLog2(ctx))

OverrideIfFilled(ctx, cp) ==
    LET twig == cp \div kBFTwigSize(ctx.bf)
    IN  IF twig \notin DOMAIN ctx.filled_levels THEN "NEW_NORMAL_NODE"
        ELSE IF ctx.layer = ctx.filled_levels[twig] THEN "NEW_FILLED_NODE"
        ELSE IF ctx.layer > ctx.filled_levels[twig] THEN "EXISTING_FILLED_NODE"
        ELSE "NEW_NORMAL_NODE"

ParseCodepoint(ctx, cp) ==
    IF ctx.state = "BUILDING_NORMAL_NODE" /\ cp <= ctx.node_max
    THEN "EXISTING_NORMAL_NODE"
    ELSE IF ctx.state = "SKIPPING_FILLED_NODE" /\ cp <= ctx.filled_max
    THEN "EXISTING_FILLED_NODE"
    ELSE OverrideIfFilled(ctx, cp)

\* the next node that the layer above announced
NextNodeBase(ctx) == ctx.node_bases[ctx.next_node_base]

StartFilledNode(ctx) ==
    [ctx EXCEPT !.state = "SKIPPING_FILLED_NODE",
                !.next_node_base = @ + 1,
                !.nodes = Append(@, {}),
                !.filled_max = Narrow(NextNodeBase(ctx) + NodeValues(ctx) - 1)]

\* a node filled further up, with those after it that are
SkipExistingFilledNode(ctx, cp) ==
    LET after(twig) ==
            twig + 2 ^ ((ctx.height - ctx.filled_levels[twig] - 2) * kBFNodeSizeLog2[ctx.bf])
        further(twig) == twig \in DOMAIN ctx.filled_levels
                         /\ ctx.filled_levels[twig] < ctx.layer
        end[twig \in 0 .. Largest] == IF further(twig) THEN end[after(twig)] ELSE twig
    IN  [ctx EXCEPT
            !.state = "SKIPPING_FILLED_NODE",
            !.filled_max =
                Narrow(end[after(cp \div kBFTwigSize(ctx.bf))] * kBFTwigSize(ctx.bf) - 1)]

EndNormalNode(ctx) ==
    IF ctx.state # "BUILDING_NORMAL_NODE" THEN ctx
    ELSE [ctx EXCEPT !.nodes = Append(@, ctx.node_mask), !.node_mask = {},
                     !.node_base = Largest, !.node_max = Largest,
                     !.filled_max = Largest]

UpdateNodeBit(ctx, cp) ==
    LET bit == ShiftRight(cp - ctx.node_base, PerBitLog2(ctx))
        new == bit \notin ctx.node_mask /\ PerBitLog2(ctx) > 0
    IN  [ctx EXCEPT !.node_mask = @ \cup {bit},
                    !.next_node_bases =
                        IF new THEN Append(@, ctx.node_base + bit * 2 ^ PerBitLog2(ctx))
                        ELSE @]

StartNewNormalNode(ctx, cp) ==
    UpdateNodeBit([ctx EXCEPT !.state = "BUILDING_NORMAL_NODE",
                              !.next_node_base = @ + 1,
                              !.node_base = NextNodeBase(ctx),
                              !.node_max = NextNodeBase(ctx) + NodeValues(ctx) - 1,
                              !.filled_max = Largest], cp)

\* one value after the other
RECURSIVE UpdateState(_, _)
UpdateState(ctx, cps) ==
    LET cp     == Head(cps)
        symbol == ParseCodepoint(ctx, cp)
        ended  == EndNormalNode(ctx)
    IN  IF cps = <<>> THEN ended
        ELSE CASE symbol = "NEW_NORMAL_NODE" ->
                    UpdateState(StartNewNormalNode(ended, cp), Tail(cps))
               [] symbol = "EXISTING_NORMAL_NODE" ->
                    UpdateState(UpdateNodeBit(ctx, cp), Tail(cps))
               [] symbol = "NEW_FILLED_NODE" ->
                    UpdateState(StartFilledNode(ended), Tail(cps))
               [] symbol = "EXISTING_FILLED_NODE" /\ ctx.state = "SKIPPING_FILLED_NODE" ->
                    UpdateState(ctx, Tail(cps))
               [] symbol = "EXISTING_FILLED_NODE" /\ ctx.state # "SKIPPING_FILLED_NODE" ->
                    UpdateState(SkipExistingFilledNode(ended, cp), Tail(cps))

EncodeLayer(cps, layer, height, bf, filled_levels, node_bases) ==
    UpdateState(NewContext(layer, bf, height, filled_levels, node_bases), cps)

\* all layers, or as many as have nodes
EncodeNodes(cps, bf, height, twigs) ==
    LET filled_levels == FindFilledNodes(bf, height, twigs)
        Step(st, layer) ==
            IF st.node_bases = <<>> THEN st
            ELSE LET done == EncodeLayer(cps, layer, height, bf, filled_levels, st.node_bases)
                 IN  [nodes |-> st.nodes \o done.nodes,
                      node_bases |-> done.next_node_bases]
    IN  FoldLeft(Step, [nodes |-> <<>>, node_bases |-> <<0>>],
                 [i \in 1 .. height |-> i - 1]).nodes

-----------------------------------------------------------------------------
(***************************************************************************)
(* Bytes: the header with the depth in a field of five bits (which is what *)
(* numbers below 32 need), then four, two or one nodes in a byte, or a     *)
(* node in four bytes.                                                     *)
(***************************************************************************)
Header(bf, depth) == [bf |-> bf, depth |-> depth % Width]

Moved(positions, by) == {p + by : p \in positions}

ToBytes(bf, depth, nodes) ==
    LET size == kBFNodeSize(bf)
        bits == UNION {Moved(nodes[i], (i - 1) * size) : i \in DOMAIN nodes}
        byte(b) == Moved({p \in bits : p \div 8 = b - 1}, -8 * (b - 1))
    IN  <<Header(bf, depth)>> \o [b \in 1 .. Ceiling(Len(nodes) * size, 8) |-> byte(b)]

EncodeSet(cps, bf, twigs) ==
    LET height == TreeDepthFor(Last(cps), bf)
    IN  ToBytes(bf, height, EncodeNodes(cps, bf, height, twigs))

\* Mutation: a tree of two way nodes may be too deep
EncodeAsAsked(set, bf) ==
    IF set = {} THEN <<Header("BF2", 0)>>
    ELSE EncodeSet(InOrder(set), bf, FindFilledTwigs(InOrder(set), bf))

\* Encode with a given branch factor
EncodeWith(set, bf) ==
    IF set = {} THEN <<Header("BF2", 0)>>
    ELSE LET cps == InOrder(set)
             deep == bf = "BF2" /\ TreeDepthFor(Last(cps), bf) > kBFMaxDepth(bf)
             used == IF deep THEN "BF4" ELSE bf
         IN  EncodeSet(cps, used, FindFilledTwigs(cps, used))

\* Encode with the factor that ChooseBranchFactor takes
Encode(set, bf) ==
    IF set = {} THEN <<>>
    ELSE EncodeSet(InOrder(set), bf, TwigsOnTheWay(InOrder(set), bf))

-----------------------------------------------------------------------------
(***************************************************************************)
(* Decode, level by level, as [ok, set, rest].                             *)
(***************************************************************************)
ReadNode(bytes, bf, index) ==
    LET size == kBFNodeSize(bf)
        byte == 2 + ((index - 1) * size) \div 8
        shift == ((index - 1) * size) % 8
    IN  IF bf = "BF32"
        THEN UNION {Moved(bytes[byte + b], 8 * b) : b \in 0 .. 3}
        ELSE Moved(bytes[byte] \cap (shift .. shift + size - 1), -shift)

BytesUsed(bf, nodes) == 1 + Ceiling(nodes * kBFNodeSize(bf), 8)
HasNode(bytes, bf, index) == BytesUsed(bf, index) <= Len(bytes)
Remaining(bytes, bf, nodes) == SubSeq(bytes, BytesUsed(bf, nodes) + 1, Len(bytes))

DecodeNode(st, bytes, bf, depth, level, node_base) ==
    LET leaf_node_size == 2 ^ (kBFNodeSizeLog2[bf] * (depth - level))
        factor == leaf_node_size \div kBFNodeSize(bf)
        bits   == ReadNode(bytes, bf, st.index)
        first  == Narrow(node_base * factor)
        leaf   == level = depth - 1
        marked == LET in_order == Ascending(bits, kBFNodeSize(bf))
                  IN  [i \in DOMAIN in_order |-> node_base + in_order[i]]
    IN  IF ~st.ok \/ ~HasNode(bytes, bf, st.index) THEN [st EXCEPT !.ok = FALSE]
        ELSE [st EXCEPT
                !.index = @ + 1,
                !.set = @ \cup IF bits = {}
                               THEN first .. Narrow(first + leaf_node_size - 1)
                               ELSE IF leaf THEN Range(marked) ELSE {},
                !.next = @ \o IF leaf THEN <<>>
                              ELSE [i \in DOMAIN marked |->
                                      Narrow(marked[i] * kBFNodeSize(bf))]]

Decode(bytes) ==
    LET bf    == Head(bytes).bf
        depth == Head(bytes).depth
        Level(st, level) ==
            FoldLeft(LAMBDA s, base : DecodeNode(s, bytes, bf, depth, level, base),
                     [st EXCEPT !.next = <<>>], st.next)
        done == FoldLeft(Level, [ok |-> TRUE, index |-> 1, set |-> {}, next |-> <<0>>],
                         [i \in 1 .. depth |-> i - 1])
    IN  IF bytes = <<>> THEN [ok |-> TRUE, set |-> {}, rest |-> <<>>]
        ELSE IF depth > kBFMaxDepth(bf) THEN [ok |-> FALSE, set |-> {}, rest |-> bytes]
        ELSE [ok |-> done.ok, set |-> done.set,
              rest |-> Remaining(bytes, bf, done.index - 1)]
=============================================================================
