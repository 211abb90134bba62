# Formal models of the IFT encoder

TLA+ modules for the core logic of this repository: how the encoder decides
which glyph goes into which patch, and under which condition a client loads
it. The modules are checked with TLC on small instances; the modules named
`...Proofs` hold theorems checked with TLAPS for every value of the constants.
Paths are relative to the repository's `src/` root; `PROJECT.json` maps every
definition to the lines it translates.

## 1. The system

The encoder turns a font into an incremental font: an initial font, and
patches which a client downloads when it needs more code points. It runs in
one thread and keeps nothing on disk between runs. There are no messages and
no crashes to recover from. What makes it hard is *incremental state*: the
segmenter keeps half a dozen tables about the same glyphs, changes its input
(segments, initial font, combined patches) thousands of times, and after each
change repairs only what it believes has changed. It checks the result against
an analysis from scratch only at the end, and only in some configurations
(`ValidateIncrementalGroupings`).

| Component (under `ift/encoder/` unless said otherwise) | State | Operations | Correct when |
|---|---|---|---|
| **Activation conditions** `activation_condition.*` | a conjunction of disjunctions of segments, flags | constructors, `And`, `Or`, `ReplaceSegments`, `RemoveIntersectingSubgroups`, `NonCompositeSuperset` | each means what it says; as they are hash keys, equal meaning gives equal groups, and the exclusive flag may differ only for a single segment (or always true) |
| **Condition index** `condition_to_glyphs_index.h` | four containers for one relation | `Invalidate`, `Remove`, `Union`, `Add` | the containers agree; a glyph has one condition |
| **Glyph partition** `glyph_partition.*` | union-find forest, ranks, lazy cache | `Union`, `Find`, `GlyphsFor`, `NonIdentityGroups`, copy, assignment | behaves as disjoint sets; shallow trees |
| **Glyph condition set** `glyph_condition_set.h` | condition of each glyph, reverse index by segment | `AddAndCondition`, `AddOrCondition`, three `InvalidateGlyphInformation`, `SetCondition` | index and conditions name the same pairs |
| **Requested segmentation information** `requested_segmentation_information.*` | segments, initial subset, full definition and closure, code point index | `Create`, `AssignMergedSegment`, `ReassignInitSubset` | every code point in the initial subset or a segment |
| **Closure analysis** `glyph_closure_cache.*` | cache of closures | `AnalyzeSegment`, `ExpandClosure` | finds which glyphs a segment needs alone, or with others |
| **Glyph groupings** `glyph_groupings.*` | groups by condition before and after combination, exclusive and disjunctive groups, combined patches, unmapped glyphs | `GroupGlyphs`, `FindFallbackGlyphConditions`, `CombinePatches`, `AddGlyphsToExclusiveGroup`, invalidations, `ToGlyphSegmentation` | each needed glyph in one place, exactly what an analysis from scratch gives |
| **Segmentation context** `segmentation_context.*` | all of the above, set of inert segments | `Initialize…`, `ReprocessSegment(s)`, `ReprocessAll`, `ReassignInitSubset`, `AssignMergedSegment`, `InvalidateGlyphInformationForMerge` | incremental = from scratch |
| **Mergers, candidate merges, strategies** `merger.*`, `candidate_merge.*`, `merge_strategy.*` | candidates of a merge group, finished segments | `TryNextMerge`, `MoveSegmentsToInitFont`, `CandidateMerge::Apply` | stays in its scope, terminates |
| **Closure glyph segmenter** `closure_glyph_segmenter.*` | the loop over all of it | `CodepointToGlyphSegments` | the closure requirement holds for the result |
| **Complex condition finder** `complex_condition_finder.*` | work queue | `FindSupersetDisjunctiveConditionsFor` | the condition found is a superset |
| **Glyph segmentation** `glyph_segmentation.*` | the final plan | `ConditionsToSegmentation`, `ValidateSegmentation` (of the context) | one patch per condition, one fallback, each glyph in one place |
| **Entry graph** `entry_graph.*` | nodes, children, incoming edges | `Create`, `Optimize`, `ToPatchMapEntries` | the optimized entries select the same patches |
| **Compiler** `compiler.*`, `subset_definition.*` | built subsets and patches, next ids | `Compile` and its recursion | each path of patches reaches its subset |
| **Dependency graph analysis** `dependency_closure.*`, `ift/dep_graph/` | graph, incoming edges by phase, conditions of all nodes, inert segments | `CollectIncomingEdges`, `StronglyConnectedComponents`, `ClosureTraversal`, `Create`, `InitFontChanged`, `SegmentsMerged`, `AnalyzeSegment`, `SegmentsThatInteractWith` | agrees with the closures; the caches are those of a new analysis |
| **Patch map encoding** `ift/proto/` , **integer sets** `ift/common/sparse_bit_set.*` | entries, index of the last one | `AddEntry`, `Serialize`; `Encode`, `Decode` | decoding gives back what was encoded |
| **Frequencies** `ift/freq/`, **configuration** `ift/config/`, **differs** `ift/*_diff.*`, **Brotli** `brotli/`, **font helpers** `ift/common/`, **client** `ift/client/`, **tools** `util/` | – | cost inputs, settings, byte layout, wrappers | – |

How they interact: `CodepointToGlyphSegments` builds a `SegmentationContext`,
which asks the closure analysis about each segment, writes the answers into
the glyph condition set and has the glyph groupings group the glyphs that
changed. Mergers propose steps; `CandidateMerge::Apply` and `Merger` carry
them out through the context, naming the glyphs to invalidate. The groupings
hold two condition indices (before and after combining patches) and one glyph
partition; with `FIND_CONDITIONS` they ask the complex condition finder about the
glyphs that no condition covers. In two of the three modes of analysis the
segmentation context asks the dependency graph, which it tells of every move and
merge, instead of the closures or next to them. The final groupings become a `GlyphSegmentation`, the compiler adds
it and the table keyed patches to one patch map, through the entry graph.

What is hard: an order of operations nobody tested (move, merge, combine,
move again), state that goes stale because a neighbour changed it, a key that
is no longer equal to one of the same meaning, operations that fail in the middle, and
loops that must make progress. `PROJECT.json` lists each hazard at the line
where it bites, with the properties that would catch it.

## 2. The modules

| Module | Models | Used by |
|---|---|---|
| `ActivationConditions` | conditions as a set of groups and the exclusive flag; all operations | `ConditionAlgebra`, `GlyphConditionSet` |
| `ConditionAlgebra` | one condition under any sequence of operations, next to its meaning | `ConditionAlgebraProofs`, `MCDataStructures` |
| `ConditionMap` | abstract: one condition per glyph | `ConditionIndex` (refinement) |
| `ConditionIndex` | the four containers of `ConditionToGlyphsIndex`, operation by operation | `ContainerProofs`, `MCDataStructures` |
| `Partition` | abstract: disjoint sets | `GlyphPartition` (refinement) |
| `GlyphPartition` | union-find with ranks, path compression, cache, copies | `ContainerProofs`, `MCDataStructures` |
| `GlyphConditionSet` | conditions by glyph and reverse index | `GlyphGroupings` |
| `SegmentationInfo` | segments, initial subset, merges, and `AnalyzeSegment` | `GlyphGroupings` |
| `FoundConditions` | the result of the search for one glyph's condition, without its queue | `GlyphGroupings`, `ComplexConditionFinder` |
| `GlyphGroupings` | grouping, invalidation, combination, found conditions | `SegmentationContext` |
| `SegmentationContext` | reprocessing, reassignment, merges, `NonIncremental` analysis | `ClosureGlyphSegmenter` |
| `GlyphSegmentation` | the returned plan, its fallback patch, and `ValidateSegmentation` | `ClosureGlyphSegmenter` |
| `ClosureGlyphSegmenter` | the loop: one action per iteration | `ClosureGlyphSegmenterProofs`, `MCClosureGlyphSegmenter` |
| `SubsetDefinition` | code points, features and axis ranges; intersection, union, subtraction | `PatchSelection`, `EntryGraph`, `Compiler`, `Extension` |
| `Compiler` | the recursion of `Compile` as an explicit stack of calls: edges, jumps, sizes, ids, maps, patches | `IncrementalFont` |
| `Extension` | abstract: a font that loads what is asked for | `IncrementalFont` (refinement) |
| `IncrementalFont` | the compiler, then a client that extends the font step by step | `IncrementalFontProofs`, `MCIncrementalFont` |
| `PatchSelection` | abstract: which patches a client's definition selects | `EntryGraph` (refinement) |
| `EntryGraph` | from conditions to patch map entries: one action per round of `Create`, per pass and per node of `Optimize`, and one for `ToPatchMapEntries` | `MCEntryGraph` |
| `DependencyGraph` | the kinds of nodes, edges with their requirements, outgoing and incoming edges by phase | `ConditionPropagation`, `GraphTraversal` |
| `ConditionPropagation` | requirements of an edge as a condition; conditions along the strongly connected components | `DependencyClosure` |
| `DependencyClosure` | the cached analysis: `Create`, `InitFontChanged`, `SegmentsMerged`, analysis of segments, accuracy | `DependencyAnalysis` |
| `DependencyAnalysis` | moves and merges in the three modes of analysis, next to the conditions of the segmentation context | `MCDependencyAnalysis` |
| `GraphTraversal` | `ClosureTraversal` step by step: phases, nodes to visit, edges put aside | `GraphWalks` |
| `StronglyConnected` | Tarjan's search with its explicit stack, step by step | `GraphWalks` |
| `GraphWalks` | either of the two walks, with fairness | `MCGraphWalks` |
| `SmallFonts` | fonts for the two: closure, ligatures, contexts, cycles, variation sequences | MC modules |
| `ComplexConditionFinder` | the search for conditions of unmapped glyphs, one action per task and test | `ComplexConditionFinderProofs`, `MCDataStructures` (its instance: `MCComplexConditionFinder`) |
| `SparseBitSet` | sets of integers to bytes and back, the choice of the branch factor | `Format2PatchMap` |
| `Format2PatchMap` | `AddEntry`, the encoding of entries, a client that reads them | `MCDataStructures` |
| `SegmentationInfoProofs` | no state: what the operators of the module it is named for return and keep | `ClosureGlyphSegmenterProofs` |
| `IncrementalFontProofs` | no state: that the patches apply, and that the font is what `Extension` promises | |
| `Recursion` | no state: why a recursive function of TLA+ has the value its equation says | proof modules |
| `GraphWalksProofs` | no state: that both walks do what they are for, in any graph and font | |

Five modules are state machines of their own: `ConditionAlgebra`,
`ConditionIndex`, `GlyphPartition` and `Format2PatchMap`, each about one class under
every sequence of calls that its callers can make, and `ComplexConditionFinder`, one
call. They share nothing; `MCDataStructures` puts
them into one run, in which a behaviour is about one of them. `ClosureGlyphSegmenter` is the composition:
its state is the whole context, and its actions apply operators of the
modules below it. There a condition index is used at the level of its
abstract map and a partition at the level of its disjoint sets; the refinements
checked and proved for `ConditionIndex` and `GlyphPartition` justify this. The
search for conditions is one step there, `FoundSegments`, glyph by glyph;
`FindsGlyphByGlyph` shows that the search with its queue comes to the same.

`EntryGraph` is what follows the segmenter (a plan's conditions) and what the
compiler calls for its own edges. It uses `ActivationConditions` for what a
condition means. Its meaning is `PatchSelection`: entering a condition adds its
patch to what is selected, and nothing that happens to the nodes or their
listing may change the selection.

`DependencyAnalysis` puts the dependency graph beside what it stands in for. Its
state is a segmentation (the one of `SegmentationInfo`), the cached analysis and
the glyph condition set; a move or a merge carries out what
`SegmentationContext` and `CandidateMerge` do in that mode. There the closure
traversal and the components are operators (the result of any order);
`GraphTraversal` and `StronglyConnected` are the two algorithms in steps, in
every order, which justifies this.

`ComplexConditionFinder` starts from what `SegmentationContext` leaves after
analysing all segments: the unmapped glyphs and the conditions known so far.

`Compiler` builds the graph of fonts. `Compile` calls itself twice over: while
it estimates the sizes of the edges of a node, before the node is entered in
`built_subsets_`, and again when it builds the patches. The stack of calls is a
variable, so that what a call holds on to while others run is visible.
`IncrementalFont` composes it with a client. The conditions of a map are taken
by what they select, which is what `EntryGraph` is checked to preserve.

Correspondence of the state:

| Model | Code |
|---|---|
| condition `[groups, exclusive]` | `ActivationCondition::conditions_`, `is_exclusive_`. The flags `is_fallback_`, `encoding_`, the patch id and the probability do not influence which patch is loaded when. The sorted vector of distinct groups is a set. |
| `context.info` | `RequestedSegmentationInformation`, with the font it was made for |
| `context.conditions` | `GlyphConditionSet` |
| `context.groupings` | `GlyphGroupings`; `pre` and `post` are `conditions_and_glyphs_pre_combination_` and `conditions_and_glyphs_` |
| `context.inert` | `inert_segments_` |
| `mergers[i]` | a `Merger`: strategy, `candidate_segments_`, `candidate_patch_merge_glyphs_` |
| `phase`, `merger_index`, `batch_mode` | where `CodepointToGlyphSegments` is |
| `graph` (`EntryGraph`) | the members of `EntryGraph`: `nodes`, `incoming_edge_count` (`edges`), `condition_to_node_id`, the three maps from a set to its node (`parts`, as one), `patch_mappings` |
| `context` (`Compiler`) | `ProcessingContext`: `built_subsets_`, `estimated_patch_sizes_`, `table_keyed_patch_id_map_`, `patches_` (`patches` with `built_table_keyed_patches_`, and `glyph_patches`), the two maps by design space (`patch_sets`) and the next ids |
| `stack` | the calls of `Compile` that are running: `own` is the node's `CompileResult`, `current` what the next jump starts at, `left` the jumps still to do, `phase` which of the two loops |
| `font`, `target`, `client` | the client's font by what its tables were made from; what it was asked for |
| `ctx` (`DependencyAnalysis`) | `info`, `conditions`, `inert` as above; `dc` is `DependencyClosure`: `incoming` and the components by phase (`incoming_edges_…`, `glyph_sccs_` …), `conditions` (`node_condition_cache_`), `glyph_conditions`, `nodes_with_segment`, `inert`, `context_glyphs` |
| `next`, `todo`, `pending`, `visited`, `reached`, `full` (`GraphTraversal`) | `TraversalContext` and the result; `phase` is where `ClosureTraversal` is |
| `dfs`, `index`, `lowlink`, `stack`, `sccs` (`StronglyConnected`) | the locals of `StronglyConnectedComponents` |
| `queue`, `existing`, `unscheduled`, `glyph_to_conditions` | `Context::queue` and the locals of `FindSupersetDisjunctiveConditionsFor` |
| `map`, `out`, `last_entry_index` (`Format2PatchMap`) | `PatchMap::entries_`, the bytes as a sequence of fields; `position`, `last_read`, `read` belong to the client |
| `sorted`, `changed`, `entries` | the locals of `Optimize`, the result of `ToPatchMapEntries` |

Each action of `ClosureGlyphSegmenter` is one iteration of the code's loop:
`MoveBatch`, `EndBatch`, `MoveOne`, `NextInitMover`, `EndInitMoves`
(`MoveSegmentsToInitFont` for each merger), `MoveFallbackGlyphs`,
`MergeSegment`, `MarkFinished` (`TryNextMerge`), `MergePatch`, `EndPatchBase`
(`TryNextPatchMerge`), `NextMerger`.

### Abstractions

* **The font** is a monotone closure: a parameter `Closure` from definitions
  to glyphs, evaluated in the checks from a character map, substitution rules
  and compositions of Unicode. HarfBuzz itself is not modelled. For the
  dependency graph a font is what HarfBuzz reports of it: character map,
  variation sequences, and the dependencies of its tables. A layout feature in a
  segment is a code point of its own sort (`Feature`); a move into the initial font
  takes code points out of the segments and leaves features there
  (`ReassignInit`). Of the runs about segmentations only
  `dependency_closure` and `dependency_move` have features.
* **Costs are choices.** Patch sizes and probabilities decide which of the
  candidates is taken. The model allows every candidate the code considers,
  and allows taking none, so it contains every behaviour that any costs can
  produce, those of the cutoff of improbable segments included. It does not
  say that a good segmentation is chosen.
* **Modes**: the loop of the segmenter is modelled for the analysis by closures
  (`CLOSURE_ONLY`), with the three settings for unmapped glyphs. The modes of the
  dependency graph are modelled for the conditions, under any moves and merges.
  The heuristic strategies and the pre-grouping of segments are left out.
* **Propagation** starts from no condition. Within a component the code takes
  the nodes in the order of a hash set until nothing changes; the model takes
  one order, and the result is compared with the closures.
* **Bytes.** An entry of a patch map is a sequence of fields, each of which a
  reader finds only where it expects it; bits of a node and bytes are sets of
  positions. The width of values (32), the limit of differences (2^23) and of
  children (127) are parameters. How an entry's code points are written (bias,
  branch factor) is any of the ways that the code tries.
* **Entries.** Nodes and conditions are numbered from 1. Patches are the number
  of their condition; encodings, prefetches and the ids of ignored entries are
  left out. The bytes of an entry are those of `EncodeEntry`, except for the
  set of code points, whose size is a parameter. The condition index of the
  second and third child that `ActuateSubsumption` creates is any index: the
  code reads it through a reference into a vector that has grown.
* **Fonts and patches.** A font is described by what its tables were made
  from: subset and round trip through WOFF2 for the tables without outlines, a
  default position and a design space for each set of outlines, the two patch
  maps. A patch holds the font it was made from, the one it leads to, which
  tables it leaves alone and which it replaces. It fits only the former. Sizes
  are choices; random compatibility ids are distinct numbers. Glyph ids are left
  out of subset definitions, and a glyph data patch has one condition.
* **The client** is no part of the repository (`fontations_client.cc` runs one):
  its actions follow the IFT specification and are marked external. Which of
  several matching entries it takes is left open, which contains the selection
  rules of the specification. It may be asked for more after each extension.
* **Errors** of an index end the encoding. The groupings carry a flag `ok`;
  `NoInternalError` says that it never becomes false.
* An entry of `exclusive_glyphs_` without glyphs, which only `operator==` can
  tell from no entry, is no entry.

## 3. The runs

| Run | Instance | Shows |
|---|---|---|
| `data_structures` | see below | see below |
| `segmenter` | 29 fonts, 7 requests, 3 or 4 segments | see below |
| `init_move` | one font, four segments, one merge group with moves | *violation*, finding 3 |
| `combined_merge` | one font, seven segments, two merge groups, the first of which combines patches | *violation*, finding 4 |
| `pulled_glyph` | one font, six segments, two merge groups, the first of which combines patches | *violation*, finding 5 |
| `fallback_move` | one font, five segments, no merge group | *violation*, finding 6 |
| `dependency_closure` | 5 fonts, 3 segmentations of 3 segments, 3 modes, any moves and merges | see below |
| `dependency_move` | one font, mode `CLOSURE_AND_DEP_GRAPH` | *violation*, finding 1 |
| `graph_walks` | 6 fonts, any set of segments; all graphs of 3 nodes | see below |
| `entry_graph` | 1312 requests, 4 segments | see below |
| `incremental_font` | 84 requests, up to 3 extension subsets | see below |
| `compiler_overlap` | 3 subsets that overlap pairwise | *violation*, finding 2 |

The run `data_structures` checks

* of a condition, with the unit, conjunctive, disjunctive and mixed conditions over 4
  segments as operands, that after any sequence of operations the groups say exactly
  what was meant (`MeaningExact`), and that `NonCompositeSuperset` only weakens
  (`WeakenIsSuperset`). The groups are the minimal ones of that meaning, without
  `Simplify` on every path, and only the condition of a single segment or the always
  true one is ever exclusive (`KeyFollowsMeaning`). So hash keys of one meaning may
  differ in the flag, for a single segment: s0 and s1 merged into s0 turn (s0 and s1)
  into the exclusive condition of s0, and (s0 or s1) into its twin without the flag.
  `candidate_merge.cc` looks for both twins (328) or clears the flag (631) where it matters;
* of the index, with 3 glyphs and 3 conditions, that the four containers agree
  (`IndexConsistent`) and refine `ConditionMap` (`ImplementsMap`), through operations
  that fail midway;
* of two partitions of 4 glyphs, one of them the target of assignments and never asked
  for its sets, as in the program, that they refine `Partition` (`ImplementsPartition`);
* of a patch map with up to 3 entries and values of 6 bits that a client reads the
  entries that were added (`EntriesRoundTrip`), and that sets survive with any branch
  factor and with data behind them (`SetsRoundTrip`);
* of the search for conditions, with every monotone condition over 4 code points beside
  5 second ones, that the condition found loads the glyph whenever it is needed
  (`ActivatesWhenNeeded`), names no segment that makes no difference
  (`OnlySegmentsOfTheCondition`), is for glyphs that share tasks what each would get
  alone (`FindsGlyphByGlyph`), and that the search ends (`SearchEnds`).

The run `segmenter` checks, in every state and not only at the end:

* `IncrementalIsExact`: conditions, inert segments and every field of the
  groupings are those of an analysis from scratch, but for the conditions found
  for unmapped glyphs, which may be others that are enough
  (`GlyphGroupingsAreEquivalent`; in the run they are others after a merge);
* `ConditionsInSync`: the reverse index misses no glyph, so that a merge undoes
  all it must undo;
* `SegmentationIsValid`: the plan that would be returned passes the checks of
  `ValidateSegmentation`, which the code makes at the end and which then fail the
  encoding: each needed glyph is in the initial font or in one patch, and no
  group of a condition misses what else brings a glyph;
* `ClosureRequirement`: whatever segments a client loads, it has the glyphs
  their closure needs. It is stated with `Closure`, not with the analysis;
* `DisjunctionsAreNeeded`: own disjunctive conditions load no patch too early
  (a condition found by the search may);
* `MergesOnlyCoarsen`: a merge leaves no glyph over for the fallback patch, and never
  makes a client load, through a glyph's analysed condition, a glyph that loading the
  former segments would not have loaded. Conditions found by the search are excepted:
  one of the fonts has a glyph with two equally good disjunctions, and the search
  after a merge finds the other one, where loading its segments used to load nothing;
* `EveryIterationAdvances`: a variant decreases with every iteration;
* `NoInternalError`: no condition index refuses a step.

The run `dependency_closure` checks, after every move and merge:

* `ConditionsAreExact`: the condition of the graph for a glyph holds for exactly
  the sets of segments whose closure has the glyph, which is what the closure
  analysis can only bound;
* `CacheIsFresh`: conditions, affected glyphs, inert segments and contextual
  glyphs are those of a new analysis, though only changed segments were
  propagated again and incoming edges were kept;
* `AnalysisAgrees`: where the graph claims to be accurate, its answer for one or
  two segments is that of the closures;
* `ConditionSetExact`: the glyph condition set, of which only the touched part
  was analysed again, is that of an analysis of everything.

The run `graph_walks` checks `TraversalIsClosure` (whatever the order, a walk ends
with the glyphs of the closure), `NoEdgeForgotten` (in between, each edge of a
handled node was followed, will be, or is put aside), `ComponentsInOrder`
(components are complete and in topological order) and `Terminates`.

The run `entry_graph` checks, after every condition and every visit of a node:

* `ImplementsSelection`: the nodes, and in the end the entries, select for 24
  definitions a client may ask for exactly the patches whose conditions hold;
* `EdgeCountsExact`: the counts kept by hand are those of the graph;
* `SavesWhatWasComputed`: whatever makes `Optimize` run another pass saves
  bytes in the whole graph, as many as were computed for the one node. As bytes
  are natural numbers and a pass is finite, `Optimize` ends;
* `OrderFollowsForOwnParts`: entries follow the order of the conditions unless
  an earlier one needs them, where no segment is a part of another (see "Also
  seen");
* `NoInternalError`: nothing is reported as a cycle or a duplicate, and each
  child is listed before its parents.

The run `incremental_font` checks, while the font is compiled and then
wherever a client takes it:

* `ImplementsExtension`: each step of the client loads whole extension subsets
  that are asked for, and at the end all that is asked for is there;
* `PatchesApply`: each entry leads, by all its patches, to a font with all its
  segments; each patch was made from just the font the client has, whichever
  way it came there, and adds to it;
* `GlyphPatchesFit`, `OutlinesMatch`: the glyph keyed patches at hand belong to
  the font's design space, and so do the outlines at the end, in whichever order
  design space and glyphs were extended;
* `RecursionDescends`: the recursion never comes back to a node it works on,
  though that is entered in `built_subsets_` only later;
* `NoInternalError`: no error, and no edge without a patch.

A node matches when everything it covers intersects, and one child does, or
all of them when it is conjunctive: the rule for patch map entries of the
specification that `proto/patch_map.h` refers to.

`IncrementalIsExact` and `ClosureRequirement` hold on the fonts of `segmenter`, where
no glyph that moves into the initial font lets segments bring another glyph together which a third segment already brings alone. Where one does,
the groups go stale (`init_move`, finding 3), and both fail. Of the
requests that search for conditions, none has a merge group after one that combines
patches. Where one has, a found condition can go stale (`combined_merge`, finding
4), and both fail again; and a glyph can be lost with whatever handling
(`pulled_glyph`, finding 5). The part of `IncrementalIsExact` that is about the
analysis, `AnalysisIsExact`, holds for every font (section 5).

Type invariants are stated in the modules. Those of `ConditionAlgebra`,
`ConditionIndex`, `ComplexConditionFinder` and `ClosureGlyphSegmenter` are
theorems; no run spends its time on the others.

### Bounds

* *Four segments* for conditions: the smallest number with two disjoint
  disjunctions, so that `Or` has a shared group, a cross product and a
  superset to drop at once, and `NonCompositeSuperset` ties to break.
* *Three conditions over three glyphs* for the index: two conditions share a
  segment, one has two segments, and an `Add` or `Union` can clash at the
  first, a middle or the last glyph.
* *Four glyphs* for the partition: the smallest number at which a tree of rank
  2 exists, and path compression can make a depth smaller than its rank.
* *Three or four segments, four or five code points, six glyphs* for the segmenter:
  two segments to merge and a third whose conditions mention them. The fonts are
  all combinations of five rules for one glyph and four for another: ligatures
  within and across segments, alternatives, conjunctions of disjunctions
  (complex conditions, hence unmapped glyphs), chains of substitutions, plus
  fonts with a second origin of an encoded glyph and with a composed code
  point, one where the fallback patch shares its condition with glyphs that have it
  as their own, and one where a found condition is not the one that a new search
  would find (this takes four segments of one code point). The requests cover moves,
  merges and patch merges in one merge group, in two disjoint groups, in two groups
  with shared scope for moves, and no group at all, with each way to handle unmapped
  glyphs. Every action and disjunct fires.
* *Three segments, six code points (one of them a feature), six glyphs* for the
  dependency graph. The five fonts have what makes an edge different from its
  neighbours: a ligature (two participants), a context (groups of participants)
  whose result is drawn with another glyph, substitutions in a cycle with a
  decomposition and a colour layer, variation sequences, a condition that absorbs
  another. Segments are disjoint, overlap, leave the feature to the initial
  font, or share it with the initial font, where a move must leave it in them. Four moves in any order, then any merges: the segmenter
  moves before it merges. The font of finding 1 is left out of its mode there.
* *Graphs of three nodes* for the components: all 512, with self loops, a cycle
  entered in the middle, two components. For traversals each font of the
  dependency graph and one whose ligatures are entered at one glyph only.
* *Four code points* for the condition finder: all 166 monotone conditions of a
  glyph over them, with the second glyph having a condition found before, a part
  of one, or none, so that tasks have glyphs with different answers.
* *Values of six bits* for tables: with two way nodes the tree reaches the limit
  of its height, and two layers of nodes of 32 reach beyond the width; the biases
  for two and three bytes are different, differences reach their limit of 12, and
  one child is allowed where two are given.
* *Four segments, two or three conditions, up to three children* for the entry
  graph. 13 conditions (units, disjunctions, conjunctions, mixed ones that share
  groups, always true) in all ordered pairs, and eight triples. A disjunction or a
  conjunction of all four segments needs a chain of two nodes; the optimization
  creates up to three children, hence the smallest limit. Four choices of
  definitions make segments overlap, share a part, be a part of one another,
  touch on an axis or leave a gap there; two ways to count the bytes of code points
  make subsumption pay or not. In the run nodes are split into three, take over two
  fields at once, and removals cascade.

* *Up to three extension subsets* for the compiler, of one or two code points
  out of three, a feature, or ranges over four positions: disjoint, overlapping, nested,
  partly there, ranges that share an end point or leave a gap. Three subsets
  make a node that is reached by several paths and edges of three jumps; there
  are glyph data patches or none, one to three levels of jumps, and prefetch
  lists or none. The range of the initial font holds the default position, and
  no two subsets leave the same remainder (finding 2). Six definitions to ask
  for in ascending chains.

### Scheduling, fairness, deadlock

The program is sequential and deterministic up to its costs: its only process
goes on until a loop ends. That is weak fairness of `Next`, which `GraphWalks` and
`ComplexConditionFinder` state (and `MCDataStructures`, of a search), and under which `Terminates` and `SearchEnds` say
that every walk and every search ends. Costs do not enter there; the order in
which a set is walked is left open, and termination does not rest on it.

For the other loops termination is stated as safety, without fairness:
`EveryIterationAdvances` gives a variant that decreases in a well-founded order
with every iteration, and deadlock checking shows that the segmenter
never stops before `done` (where it stutters by the action `Finished`).
`EntryGraph` is treated alike, with `SavesWhatWasComputed`. In `IncrementalFont`
the recursion ends as nodes grow, and an extension ends because every patch
adds (`PatchesApply`) and the client is never without a step: deadlocks are
reported, and only a client that has all it asked for may stop. A step
of the segmenter's variant also rules out what it cannot count: a merge with no segment in
it, which the code's loop would repeat for ever. `MCDataStructures` is checked
without deadlocks being reported, because after an error the callers of the index
stop, and a table that has been read and a search that is done have no step left; the
walks stop when they are done, and in `DependencyAnalysis` nothing is left when all
segments are one.

## 4. Findings

1. **With the dependency graph a move can leave a condition too narrow**
   (`segmentation_context.cc:208`, mode `CLOSURE_AND_DEP_GRAPH`). The segments to
   reprocess are asked of the graph before the move. A part of a condition that
   another part absorbs is invisible then; when the move removes the absorbing
   part, the segment of the other is not reprocessed. In the run a glyph should
   have the condition (s0 or s1 or s2) and keeps (s1 or s2): a client that loads
   s0 alone misses the glyph.
2. **Overlapping extension subsets can fail to compile** (`compiler.cc:111`).
   After {1, 2} of {1, 2}, {1, 3}, {2, 3}, both others leave {3}: two edges with
   one condition, which `EntryGraph::Create` refuses, though `compiler.h:138`
   promises any combination of extension subsets.
3. **A move can leave a stale group** (`segmentation_context.cc:250`, mode
   `CLOSURE_ONLY`). After a move only glyphs whose condition *changed* are grouped
   again ("the groupings can be incrementally recomputed by looking at what
   conditions have changed"). But before a disjunction is used for a group,
   `GroupGlyphs` tests with a closure that the other segments do not bring the
   glyphs together, and this depends on the initial font. In the run s0 and s1 each
   bring a glyph; once a glyph that needs both has moved, s2 and s3 together bring
   the first glyph too. Neither does alone, so its condition stays as it was, and
   so does its group (s0 or s1): a client that loads s2 and s3 misses it. Where the
   code validates (`closure_glyph_segmenter.cc:631`), the segmentation fails.
4. **A merge after patches were combined can leave a found condition stale**
   (`glyph_groupings.cc:203`, `FIND_CONDITIONS`). A glyph whose condition was found
   by the search has none of its own, and a merge does not name it; `GroupGlyphs`
   looks it up as a glyph of a condition on the merged segments. But it first
   invalidates the glyphs whose own condition changed, and if one of those is in a
   combined patch, all combined conditions leave the index that is asked
   (`RemoveAllCombinedConditions`), and the glyphs of combined patches with them.
   In the run 21 and 22 have found conditions on s6 and are in combined patches when
   the next merge group merges s6 into s5: both keep s6, which is empty then. Every
   client that has s0 and s5 needs 21, and its patch is not loaded. The validation
   at the end notices, and the segmentation fails.
5. **A merge after patches were combined can lose a glyph** (`glyph_groupings.cc:79`).
   When a combined patch gets a condition that other glyphs have as their own, these
   are pulled into the patch. When the combined conditions are removed, the pulled
   glyphs go with them, and they come back only if the new combined condition is the
   same. In the run it is not: 23 has (s0 or s1 or s2), which the patches of s0 and of
   (s1 or s2) make together, until a merge of s5 into s4 shows that the glyphs of s0
   need s4 too. Then 23 is in no patch; `ValidateSegmentation`, and before it the
   validation of the groups, let the segmentation fail.

6. **`MOVE_TO_INIT_FONT` can leave unmapped glyphs** (`closure_glyph_segmenter.cc:578`),
   where `config/common.proto:46` says that all of them are moved. The glyphs that are
   unmapped move once; what is in the initial font then can bring others in further
   ways. In the run 16 needs two of s0, s1 and s2 and is unmapped, and 17 has the
   condition (s0 or s1). With 16 in the initial font s3 brings 17 too, and so do s2 and
   s4 together. The disjunction is not all of it any more, 17 is unmapped, and it goes to
   the patch that is always loaded, which the setting is there to avoid. No client
   misses a glyph.

Each is a run that expects the violation, on an instance small enough to read.

Also seen while modelling, without a run of its own:

* **Exclusive is "only if", not "if and only if"** (`glyph_groupings.h:76`). A glyph
  that needs `s0` and one of `s1`, `s2` is grouped as exclusive to `s0`. This is safe
  (the patch comes too early, never too late), the comment is stronger than the code.
* **Segments with equal definitions cannot be encoded** (`entry_graph.cc:216`). They
  share one node, though `entry_graph.h:48` leaves each segment as an individual
  node; the graph then fails to sort or has a duplicate condition. A segmentation
  plan may contain such segments; the compiler's own edges may not.
* **Top level indices do not always take precedence** (`entry_graph.cc:309`). A node
  found by its part, not by its condition, keeps the index of the condition it was
  made for. After `Optimize` has detached it from there, its entry is listed before
  the entries of earlier conditions. Hence the premise of `OrderFollowsForOwnParts`.
* After a merge that only rewrites the cache, another segment that has become inert
  is not among the inert ones (`dependency_closure.cc:111`). This costs an analysis and
  no correctness; `CacheIsFresh` asks for no more.
* `CheckPending` never has work to do when every participant of an edge has it, as the
  code builds the edges; only `ChainFont` of `MCGraphWalks` needs it.
* A comment says that `inscope_segments` is not used (`glyph_groupings.cc:354`); the
  scope of the dependency graph is passed and used. Glyphs whose known disjunction
  needs nothing more are searched again from nothing
  (`complex_condition_finder.cc:167`), which is wasted work.
* The number of entries of a table counts entries without a patch, which
  `EncodeEntries` would leave out; `AddEntry` refuses these. An entry that is
  conjunctive and has no children is read as disjunctive, which means the same.
* `GlyphPartition::operator=` (`glyph_partition.cc:28`) leaves the target's cache marked
  valid, so that a partition that was read, assigned to and read again answers with
  its old sets (`ImplementsPartition` fails with `Read = {p1, p2}`; the program never
  does that).
* A patch that changes the design space leaves `glyf` alone (`compiler.cc:667`), so if
  the range of the initial font does not hold the font's default position, its
  outlines stay where they are while the default moves (`OutlinesMatch` fails with
  `AxisDefault` 2, an initial range [1, 1] and an extension [1, 3]; it rests on HarfBuzz
  keeping the default inside the range). Hence the premise `DefaultsStay` of
  `OutlinesMatchInvariant`, which the requests of the run meet.
* `GlyphConditionSet::operator==` compares the other object's index with itself
  (`glyph_condition_set.h:185`), so that the code's own validation cannot notice a wrong
  reverse index (`ConditionsInSync` does).
* Pre-grouping moves its iterator over the merge groups by one although the group
  index of the ordering may jump, over a group all of whose segments are shared
  (`closure_glyph_segmenter.cc:317`): later segments are then grouped by the size
  asked for another group. Two merge groups with nothing but shared segments are
  refused as duplicates (`closure_glyph_segmenter.cc:483`).
* The invalidation of a patch merge names segment 0, whatever was merged
  (`candidate_merge.cc:1073`), which costs an analysis but, by `IncrementalIsExact`,
  changes nothing.

## 5. Theorems

| Theorem | Module | For all |
|---|---|---|
| `TypeCorrect`, `MeaningIsExact`, `StaysSimplified`, `StaysExclusiveForOne`, `KeysFollowMeaning`, `WeakenGivesSuperset` | `ConditionAlgebraProofs` | finite sets of segments, sets of operands |
| `AndMeaning`, `OrMeaning`, `ReplaceMeaning`, `RemoveMeaning`, `NonCompositeMeaning`, `GroupsAreMinimal`, `SameMeaningSameKey` | `ConditionAlgebraProofs` | conditions and loads |
| `TypeCorrect`, `IndexIsConsistent`, `IndexImplementsMap` | `ContainerProofs` | glyphs, conditions and segments |
| `PartitionForests`, `PartitionTypeCorrect` | `ContainerProofs` | numbers of glyphs, instances, and sequences of calls |
| `PartitionImplementsSets` | `ContainerProofs` | same, when the sets of a partition that is assigned to are not read |
| `TypeCorrect`, `FoundConditionsActivate`, `FoundSegmentsMatter`, `SearchNeverFails` | `ComplexConditionFinderProofs` | fonts, segmentations, existing conditions and scopes |
| `SegmentationStaysInOrder`, `TypeCorrect`, `IndexStaysInSync`, `DisjunctionsStayNeeded`, `AnalysisStaysExact` | `ClosureGlyphSegmenterProofs` | fonts, segmentations, merge strategies, and any costs |
| `FindingLeavesNoFallback` | `ClosureGlyphSegmenterProofs` | same, with `FIND_CONDITIONS`, unless overlapping segments are searched |
| `ChecksAreEnough` | `ClosureGlyphSegmenterProofs` | same, for segmentations that pass the checks |
| `PlainIsValid`, `PlainMeetsRequirement`, `PlainHasNoError`, `PlainMergesOnlyCoarsen` | `ClosureGlyphSegmenterProofs` | same, for plain requests: no moves, no combined patches |
| `SearchStaysInOrder`, `ComponentsAreFound` | `GraphWalksProofs` | graphs, orders of start nodes and edges |
| `NothingIsForgotten`, `EveryPhaseIsComplete` | `GraphWalksProofs` | fonts, requests, orders of edges |
| `UnionIsDefinition`, `RemainderIsDefinition`, `UnionWithRemainder` | `IncrementalFontProofs` | code points, features, axes, positions |
| `UnionIntersects` | `IncrementalFontProofs` | same, for definitions without a gap |
| `ShapeInvariant`, `RecursionEnds`, `PatchesApplyInvariant`, `GlyphPatchesFitInvariant` | `IncrementalFontProofs` | requests (initial and extension subsets, glyph conditions, jump lengths, prefetch lists, patch sizes), default features and positions, and whatever clients ask for |
| `FontImplementsExtension` | `IncrementalFontProofs` | same |
| `OnlyConflictsFail` | `IncrementalFontProofs` | same |
| `OutlinesMatchInvariant` | `IncrementalFontProofs` | same, for requests that do not move the default position |

**Assumptions.** `SegmentAssumption` (`ActivationConditions`): segments are a
finite set of naturals. `OperandAssumption`: operands are conditions in which no
group includes another, and that are exclusive only for a single segment or when always
true, as the constructors and all operations leave them (`StaysSimplified`,
`StaysExclusiveForOne`). `IndexAssumption` (`ConditionIndex`): glyph ids are integers (the
code visits them in ascending order), and the conditions given are conditions, which
`NoCondition` is not. `NoConditionAssumption`: the same of the groupings' tables.
`FontAssumption`, `ClosureAssumption`, `CharacterMapAssumption` (`SegmentationInfo`): code
points and glyphs are finite, a closure contains the glyphs it is asked for and grows
with the definition, glyphs have code points, and features are among what stands for
code points and no glyph's. `NumberingAssumption`
(`SegmentationContext`): where there are segments there is a segment 0, which the
invalidation of a patch merge names. `InputAssumption`: requests have their types.
`AnalysisAssumption` (`ComplexConditionFinder`): what the caller has established when it
starts the search; the definition `AnalysisOK` names it, and `MCComplexConditionFinder`
has every monotone condition meet it. `PositionAssumption` (`SubsetDefinition`):
positions on an axis are natural numbers. `DependencyAssumption` (`DependencyGraph`):
mirrors and decompositions lead to code points. `GraphAssumption` and `WalkAssumption`: graphs and walks have their types
(a graph may be infinite). `CompilerAssumption` and `ClientAssumption` (`Compiler`,
`IncrementalFont`): requests have their types (`RequestOK`), and what a client may ask for
are definitions. `PartitionAssumption` (`GlyphPartition`): there is a glyph. Two theorems have
a premise of their own: `DefaultsStay` in `OutlinesMatchInvariant`, which
`MCIncrementalFont` assumes of all its requests, and `Assigned \cap Read = {}` in
`PartitionImplementsSets`, which `MCDataStructures` assumes of its instances. All are
evaluated by TLC in the runs.

**Conditions.** The heart is that `Simplify`, which drops groups that contain
another group, does not change the meaning: every group contains a minimal
one, by well-foundedness of strict inclusion on a finite set (`MinimalGroup`).
Then `OrGroupsMeaning` treats the shared groups and the cross product of `Or`
apart, with its early return; `ReplaceMeaning` both paths of `ReplaceSegments`;
`NonCompositeGroups` shows that a group to keep always exists (the preference
is a total order on a finite non-empty set). `MeaningExact` is inductive together
with `TypeOK`. `KeyFollowsMeaning` needs two more invariants. `StaysExclusiveForOne`:
an operation that leaves the flag set leaves one segment, or nothing. `StaysSimplified`: no group
includes another, although `Or`'s early return, `RemoveIntersectingSubgroups` and the
conjunctive path of `ReplaceSegments` skip `Simplify`. Then a load that leaves out just
one group's segments shows that nothing smaller is required (`GroupsAreMinimal`).

**Index.** `IndexConsistent` speaks of states without an error; it is inductive
with the type invariant because operations do nothing after an error. The lemmas
`IndexTriggeringAgrees` and `UnindexTriggeringAgrees` carry the reverse index,
`GivenGlyphsAgree` the glyphs. `IndexImplementsMap` maps initial states to
initial states and each action to `Assign`, `Forget`, `Drop`, `Refuse` or a
stutter, one lemma per action (`...Refines`); `ErrorRefines` covers the
operations that fail midway.

**Partition.** The invariant says of each instance that ranks grow along the parents
(`Ranked`), so that following them ends (`UpTheTree`, the induction that the other lemmas
use), and that a tree has at least twice as many glyphs as its root's rank (`Heavy`), which
keeps ranks at half the number of glyphs; a link of two trees of the same rank needs both
(`Linked`). Compression may replace a parent by anything nearer to the root
(`ShorterWays`). To compare the forest with the abstract sets, which `Union` of a partition
unites in another order and one by one, both are described by the partitions that are
coarser: those which hold each tree together are those which held each tree of before
together, and the sets that were united (`Unites`, `Joins`). This determines a
partition (`JoinIsUnique`), and it adds up, call by call (`UnitesMore`) and set by set
(`MergedAllJoins`), so the order does not matter. A cache that is still valid belongs to a forest
with the same trees (`CachesOK`), unless it was assigned to: hence the premise of
`PartitionImplementsSets`. The program has it: `glyph_groupings.cc:417` makes the only copy, by
construction.

**The search for conditions.** `ActivatesWhenNeeded` speaks of the end of a search,
when the tasks that led there are gone. The inductive invariant `IInv` says what the
tasks still owe: what a task has kept and not tested brings all of its glyphs
(`TaskFits`); each glyph is unscheduled, in a task, or completed, and then the segments
outside of the disjunction found for it do not bring it (`Accounted`); each segment kept
or found makes a difference for its glyph (`Matters`, hence `OnlySegmentsOfTheCondition`). The closures meet only through
`ClosureMonotone`. `SearchNeverFails` follows: a further task has something to test
and in the end every glyph has a condition, so the checks for internal errors in
`RunAnalysisTask` and `ScheduleRemainingGlyphs` are never met.

**The segmenter.** `IInv` is `ContextOK` with the types of the mergers and of the
loop. `ContextOK` has four parts:

* `InfoOK`: the full definition and closure are those of the segments as they are, the
  initial font is closed, and no segment has a code point of it, features excepted;
* the context is the one analysed from all segments (`AnalysedContext`): a glyph's
  condition is the conjunction of the segments without which the font would lose it, or
  else the disjunction of the segments that bring it alone (`ConditionOn`), the reverse
  index holds just these segments, and the inert segments are those which are needed
  for exactly what they bring;
* `InGroups`: an entry of the groups' table is the glyph's condition, or a disjunction
  found for it, or is combined; the groups by disjunction follow the table; unmapped glyphs
  are outside the initial font and have no entry;
* `NoneLeftOver`: where conditions are searched for unmapped glyphs, none is left.

A merge redoes only the glyphs which the reverse index lists for its segments. It
keeps the second part because a glyph whose condition names none of them has the same
condition before and after: the closures by which the analysis judges another segment
are the same (`UntouchedByMerge`), and what is written for the segments that go is
removed without a trace (`RemovalInSync`, `RemoveNamed`). A move analyses everything
again; there the point is that nothing is left of what was (`NothingRemains`).
`MovedContextOK`, `MergedContextOK` and `PatchesMergedContextOK` treat the three kinds
of change, `NextIInv` the actions of the loop. `ConditionsInSync`, `DisjunctionsAreNeeded` and
`AnalysisIsExact` (the incremental analysis is the one from scratch) follow from `IInv`,
and so does `FindingLeavesNoFallback`. For `MOVE_TO_INIT_FONT` there is no such theorem
(finding 6).

**The closure requirement.** What `glyph_segmentation.h` demands: whatever segments a
client loads, the glyphs it needs are in the initial font or in a patch it loads. This
does not hold of every segmentation the loop makes (findings 3 to 5), and the code
checks its result. Two things are proved.

`ChecksAreEnough`: what passes the checks (`SegmentationIsValid`) meets the requirement,
for every request. The checks look at the segments of one group of a condition at
a time. If a client misses a glyph of a patch, it has no segment of some group; then
it has no more than all the segments outside of this group, and the check has shown that
these do not need the glyph (closures are monotone).

`PlainIsValid`: where nothing is moved and no patches are combined (`PlainRequest`),
everything passes, at any time. `PlainInv` says that the groups are filled (`IsFilled`):
every glyph has an entry or is unmapped; without the segments of any group of
an entry nothing brings the glyph (`Enough`); the tables before and after combination are one;
the groups by disjunction hold all the glyphs with the disjunction; what is unmapped
needs no segment, and the segments that give it are not enough (`IsLeftOver`). Conjunctive and
exclusive conditions are enough by what the analysis asks (`NeededIsEnough`), disjunctions
because `GroupGlyphs` asks for the closure of the others (`OrGroupFilled`), found ones
because a search ends with what is enough (`FoundFilled`). A merge keeps the entries that
name none of its segments: all its segments are then outside of each group, and the
closure of these is what it was (`EnoughAfterMerge`); `ModifiedGlyphs` finds all the
others (`MergeRegroupable`). A move breaks the former: a closure that was without the glyph
grows by the move while its own condition stays as it was (finding 3). Combined patches
break the latter: entries are taken out of the index that is asked (finding 4).

**What a merge coarsens.** `PlainMergesOnlyCoarsen` compares what a client loads
before and after a merge, again for plain requests, which stay plain
(`PlainIsKept`). Any segments define after the merge what the segments defined for which they
stand (`DefinesForMerged`); what the merged segments did for a glyph, needed or gave
it, the base does now (`BaseTakesPart`); and a client with the base has asked for all of
them (`StandsForFormer`). A condition may thereby change its kind: a disjunction between merged
segments becomes a need for the base. So the argument is about closures: if the glyph
now needs segments that the client has, a disjunction that brought it has one of them, else
the rest would bring it without the base (`NeededWasAskedFor`); if a segment of the
client gives it, the segments for which this one stands are not all outside of the
disjunction, which was enough (`GivenWasAskedFor`, by `Enough`). That is why the invariant also says
that a disjunction in use brings its glyph (`IsDisjunctionFor`), for the found
ones too, and why it must keep what is unmapped apart (`RestIsLeftOver`, `NotLeftOverByMerge`). The
attempt to prove this without the exception for found conditions is what showed it
to be false.

**The search for components.** `ComponentsInOrder` is about what has been found;
`SearchInv` says why the next one will be right. The stack and the path (`dfs`) have their
nodes in the order of their indices. Everything seen is on the stack or found, and what was
found leads to nothing but what was found earlier (`FoundInOrder`). A node of the path
leads to all above it on the stack, and each node of the stack leads back to one of the path
below it (`StackConnected`). So when the top of the path is left with its lowlink equal to its
index, what lies above it is connected; it remains to show that nothing there leads out.
That takes both sides of the lowlink: it is not lower than what can be reached on
the stack (`LowlinkReached`), else the root of a component would be overlooked, as when an
edge to a node already found lowers a lowlink; and it accounts for each edge
already seen of the nodes up to the next one of the path (`LowlinkCovers`), else a
component would be cut in two. `RootIsComponent` is this step; `LeaveUpdatesPath` shows that the minimum
handed to the caller covers both stretches of the stack.

Whether one node leads to another is stated without paths: it is in every closed set
that holds the first (`Leads`). This needs no induction over paths, only `LeadsOn` and
`LeadsAlongEdge`, and `ReachIsLeast` shows it to be the recursive `Reach` of the model.

**The traversal.** `NoEdgeForgotten` is inductive with the types, which say that what is
to do or put aside are edges of this phase and hence lead to nodes and to no code point out
of scope (`EdgesLeadToNodes`). Following an edge only adds to what is
visited, and a node counts as handled only when it is no longer among the next ones
(`Advances`). Two steps need an argument: an edge ignored for its code points stays ignored,
because whatever is reached later was in scope all the time (`IgnoredForGood`), and
`CheckPending`, a loop over a list that it rewrites, keeps each edge or follows
it (`CheckPendingAdvances`, by `RecursionKeeps` over the prefixes of the list).
`EveryPhaseIsComplete` is what the caller gets: the last pass over the list found
no new node, so every edge of a visited node is accounted for.

**Recursion.** The operators of the segmenter recurse over a loop's states
(`ExpandClosure`, `Completed`) or over a finite set (segments, glyphs, patches). A
recursive function of TLA+ is a `CHOOSE`: before its equation may be used, that a function
satisfies it has to be proved. `IterationExists` and `SetRecursionExists` (lemmas of `Recursion`) do this
once, the first also for loops which do not end. What a recursion returns is then
shown by `SmallestSubset`, a minimal counterexample, or by `RecursionKeeps`.

**Definitions.** What subsumption rests on: two ranges that meet have no point
between them, so the hull is met by exactly the ranges that meet one of the two
(`HullOfRanges`); the other fields are unions of sets, and the axes are treated
one by one. And what the compiler's edges rest on: `Subtract` leaves end points
behind and does not split ranges, yet a node with the remainder of a subset
is the node with the subset (`UnionWithRemainder`, by the cases of `subtract` on
one axis in `RangeRemainder`).

**The compiler and its fonts.** `PatchesApply` is about the client's font, but why it
holds was decided while the recursion of `Compile` was unwinding. Its invariants
build on each other:

* `Shape`: every call on the stack works on the edges and jumps of its own node, and each
  call has more than the one below it. A jump never leads to where it starts, because
  an edge offers only what the node does not have (`WhatRemains`, `GoodJumps`, from
  `UnionWithRemainder`). So no node is compiled while it is being compiled:
  `RecursionDescends`.
* `Works` adds `Good`: a patch is made from the results of the two ends of its jump (`PatchOK`);
  each jump has an id of its own, and the ids given are 1, 2, … without a gap (`IdsOK`);
  every design space has a patch set with a URL of its own (`SetsOK`); a font that is
  built has for each edge of its node an entry with the patches of its jumps
  (`BuiltOK`); a node that is built and no longer worked on has all its patches (`IsPatched`),
  and the call for one that is has all but those of the jumps left (`FrameOK`).
  The last two are why the code may stop at a node in `built_subsets_`: at the end no call
  is left, so nothing is without its patches. Nothing made is changed again (`Grows`),
  so a child's compilation disturbs none of this for the callers.
* `ClientOK`: the font of a client is the font of the node with its subset, but for the
  outlines (`FontIs`). A step takes it from one end of a jump to the other
  (`PatchLeads`). By then a patch fits whichever way the client came, since the
  tables a patch changes are decided by the node. `PatchesApply` follows by going along
  the jumps of the edge, `GlyphPatchesFit` from `SetsOK`.
* `Defaults`: under `DefaultsStay` every node's design space holds the default position of
  its axes. Then the default is the same in every space, which is all that `OutlinesMatch`
  needs of outlines that no patch replaces.
* `Fails`: each call left starts where the one before it ended (`LinkedFrame`), so "Base
  mismatch" is never met, and each edge has a jump, so no first patch of an empty list is
  read. What remains of `NoInternalError` is that two edges do not add the same subsets.
  This does not hold for every request (the run `compiler_overlap`), and
  `OnlyConflictsFail` says that nothing else goes wrong.

`FontImplementsExtension` maps the compiler's steps to stutters. A table keyed patch is
an `Extend`: the patch leads to the union with the first subsets of its edge, remainders
of extension subsets which the client asks for; with the remainder the
node has the whole subset. The client's end is a `Finish`: if it lacked something of a
subset it asks for, the edge of the remainder would match, and an entry would be left
(every edge has one).

**Model-checked only.** Of the segmenter: the half of `IncrementalIsExact` that is about
groups. For requests that are not plain, `SegmentationIsValid` and `ClosureRequirement`, which
do not hold for every font (findings 3 to 5), and `NoInternalError`, which needs that a group's
glyphs are exactly those with its condition after any number of combinations.
For requests that are not plain also `MergesOnlyCoarsen`; for all requests
`EveryIterationAdvances`. Of the finder: `FindsGlyphByGlyph`, a comparison of the queue with
a recursion for every order of tasks, and its end. `TypeOK` of the compiler and the client (`Shape` and `ClientOK` are their types as
far as the proofs need them). The graph of entries; that a
traversal is the closure (`TraversalIsClosure`, which compares recursions). The analysis by the
dependency graph and the tables use recursive operators, in which the prover has no
arithmetic. Termination is a variant checked by TLC or a property under
fairness; liveness and ENABLED are out of the prover's reach in any case.

## 6. The plan

Done: conditions, index, partition, condition set, closure analysis, groupings,
context, the segmenter's loop with all ways to handle unmapped glyphs and the plan
it returns, in the order in which one needs the other;
the entry graph, and the compiler with a client; the dependency graph, its walks and
the conditions it keeps; the complex condition finder; sparse bit sets and patch
map entries.

Next, most important first:

1. **Groupings made from the dependency graph's conditions**, so that the loop of the
   segmenter runs in all modes.
2. **Compiler, continued**: `config_compiler.cc` (a plan to segments, conditions
   and glyph data patches), `AddGlyphDataPatchCondition`, several conditions
   for one patch.
3. **Segmenter, continued**: ordering and pre-grouping of segments, the
   heuristic strategy.

Theorems to add: `NoInternalError` of the segmenter with moves and combined patches,
and `MergesOnlyCoarsen` of these; `EdgeCountsExact`;
`TypeOK` of `IncrementalFont`.

Not to be modelled: the byte layout of patches and of tables other than the
patch map's entries (differs, Brotli, woff2), configuration parsing, the tools,
probability and size estimates, which enter as choices.

## 7. Running

    tlc -workers 2 -config MCClosureGlyphSegmenter.cfg MCClosureGlyphSegmenter
    tlapm ContainerProofs.tla
