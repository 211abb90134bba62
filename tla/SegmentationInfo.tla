-------------------------- MODULE SegmentationInfo --------------------------
(***************************************************************************)
(* What is to be segmented: the font, the initial subset, the segments     *)
(* (ift/encoder/requested_segmentation_information.{h,cc}), and the        *)
(* analysis of a segment by glyph closures (glyph_closure_cache.{h,cc}).   *)
(*                                                                         *)
(* The glyph closure itself (HarfBuzz' subset plan on the Unicode closure  *)
(* of the codepoints) is a parameter, and so is the reverse character map. *)
(* A subset definition is a set of codepoints and a set of glyph ids; the  *)
(* layout features are among the codepoints, from which only ReassignInit  *)
(* tells them apart.  Left out: the design space, which no segment has     *)
(* (config/common.proto, SegmentProto), and the cache of closures: the     *)
(* closure is a function of the definition and entries never expire.       *)
(***************************************************************************)
EXTENDS ActivationConditions

CONSTANTS Codepoint,
          Feature,            \* the codepoints that stand for feature tags
          Glyph,              \* the glyph ids
          Font,
          Closure(_, _),      \* the glyphs a font needs for a definition
          FontCodepoints(_, _)    \* the codepoints a font maps to some glyphs

\* Unicode, and glyph ids of 16 bits
ASSUME FontAssumption == /\ IsFiniteSet(Codepoint) /\ IsFiniteSet(Glyph)
                         /\ Feature \subseteq Codepoint

Definition == [codepoints : SUBSET Codepoint, gids : SUBSET Glyph]

Plus(d, e) == [codepoints |-> d.codepoints \cup e.codepoints,
               gids       |-> d.gids \cup e.gids]
Minus(d, e) == [codepoints |-> d.codepoints \ e.codepoints,
                gids       |-> d.gids \ e.gids]
Codepoints(cps) == [codepoints |-> cps, gids |-> {}]

(***************************************************************************)
(* What the analysis needs to know of the closure: it contains the glyphs  *)
(* it is asked for, and it grows with the definition.                      *)
(***************************************************************************)
ASSUME ClosureAssumption ==
    \A f \in Font, d \in Definition :
        /\ Closure(f, d) \in SUBSET Glyph
        /\ d.gids \subseteq Closure(f, d)
        /\ \A c \in Codepoint : Closure(f, d) \subseteq
                                    Closure(f, Plus(d, Codepoints({c})))
        /\ \A g \in Glyph : Closure(f, d) \subseteq
                                Closure(f, [d EXCEPT !.gids = @ \cup {g}])

ASSUME CharacterMapAssumption ==
    \A f \in Font, gs \in SUBSET Glyph :
        FontCodepoints(f, gs) \in SUBSET (Codepoint \ Feature)

(***************************************************************************)
(* The definition, all the glyphs it needs, the codepoints of these glyphs *)
(* and so on (ExpandClosure).                                              *)
(***************************************************************************)
ExpandOnce(f, d) ==
    LET gs == Closure(f, d)
    IN  [codepoints |-> d.codepoints \cup FontCodepoints(f, gs),
         gids       |-> d.gids \cup gs]

ExpandClosure(f, d) ==
    LET expanded[e \in Definition] ==
            IF ExpandOnce(f, e) = e THEN e ELSE expanded[ExpandOnce(f, e)]
    IN  expanded[d]

-----------------------------------------------------------------------------
UnmappedGlyphHandling == {"PATCH", "MOVE_TO_INIT_FONT", "FIND_CONDITIONS"}

Info == [font : Font, segments : [Segment -> SUBSET Codepoint],
         init : Definition, full_definition : Definition,
         full_closure : SUBSET Glyph, disjoint : BOOLEAN,
         handling : UnmappedGlyphHandling]

NonInitFontGlyphs(info) == info.full_closure \ info.init.gids
NonEmptySegments(info) == {s \in Segment : info.segments[s] # {}}
Combined(info, ss) == Codepoints(UNION {info.segments[s] : s \in ss})
CombinedDefinition(info, ss) == Plus(Combined(info, ss), info.init)

(***************************************************************************)
(* A new initial subset takes its codepoints, though not its features, out *)
(* of all segments.                                                        *)
(* Mutation: the segments keep them.                                       *)
(***************************************************************************)
ReassignInitKeepsCodepoints(info, new_def) ==
    LET init == ExpandClosure(info.font, new_def)
        full == Plus(info.full_definition, init)
    IN  [info EXCEPT !.init = init, !.full_definition = full,
                     !.full_closure = Closure(info.font, full)]

ReassignInit(info, new_def) ==
    LET init == ExpandClosure(info.font, new_def)
        full == Plus(info.full_definition, init)
    IN  [info EXCEPT !.init = init,
                     !.full_definition = full,
                     !.full_closure = Closure(info.font, full),
                     !.segments =
                        [s \in Segment |-> @[s] \ (init.codepoints \ Feature)]]

SegmentsAreDisjoint(init, segments) ==
    /\ \A s \in Segment : segments[s] \cap init.codepoints = {}
    /\ \A s, t \in Segment : s # t => segments[s] \cap segments[t] = {}

CreateInfo(f, segments, init, handling) ==
    LET requested == [font |-> f, segments |-> segments,
                      init |-> Codepoints({}),
                      full_definition |->
                        Plus(init, Codepoints(UNION {segments[s] : s \in Segment})),
                      full_closure |-> {}, disjoint |-> FALSE,
                      handling |-> handling]
        info == ReassignInit(requested, init)
    IN  [info EXCEPT !.disjoint = SegmentsAreDisjoint(init, info.segments)]

(***************************************************************************)
(* The segments to_merge become part of base, and are empty from then on.  *)
(* Mutation: they keep their codepoints.                                   *)
(***************************************************************************)
MergeDefinitionsKeeps(info, base, to_merge) ==
    [info EXCEPT !.segments[base] =
        Combined(info, to_merge \cup {base}).codepoints]

MergeDefinitions(info, base, to_merge) ==
    [info EXCEPT !.segments =
        [s \in Segment |->
            IF s \in to_merge \ {base} THEN {}
            ELSE IF s = base THEN Combined(info, to_merge \cup {base}).codepoints
            ELSE @[s]]]

-----------------------------------------------------------------------------
(***************************************************************************)
(* Everything but the segments of ss.  For a few disjoint segments the     *)
(* code takes them out of the full definition; otherwise it collects the   *)
(* remaining ones.                                                         *)
(***************************************************************************)
ExceptSegments(info, ss) ==
    IF info.disjoint /\ (\/ Cardinality(ss) = 1
                         \/ Cardinality(ss) < Cardinality(Segment) \div 2)
    THEN Minus(info.full_definition, Combined(info, ss))
    ELSE CombinedDefinition(info, Segment \ ss)

(***************************************************************************)
(* How the segments of ss, taken as one, bear on each glyph: dropped       *)
(* without them, included by them, or both.                                *)
(***************************************************************************)
AnalyzeSegment(info, ss) ==
    LET dropped  == info.full_closure \
                        Closure(info.font, ExceptSegments(info, ss))
        included == Closure(info.font, CombinedDefinition(info, ss))
                        \ info.init.gids
    IN  IF ss = {}
        THEN [and |-> {}, or |-> {}, exclusive |-> {}]
        ELSE [and       |-> dropped \ included,
              or        |-> included \ dropped,
              exclusive |-> included \cap dropped]
=============================================================================
