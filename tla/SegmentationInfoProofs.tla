----------------------- MODULE SegmentationInfoProofs -----------------------
(***************************************************************************)
(* Facts about the closure of subset definitions, the segments and their   *)
(* analysis (SegmentationInfo), for every font with a monotone closure.    *)
(***************************************************************************)
EXTENDS SegmentationInfo, Recursion

-----------------------------------------------------------------------------
(***************************************************************************)
(* Facts about the closure.  ClosureAssumption adds one codepoint at a     *)
(* time: among the sets of further codepoints with which nothing is lost   *)
(* one that leaves the fewest out leaves none out.                         *)
(***************************************************************************)
LEMMA PlusType ==
  ASSUME NEW d \in Definition, NEW cps \in SUBSET Codepoint
  PROVE  /\ Plus(d, Codepoints(cps)) \in Definition
         /\ Plus(d, Codepoints(cps)).codepoints = d.codepoints \cup cps
         /\ Plus(d, Codepoints(cps)).gids = d.gids
BY DEF Plus, Codepoints, Definition

LEMMA ClosureMonotone ==
  ASSUME NEW f \in Font, NEW d \in Definition, NEW cps \in SUBSET Codepoint
  PROVE  Closure(f, d) \subseteq Closure(f, Plus(d, Codepoints(cps)))
<1> DEFINE with(left) == Plus(d, Codepoints(cps \ left))
           good == {left \in SUBSET cps : Closure(f, d) \subseteq Closure(f, with(left))}
           R == StrictSubsetOrdering(cps)
<1>1. IsWellFoundedOn(R, SUBSET cps)
  BY FontAssumption, FS_Subset, FS_StrictSubsetOrderingWellFounded,
     FS_FiniteSubsetsOfFinite
<1>2. good \subseteq SUBSET cps
  OBVIOUS
<1>3. cps \in good
  <2>1. with(cps) = d
    BY DEF Plus, Codepoints, Definition
  <2> QED BY <2>1
<1>4. PICK left \in good : \A y \in good : ~(<<y, left>> \in R)
  <2> HIDE DEF good, R
  <2> QED BY <1>1, <1>2, <1>3, WFMin
<1>5. left = {}
  <2> SUFFICES ASSUME NEW c \in left PROVE FALSE
    OBVIOUS
  <2>1. left \ {c} \in SUBSET cps /\ c \in Codepoint
    BY <1>2, <1>4
  <2>2. Plus(with(left), Codepoints({c})) = with(left \ {c})
    BY <2>1 DEF Plus, Codepoints
  <2>3. with(left) \in Definition
    BY PlusType
  <2>4. Closure(f, with(left)) \subseteq Closure(f, with(left \ {c}))
    BY <2>1, <2>2, <2>3, ClosureAssumption
  <2>5. left \ {c} \in good
    BY <1>4, <2>1, <2>4
  <2>6. <<left \ {c}, left>> \in R
    BY <1>2, <1>4, <2>1 DEF StrictSubsetOrdering
  <2> QED BY <1>4, <2>5, <2>6
<1>6. with({}) = Plus(d, Codepoints(cps))
  OBVIOUS
<1> QED BY <1>4, <1>5, <1>6

LEMMA ClosureOfGlyphs ==
  ASSUME NEW f \in Font, NEW d \in Definition, NEW gs \in SUBSET Glyph
  PROVE  Closure(f, d) \subseteq Closure(f, [d EXCEPT !.gids = @ \cup gs])
<1> DEFINE with(left) == [d EXCEPT !.gids = @ \cup (gs \ left)]
           good == {left \in SUBSET gs : Closure(f, d) \subseteq Closure(f, with(left))}
<1>1. IsFiniteSet(gs)
  BY FontAssumption, FS_Subset
<1>2. gs \in good
  <2>1. with(gs) = d
    BY DEF Definition
  <2> QED BY <2>1
<1>3. PICK left \in good : \A y \in good : y \subseteq left => y = left
  <2>1. good \in SUBSET (SUBSET gs) /\ good # {}
    BY <1>2
  <2> HIDE DEF good
  <2> QED BY <1>1, <2>1, SmallestSubset
<1>4. left \in SUBSET gs
  OBVIOUS
<1>5. left = {}
  <2> SUFFICES ASSUME NEW g \in left PROVE FALSE
    OBVIOUS
  <2>1. left \ {g} \in SUBSET gs /\ g \in Glyph
    BY <1>4
  <2>2. d.gids \cup (gs \ (left \ {g})) = (d.gids \cup (gs \ left)) \cup {g}
    BY <1>4
  <2>3. with(left) \in Definition /\ with(left).gids = d.gids \cup (gs \ left)
    BY DEF Definition
  <2>4. [with(left) EXCEPT !.gids = @ \cup {g}] = with(left \ {g})
    BY <2>2, <2>3 DEF Definition
  <2>5. Closure(f, with(left)) \subseteq Closure(f, with(left \ {g}))
    BY <2>1, <2>3, <2>4, ClosureAssumption
  <2>6. left \ {g} \in good
    BY <1>3, <2>1, <2>5
  <2>7. left \ {g} = left
    <3> HIDE DEF good
    <3> QED BY <1>3, <2>6
  <2> QED BY <2>7
<1>6. with({}) = [d EXCEPT !.gids = @ \cup gs]
  OBVIOUS
<1> QED BY <1>3, <1>5, <1>6

LEMMA ClosureGrows ==
  ASSUME NEW f \in Font, NEW d \in Definition, NEW e \in Definition,
         d.codepoints \subseteq e.codepoints, d.gids \subseteq e.gids
  PROVE  Closure(f, d) \subseteq Closure(f, e)
<1> DEFINE x == Plus(d, Codepoints(e.codepoints))
<1>1. e.codepoints \in SUBSET Codepoint /\ e.gids \in SUBSET Glyph
  BY DEF Definition
<1>2. x \in Definition /\ x.codepoints = e.codepoints /\ x.gids = d.gids
  <2>1. d.codepoints \cup e.codepoints = e.codepoints
    OBVIOUS
  <2> QED BY <1>1, <2>1, PlusType
<1>3. Closure(f, d) \subseteq Closure(f, x)
  BY <1>1, ClosureMonotone
<1> HIDE DEF x
<1>4. Closure(f, x) \subseteq Closure(f, [x EXCEPT !.gids = @ \cup e.gids])
  BY <1>1, <1>2, ClosureOfGlyphs
<1>5. [x EXCEPT !.gids = @ \cup e.gids] = e
  BY <1>2 DEF Definition
<1> QED BY <1>3, <1>4, <1>5

LEMMA CombinedType ==
  ASSUME NEW i \in Info, NEW ss \in SUBSET Segment
  PROVE  /\ CombinedDefinition(i, ss) \in Definition
         /\ CombinedDefinition(i, ss).codepoints =
               (UNION {i.segments[s] : s \in ss}) \cup i.init.codepoints
         /\ CombinedDefinition(i, ss).gids = i.init.gids
<1> DEFINE cps == UNION {i.segments[s] : s \in ss}
<1>1. i.init \in Definition /\ i.segments \in [Segment -> SUBSET Codepoint]
  BY DEF Info
<1>2. cps \subseteq Codepoint
  BY <1>1
<1> HIDE DEF cps
<1>3. CombinedDefinition(i, ss) = [codepoints |-> cps \cup i.init.codepoints,
                                  gids |-> {} \cup i.init.gids]
  BY DEF CombinedDefinition, Combined, Plus, Codepoints, cps
<1>4. i.init.codepoints \subseteq Codepoint /\ i.init.gids \subseteq Glyph
  BY <1>1 DEF Definition
<1>5. CombinedDefinition(i, ss) \in Definition
  BY <1>2, <1>3, <1>4 DEF Definition
<1>6. CombinedDefinition(i, ss).codepoints = cps \cup i.init.codepoints
  BY <1>3
<1>7. CombinedDefinition(i, ss).gids = i.init.gids
  BY <1>3
<1>8. CombinedDefinition(i, ss).codepoints =
         (UNION {i.segments[s] : s \in ss}) \cup i.init.codepoints
  BY <1>6 DEF cps
<1> QED BY <1>5, <1>7, <1>8

(***************************************************************************)
(* More segments bring more glyphs, and empty segments bring nothing.      *)
(***************************************************************************)
LEMMA BringsMonotone ==
  ASSUME NEW i \in Info, NEW ss \in SUBSET Segment, NEW tt \in SUBSET Segment,
         ss \cap NonEmptySegments(i) \subseteq tt
  PROVE  Closure(i.font, CombinedDefinition(i, ss))
            \subseteq Closure(i.font, CombinedDefinition(i, tt))
<1> DEFINE d == CombinedDefinition(i, ss)
           e == CombinedDefinition(i, tt)
<1>1. /\ d \in Definition /\ e \in Definition
      /\ d.codepoints = (UNION {i.segments[s] : s \in ss}) \cup i.init.codepoints
      /\ e.codepoints = (UNION {i.segments[s] : s \in tt}) \cup i.init.codepoints
      /\ d.gids = e.gids
  BY CombinedType
<1>2. d.codepoints \subseteq e.codepoints
  <2> SUFFICES ASSUME NEW s \in ss, NEW c \in i.segments[s]
               PROVE  c \in UNION {i.segments[t] : t \in tt}
    BY <1>1
  <2>1. s \in tt
    BY DEF NonEmptySegments
  <2> QED BY <2>1
<1> HIDE DEF d, e
<1>3. Plus(d, Codepoints(e.codepoints)) = e
  BY <1>1, <1>2 DEF Plus, Codepoints, Definition
<1>4. i.font \in Font /\ e.codepoints \in SUBSET Codepoint
  BY <1>1 DEF Info, Definition
<1>5. Closure(i.font, d) \subseteq Closure(i.font, e)
  BY <1>1, <1>3, <1>4, ClosureMonotone
<1> QED BY <1>5 DEF d, e

(***************************************************************************)
(* ExpandClosure ends with a definition that has all it implies: every     *)
(* round adds a codepoint or a glyph, and none a feature.                  *)
(***************************************************************************)
LEMMA ExpandOnceGrows ==
  ASSUME NEW f \in Font, NEW d \in Definition
  PROVE  /\ ExpandOnce(f, d) \in Definition
         /\ d.codepoints \subseteq ExpandOnce(f, d).codepoints
         /\ d.gids \subseteq ExpandOnce(f, d).gids
         /\ ExpandOnce(f, d).codepoints \cap Feature = d.codepoints \cap Feature
<1>1. Closure(f, d) \in SUBSET Glyph
  BY ClosureAssumption
<1>2. FontCodepoints(f, Closure(f, d)) \in SUBSET (Codepoint \ Feature)
  BY <1>1, CharacterMapAssumption
<1> QED BY <1>1, <1>2 DEF ExpandOnce, Definition

LEMMA ExpandClosureEquation ==
  ASSUME NEW f \in Font
  PROVE  \E h : /\ h = [e \in Definition |->
                          IF ExpandOnce(f, e) = e THEN e ELSE h[ExpandOnce(f, e)]]
                /\ \A d : ExpandClosure(f, d) = h[d]
<1> DEFINE expanded[e \in Definition] ==
              IF ExpandOnce(f, e) = e THEN e ELSE expanded[ExpandOnce(f, e)]
           Sol(h) == h = [e \in Definition |->
                            IF ExpandOnce(f, e) = e THEN e ELSE h[ExpandOnce(f, e)]]
           next == [e \in Definition |-> ExpandOnce(f, e)]
           out == [e \in Definition |-> e]
           stop == {e \in Definition : ExpandOnce(f, e) = e}
<1>1. expanded = CHOOSE h : Sol(h)
  OBVIOUS
<1>2. /\ next \in [Definition -> Definition]
      /\ out \in [Definition -> Definition]
      /\ stop \in SUBSET Definition
  BY ExpandOnceGrows
<1> HIDE DEF expanded
<1>3. PICK h \in [Definition -> Definition] :
         \A e \in Definition : h[e] = IF e \in stop THEN out[e] ELSE h[next[e]]
  <2> DEFINE D == Definition
  <2>1. next \in [D -> D] /\ out \in [D -> D] /\ stop \in SUBSET D
    BY <1>2
  <2> HIDE DEF next, out, stop, D
  <2>2. \E h \in [D -> D] : IsIteration(h, D, stop, next, out)
    BY <2>1, IterationExists
  <2> QED BY <2>2 DEF D, IsIteration
<1>4. Sol(h)
  BY <1>3
<1> HIDE DEF Sol
<1>5. Sol(expanded)
  BY <1>1, <1>4
<1>6. \A d : ExpandClosure(f, d) = expanded[d]
  BY DEF ExpandClosure, expanded
<1> QED BY <1>5, <1>6 DEF Sol

LEMMA ExpandClosureEnds ==
  ASSUME NEW f \in Font, NEW d \in Definition
  PROVE  /\ ExpandClosure(f, d) \in Definition
         /\ d.codepoints \subseteq ExpandClosure(f, d).codepoints
         /\ d.gids \subseteq ExpandClosure(f, d).gids
         /\ ExpandOnce(f, ExpandClosure(f, d)) = ExpandClosure(f, d)
         /\ ExpandClosure(f, d).codepoints \cap Feature = d.codepoints \cap Feature
<1>1. PICK h : /\ h = [e \in Definition |->
                          IF ExpandOnce(f, e) = e THEN e ELSE h[ExpandOnce(f, e)]]
               /\ \A e : ExpandClosure(f, e) = h[e]
  BY ExpandClosureEquation
<1> DEFINE ended(e) == /\ h[e] \in Definition
                       /\ e.codepoints \subseteq h[e].codepoints
                       /\ e.gids \subseteq h[e].gids
                       /\ ExpandOnce(f, h[e]) = h[e]
                       /\ h[e].codepoints \cap Feature = e.codepoints \cap Feature
           U == ({0} \X Codepoint) \cup ({1} \X Glyph)
           left(e) == ({0} \X (Codepoint \ e.codepoints))
                         \cup ({1} \X (Glyph \ e.gids))
           bad == {left(e) : e \in {x \in Definition : ~ended(x)}}
<1>2. ASSUME NEW e \in Definition, ~ended(e)
      PROVE  /\ ExpandOnce(f, e) \in Definition /\ ~ended(ExpandOnce(f, e))
             /\ left(ExpandOnce(f, e)) \subseteq left(e)
             /\ left(ExpandOnce(f, e)) # left(e)
  <2> DEFINE x == ExpandOnce(f, e)
  <2>1. /\ x \in Definition
        /\ e.codepoints \subseteq x.codepoints
        /\ e.gids \subseteq x.gids
        /\ x.codepoints \cap Feature = e.codepoints \cap Feature
    BY ExpandOnceGrows
  <2>2. x # e
    <3> SUFFICES ASSUME x = e PROVE FALSE
      OBVIOUS
    <3>1. h[e] = e
      BY <1>1
    <3> QED BY <1>2, <3>1
  <2>3. h[e] = h[x]
    BY <1>1, <2>2
  <2>4. ~ended(x)
    <3> HIDE DEF x
    <3> QED BY <1>2, <2>1, <2>3
  <2>5. \/ \E c \in Codepoint : c \in x.codepoints /\ c \notin e.codepoints
        \/ \E g \in Glyph : g \in x.gids /\ g \notin e.gids
    <3> HIDE DEF x
    <3> QED BY <2>1, <2>2 DEF Definition
  <2>6. left(x) \subseteq left(e)
    <3> HIDE DEF x
    <3> QED BY <2>1
  <2>7. left(x) # left(e)
    <3> HIDE DEF x
    <3>1. ASSUME NEW c \in Codepoint, c \in x.codepoints, c \notin e.codepoints
          PROVE  <<0, c>> \in left(e) /\ <<0, c>> \notin left(x)
      BY <3>1
    <3>2. ASSUME NEW g \in Glyph, g \in x.gids, g \notin e.gids
          PROVE  <<1, g>> \in left(e) /\ <<1, g>> \notin left(x)
      BY <3>2
    <3> HIDE DEF left
    <3> QED BY <2>5, <3>1, <3>2
  <2> QED BY <2>1, <2>4, <2>6, <2>7
<1>3. IsFiniteSet(U)
  BY FontAssumption, FS_Singleton, FS_Product, FS_Union
<1>4. bad \in SUBSET (SUBSET U)
  <2>1. \A e \in Definition : left(e) \in SUBSET U
    OBVIOUS
  <2> HIDE DEF left, U, ended
  <2> QED BY <2>1
<1>5. bad = {}
  <2> HIDE DEF left, ended, U
  <2> SUFFICES ASSUME bad # {} PROVE FALSE
    OBVIOUS
  <2>1. PICK T \in bad : \A V \in bad : V \subseteq T => V = T
    <3> HIDE DEF bad
    <3> QED BY <1>3, <1>4, SmallestSubset
  <2>2. PICK e \in Definition : ~ended(e) /\ T = left(e)
    BY <2>1
  <2>3. left(ExpandOnce(f, e)) \in bad
    BY <1>2, <2>2
  <2> QED BY <1>2, <2>1, <2>2, <2>3
<1>6. ended(d)
  <2> HIDE DEF left, ended
  <2> QED BY <1>5
<1> QED BY <1>1, <1>6

LEMMA ExpandedAlready ==
  ASSUME NEW f \in Font, NEW d \in Definition, ExpandOnce(f, d) = d
  PROVE  ExpandClosure(f, d) = d
<1>1. PICK h : /\ h = [e \in Definition |->
                          IF ExpandOnce(f, e) = e THEN e ELSE h[ExpandOnce(f, e)]]
               /\ \A e : ExpandClosure(f, e) = h[e]
  BY ExpandClosureEquation
<1>2. h[d] = d
  BY <1>1
<1> QED BY <1>1, <1>2

-----------------------------------------------------------------------------
(***************************************************************************)
(* What the operations keep of the information on the segments.            *)
(***************************************************************************)
InfoOK(i) ==
    /\ i \in Info
    /\ i.full_definition = CombinedDefinition(i, Segment)
    /\ i.full_closure = Closure(i.font, i.full_definition)
    /\ \A s \in Segment : i.segments[s] \cap (i.init.codepoints \ Feature) = {}
    /\ i.disjoint => SegmentsAreDisjoint(i.init, i.segments)
    /\ ExpandOnce(i.font, i.init) = i.init

LEMMA SameDefinition ==
  ASSUME NEW d \in Definition, NEW e \in Definition,
         d.codepoints = e.codepoints, d.gids = e.gids
  PROVE  d = e
BY DEF Definition

LEMMA ReassignInitFields ==
  ASSUME NEW i \in Info, NEW def \in Definition
  PROVE  LET r == ReassignInit(i, def)
             e == ExpandClosure(i.font, def)
         IN  /\ r \in Info
             /\ e \in Definition
             /\ r.font = i.font /\ r.disjoint = i.disjoint /\ r.handling = i.handling
             /\ r.init = e
             /\ r.full_definition = Plus(i.full_definition, e)
             /\ r.full_closure = Closure(i.font, r.full_definition)
             /\ \A s \in Segment :
                   r.segments[s] = i.segments[s] \ (e.codepoints \ Feature)
<1> DEFINE r == ReassignInit(i, def)
           e == ExpandClosure(i.font, def)
           full == Plus(i.full_definition, e)
<1>1. i.font \in Font /\ i.full_definition \in Definition
      /\ i.segments \in [Segment -> SUBSET Codepoint]
  BY DEF Info
<1>2. e \in Definition
  BY <1>1, ExpandClosureEnds
<1>3. r = [i EXCEPT !.init = e, !.full_definition = full,
                    !.full_closure = Closure(i.font, full),
                    !.segments = [s \in Segment |->
                                    i.segments[s] \ (e.codepoints \ Feature)]]
  BY DEF ReassignInit
<1> HIDE DEF e, r
<1>4. full \in Definition
  BY <1>1, <1>2 DEF Plus, Definition
<1> HIDE DEF full
<1>5. Closure(i.font, full) \in SUBSET Glyph
  BY <1>1, <1>4, ClosureAssumption
<1>6. [s \in Segment |-> i.segments[s] \ (e.codepoints \ Feature)]
         \in [Segment -> SUBSET Codepoint]
  BY <1>1
<1>7. r \in Info
  BY <1>2, <1>3, <1>4, <1>5, <1>6 DEF Info
<1>8. /\ r.font = i.font /\ r.disjoint = i.disjoint /\ r.handling = i.handling
      /\ r.init = e
      /\ r.full_definition = full
      /\ r.full_closure = Closure(i.font, full)
      /\ r.segments = [s \in Segment |-> i.segments[s] \ (e.codepoints \ Feature)]
  BY <1>3 DEF Info
<1>9. \A s \in Segment : r.segments[s] = i.segments[s] \ (e.codepoints \ Feature)
  BY <1>8
<1> QED BY <1>2, <1>7, <1>8, <1>9 DEF r, e, full

(***************************************************************************)
(* The segments and the initial subset make up the full definition again   *)
(* when the old definition is that of the segments and of a part of the    *)
(* new initial subset.  The features of the new initial subset stay in the *)
(* segments, so that disjoint segments must have none of them.             *)
(***************************************************************************)
LEMMA ReassignInitOK ==
  ASSUME NEW i \in Info, NEW def \in Definition,
         NEW part \in Definition,
         part.codepoints \subseteq def.codepoints, part.gids \subseteq def.gids,
         i.full_definition.codepoints =
             (UNION {i.segments[s] : s \in Segment}) \cup part.codepoints,
         i.full_definition.gids = part.gids,
         i.disjoint => \A s, t \in Segment :
                           s # t => i.segments[s] \cap i.segments[t] = {},
         i.disjoint => \A s \in Segment :
                           i.segments[s] \cap (def.codepoints \cap Feature) = {}
  PROVE  InfoOK(ReassignInit(i, def))
<1> DEFINE r == ReassignInit(i, def)
           e == ExpandClosure(i.font, def)
           all == CombinedDefinition(r, Segment)
<1>1. /\ r \in Info
      /\ e \in Definition
      /\ r.font = i.font /\ r.disjoint = i.disjoint
      /\ r.init = e
      /\ r.full_definition = Plus(i.full_definition, e)
      /\ r.full_closure = Closure(i.font, r.full_definition)
      /\ \A s \in Segment : r.segments[s] = i.segments[s] \ (e.codepoints \ Feature)
  BY ReassignInitFields
<1>2. /\ def.codepoints \subseteq e.codepoints
      /\ def.gids \subseteq e.gids
      /\ ExpandOnce(i.font, e) = e
      /\ e.codepoints \cap Feature = def.codepoints \cap Feature
  BY ExpandClosureEnds DEF Info
<1> HIDE DEF e, r
<1>3. /\ all \in Definition
      /\ all.codepoints = (UNION {r.segments[s] : s \in Segment}) \cup e.codepoints
      /\ all.gids = e.gids
  BY <1>1, CombinedType
<1>4. r.full_definition \in Definition
  BY <1>1 DEF Info
<1>5. r.full_definition.codepoints =
         (UNION {i.segments[s] : s \in Segment}) \cup e.codepoints
  <2>1. r.full_definition.codepoints = i.full_definition.codepoints \cup e.codepoints
    BY <1>1 DEF Plus
  <2> DEFINE U == UNION {i.segments[s] : s \in Segment}
  <2>2. i.full_definition.codepoints = U \cup part.codepoints
    OBVIOUS
  <2> HIDE DEF U
  <2>3. part.codepoints \subseteq e.codepoints
    BY <1>2
  <2>4. r.full_definition.codepoints = U \cup e.codepoints
    BY <2>1, <2>2, <2>3
  <2> QED BY <2>4 DEF U
<1>6. (UNION {r.segments[s] : s \in Segment}) \cup e.codepoints
         = (UNION {i.segments[s] : s \in Segment}) \cup e.codepoints
  BY <1>1
<1>7. r.full_definition.gids = e.gids
  BY <1>1, <1>2 DEF Plus
<1>8. r.full_definition = all
  BY <1>3, <1>4, <1>5, <1>6, <1>7, SameDefinition
<1>9. \A s \in Segment : r.segments[s] \cap (r.init.codepoints \ Feature) = {}
  BY <1>1
<1>10. r.disjoint => SegmentsAreDisjoint(r.init, r.segments)
  <2> SUFFICES ASSUME i.disjoint PROVE SegmentsAreDisjoint(r.init, r.segments)
    BY <1>1
  <2>1. ASSUME NEW s \in Segment PROVE r.segments[s] \cap r.init.codepoints = {}
    <3>1. i.segments[s] \cap (e.codepoints \cap Feature) = {}
      BY <1>2
    <3> QED BY <1>1, <1>9, <3>1
  <2>2. ASSUME NEW s \in Segment, NEW t \in Segment, s # t
        PROVE  r.segments[s] \cap r.segments[t] = {}
    BY <1>1, <2>2
  <2> QED BY <2>1, <2>2 DEF SegmentsAreDisjoint
<1> QED BY <1>1, <1>2, <1>8, <1>9, <1>10 DEF InfoOK, r

LEMMA MovedInfoOK ==
  ASSUME NEW i, InfoOK(i), NEW def \in Definition,
         i.init.codepoints \subseteq def.codepoints, i.init.gids \subseteq def.gids,
         def.codepoints \cap Feature \subseteq i.init.codepoints
  PROVE  InfoOK(ReassignInit(i, def))
<1>1. i \in Info /\ i.init \in Definition
  BY DEF InfoOK, Info
<1>2. i.full_definition = CombinedDefinition(i, Segment)
  BY DEF InfoOK
<1>3. /\ i.full_definition.codepoints =
            (UNION {i.segments[s] : s \in Segment}) \cup i.init.codepoints
      /\ i.full_definition.gids = i.init.gids
  BY <1>1, <1>2, CombinedType
<1>4. i.disjoint => \A s, t \in Segment :
                        s # t => i.segments[s] \cap i.segments[t] = {}
  BY DEF InfoOK, SegmentsAreDisjoint
<1>5. i.disjoint => \A s \in Segment :
                        i.segments[s] \cap (def.codepoints \cap Feature) = {}
  BY DEF InfoOK, SegmentsAreDisjoint
<1> QED BY <1>1, <1>3, <1>4, <1>5, ReassignInitOK

LEMMA CreatedInfoOK ==
  ASSUME NEW f \in Font, NEW segments \in [Segment -> SUBSET Codepoint],
         NEW init \in Definition, NEW handling \in UnmappedGlyphHandling
  PROVE  LET i == CreateInfo(f, segments, init, handling)
         IN  /\ InfoOK(i)
             /\ i.font = f /\ i.handling = handling
             /\ i.init = ExpandClosure(f, init)
             /\ \A s \in Segment :
                   i.segments[s] =
                       segments[s] \ (ExpandClosure(f, init).codepoints \ Feature)
<1> DEFINE U == UNION {segments[s] : s \in Segment}
           requested == [font |-> f, segments |-> segments,
                         init |-> Codepoints({}),
                         full_definition |-> Plus(init, Codepoints(U)),
                         full_closure |-> {}, disjoint |-> FALSE,
                         handling |-> handling]
           r == ReassignInit(requested, init)
           i == CreateInfo(f, segments, init, handling)
<1>1. U \subseteq Codepoint
  OBVIOUS
<1>2. i = [r EXCEPT !.disjoint = SegmentsAreDisjoint(init, r.segments)]
  BY DEF CreateInfo
<1> HIDE DEF U
<1>3. requested \in Info
  <2>1. Codepoints({}) \in Definition
    BY DEF Codepoints, Definition
  <2>2. Plus(init, Codepoints(U)) \in Definition
    BY <1>1, PlusType
  <2> QED BY <2>1, <2>2 DEF Info
<1>4. /\ requested.segments = segments /\ requested.font = f
      /\ requested.disjoint = FALSE /\ requested.handling = handling
      /\ requested.full_definition.codepoints = U \cup init.codepoints
      /\ requested.full_definition.gids = init.gids
  BY DEF Plus, Codepoints, Definition
<1>5. InfoOK(r)
  <2> HIDE DEF requested
  <2>1. requested.full_definition.codepoints =
           (UNION {requested.segments[s] : s \in Segment}) \cup init.codepoints
    BY <1>4 DEF U
  <2> QED BY <1>3, <1>4, <2>1, ReassignInitOK
<1>6. /\ r.font = f /\ r.handling = handling /\ r.disjoint = FALSE
      /\ r.init = ExpandClosure(f, init)
      /\ \A s \in Segment :
            r.segments[s] = segments[s] \ (ExpandClosure(f, init).codepoints \ Feature)
  <2> HIDE DEF requested
  <2> QED BY <1>3, <1>4, ReassignInitFields
<1> HIDE DEF r, i
<1>7. r \in Info
  BY <1>5 DEF InfoOK
<1>8. /\ i \in Info
      /\ i.font = r.font /\ i.segments = r.segments /\ i.init = r.init
      /\ i.full_definition = r.full_definition /\ i.full_closure = r.full_closure
      /\ i.handling = r.handling
      /\ i.disjoint = SegmentsAreDisjoint(init, r.segments)
  <2>1. SegmentsAreDisjoint(init, r.segments) \in BOOLEAN
    BY DEF SegmentsAreDisjoint
  <2> QED BY <1>2, <1>7, <2>1 DEF Info
<1>9. CombinedDefinition(i, Segment) = CombinedDefinition(r, Segment)
  BY <1>8 DEF CombinedDefinition, Combined
<1>10. i.disjoint => SegmentsAreDisjoint(i.init, i.segments)
  <2>1. r.init.codepoints \cap Feature = init.codepoints \cap Feature
    BY <1>6, ExpandClosureEnds
  <2>2. \A s \in Segment : r.segments[s] \cap (r.init.codepoints \ Feature) = {}
    BY <1>5 DEF InfoOK
  <2> QED BY <1>8, <2>1, <2>2 DEF SegmentsAreDisjoint
<1>11. InfoOK(i)
  BY <1>5, <1>8, <1>9, <1>10 DEF InfoOK
<1> QED BY <1>6, <1>8, <1>11 DEF i

(***************************************************************************)
(* A merge leaves the union of the merged segments as it was, and all      *)
(* other segments.                                                         *)
(***************************************************************************)
LEMMA MergedFields ==
  ASSUME NEW i \in Info, NEW base \in Segment, NEW to_merge \in SUBSET Segment
  PROVE  LET m == MergeDefinitions(i, base, to_merge)
         IN  /\ m \in Info
             /\ m.font = i.font /\ m.init = i.init /\ m.disjoint = i.disjoint
             /\ m.handling = i.handling
             /\ m.full_definition = i.full_definition
             /\ m.full_closure = i.full_closure
             /\ m.segments[base] = UNION {i.segments[t] : t \in to_merge \cup {base}}
             /\ \A s \in to_merge \ {base} : m.segments[s] = {}
             /\ \A s \in Segment \ (to_merge \cup {base}) :
                   m.segments[s] = i.segments[s]
<1> DEFINE all == Combined(i, to_merge \cup {base}).codepoints
           m == MergeDefinitions(i, base, to_merge)
           segments == [s \in Segment |->
                           IF s \in to_merge \ {base} THEN {}
                           ELSE IF s = base THEN all ELSE i.segments[s]]
<1>1. m = [i EXCEPT !.segments = segments]
  BY DEF MergeDefinitions
<1>2. all = UNION {i.segments[t] : t \in to_merge \cup {base}}
  BY DEF Combined, Codepoints
<1>3. i.segments \in [Segment -> SUBSET Codepoint]
  BY DEF Info
<1>4. all \subseteq Codepoint
  BY <1>2, <1>3
<1> HIDE DEF all, m
<1>5. segments \in [Segment -> SUBSET Codepoint]
  BY <1>3, <1>4
<1>6. /\ segments[base] = all
      /\ \A s \in to_merge \ {base} : segments[s] = {}
      /\ \A s \in Segment \ (to_merge \cup {base}) : segments[s] = i.segments[s]
  OBVIOUS
<1> HIDE DEF segments
<1>7. /\ m \in Info
      /\ m.font = i.font /\ m.init = i.init /\ m.disjoint = i.disjoint
      /\ m.handling = i.handling
      /\ m.full_definition = i.full_definition
      /\ m.full_closure = i.full_closure
      /\ m.segments = segments
  BY <1>1, <1>5 DEF Info
<1> QED BY <1>2, <1>6, <1>7 DEF m

LEMMA MergedDefinition ==
  ASSUME NEW i \in Info, NEW base \in Segment, NEW to_merge \in SUBSET Segment,
         NEW T \in SUBSET Segment
  PROVE  CombinedDefinition(MergeDefinitions(i, base, to_merge), T)
            = CombinedDefinition(i, IF base \in T THEN T \cup to_merge ELSE T \ to_merge)
<1> DEFINE m == MergeDefinitions(i, base, to_merge)
           V == IF base \in T THEN T \cup to_merge ELSE T \ to_merge
           d == CombinedDefinition(m, T)
           e == CombinedDefinition(i, V)
<1>1. /\ m \in Info /\ m.init = i.init
      /\ m.segments[base] = UNION {i.segments[t] : t \in to_merge \cup {base}}
      /\ \A s \in to_merge \ {base} : m.segments[s] = {}
      /\ \A s \in Segment \ (to_merge \cup {base}) : m.segments[s] = i.segments[s]
  BY MergedFields
<1> HIDE DEF m
<1>2. V \in SUBSET Segment
  OBVIOUS
<1>3. V = IF base \in T THEN T \cup to_merge ELSE T \ to_merge
  OBVIOUS
<1> HIDE DEF V
<1>4. /\ d \in Definition /\ e \in Definition
      /\ d.codepoints = (UNION {m.segments[s] : s \in T}) \cup i.init.codepoints
      /\ e.codepoints = (UNION {i.segments[s] : s \in V}) \cup i.init.codepoints
      /\ d.gids = e.gids
  BY <1>1, <1>2, CombinedType
<1>5. UNION {m.segments[s] : s \in T} = UNION {i.segments[s] : s \in V}
  <2>1. ASSUME NEW s \in T, NEW c \in m.segments[s]
        PROVE  \E t \in V : c \in i.segments[t]
    <3>1. CASE s = base
      <4>1. PICK t \in to_merge \cup {base} : c \in i.segments[t]
        BY <1>1, <2>1, <3>1
      <4> QED BY <1>3, <3>1, <4>1
    <3>2. CASE s # base
      BY <1>1, <1>3, <2>1, <3>2
    <3> QED BY <3>1, <3>2
  <2>2. ASSUME NEW t \in V, NEW c \in i.segments[t]
        PROVE  \E s \in T : c \in m.segments[s]
    <3>1. CASE t \in to_merge \cup {base}
      <4>1. base \in T
        BY <1>3, <3>1
      <4>2. c \in m.segments[base]
        BY <1>1, <2>2, <3>1
      <4> QED BY <4>1, <4>2
    <3>2. CASE t \notin to_merge \cup {base}
      <4>1. t \in T /\ m.segments[t] = i.segments[t]
        BY <1>1, <1>3, <3>2
      <4> QED BY <2>2, <4>1
    <3> QED BY <3>1, <3>2
  <2> QED BY <2>1, <2>2
<1>6. d = e
  BY <1>4, <1>5, SameDefinition
<1> QED BY <1>6 DEF m, V

LEMMA MergedInfoOK ==
  ASSUME NEW i, InfoOK(i), NEW base \in Segment, NEW to_merge \in SUBSET Segment
  PROVE  InfoOK(MergeDefinitions(i, base, to_merge))
<1> DEFINE m == MergeDefinitions(i, base, to_merge)
           M == to_merge \cup {base}
<1>0. i \in Info
  BY DEF InfoOK
<1>1. /\ m \in Info
      /\ m.font = i.font /\ m.init = i.init /\ m.disjoint = i.disjoint
      /\ m.full_definition = i.full_definition
      /\ m.full_closure = i.full_closure
      /\ m.segments[base] = UNION {i.segments[t] : t \in M}
      /\ \A s \in to_merge \ {base} : m.segments[s] = {}
      /\ \A s \in Segment \ M : m.segments[s] = i.segments[s]
  BY <1>0, MergedFields
<1>2. CombinedDefinition(m, Segment) = CombinedDefinition(i, Segment)
  <2> HIDE DEF M
  <2>1. CombinedDefinition(m, Segment)
           = CombinedDefinition(i, IF base \in Segment THEN Segment \cup to_merge
                                   ELSE Segment \ to_merge)
    BY <1>0, MergedDefinition
  <2>2. Segment \cup to_merge = Segment
    OBVIOUS
  <2> HIDE DEF m
  <2> QED BY <2>1, <2>2
<1> HIDE DEF m
<1>3. ASSUME NEW s \in Segment
      PROVE  /\ m.segments[s] \cap (m.init.codepoints \ Feature) = {}
             /\ m.disjoint => m.segments[s] \cap m.init.codepoints = {}
  <2>1. \A t \in Segment :
           /\ i.segments[t] \cap (i.init.codepoints \ Feature) = {}
           /\ i.disjoint => i.segments[t] \cap i.init.codepoints = {}
    BY DEF InfoOK, SegmentsAreDisjoint
  <2>2. CASE s \in to_merge \ {base}
    BY <1>1, <2>2
  <2>3. CASE s = base
    BY <1>1, <2>1, <2>3
  <2>4. CASE s \notin M
    BY <1>1, <2>1, <2>4
  <2> QED BY <2>2, <2>3, <2>4
<1>4. ASSUME m.disjoint, NEW s \in Segment, NEW t \in Segment, s # t
      PROVE  m.segments[s] \cap m.segments[t] = {}
  <2>1. \A u, v \in Segment : u # v => i.segments[u] \cap i.segments[v] = {}
    BY <1>1, <1>4 DEF InfoOK, SegmentsAreDisjoint
  <2>2. ASSUME NEW u \in Segment, u # base
        PROVE  m.segments[base] \cap m.segments[u] = {}
    <3>1. CASE u \in to_merge
      BY <1>1, <2>2, <3>1
    <3>2. CASE u \notin to_merge
      <4>1. \A v \in M : i.segments[v] \cap i.segments[u] = {}
        BY <2>1, <2>2, <3>2
      <4> QED BY <1>1, <2>2, <3>2, <4>1
    <3> QED BY <3>1, <3>2
  <2>3. CASE s = base \/ t = base
    BY <1>4, <2>2, <2>3
  <2>4. CASE s # base /\ t # base
    BY <1>1, <1>4, <2>1, <2>4
  <2> QED BY <2>3, <2>4
<1>5. m.disjoint => SegmentsAreDisjoint(m.init, m.segments)
  BY <1>3, <1>4 DEF SegmentsAreDisjoint
<1> QED BY <1>1, <1>2, <1>3, <1>5 DEF InfoOK, m

(***************************************************************************)
(* Both ways to leave some segments out come to the same.                  *)
(***************************************************************************)
LEMMA ExceptIsOthers ==
  ASSUME NEW i, InfoOK(i), NEW ss \in SUBSET Segment
  PROVE  ExceptSegments(i, ss) = CombinedDefinition(i, Segment \ ss)
<1>1. i \in Info /\ Segment \ ss \in SUBSET Segment /\ Segment \in SUBSET Segment
  BY DEF InfoOK
<1>2. ASSUME i.disjoint
      PROVE  Minus(i.full_definition, Combined(i, ss))
                = CombinedDefinition(i, Segment \ ss)
  <2> DEFINE all == CombinedDefinition(i, Segment)
             rest == CombinedDefinition(i, Segment \ ss)
             out == Combined(i, ss)
  <2>1. /\ all \in Definition /\ rest \in Definition
        /\ all.codepoints = (UNION {i.segments[s] : s \in Segment}) \cup i.init.codepoints
        /\ rest.codepoints = (UNION {i.segments[s] : s \in Segment \ ss})
                                 \cup i.init.codepoints
        /\ all.gids = i.init.gids /\ rest.gids = i.init.gids
    BY <1>1, CombinedType
  <2>2. out.codepoints = UNION {i.segments[s] : s \in ss} /\ out.gids = {}
    BY DEF Combined, Codepoints
  <2> HIDE DEF all, rest, out
  <2>3. \A s, t \in Segment : s # t => i.segments[s] \cap i.segments[t] = {}
    BY <1>2 DEF InfoOK, SegmentsAreDisjoint
  <2>4. \A s \in Segment : i.segments[s] \cap i.init.codepoints = {}
    BY <1>2 DEF InfoOK, SegmentsAreDisjoint
  <2>5. all.codepoints \ out.codepoints = rest.codepoints
    <3>1. ASSUME NEW c, c \in all.codepoints, c \notin out.codepoints
          PROVE  c \in rest.codepoints
      BY <2>1, <2>2, <3>1
    <3>2. ASSUME NEW c \in rest.codepoints
          PROVE  c \in all.codepoints /\ c \notin out.codepoints
      <4>1. CASE c \in i.init.codepoints
        BY <2>1, <2>2, <2>4, <4>1
      <4>2. CASE c \notin i.init.codepoints
        <5>1. PICK s \in Segment \ ss : c \in i.segments[s]
          BY <2>1, <4>2
        <5>2. \A t \in ss : c \notin i.segments[t]
          BY <2>3, <5>1
        <5> QED BY <2>1, <2>2, <5>1, <5>2
      <4> QED BY <4>1, <4>2
    <3> QED BY <3>1, <3>2
  <2>6. all.gids \ out.gids = rest.gids
    BY <2>1, <2>2
  <2>7. Minus(all, out) = [codepoints |-> rest.codepoints, gids |-> rest.gids]
    BY <2>5, <2>6 DEF Minus
  <2>8. Minus(all, out) = rest
    BY <2>1, <2>7 DEF Definition
  <2> QED BY <2>8 DEF all, rest, out, InfoOK
<1> QED BY <1>2 DEF ExceptSegments

-----------------------------------------------------------------------------
(***************************************************************************)
(* How one segment bears on a glyph.                                       *)
(***************************************************************************)
Needs(i, g, s) == /\ g \in i.full_closure
                  /\ g \notin Closure(i.font, CombinedDefinition(i, Segment \ {s}))

Gives(i, g, s) == /\ g \in Closure(i.font, CombinedDefinition(i, {s}))
                  /\ g \notin i.init.gids

LEMMA ClosureOfSegments ==
  ASSUME NEW i, InfoOK(i), NEW ss \in SUBSET Segment
  PROVE  /\ Closure(i.font, CombinedDefinition(i, ss)) \subseteq i.full_closure
         /\ i.full_closure \subseteq Glyph
         /\ i.init.gids \subseteq Closure(i.font, CombinedDefinition(i, ss))
<1>1. i \in Info /\ i.full_closure = Closure(i.font, CombinedDefinition(i, Segment))
  BY DEF InfoOK
<1>2. /\ CombinedDefinition(i, ss) \in Definition
      /\ CombinedDefinition(i, ss).gids = i.init.gids
  BY <1>1, CombinedType
<1>3. i.font \in Font /\ i.full_closure \subseteq Glyph
  BY <1>1 DEF Info
<1>4. i.init.gids \subseteq Closure(i.font, CombinedDefinition(i, ss))
  BY <1>2, <1>3, ClosureAssumption
<1>5. Closure(i.font, CombinedDefinition(i, ss)) \subseteq i.full_closure
  <2>1. ss \cap NonEmptySegments(i) \subseteq Segment /\ Segment \in SUBSET Segment
    OBVIOUS
  <2> QED BY <1>1, <2>1, BringsMonotone
<1> QED BY <1>3, <1>4, <1>5

(***************************************************************************)
(* What AnalyzeSegment finds for one segment, and for several.             *)
(***************************************************************************)
LEMMA AnalysisOfMany ==
  ASSUME NEW i, InfoOK(i), NEW ss \in SUBSET Segment, ss # {}
  PROVE  LET a == AnalyzeSegment(i, ss)
             without == Closure(i.font, CombinedDefinition(i, Segment \ ss))
             alone == Closure(i.font, CombinedDefinition(i, ss))
         IN  /\ a.and = (i.full_closure \ without) \ (alone \ i.init.gids)
             /\ a.or = (alone \ i.init.gids) \ (i.full_closure \ without)
             /\ a.exclusive = (alone \ i.init.gids) \cap (i.full_closure \ without)
BY ExceptIsOthers DEF AnalyzeSegment

LEMMA AnalysisOfOne ==
  ASSUME NEW i, InfoOK(i), NEW s \in Segment
  PROVE  LET a == AnalyzeSegment(i, {s})
         IN  /\ a.and = {g \in Glyph : Needs(i, g, s) /\ ~Gives(i, g, s)}
             /\ a.or = {g \in Glyph : Gives(i, g, s) /\ ~Needs(i, g, s)}
             /\ a.exclusive = {g \in Glyph : Needs(i, g, s) /\ Gives(i, g, s)}
<1> DEFINE a == AnalyzeSegment(i, {s})
           without == Closure(i.font, CombinedDefinition(i, Segment \ {s}))
           alone == Closure(i.font, CombinedDefinition(i, {s}))
<1>1. {s} \in SUBSET Segment /\ {s} # {}
  OBVIOUS
<1>2. /\ a.and = (i.full_closure \ without) \ (alone \ i.init.gids)
      /\ a.or = (alone \ i.init.gids) \ (i.full_closure \ without)
      /\ a.exclusive = (alone \ i.init.gids) \cap (i.full_closure \ without)
  BY <1>1, AnalysisOfMany
<1>3. i.full_closure \subseteq Glyph /\ alone \subseteq i.full_closure
  BY <1>1, ClosureOfSegments
<1>4. \A g : /\ Needs(i, g, s) <=> g \in i.full_closure /\ g \notin without
             /\ Gives(i, g, s) <=> g \in alone /\ g \notin i.init.gids
  BY DEF Needs, Gives
<1> HIDE DEF a, without, alone
<1>5. a.and = {g \in Glyph : Needs(i, g, s) /\ ~Gives(i, g, s)}
  BY <1>2, <1>3, <1>4
<1>6. a.or = {g \in Glyph : Gives(i, g, s) /\ ~Needs(i, g, s)}
  BY <1>2, <1>3, <1>4
<1>7. a.exclusive = {g \in Glyph : Needs(i, g, s) /\ Gives(i, g, s)}
  BY <1>2, <1>3, <1>4
<1> QED BY <1>5, <1>6, <1>7 DEF a

(***************************************************************************)
(* No segment needs a glyph which another one gives; an empty segment      *)
(* neither gives nor needs any.                                            *)
(***************************************************************************)
LEMMA GivenIsNotNeeded ==
  ASSUME NEW i, InfoOK(i), NEW g, NEW s \in Segment, NEW t \in Segment, s # t,
         Gives(i, g, s)
  PROVE  ~Needs(i, g, t)
<1>1. i \in Info /\ {s} \in SUBSET Segment /\ Segment \ {t} \in SUBSET Segment
      /\ {s} \cap NonEmptySegments(i) \subseteq Segment \ {t}
  BY DEF InfoOK
<1>2. Closure(i.font, CombinedDefinition(i, {s}))
         \subseteq Closure(i.font, CombinedDefinition(i, Segment \ {t}))
  BY <1>1, BringsMonotone
<1> QED BY <1>2 DEF Needs, Gives

LEMMA NothingFromEmpty ==
  ASSUME NEW i, InfoOK(i), NEW g, NEW s \in Segment, i.segments[s] = {}
  PROVE  ~Needs(i, g, s) /\ ~Gives(i, g, s)
<1>1. i \in Info
  BY DEF InfoOK
<1>2. ~Needs(i, g, s)
  <2>1. Segment \cap NonEmptySegments(i) \subseteq Segment \ {s}
    BY DEF NonEmptySegments
  <2>2. Closure(i.font, CombinedDefinition(i, Segment))
           \subseteq Closure(i.font, CombinedDefinition(i, Segment \ {s}))
    BY <1>1, <2>1, BringsMonotone
  <2> QED BY <2>2 DEF Needs, InfoOK
<1>3. ~Gives(i, g, s)
  <2>1. CombinedDefinition(i, {s}) = i.init
    <3>1. /\ CombinedDefinition(i, {s}) \in Definition
          /\ CombinedDefinition(i, {s}).codepoints =
                (UNION {i.segments[t] : t \in {s}}) \cup i.init.codepoints
          /\ CombinedDefinition(i, {s}).gids = i.init.gids
      BY <1>1, CombinedType
    <3>2. UNION {i.segments[t] : t \in {s}} = {}
      OBVIOUS
    <3>3. CombinedDefinition(i, {s}).codepoints = i.init.codepoints
      BY <3>1, <3>2
    <3>4. i.init \in Definition
      BY <1>1 DEF Info
    <3> QED BY <3>1, <3>3, <3>4, SameDefinition
  <2>2. i.init.gids = i.init.gids \cup Closure(i.font, i.init)
    <3>1. ExpandOnce(i.font, i.init) = i.init
      BY DEF InfoOK
    <3>2. ExpandOnce(i.font, i.init).gids = i.init.gids \cup Closure(i.font, i.init)
      BY DEF ExpandOnce
    <3> QED BY <3>1, <3>2
  <2> QED BY <2>1, <2>2 DEF Gives
<1> QED BY <1>2, <1>3

(***************************************************************************)
(* A merge does not change how the other segments bear on a glyph; what a  *)
(* merged segment needs or gives the new base needs or gives; and the      *)
(* analysis of the new base is that of the merged segments together.       *)
(***************************************************************************)
LEMMA MergeOfOthers ==
  ASSUME NEW i, InfoOK(i), NEW base \in Segment, NEW to_merge \in SUBSET Segment,
         NEW g, NEW s \in Segment \ (to_merge \cup {base})
  PROVE  /\ Needs(MergeDefinitions(i, base, to_merge), g, s) <=> Needs(i, g, s)
         /\ Gives(MergeDefinitions(i, base, to_merge), g, s) <=> Gives(i, g, s)
<1> DEFINE m == MergeDefinitions(i, base, to_merge)
<1>0. i \in Info
  BY DEF InfoOK
<1>1. m.font = i.font /\ m.full_closure = i.full_closure /\ m.init = i.init
  BY <1>0, MergedFields
<1>2. CombinedDefinition(m, {s}) = CombinedDefinition(i, {s})
  <2>1. CombinedDefinition(m, {s})
           = CombinedDefinition(i, IF base \in {s} THEN {s} \cup to_merge
                                   ELSE {s} \ to_merge)
    BY <1>0, MergedDefinition
  <2>2. base \notin {s} /\ {s} \ to_merge = {s}
    OBVIOUS
  <2> HIDE DEF m
  <2> QED BY <2>1, <2>2
<1>3. CombinedDefinition(m, Segment \ {s}) = CombinedDefinition(i, Segment \ {s})
  <2>1. CombinedDefinition(m, Segment \ {s})
           = CombinedDefinition(i, IF base \in Segment \ {s}
                                   THEN (Segment \ {s}) \cup to_merge
                                   ELSE (Segment \ {s}) \ to_merge)
    <3>1. Segment \ {s} \in SUBSET Segment
      OBVIOUS
    <3> QED BY <1>0, <3>1, MergedDefinition
  <2>2. base \in Segment \ {s} /\ (Segment \ {s}) \cup to_merge = Segment \ {s}
    OBVIOUS
  <2> HIDE DEF m
  <2> QED BY <2>1, <2>2
<1> HIDE DEF m
<1>4. /\ Needs(m, g, s) <=> Needs(i, g, s)
      /\ Gives(m, g, s) <=> Gives(i, g, s)
  BY <1>1, <1>2, <1>3 DEF Needs, Gives
<1> QED BY <1>4 DEF m

LEMMA DefinitionsOfBase ==
  ASSUME NEW i, InfoOK(i), NEW base \in Segment, NEW to_merge \in SUBSET Segment
  PROVE  /\ CombinedDefinition(MergeDefinitions(i, base, to_merge), {base})
               = CombinedDefinition(i, to_merge \cup {base})
         /\ CombinedDefinition(MergeDefinitions(i, base, to_merge), Segment \ {base})
               = CombinedDefinition(i, Segment \ (to_merge \cup {base}))
<1> DEFINE m == MergeDefinitions(i, base, to_merge)
           M == to_merge \cup {base}
<1>0. i \in Info
  BY DEF InfoOK
<1>1. CombinedDefinition(m, {base}) = CombinedDefinition(i, M)
  <2>1. CombinedDefinition(m, {base})
           = CombinedDefinition(i, IF base \in {base} THEN {base} \cup to_merge
                                   ELSE {base} \ to_merge)
    <3>1. {base} \in SUBSET Segment
      OBVIOUS
    <3> QED BY <1>0, <3>1, MergedDefinition
  <2>2. base \in {base} /\ {base} \cup to_merge = M
    OBVIOUS
  <2> HIDE DEF m, M
  <2> QED BY <2>1, <2>2
<1>2. CombinedDefinition(m, Segment \ {base}) = CombinedDefinition(i, Segment \ M)
  <2>1. CombinedDefinition(m, Segment \ {base})
           = CombinedDefinition(i, IF base \in Segment \ {base}
                                   THEN (Segment \ {base}) \cup to_merge
                                   ELSE (Segment \ {base}) \ to_merge)
    <3>1. Segment \ {base} \in SUBSET Segment
      OBVIOUS
    <3> QED BY <1>0, <3>1, MergedDefinition
  <2>2. base \notin Segment \ {base} /\ (Segment \ {base}) \ to_merge = Segment \ M
    OBVIOUS
  <2> HIDE DEF m, M
  <2> QED BY <2>1, <2>2
<1> QED BY <1>1, <1>2

LEMMA MergeOfBase ==
  ASSUME NEW i, InfoOK(i), NEW base \in Segment, NEW to_merge \in SUBSET Segment, NEW g
  PROVE  \A s \in to_merge \cup {base} :
            /\ Needs(i, g, s) => Needs(MergeDefinitions(i, base, to_merge), g, base)
            /\ Gives(i, g, s) => Gives(MergeDefinitions(i, base, to_merge), g, base)
<1> DEFINE m == MergeDefinitions(i, base, to_merge)
           M == to_merge \cup {base}
<1>0. i \in Info /\ M \in SUBSET Segment
  BY DEF InfoOK
<1>1. m.font = i.font /\ m.full_closure = i.full_closure /\ m.init = i.init
  BY <1>0, MergedFields
<1>2. /\ CombinedDefinition(m, {base}) = CombinedDefinition(i, M)
      /\ CombinedDefinition(m, Segment \ {base}) = CombinedDefinition(i, Segment \ M)
  BY DefinitionsOfBase
<1> HIDE DEF m, M
<1>3. ASSUME NEW s \in M
      PROVE  /\ Needs(i, g, s) => Needs(m, g, base)
             /\ Gives(i, g, s) => Gives(m, g, base)
  <2>1. Closure(i.font, CombinedDefinition(i, {s}))
           \subseteq Closure(i.font, CombinedDefinition(i, M))
    <3>1. {s} \in SUBSET Segment /\ {s} \cap NonEmptySegments(i) \subseteq M
      BY <1>0
    <3> QED BY <1>0, <3>1, BringsMonotone
  <2>2. Closure(i.font, CombinedDefinition(i, Segment \ M))
           \subseteq Closure(i.font, CombinedDefinition(i, Segment \ {s}))
    <3>1. /\ Segment \ M \in SUBSET Segment /\ Segment \ {s} \in SUBSET Segment
          /\ (Segment \ M) \cap NonEmptySegments(i) \subseteq Segment \ {s}
      BY <1>0
    <3> QED BY <1>0, <3>1, BringsMonotone
  <2> QED BY <1>1, <1>2, <2>1, <2>2 DEF Needs, Gives
<1> QED BY <1>3 DEF m, M

LEMMA AnalysisOfMerged ==
  ASSUME NEW i, InfoOK(i), NEW base \in Segment, NEW to_merge \in SUBSET Segment
  PROVE  AnalyzeSegment(MergeDefinitions(i, base, to_merge), {base})
            = AnalyzeSegment(i, to_merge \cup {base})
<1> DEFINE m == MergeDefinitions(i, base, to_merge)
           M == to_merge \cup {base}
<1>0. i \in Info /\ M \in SUBSET Segment /\ M # {}
  BY DEF InfoOK
<1>1. m.font = i.font /\ m.full_closure = i.full_closure /\ m.init = i.init
  BY <1>0, MergedFields
<1>2. /\ CombinedDefinition(m, {base}) = CombinedDefinition(i, M)
      /\ CombinedDefinition(m, Segment \ {base}) = CombinedDefinition(i, Segment \ M)
  BY DefinitionsOfBase
<1>3. InfoOK(m)
  BY MergedInfoOK
<1> HIDE DEF m, M
<1>4. /\ ExceptSegments(m, {base}) = CombinedDefinition(m, Segment \ {base})
      /\ ExceptSegments(i, M) = CombinedDefinition(i, Segment \ M)
  BY <1>0, <1>3, ExceptIsOthers
<1>5. AnalyzeSegment(m, {base}) = AnalyzeSegment(i, M)
  BY <1>0, <1>1, <1>2, <1>4 DEF AnalyzeSegment
<1> QED BY <1>5 DEF m, M
=============================================================================
