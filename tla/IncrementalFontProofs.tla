------------------------ MODULE IncrementalFontProofs ------------------------
(***************************************************************************)
(* Proofs about the compiler and the fonts that it makes (Compiler,        *)
(* IncrementalFont): for every initial subset and extension subsets, with  *)
(* and without glyph data, each patch that a font names can be applied to  *)
(* it and to the fonts on the way, and the font can be extended by any of  *)
(* the extension subsets and by nothing else.                              *)
(***************************************************************************)
EXTENDS IncrementalFont, Recursion

-----------------------------------------------------------------------------
(***************************************************************************)
(* Definitions.  Why one node may cover what several children covered: the *)
(* union of two definitions whose ranges leave no gap intersects exactly   *)
(* what one of them intersects.  And why an edge may offer the remainder   *)
(* of a subset instead of the subset: both lead to the same node.          *)
(***************************************************************************)
LEMMA Ranges ==
    ASSUME NEW r \in AxisRange
    PROVE  /\ r[1] \in Position /\ r[2] \in Position
           /\ r[1] \in Nat /\ r[2] \in Nat
           /\ r[1] <= r[2]
           /\ r = <<r[1], r[2]>>
<1>1. r[1] \in Position /\ r[2] \in Position /\ r[1] <= r[2] /\ r = <<r[1], r[2]>>
  BY DEF AxisRange
<1> QED
  BY <1>1, PositionAssumption

LEMMA HullIsRange ==
    ASSUME NEW a \in AxisRange, NEW b \in AxisRange
    PROVE  Hull(a, b) \in AxisRange
<1>1. /\ Hull(a, b)[1] = IF a[1] <= b[1] THEN a[1] ELSE b[1]
      /\ Hull(a, b)[2] = IF a[2] >= b[2] THEN a[2] ELSE b[2]
  BY DEF Hull
<1>2. Hull(a, b)[1] <= Hull(a, b)[2]
  BY <1>1, Ranges
<1> QED
  BY <1>1, <1>2, Ranges DEF AxisRange, Hull

LEMMA HullOfRanges ==
    ASSUME NEW a \in AxisRange, NEW b \in AxisRange, RangesIntersect(a, b)
    PROVE  \A r \in AxisRange :
              RangesIntersect(r, Hull(a, b))
              <=> RangesIntersect(r, a) \/ RangesIntersect(r, b)
<1>1. /\ Hull(a, b)[1] = IF a[1] <= b[1] THEN a[1] ELSE b[1]
      /\ Hull(a, b)[2] = IF a[2] >= b[2] THEN a[2] ELSE b[2]
  BY DEF Hull
<1> QED
  BY <1>1, Ranges DEF RangesIntersect

LEMMA DefinitionFields ==
    ASSUME NEW d \in Definition
    PROVE  /\ d.codepoints \in SUBSET Codepoint
           /\ d.features \in SUBSET Feature
           /\ DOMAIN d.design_space \in SUBSET Axis
           /\ d.design_space \in [DOMAIN d.design_space -> AxisRange]
           /\ \A x \in DOMAIN d.design_space : d.design_space[x] \in AxisRange
  BY DEF Definition, DesignSpace

LEMMA Fields == Field = {"codepoints", "features", "design_space"}
  BY DEF Field, Nothing

LEMMA ContiguousIntersects ==
    ASSUME NEW d \in Definition, NEW e \in Definition, Contiguous(d, e),
           NEW x \in DOMAIN d.design_space \cap DOMAIN e.design_space
    PROVE  RangesIntersect(d.design_space[x], e.design_space[x])
  BY DEF Contiguous

LEMMA UnionDesignSpace ==
    ASSUME NEW d \in Definition, NEW e \in Definition
    PROVE  /\ DOMAIN UnionOf(d, e).design_space =
                 DOMAIN d.design_space \cup DOMAIN e.design_space
           /\ \A x \in DOMAIN UnionOf(d, e).design_space :
                 UnionOf(d, e).design_space[x] =
                    IF x \notin DOMAIN e.design_space THEN d.design_space[x]
                    ELSE IF x \notin DOMAIN d.design_space THEN e.design_space[x]
                    ELSE Hull(d.design_space[x], e.design_space[x])
  BY DEF UnionOf

(***************************************************************************)
(* The union of definitions is a definition: no range is turned around     *)
(* (AxisRange::Range never fails in UnionAxisRanges and Union).            *)
(***************************************************************************)
THEOREM UnionIsDefinition ==
    ASSUME NEW d \in Definition, NEW e \in Definition
    PROVE  UnionOf(d, e) \in Definition
<1> DEFINE u == UnionOf(d, e).design_space
<1>1. ASSUME NEW x \in DOMAIN u
      PROVE  u[x] \in AxisRange
  <2>1. CASE x \in DOMAIN d.design_space /\ x \in DOMAIN e.design_space
    BY <2>1, UnionDesignSpace, HullIsRange, DefinitionFields
  <2>2. CASE x \notin DOMAIN d.design_space \/ x \notin DOMAIN e.design_space
    BY <2>2, UnionDesignSpace, DefinitionFields
  <2> QED
    BY <2>1, <2>2
<1>2. u = [x \in DOMAIN u |-> u[x]]
  BY DEF UnionOf
<1>3. u \in [DOMAIN u -> AxisRange] /\ DOMAIN u \in SUBSET Axis
  <2> HIDE DEF u
  <2>1. u \in [DOMAIN u -> AxisRange]
    BY <1>1, <1>2
  <2>2. DOMAIN u \in SUBSET Axis
    BY UnionDesignSpace, DefinitionFields DEF u
  <2> QED
    BY <2>1, <2>2
<1>4. u \in DesignSpace
  <2> HIDE DEF u
  <2> QED
    BY <1>3 DEF DesignSpace
<1>5. UnionOf(d, e) = [codepoints |-> d.codepoints \cup e.codepoints,
                       features |-> d.features \cup e.features,
                       design_space |-> u]
  BY DEF UnionOf
<1> HIDE DEF u
<1> QED
  BY <1>4, <1>5, DefinitionFields DEF Definition

(***************************************************************************)
(* A client's definition intersects the union of two definitions, without  *)
(* a gap, in a field when it intersects one of them in that field.         *)
(***************************************************************************)
THEOREM UnionIntersectsInField ==
    ASSUME NEW d \in Definition, NEW e \in Definition, Contiguous(d, e),
           NEW c \in Definition, NEW f \in Field
    PROVE  FieldIntersects(c, UnionOf(d, e), f)
           <=> FieldIntersects(c, d, f) \/ FieldIntersects(c, e, f)
<1>1. CASE f = "codepoints"
  BY <1>1 DEF FieldIntersects, UnionOf
<1>2. CASE f = "features"
  BY <1>2 DEF FieldIntersects, UnionOf
<1>3. CASE f = "design_space"
  <2> DEFINE u == UnionOf(d, e).design_space
             Meets(x, g) == /\ x \in DOMAIN c.design_space \cap DOMAIN g
                            /\ RangesIntersect(c.design_space[x], g[x])
  <2>1. ASSUME NEW x
        PROVE  Meets(x, u) <=> Meets(x, d.design_space) \/ Meets(x, e.design_space)
    <3>1. CASE x \in DOMAIN c.design_space
               /\ x \in DOMAIN d.design_space /\ x \in DOMAIN e.design_space
      <4>1. /\ c.design_space[x] \in AxisRange
            /\ d.design_space[x] \in AxisRange
            /\ e.design_space[x] \in AxisRange
        BY <3>1, DefinitionFields
      <4>2. RangesIntersect(d.design_space[x], e.design_space[x])
        BY <3>1, ContiguousIntersects
      <4>3. u[x] = Hull(d.design_space[x], e.design_space[x]) /\ x \in DOMAIN u
        BY <3>1, UnionDesignSpace
      <4> QED
        BY <3>1, <4>1, <4>2, <4>3, HullOfRanges
    <3>2. CASE ~(x \in DOMAIN c.design_space
                 /\ x \in DOMAIN d.design_space /\ x \in DOMAIN e.design_space)
      BY <3>2, UnionDesignSpace
    <3> QED
      BY <3>1, <3>2
  <2>2. ASSUME NEW g
        PROVE  FieldIntersects(c, g, f) <=> \E x : Meets(x, g.design_space)
    BY <1>3 DEF FieldIntersects
  <2> QED
    BY <2>1, <2>2
<1> QED
  BY <1>1, <1>2, <1>3, Fields

(***************************************************************************)
(* So a segment that takes over the definitions of two others asks for     *)
(* exactly what they asked for (SubsetDefinition's comment on conditions). *)
(***************************************************************************)
THEOREM UnionIntersects ==
    ASSUME NEW d \in Definition, NEW e \in Definition, Contiguous(d, e),
           NEW c \in Definition
    PROVE  Intersects(c, UnionOf(d, e)) <=> Intersects(c, d) \/ Intersects(c, e)
  BY UnionIntersectsInField DEF Intersects

-----------------------------------------------------------------------------
LEMMA SubtractDesignSpace ==
    ASSUME NEW d \in Definition, NEW e \in Definition
    PROVE  /\ \A x : x \in DOMAIN Subtract(d, e).design_space
                   <=> /\ x \in DOMAIN d.design_space
                       /\ ~ /\ x \in DOMAIN e.design_space
                            /\ Covers(e.design_space[x], d.design_space[x])
           /\ \A x \in DOMAIN Subtract(d, e).design_space :
                 Subtract(d, e).design_space[x] =
                    IF x \in DOMAIN e.design_space
                    THEN WithoutRange(d.design_space[x], e.design_space[x])
                    ELSE d.design_space[x]
  BY DEF Subtract

LEMMA RangeRemainder ==
    ASSUME NEW a \in AxisRange, NEW b \in AxisRange
    PROVE  /\ ~Covers(b, a) => /\ WithoutRange(a, b) \in AxisRange
                               /\ Hull(b, WithoutRange(a, b)) = Hull(b, a)
           /\ Covers(b, a) => Hull(b, a) = b
<1>1. ASSUME Covers(b, a) PROVE Hull(b, a) = b
  <2>1. Hull(b, a) = <<b[1], b[2]>>
    BY <1>1, Ranges DEF Covers, Hull
  <2> QED
    BY <2>1, Ranges
<1>2. ASSUME ~Covers(b, a), RangesIntersect(a, b), ~(a[1] < b[1] /\ b[2] < a[2])
      PROVE  Cut(a, b) \in AxisRange /\ Hull(b, Cut(a, b)) = Hull(b, a)
  <2>1. CASE a[1] < b[1]
    <3>1. Cut(a, b) = <<a[1], b[1]>>
      BY <2>1 DEF Cut
    <3>2. <<a[1], b[1]>> \in AxisRange
      BY <2>1, Ranges DEF AxisRange
    <3>3. Hull(b, <<a[1], b[1]>>) = <<a[1], b[2]>>
      BY <2>1, Ranges DEF Hull
    <3>4. Hull(b, a) = <<a[1], b[2]>>
      BY <1>2, <2>1, Ranges DEF Hull
    <3> QED
      BY <3>1, <3>2, <3>3, <3>4
  <2>2. CASE ~(a[1] < b[1])
    <3>1. Cut(a, b) = <<b[2], a[2]>>
      BY <2>2 DEF Cut
    <3>2. b[2] < a[2] /\ b[1] <= a[1]
      BY <1>2, <2>2, Ranges DEF Covers
    <3>3. <<b[2], a[2]>> \in AxisRange
      BY <3>2, Ranges DEF AxisRange
    <3>4. Hull(b, <<b[2], a[2]>>) = <<b[1], a[2]>>
      BY <3>2, Ranges DEF Hull
    <3>5. Hull(b, a) = <<b[1], a[2]>>
      BY <3>2, Ranges DEF Hull
    <3> QED
      BY <3>1, <3>3, <3>4, <3>5
  <2> QED
    BY <2>1, <2>2
<1>3. ASSUME ~Covers(b, a)
      PROVE  /\ WithoutRange(a, b) \in AxisRange
             /\ Hull(b, WithoutRange(a, b)) = Hull(b, a)
  BY <1>2, <1>3 DEF WithoutRange
<1> QED
  BY <1>1, <1>3

(***************************************************************************)
(* What is left of a definition is a definition: no range is turned around *)
(* (AxisRange::Range never fails in subtract).                             *)
(***************************************************************************)
THEOREM RemainderIsDefinition ==
    ASSUME NEW d \in Definition, NEW e \in Definition
    PROVE  Subtract(d, e) \in Definition
<1> DEFINE u == Subtract(d, e).design_space
<1>1. ASSUME NEW x \in DOMAIN u
      PROVE  u[x] \in AxisRange /\ x \in Axis
  BY <1>1, SubtractDesignSpace, RangeRemainder, DefinitionFields
<1>2. u = [x \in DOMAIN u |-> u[x]]
  BY DEF Subtract
<1>3. Subtract(d, e) = [codepoints |-> d.codepoints \ e.codepoints,
                        features |-> d.features \ e.features,
                        design_space |-> u]
  BY DEF Subtract
<1> HIDE DEF u
<1>4. u \in DesignSpace
  <2>1. u \in [DOMAIN u -> AxisRange]
    BY <1>1, <1>2
  <2>2. DOMAIN u \in SUBSET Axis
    BY <1>1
  <2> QED
    BY <2>1, <2>2 DEF DesignSpace
<1> QED
  BY <1>3, <1>4, DefinitionFields DEF Definition

(***************************************************************************)
(* A node with the remainder of a subset is the node with the subset       *)
(* (OutgoingEdges): whichever part of an extension subset is loaded, the   *)
(* edge that offers the rest leads to all of it, and edges that add the    *)
(* same subsets in a different order meet in one node.                     *)
(***************************************************************************)
THEOREM UnionWithRemainder ==
    ASSUME NEW d \in Definition, NEW e \in Definition
    PROVE  UnionOf(e, Subtract(d, e)) = UnionOf(e, d)
<1> DEFINE r == Subtract(d, e)
           u == UnionOf(e, r).design_space
           v == UnionOf(e, d).design_space
<1>1. r \in Definition
  BY RemainderIsDefinition
<1>2. ASSUME NEW x
      PROVE  /\ x \in DOMAIN u <=> x \in DOMAIN v
             /\ x \in DOMAIN v => u[x] = v[x]
  <2>1. CASE x \in DOMAIN e.design_space /\ x \in DOMAIN d.design_space
    <3>1. /\ e.design_space[x] \in AxisRange
          /\ d.design_space[x] \in AxisRange
      BY <2>1, DefinitionFields
    <3>2. v[x] = Hull(e.design_space[x], d.design_space[x]) /\ x \in DOMAIN v
      BY <2>1, UnionDesignSpace
    <3>3. x \in DOMAIN u
      BY <1>1, <2>1, UnionDesignSpace
    <3>4. CASE Covers(e.design_space[x], d.design_space[x])
      <4>1. x \notin DOMAIN r.design_space
        BY <2>1, <3>4, SubtractDesignSpace
      <4>2. u[x] = e.design_space[x]
        BY <1>1, <3>3, <4>1, UnionDesignSpace
      <4> QED
        BY <3>1, <3>2, <3>3, <3>4, <4>2, RangeRemainder
    <3>5. CASE ~Covers(e.design_space[x], d.design_space[x])
      <4>1. /\ x \in DOMAIN r.design_space
            /\ r.design_space[x] = WithoutRange(d.design_space[x], e.design_space[x])
        BY <2>1, <3>5, SubtractDesignSpace
      <4>2. u[x] = Hull(e.design_space[x], r.design_space[x])
        BY <1>1, <2>1, <3>3, <4>1, UnionDesignSpace
      <4> QED
        BY <3>1, <3>2, <3>3, <3>5, <4>1, <4>2, RangeRemainder
    <3> QED
      BY <3>4, <3>5
  <2>2. CASE ~(x \in DOMAIN e.design_space /\ x \in DOMAIN d.design_space)
    BY <1>1, <2>2, UnionDesignSpace, SubtractDesignSpace
  <2> QED
    BY <2>1, <2>2
<1>3. u = [x \in DOMAIN u |-> u[x]] /\ v = [x \in DOMAIN v |-> v[x]]
  BY DEF UnionOf
<1>4. /\ UnionOf(e, r) = [codepoints |-> e.codepoints \cup r.codepoints,
                          features |-> e.features \cup r.features,
                          design_space |-> u]
      /\ UnionOf(e, d) = [codepoints |-> e.codepoints \cup d.codepoints,
                          features |-> e.features \cup d.features,
                          design_space |-> v]
  BY DEF UnionOf
<1>5. /\ e.codepoints \cup r.codepoints = e.codepoints \cup d.codepoints
      /\ e.features \cup r.features = e.features \cup d.features
  BY DEF Subtract
<1> HIDE DEF u, v, r
<1>6. u = v
  <2>1. DOMAIN u = DOMAIN v
    BY <1>2
  <2> QED
    BY <1>2, <1>3, <2>1
<1>7. UnionOf(e, r) = UnionOf(e, d)
  BY <1>4, <1>5, <1>6
<1> QED
  BY <1>7 DEF r

-----------------------------------------------------------------------------
(***************************************************************************)
(* Includes orders the definitions, and the union of two of them is the    *)
(* least one that includes both.                                           *)
(***************************************************************************)
LEMMA DesignSpaceOf ==
    ASSUME NEW d \in Definition
    PROVE  d = [codepoints |-> d.codepoints, features |-> d.features,
                design_space |-> [x \in DOMAIN d.design_space |-> d.design_space[x]]]
<1>1. d.design_space = [x \in DOMAIN d.design_space |-> d.design_space[x]]
  BY DefinitionFields
<1> DEFINE s == d.design_space
<1> HIDE DEF s
<1>2. d = [codepoints |-> d.codepoints, features |-> d.features, design_space |-> s]
  BY DEF Definition, s
<1> QED
  BY <1>1, <1>2 DEF s

LEMMA NothingIsDefinition == Nothing \in Definition
<1>1. Nothing.design_space \in [{} -> AxisRange] /\ {} \in SUBSET Axis
  BY DEF Nothing
<1>2. Nothing.design_space \in DesignSpace
  BY <1>1 DEF DesignSpace
<1> QED
  BY <1>2 DEF Definition, Nothing

LEMMA IncludesItself ==
    ASSUME NEW d \in Definition
    PROVE  Includes(d, d)
  BY DefinitionFields, Ranges DEF Includes, Covers

LEMMA IncludesNothing ==
    ASSUME NEW d \in Definition
    PROVE  Includes(d, Nothing)
  BY DEF Includes, Nothing

LEMMA IncludesTransitive ==
    ASSUME NEW d \in Definition, NEW e \in Definition, NEW f \in Definition,
           Includes(f, e), Includes(e, d)
    PROVE  Includes(f, d)
<1>1. ASSUME NEW x \in DOMAIN d.design_space
      PROVE  x \in DOMAIN f.design_space /\ Covers(f.design_space[x], d.design_space[x])
  <2>1. /\ x \in DOMAIN e.design_space /\ x \in DOMAIN f.design_space
        /\ Covers(e.design_space[x], d.design_space[x])
        /\ Covers(f.design_space[x], e.design_space[x])
    BY DEF Includes
  <2>2. /\ d.design_space[x] \in AxisRange /\ e.design_space[x] \in AxisRange
        /\ f.design_space[x] \in AxisRange
    BY <2>1, DefinitionFields
  <2> QED
    BY <2>1, <2>2, Ranges DEF Covers
<1> QED
  BY <1>1 DEF Includes

LEMMA IncludesBothWays ==
    ASSUME NEW d \in Definition, NEW e \in Definition, Includes(d, e), Includes(e, d)
    PROVE  d = e
<1>1. d.codepoints = e.codepoints /\ d.features = e.features
  BY DEF Includes
<1>2. DOMAIN d.design_space = DOMAIN e.design_space
  BY DEF Includes
<1>3. ASSUME NEW x \in DOMAIN d.design_space
      PROVE  d.design_space[x] = e.design_space[x]
  <2>1. /\ Covers(e.design_space[x], d.design_space[x])
        /\ Covers(d.design_space[x], e.design_space[x])
    BY <1>2 DEF Includes
  <2>2. d.design_space[x] \in AxisRange /\ e.design_space[x] \in AxisRange
    BY <1>2, DefinitionFields
  <2>3. /\ d.design_space[x][1] = e.design_space[x][1]
        /\ d.design_space[x][2] = e.design_space[x][2]
    BY <2>1, <2>2, Ranges DEF Covers
  <2> QED
    BY <2>2, <2>3, Ranges
<1>4. d.design_space = e.design_space
  BY <1>2, <1>3, DefinitionFields
<1> QED
  BY <1>1, <1>4, DesignSpaceOf DEF Definition

LEMMA UnionIncludes ==
    ASSUME NEW d \in Definition, NEW e \in Definition
    PROVE  Includes(UnionOf(d, e), d) /\ Includes(UnionOf(d, e), e)
<1> DEFINE u == UnionOf(d, e).design_space
<1>1. ASSUME NEW x \in DOMAIN d.design_space \cup DOMAIN e.design_space
      PROVE  /\ x \in DOMAIN u
             /\ x \in DOMAIN d.design_space => Covers(u[x], d.design_space[x])
             /\ x \in DOMAIN e.design_space => Covers(u[x], e.design_space[x])
  <2>1. CASE x \in DOMAIN d.design_space /\ x \in DOMAIN e.design_space
    <3>1. d.design_space[x] \in AxisRange /\ e.design_space[x] \in AxisRange
      BY <2>1, DefinitionFields
    <3>2. u[x] = Hull(d.design_space[x], e.design_space[x]) /\ x \in DOMAIN u
      BY <2>1, UnionDesignSpace
    <3>3. /\ Covers(Hull(d.design_space[x], e.design_space[x]), d.design_space[x])
          /\ Covers(Hull(d.design_space[x], e.design_space[x]), e.design_space[x])
      BY <3>1, Ranges DEF Hull, Covers
    <3> QED
      BY <3>2, <3>3
  <2>2. CASE x \in DOMAIN d.design_space /\ x \notin DOMAIN e.design_space
    BY <2>2, UnionDesignSpace, DefinitionFields, Ranges DEF Covers
  <2>3. CASE x \notin DOMAIN d.design_space /\ x \in DOMAIN e.design_space
    BY <2>3, UnionDesignSpace, DefinitionFields, Ranges DEF Covers
  <2> QED
    BY <2>1, <2>2, <2>3
<1>2. /\ d.codepoints \cup e.codepoints = UnionOf(d, e).codepoints
      /\ d.features \cup e.features = UnionOf(d, e).features
  BY DEF UnionOf
<1> QED
  BY <1>1, <1>2 DEF Includes

LEMMA UnionIsLeast ==
    ASSUME NEW d \in Definition, NEW e \in Definition, NEW f \in Definition,
           Includes(f, d), Includes(f, e)
    PROVE  Includes(f, UnionOf(d, e))
<1> DEFINE u == UnionOf(d, e).design_space
<1>1. ASSUME NEW x \in DOMAIN u
      PROVE  x \in DOMAIN f.design_space /\ Covers(f.design_space[x], u[x])
  <2>1. CASE x \in DOMAIN d.design_space /\ x \in DOMAIN e.design_space
    <3>1. d.design_space[x] \in AxisRange /\ e.design_space[x] \in AxisRange
      BY <2>1, DefinitionFields
    <3>2. u[x] = Hull(d.design_space[x], e.design_space[x])
      BY <2>1, UnionDesignSpace
    <3>3. /\ x \in DOMAIN f.design_space
          /\ Covers(f.design_space[x], d.design_space[x])
          /\ Covers(f.design_space[x], e.design_space[x])
      BY <2>1 DEF Includes
    <3>4. Covers(f.design_space[x], Hull(d.design_space[x], e.design_space[x]))
      BY <3>1, <3>3, Ranges DEF Hull, Covers
    <3> QED
      BY <3>2, <3>3, <3>4
  <2>2. CASE x \notin DOMAIN d.design_space \/ x \notin DOMAIN e.design_space
    BY <2>2, UnionDesignSpace DEF Includes
  <2> QED
    BY <2>1, <2>2
<1>2. /\ d.codepoints \cup e.codepoints = UnionOf(d, e).codepoints
      /\ d.features \cup e.features = UnionOf(d, e).features
  BY DEF UnionOf
<1>3. /\ d.codepoints \cup e.codepoints \subseteq f.codepoints
      /\ d.features \cup e.features \subseteq f.features
  BY DEF Includes
<1> QED
  BY <1>1, <1>2, <1>3 DEF Includes

(***************************************************************************)
(* u is the union of d and the definitions in ds: whichever order they are *)
(* added in, it is the same.                                               *)
(***************************************************************************)
IsUnion(u, d, ds) ==
    /\ u \in Definition /\ Includes(u, d)
    /\ \A e \in ds : Includes(u, e)
    /\ \A v \in Definition : Includes(v, d) /\ (\A e \in ds : Includes(v, e)) => Includes(v, u)

LEMMA UnionsAgree ==
    ASSUME NEW d, NEW ds, NEW u, NEW v, IsUnion(u, d, ds), IsUnion(v, d, ds)
    PROVE  u = v
  BY IncludesBothWays DEF IsUnion

LEMMA UnionWithOneMore ==
    ASSUME NEW d \in Definition, NEW ds \in SUBSET Definition, NEW u, IsUnion(u, d, ds),
           NEW e \in Definition
    PROVE  IsUnion(UnionOf(u, e), d, ds \cup {e})
<1> DEFINE w == UnionOf(u, e)
<1>1. /\ u \in Definition /\ Includes(u, d) /\ \A x \in ds : Includes(u, x)
      /\ \A v \in Definition : Includes(v, d) /\ (\A x \in ds : Includes(v, x)) => Includes(v, u)
  BY DEF IsUnion
<1>2. w \in Definition /\ Includes(w, u) /\ Includes(w, e)
  BY <1>1, UnionIsDefinition, UnionIncludes
<1>3. \A v \in Definition : Includes(v, u) /\ Includes(v, e) => Includes(v, w)
  BY <1>1, UnionIsLeast
<1> HIDE DEF w
<1>4. Includes(w, d) /\ \A x \in ds : Includes(w, x)
  BY <1>1, <1>2, IncludesTransitive
<1>5. ASSUME NEW v \in Definition, Includes(v, d), \A x \in ds \cup {e} : Includes(v, x)
      PROVE  Includes(v, w)
  BY <1>1, <1>3, <1>5
<1>6. IsUnion(w, d, ds \cup {e})
  BY <1>2, <1>4, <1>5 DEF IsUnion
<1> QED BY <1>6 DEF w

LEMMA UnionOfNone ==
    ASSUME NEW d \in Definition
    PROVE  IsUnion(d, d, {})
  BY IncludesItself DEF IsUnion

LEMMA UnionIsUnion ==
    ASSUME NEW d \in Definition, NEW e \in Definition
    PROVE  IsUnion(UnionOf(d, e), d, {e})
<1>1. IsUnion(UnionOf(d, e), d, {} \cup {e})
  BY UnionOfNone, UnionWithOneMore
<1> QED BY <1>1

\* what is there already adds nothing
LEMMA UnionWithPart ==
    ASSUME NEW d \in Definition, NEW e \in Definition
    PROVE  UnionOf(d, e) = d <=> Includes(d, e)
<1>1. UnionOf(d, e) = d => Includes(d, e)
  BY UnionIncludes
<1>2. ASSUME Includes(d, e) PROVE UnionOf(d, e) = d
  <2>1. Includes(d, UnionOf(d, e))
    BY <1>2, IncludesItself, UnionIsLeast
  <2> QED BY <2>1, UnionIncludes, UnionIsDefinition, IncludesBothWays
<1> QED BY <1>1, <1>2

-----------------------------------------------------------------------------
(***************************************************************************)
(* What is left of a subset when a node has a part of it.                  *)
(***************************************************************************)
LEMMA NothingLeft ==
    ASSUME NEW d \in Definition, NEW e \in Definition
    PROVE  Subtract(d, e) = Nothing <=> Includes(e, d)
<1> DEFINE u == Subtract(d, e).design_space
<1>1. Subtract(d, e) = [codepoints |-> d.codepoints \ e.codepoints,
                        features |-> d.features \ e.features,
                        design_space |-> u]
  BY DEF Subtract
<1>2. Includes(e, d) <=> /\ d.codepoints \ e.codepoints = {}
                         /\ d.features \ e.features = {}
                         /\ DOMAIN u = {}
  <2>1. DOMAIN u = {} <=>
           \A x \in DOMAIN d.design_space :
              x \in DOMAIN e.design_space /\ Covers(e.design_space[x], d.design_space[x])
    BY SubtractDesignSpace
  <2> HIDE DEF u
  <2> QED BY <2>1 DEF Includes
<1>3. DOMAIN u = {} <=> u = [x \in {} |-> x]
  <2>1. u = [x \in DOMAIN u |-> u[x]]
    BY DEF Subtract
  <2> HIDE DEF u
  <2> QED BY <2>1
<1> HIDE DEF u
<1>4. Nothing = [codepoints |-> {}, features |-> {}, design_space |-> [x \in {} |-> x]]
  BY DEF Nothing
<1> DEFINE none == [x \in {} |-> x]
           cps == d.codepoints \ e.codepoints
           fs == d.features \ e.features
           r == Subtract(d, e)
           n == Nothing
<1> HIDE DEF none, cps, fs, r, n
<1>5. /\ r = [codepoints |-> cps, features |-> fs, design_space |-> u]
      /\ n = [codepoints |-> {}, features |-> {}, design_space |-> none]
  BY <1>1, <1>4 DEF none, cps, fs, r, n
<1>6. r = n <=> cps = {} /\ fs = {} /\ u = none
  <2>1. r = n => cps = {} /\ fs = {} /\ u = none
    <3>1. /\ r.codepoints = cps /\ r.features = fs /\ r.design_space = u
          /\ n.codepoints = {} /\ n.features = {} /\ n.design_space = none
      BY <1>5
    <3> QED BY <3>1
  <2> QED BY <1>5, <2>1
<1> QED BY <1>2, <1>3, <1>6 DEF none, cps, fs, r, n

LEMMA RangeLeft ==
    ASSUME NEW a \in AxisRange, NEW b \in AxisRange, ~Covers(b, a), NEW r \in AxisRange,
           RangesIntersect(r, WithoutRange(a, b))
    PROVE  RangesIntersect(r, a)
<1>1. CASE ~RangesIntersect(a, b) \/ (a[1] < b[1] /\ b[2] < a[2])
  BY <1>1 DEF WithoutRange
<1>2. CASE ~(~RangesIntersect(a, b) \/ (a[1] < b[1] /\ b[2] < a[2]))
  <2>1. RangesIntersect(r, Cut(a, b))
    BY <1>2 DEF WithoutRange
  <2>2. Cut(a, b)[1] >= a[1] /\ Cut(a, b)[2] <= a[2]
    BY <1>2, Ranges DEF RangesIntersect, Cut
  <2>3. Cut(a, b) \in AxisRange
    BY <1>2, RangeRemainder DEF WithoutRange
  <2> HIDE DEF Cut
  <2> QED BY <2>1, <2>2, <2>3, Ranges DEF RangesIntersect
<1> QED BY <1>1, <1>2

\* whoever asks for the remainder asks for the subset
LEMMA AsksForSubset ==
    ASSUME NEW t \in Definition, NEW d \in Definition, NEW e \in Definition,
           Intersects(t, Subtract(d, e))
    PROVE  Intersects(t, d)
<1> DEFINE r == Subtract(d, e)
<1>1. PICK f \in Field : FieldIntersects(t, r, f)
  BY DEF Intersects
<1>2. CASE f \in {"codepoints", "features"}
  <2>1. r[f] \subseteq d[f]
    BY <1>2 DEF Subtract
  <2>2. t[f] \cap r[f] # {}
    BY <1>1, <1>2 DEF FieldIntersects
  <2>3. FieldIntersects(t, d, f)
    BY <1>2, <2>1, <2>2 DEF FieldIntersects
  <2> QED BY <2>3 DEF Intersects
<1>3. CASE f = "design_space"
  <2>1. PICK x \in DOMAIN t.design_space \cap DOMAIN r.design_space :
           RangesIntersect(t.design_space[x], r.design_space[x])
    BY <1>1, <1>3 DEF FieldIntersects
  <2>2. x \in DOMAIN d.design_space
    BY <2>1, SubtractDesignSpace
  <2>3. t.design_space[x] \in AxisRange /\ d.design_space[x] \in AxisRange
    BY <2>1, <2>2, DefinitionFields
  <2>4. RangesIntersect(t.design_space[x], d.design_space[x])
    <3>1. CASE x \in DOMAIN e.design_space
      <4>1. /\ e.design_space[x] \in AxisRange
            /\ ~Covers(e.design_space[x], d.design_space[x])
            /\ r.design_space[x] = WithoutRange(d.design_space[x], e.design_space[x])
        BY <2>1, <3>1, SubtractDesignSpace, DefinitionFields
      <4> QED BY <2>1, <2>3, <4>1, RangeLeft
    <3>2. CASE x \notin DOMAIN e.design_space
      <4>1. r.design_space[x] = d.design_space[x]
        BY <2>1, <3>2, SubtractDesignSpace
      <4> QED BY <2>1, <4>1
    <3> QED BY <3>1, <3>2
  <2>5. FieldIntersects(t, d, f)
    BY <1>3, <2>1, <2>2, <2>4 DEF FieldIntersects
  <2> QED BY <2>5 DEF Intersects
<1> QED BY <1>2, <1>3, Fields

LEMMA PositionLeft ==
    ASSUME NEW a \in AxisRange, NEW b \in AxisRange, NEW r \in AxisRange,
           NEW p \in Position, Covers(a, <<p, p>>), Covers(r, <<p, p>>),
           ~Covers(b, a), ~RangesIntersect(r, WithoutRange(a, b))
    PROVE  Covers(b, <<p, p>>)
<1>0. p \in Nat
  BY PositionAssumption
<1>1. a[1] <= p /\ p <= a[2] /\ r[1] <= p /\ p <= r[2]
  BY DEF Covers
<1>2. RangesIntersect(a, b) /\ ~(a[1] < b[1] /\ b[2] < a[2])
  <2>1. RangesIntersect(r, a)
    BY <1>0, <1>1, Ranges DEF RangesIntersect
  <2> QED BY <2>1 DEF WithoutRange
<1>3. ~RangesIntersect(r, Cut(a, b))
  BY <1>2 DEF WithoutRange
<1>4. b[1] <= p /\ p <= b[2]
  BY <1>0, <1>1, <1>2, <1>3, Ranges DEF RangesIntersect, Cut, Covers
<1> QED BY <1>4 DEF Covers

(***************************************************************************)
(* The operators of Extension are those of the compiler.                   *)
(***************************************************************************)
LEMMA SameOperators ==
    /\ \A d, e : Ext!UnionOf(d, e) = UnionOf(d, e)
    /\ \A d, e : Ext!Includes(d, e) <=> Includes(d, e)
    /\ \A a, b : Ext!Covers(a, b) <=> Covers(a, b)
    /\ \A d, e : Ext!Intersects(d, e) <=> Intersects(d, e)
    /\ Ext!Nothing = Nothing
<1>1. \A d, e : Ext!UnionOf(d, e) = UnionOf(d, e)
  BY DEF Ext!UnionOf, UnionOf, Ext!Hull, Hull
<1>2. \A d, e : Ext!Includes(d, e) <=> Includes(d, e)
  BY DEF Ext!Includes, Includes, Ext!Covers, Covers
<1>3. \A a, b : Ext!Covers(a, b) <=> Covers(a, b)
  BY DEF Ext!Covers, Covers
<1>4. \A d, e : Ext!Intersects(d, e) <=> Intersects(d, e)
  BY DEF Ext!Intersects, Intersects, Ext!FieldIntersects, FieldIntersects, Ext!Field, Field,
         Ext!RangesIntersect, RangesIntersect, Ext!Nothing, Nothing
<1>5. Ext!Nothing = Nothing
  BY DEF Ext!Nothing, Nothing
<1> QED BY <1>1, <1>2, <1>3, <1>4, <1>5

\* who does not ask for the remainder has all he asks for of the subset
LEMMA NotAskedIsThere ==
    ASSUME NEW t \in Definition, NEW s \in Definition, NEW node \in Definition,
           ~Intersects(t, Subtract(s, node))
    PROVE  Ext!Satisfies(node, t, s)
<1> DEFINE r == Subtract(s, node)
<1>1. \A f \in Field : ~FieldIntersects(t, r, f)
  BY DEF Intersects
<1>2. t.codepoints \cap s.codepoints \subseteq node.codepoints
  <2>1. ~FieldIntersects(t, r, "codepoints")
    BY <1>1, Fields
  <2>2. t.codepoints \cap r.codepoints = {}
    BY <2>1 DEF FieldIntersects
  <2> QED BY <2>2 DEF Subtract
<1>3. t.features \cap s.features \subseteq node.features
  <2>1. ~FieldIntersects(t, r, "features")
    BY <1>1, Fields
  <2>2. t.features \cap r.features = {}
    BY <2>1 DEF FieldIntersects
  <2> QED BY <2>2 DEF Subtract
<1>4. ASSUME NEW x \in DOMAIN t.design_space \cap DOMAIN s.design_space,
             NEW p \in Position, Covers(t.design_space[x], <<p, p>>),
             Covers(s.design_space[x], <<p, p>>)
      PROVE  x \in DOMAIN node.design_space /\ Covers(node.design_space[x], <<p, p>>)
  <2>0. t.design_space[x] \in AxisRange /\ s.design_space[x] \in AxisRange /\ p \in Nat
    BY DefinitionFields, PositionAssumption
  <2>1. ~FieldIntersects(t, r, "design_space")
    BY <1>1, Fields
  <2>2. x \in DOMAIN r.design_space =>
           ~RangesIntersect(t.design_space[x], r.design_space[x])
    BY <1>4, <2>1 DEF FieldIntersects
  <2>3. x \in DOMAIN node.design_space
    <3> SUFFICES ASSUME x \notin DOMAIN node.design_space PROVE FALSE
      OBVIOUS
    <3>1. x \in DOMAIN r.design_space /\ r.design_space[x] = s.design_space[x]
      BY <1>4, SubtractDesignSpace
    <3>2. RangesIntersect(t.design_space[x], s.design_space[x])
      BY <1>4, <2>0, Ranges DEF RangesIntersect, Covers
    <3> QED BY <2>2, <3>1, <3>2
  <2>4. node.design_space[x] \in AxisRange
    BY <2>3, DefinitionFields
  <2>5. CASE Covers(node.design_space[x], s.design_space[x])
    BY <1>4, <2>0, <2>3, <2>4, <2>5, Ranges DEF Covers
  <2>6. CASE ~Covers(node.design_space[x], s.design_space[x])
    <3>1. /\ x \in DOMAIN r.design_space
          /\ r.design_space[x] = WithoutRange(s.design_space[x], node.design_space[x])
      BY <1>4, <2>3, <2>6, SubtractDesignSpace
    <3> QED BY <1>4, <2>0, <2>2, <2>3, <2>4, <2>6, <3>1, PositionLeft
  <2> QED BY <2>5, <2>6
<1>5. \A a, b : Ext!Covers(a, b) <=> Covers(a, b)
  BY SameOperators
<1> QED BY <1>2, <1>3, <1>4, <1>5 DEF Ext!Satisfies

LEMMA UnionAllIsUnion ==
    ASSUME NEW d \in Definition, NEW ds \in SUBSET Definition, IsFiniteSet(ds)
    PROVE  IsUnion(Ext!UnionAll(d, ds), d, ds)
<1> DEFINE pick == [T \in (SUBSET ds) \ {{}} |-> CHOOSE e \in T : TRUE]
           step == [p \in Definition \X (SUBSET ds) |->
                       IF p[2] = {} THEN p[1] ELSE UnionOf(p[1], pick[p[2]])]
           IsFold(f) == f = [T \in SUBSET ds |->
                               IF T = {} THEN d
                               ELSE UnionOf(f[T \ {CHOOSE e \in T : TRUE}],
                                            CHOOSE e \in T : TRUE)]
           iter == CHOOSE f : IsFold(f)
<1>1. Ext!UnionAll(d, ds) = iter[ds]
  <2>1. \A e, acc : Ext!UnionOf(acc, e) = UnionOf(acc, e)
    BY SameOperators
  <2> QED BY <2>1 DEF Ext!UnionAll, Ext!FoldSet, Ext!MapThenFoldSet
<1>2. /\ pick \in [(SUBSET ds) \ {{}} -> ds]
      /\ \A T \in (SUBSET ds) \ {{}} : pick[T] \in T
  OBVIOUS
<1>3. step \in [Definition \X (SUBSET ds) -> Definition]
  <2> SUFFICES ASSUME NEW p \in Definition \X (SUBSET ds) PROVE step[p] \in Definition
    OBVIOUS
  <2>1. p[2] # {} => pick[p[2]] \in Definition
    BY <1>2
  <2> HIDE DEF pick
  <2> QED BY <2>1, UnionIsDefinition
<1>4. PICK f \in [SUBSET ds -> Definition] : IsSetRecursion(f, ds, d, pick, step)
  <2> HIDE DEF pick, step
  <2> QED BY <1>2, <1>3, SetRecursionExists
<1>5. IsFold(f)
  <2>1. ASSUME NEW T \in SUBSET ds
        PROVE  f[T] = IF T = {} THEN d
                      ELSE UnionOf(f[T \ {CHOOSE e \in T : TRUE}], CHOOSE e \in T : TRUE)
    <3>1. f[T] = IF T = {} THEN d ELSE step[<<f[T \ {pick[T]}], T>>]
      BY <1>4 DEF IsSetRecursion
    <3>2. CASE T # {}
      <4>1. pick[T] = CHOOSE e \in T : TRUE
        BY <3>2
      <4>2. <<f[T \ {pick[T]}], T>> \in Definition \X (SUBSET ds)
        <5>1. T \ {pick[T]} \in SUBSET ds
          OBVIOUS
        <5> HIDE DEF pick
        <5> QED BY <1>4, <5>1
      <4> HIDE DEF pick
      <4>3. step[<<f[T \ {pick[T]}], T>>] = UnionOf(f[T \ {pick[T]}], pick[T])
        BY <3>2, <4>2
      <4> QED BY <3>1, <3>2, <4>1, <4>3
    <3> QED BY <3>1, <3>2
  <2> QED BY <2>1
<1>6. IsFold(iter)
  <2> HIDE DEF IsFold
  <2> QED BY <1>5
<1> DEFINE good == [T \in SUBSET ds |-> {u \in Definition : IsUnion(u, d, T)}]
<1> HIDE DEF iter
<1>7. iter[{}] \in good[{}]
  <2>1. iter[{}] = d
    BY <1>6
  <2> QED BY <2>1, UnionOfNone
<1>8. ASSUME NEW T \in (SUBSET ds) \ {{}}
      PROVE  \E x \in T : iter[T \ {x}] \in good[T \ {x}] => iter[T] \in good[T]
  <2> DEFINE x == CHOOSE e \in T : TRUE
             u == iter[T \ {x}]
  <2>1. x \in T
    OBVIOUS
  <2>2. iter[T] = UnionOf(u, x)
    BY <1>6
  <2> HIDE DEF x
  <2>3. T \in SUBSET ds /\ T \ {x} \in SUBSET ds /\ T = (T \ {x}) \cup {x} /\ x \in Definition
    BY <2>1
  <2>4. ASSUME u \in good[T \ {x}] PROVE iter[T] \in good[T]
    <3> HIDE DEF u
    <3>1. u \in Definition /\ IsUnion(u, d, T \ {x})
      BY <2>3, <2>4
    <3>2. IsUnion(UnionOf(u, x), d, (T \ {x}) \cup {x})
      BY <2>3, <3>1, UnionWithOneMore
    <3>3. UnionOf(u, x) \in Definition
      BY <2>3, <3>1, UnionIsDefinition
    <3> QED BY <2>2, <2>3, <3>2, <3>3
  <2> QED BY <2>1, <2>4
<1>9. \A T \in SUBSET ds : iter[T] \in good[T]
  <2> HIDE DEF good
  <2> QED BY <1>7, <1>8, RecursionKeeps
<1>10. IsUnion(iter[ds], d, ds)
  BY <1>9
<1> QED BY <1>1, <1>10

-----------------------------------------------------------------------------
(***************************************************************************)
(* Sequences of sequences, one after the other.                            *)
(***************************************************************************)
LEMMA ConcatElements ==
    ASSUME NEW S, NEW s \in Seq(S), NEW t \in Seq(S)
    PROVE  ToSet(s \o t) = ToSet(s) \cup ToSet(t) /\ s \o t \in Seq(S)
<1> DEFINE m == Len(s)
           n == Len(t)
<1>1. /\ s \o t \in Seq(S) /\ m \in Nat /\ n \in Nat
      /\ DOMAIN s = 1 .. m /\ DOMAIN t = 1 .. n /\ DOMAIN (s \o t) = 1 .. (m + n)
      /\ \A k \in 1 .. m : (s \o t)[k] = s[k]
      /\ \A k \in m + 1 .. m + n : (s \o t)[k] = t[k - m]
  OBVIOUS
<1> HIDE DEF m, n
<1>2. ASSUME NEW k \in 1 .. (m + n) PROVE (s \o t)[k] \in ToSet(s) \cup ToSet(t)
  <2>1. CASE k <= m
    <3>1. k \in 1 .. m
      BY <1>1, <2>1
    <3> QED BY <1>1, <3>1 DEF ToSet
  <2>2. CASE ~(k <= m)
    <3>1. k \in m + 1 .. m + n /\ k - m \in 1 .. n
      BY <1>1, <2>2
    <3> QED BY <1>1, <3>1 DEF ToSet
  <2> QED BY <2>1, <2>2
<1>3. ASSUME NEW k \in 1 .. m PROVE s[k] \in ToSet(s \o t)
  <2>1. k \in 1 .. (m + n)
    BY <1>1
  <2> QED BY <1>1, <2>1 DEF ToSet
<1>4. ASSUME NEW k \in 1 .. n PROVE t[k] \in ToSet(s \o t)
  <2>1. /\ k + m \in 1 .. (m + n) /\ k + m \in m + 1 .. m + n
        /\ (k + m) - m = k
    BY <1>1
  <2> QED BY <1>1, <2>1 DEF ToSet
<1> QED BY <1>1, <1>2, <1>3, <1>4 DEF ToSet

IsFlattening(f, ss) ==
    /\ f[0] = <<>>
    /\ \A k \in 1 .. Len(ss) : f[k] = f[k - 1] \o ss[k]
    /\ FlattenSeq(ss) = f[Len(ss)]

LEMMA FlattenSteps ==
    ASSUME NEW S, NEW ss \in Seq(Seq(S))
    PROVE  \E f \in [0 .. Len(ss) -> Seq(S)] : IsFlattening(f, ss)
<1> DEFINE n == Len(ss)
           step == [p \in Seq(S) \X (1 .. n) |-> p[1] \o ss[p[2]]]
<1>1. n \in Nat /\ DOMAIN ss = 1 .. n /\ \A k \in 1 .. n : ss[k] \in Seq(S)
  OBVIOUS
<1> HIDE DEF n
<1>2. step \in [Seq(S) \X (1 .. n) -> Seq(S)]
  <2> SUFFICES ASSUME NEW p \in Seq(S) \X (1 .. n) PROVE p[1] \o ss[p[2]] \in Seq(S)
    OBVIOUS
  <2>1. p[1] \in Seq(S) /\ ss[p[2]] \in Seq(S)
    BY <1>1
  <2> QED BY <2>1
<1>3. <<>> \in Seq(S)
  OBVIOUS
<1>4. PICK f \in [0 .. n -> Seq(S)] : IsLoop(f, n, <<>>, step)
  <2> HIDE DEF step
  <2> QED BY <1>1, <1>2, <1>3, LoopExists
<1>5. f[0] = <<>>
  BY <1>4 DEF IsLoop
<1>6. ASSUME NEW k \in 1 .. n PROVE f[k] = f[k - 1] \o ss[k]
  <2>1. k - 1 \in 0 .. n
    BY <1>1
  <2>2. <<f[k - 1], k>> \in Seq(S) \X (1 .. n)
    BY <2>1
  <2>3. step[<<f[k - 1], k>>] = f[k - 1] \o ss[k]
    BY <2>2
  <2> QED BY <1>4, <2>3 DEF IsLoop
<1>7. FlattenSeq(ss) = f[n]
  <2>1. CASE n = 0
    <3>1. ss = <<>> /\ FlattenSeq(ss) = ss
      BY <2>1 DEF FlattenSeq, n
    <3> QED BY <1>5, <2>1, <3>1
  <2>2. CASE n # 0
    <3> DEFINE IsSum(g) == g = [i \in 1 .. n |-> IF i = 1 THEN ss[i] ELSE g[i - 1] \o ss[i]]
               flatten == CHOOSE g : IsSum(g)
               sum == [i \in 1 .. n |-> f[i]]
    <3>1. FlattenSeq(ss) = flatten[n]
      BY <2>2 DEF FlattenSeq, n
    <3>2. IsSum(sum)
      <4>1. ASSUME NEW i \in 1 .. n
            PROVE  sum[i] = IF i = 1 THEN ss[i] ELSE sum[i - 1] \o ss[i]
        <5>1. CASE i = 1
          <6>1. i - 1 = 0 /\ ss[i] \in Seq(S)
            BY <1>1, <5>1
          <6>2. sum[i] = <<>> \o ss[i]
            BY <1>5, <1>6, <6>1
          <6> QED BY <5>1, <6>1, <6>2
        <5>2. CASE i # 1
          <6>1. i - 1 \in 1 .. n
            BY <1>1, <5>2
          <6> QED BY <1>6, <5>2, <6>1
        <5> QED BY <5>1, <5>2
      <4> QED BY <4>1
    <3>3. IsSum(flatten)
      <4> HIDE DEF IsSum, sum
      <4> QED BY <3>2
    <3> HIDE DEF flatten
    <3> DEFINE T == {k \in 0 .. n : k # 0 => flatten[k] = f[k]}
    <3>4. 0 \in T
      BY <1>1
    <3>5. ASSUME NEW k \in 1 .. n, k - 1 \in T PROVE k \in T
      <4>1. flatten[k] = IF k = 1 THEN ss[k] ELSE flatten[k - 1] \o ss[k]
        BY <3>3
      <4>2. sum[k] = IF k = 1 THEN ss[k] ELSE sum[k - 1] \o ss[k]
        BY <3>2
      <4>3. k # 1 => k - 1 \in 1 .. n /\ k - 1 # 0
        BY <1>1
      <4>4. k # 1 => flatten[k - 1] = f[k - 1] /\ sum[k - 1] = f[k - 1]
        BY <3>5, <4>3
      <4> QED BY <1>1, <4>1, <4>2, <4>4
    <3>6. \A k \in 0 .. n : k \in T
      <4> HIDE DEF T
      <4> QED BY <1>1, <3>4, <3>5, CountingUp
    <3>7. n \in 0 .. n
      BY <1>1
    <3> QED BY <2>2, <3>1, <3>6, <3>7
  <2> QED BY <2>1, <2>2
<1> HIDE DEF step
<1> QED BY <1>4, <1>5, <1>6, <1>7 DEF n, IsFlattening

LEMMA FlattenElements ==
    ASSUME NEW S, NEW ss \in Seq(Seq(S))
    PROVE  /\ FlattenSeq(ss) \in Seq(S)
           /\ \A x : x \in ToSet(FlattenSeq(ss)) <=> \E k \in DOMAIN ss : x \in ToSet(ss[k])
<1> DEFINE n == Len(ss)
<1>1. n \in Nat /\ DOMAIN ss = 1 .. n /\ \A k \in 1 .. n : ss[k] \in Seq(S)
  OBVIOUS
<1>2. PICK f \in [0 .. n -> Seq(S)] : IsFlattening(f, ss)
  BY FlattenSteps
<1>3. /\ f[0] = <<>> /\ FlattenSeq(ss) = f[n]
      /\ \A k \in 1 .. n : f[k] = f[k - 1] \o ss[k]
  BY <1>2 DEF IsFlattening
<1> HIDE DEF n
<1> DEFINE T == {k \in 0 .. n : ToSet(f[k]) = UNION {ToSet(ss[j]) : j \in 1 .. k}}
<1>4. 0 \in T
  <2>1. ToSet(f[0]) = {} /\ 1 .. 0 = {}
    BY <1>3 DEF ToSet
  <2> QED BY <1>1, <2>1
<1>5. ASSUME NEW k \in 1 .. n, k - 1 \in T PROVE k \in T
  <2>1. k - 1 \in 0 .. n /\ k \in 0 .. n
    BY <1>1
  <2>2. f[k - 1] \in Seq(S) /\ ss[k] \in Seq(S)
    BY <1>1, <2>1
  <2>3. ToSet(f[k]) = ToSet(f[k - 1]) \cup ToSet(ss[k])
    <3>1. f[k] = f[k - 1] \o ss[k]
      BY <1>3
    <3>2. ToSet(f[k - 1] \o ss[k]) = ToSet(f[k - 1]) \cup ToSet(ss[k])
      BY <2>2, ConcatElements
    <3> QED BY <3>1, <3>2
  <2>4. 1 .. k = (1 .. (k - 1)) \cup {k}
    BY <1>1
  <2>5. UNION {ToSet(ss[j]) : j \in 1 .. k}
           = (UNION {ToSet(ss[j]) : j \in 1 .. (k - 1)}) \cup ToSet(ss[k])
    BY <2>4
  <2> QED BY <1>5, <2>1, <2>3, <2>5
<1>6. n \in T
  <2> HIDE DEF T
  <2>1. \A k \in 0 .. n : k \in T
    BY <1>1, <1>4, <1>5, CountingUp
  <2> QED BY <1>1, <2>1
<1>7. ToSet(FlattenSeq(ss)) = UNION {ToSet(ss[j]) : j \in 1 .. n}
  BY <1>3, <1>6
<1>8. FlattenSeq(ss) \in Seq(S)
  BY <1>1, <1>2, <1>3
<1> QED BY <1>1, <1>7, <1>8

-----------------------------------------------------------------------------
(***************************************************************************)
(* The nodes which the subsets of an edge lead to, one after the other.    *)
(***************************************************************************)
LEMMA ReachedIsLoop ==
    ASSUME NEW node \in Definition, NEW subsets \in Seq(Definition)
    PROVE  /\ Reached(node, subsets) \in [0 .. Len(subsets) -> Definition]
           /\ Reached(node, subsets)[0] = node
           /\ \A k \in 1 .. Len(subsets) :
                 Reached(node, subsets)[k] = UnionOf(Reached(node, subsets)[k - 1], subsets[k])
<1> DEFINE n == Len(subsets)
           step == [p \in Definition \X (1 .. n) |-> UnionOf(p[1], subsets[p[2]])]
           IsReached(f) == f = [k \in 0 .. n |-> IF k = 0 THEN node
                                                 ELSE UnionOf(f[k - 1], subsets[k])]
           reached == CHOOSE f : IsReached(f)
<1>1. Reached(node, subsets) = reached
  BY DEF Reached
<1>2. n \in Nat /\ \A k \in 1 .. n : subsets[k] \in Definition
  OBVIOUS
<1> HIDE DEF n
<1>3. step \in [Definition \X (1 .. n) -> Definition]
  BY <1>2, UnionIsDefinition
<1>4. PICK f \in [0 .. n -> Definition] : IsLoop(f, n, node, step)
  <2> HIDE DEF step
  <2> QED BY <1>2, <1>3, LoopExists
<1>5. f[0] = node
  BY <1>4 DEF IsLoop
<1>6. ASSUME NEW k \in 1 .. n PROVE f[k] = UnionOf(f[k - 1], subsets[k])
  <2>1. k - 1 \in 0 .. n
    BY <1>2
  <2>2. <<f[k - 1], k>> \in Definition \X (1 .. n)
    BY <2>1
  <2>3. step[<<f[k - 1], k>>] = UnionOf(f[k - 1], subsets[k])
    BY <2>2
  <2> QED BY <1>4, <2>3 DEF IsLoop
<1>7. IsReached(f)
  <2>1. ASSUME NEW k \in 0 .. n
        PROVE  f[k] = IF k = 0 THEN node ELSE UnionOf(f[k - 1], subsets[k])
    <3>1. k # 0 => k \in 1 .. n
      BY <1>2
    <3> QED BY <1>5, <1>6, <3>1
  <2> QED BY <2>1
<1>8. IsReached(reached)
  <2> HIDE DEF IsReached
  <2> QED BY <1>7
<1> HIDE DEF reached
<1>9. /\ reached[0] = node
      /\ \A k \in 1 .. n : reached[k] = UnionOf(reached[k - 1], subsets[k])
  <2>1. 0 \in 0 .. n /\ \A k \in 1 .. n : k \in 0 .. n /\ k # 0
    BY <1>2
  <2> QED BY <1>8, <2>1
<1> DEFINE T == {k \in 0 .. n : reached[k] \in Definition}
<1>10. 0 \in T
  BY <1>2, <1>9
<1>11. ASSUME NEW k \in 1 .. n, k - 1 \in T PROVE k \in T
  <2>1. k \in 0 .. n
    BY <1>2
  <2> QED BY <1>2, <1>9, <1>11, <2>1, UnionIsDefinition
<1>12. \A k \in 0 .. n : k \in T
  <2> HIDE DEF T
  <2> QED BY <1>2, <1>10, <1>11, CountingUp
<1>13. reached \in [0 .. n -> Definition]
  <2>1. \A k \in 0 .. n : reached[k] \in Definition
    BY <1>12
  <2> QED BY <1>8, <2>1
<1> QED BY <1>1, <1>9, <1>13 DEF n

LEMMA ReachedIsUnion ==
    ASSUME NEW node \in Definition, NEW subsets \in Seq(Definition)
    PROVE  IsUnion(Reached(node, subsets)[Len(subsets)], node, ToSet(subsets))
<1> DEFINE n == Len(subsets)
           reached == Reached(node, subsets)
           T == {k \in 0 .. n : IsUnion(reached[k], node, {subsets[j] : j \in 1 .. k})}
<1>1. /\ reached \in [0 .. n -> Definition] /\ reached[0] = node
      /\ \A k \in 1 .. n : reached[k] = UnionOf(reached[k - 1], subsets[k])
  BY ReachedIsLoop
<1>2. n \in Nat /\ (\A k \in 1 .. n : subsets[k] \in Definition) /\ DOMAIN subsets = 1 .. n
  OBVIOUS
<1> HIDE DEF n, reached
<1>3. 0 \in T
  <2>1. {subsets[j] : j \in 1 .. 0} = {}
    OBVIOUS
  <2>2. IsUnion(reached[0], node, {subsets[j] : j \in 1 .. 0})
    BY <1>1, <2>1, UnionOfNone
  <2>3. 0 \in 0 .. n
    BY <1>2
  <2> QED BY <2>2, <2>3
<1>4. ASSUME NEW k \in 1 .. n, k - 1 \in T PROVE k \in T
  <2> DEFINE ds == {subsets[j] : j \in 1 .. (k - 1)}
  <2>1. ds \in SUBSET Definition
    BY <1>2
  <2>2. {subsets[j] : j \in 1 .. k} = ds \cup {subsets[k]}
    BY <1>2
  <2>3. IsUnion(reached[k - 1], node, ds) /\ k - 1 \in 0 .. n /\ k \in 0 .. n
    BY <1>2, <1>4
  <2>4. subsets[k] \in Definition
    BY <1>2
  <2> HIDE DEF ds
  <2>5. IsUnion(UnionOf(reached[k - 1], subsets[k]), node, ds \cup {subsets[k]})
    BY <2>1, <2>3, <2>4, UnionWithOneMore
  <2>6. reached[k] = UnionOf(reached[k - 1], subsets[k])
    BY <1>1
  <2> QED BY <2>2, <2>3, <2>5, <2>6
<1>5. n \in T
  <2> HIDE DEF T
  <2>1. \A k \in 0 .. n : k \in T
    BY <1>2, <1>3, <1>4, CountingUp
  <2> QED BY <1>2, <2>1
<1>6. ToSet(subsets) = {subsets[j] : j \in 1 .. n}
  BY <1>2 DEF ToSet
<1> QED BY <1>5, <1>6 DEF n, reached

\* adding what an edge adds at once
LEMMA UnionWithCombined ==
    ASSUME NEW node \in Definition, NEW edge \in Seq(Definition)
    PROVE  /\ Combined(edge) \in Definition
           /\ IsUnion(UnionOf(node, Combined(edge)), node, ToSet(edge))
<1> DEFINE c == Combined(edge)
           u == UnionOf(node, c)
<1>1. IsUnion(c, Nothing, ToSet(edge))
  BY NothingIsDefinition, ReachedIsUnion DEF Combined
<1> HIDE DEF c
<1>2. /\ c \in Definition
      /\ \A e \in ToSet(edge) : Includes(c, e)
      /\ \A v \in Definition :
            Includes(v, Nothing) /\ (\A e \in ToSet(edge) : Includes(v, e)) => Includes(v, c)
  BY <1>1 DEF IsUnion
<1>3. u \in Definition /\ Includes(u, node) /\ Includes(u, c)
  BY <1>2, UnionIsDefinition, UnionIncludes
<1> HIDE DEF u
<1>4. ToSet(edge) \in SUBSET Definition
  BY DEF ToSet
<1>5. \A e \in ToSet(edge) : Includes(u, e)
  BY <1>2, <1>3, <1>4, IncludesTransitive
<1>6. ASSUME NEW v \in Definition, Includes(v, node), \A e \in ToSet(edge) : Includes(v, e)
      PROVE  Includes(v, u)
  <2>1. Includes(v, c)
    BY <1>2, <1>6, IncludesNothing
  <2> QED BY <1>2, <1>6, <2>1, UnionIsLeast DEF u
<1>7. IsUnion(u, node, ToSet(edge))
  BY <1>3, <1>5, <1>6 DEF IsUnion
<1> QED BY <1>2, <1>7 DEF u, c

-----------------------------------------------------------------------------
(***************************************************************************)
(* The jumps of an edge are a way up from the node to the node with all    *)
(* that the edge adds.                                                     *)
(***************************************************************************)
Above(d, e) == Includes(d, e) /\ d # e

LEMMA AboveTransitive ==
    ASSUME NEW d \in Definition, NEW e \in Definition, NEW f \in Definition
    PROVE  /\ Above(f, e) /\ Includes(e, d) => Above(f, d)
           /\ Includes(f, e) /\ Above(e, d) => Above(f, d)
  BY IncludesTransitive, IncludesBothWays DEF Above

Jump == Definition \X Definition

IsWay(jumps, node, end) ==
    /\ jumps \in Seq(Jump)
    /\ \A k \in DOMAIN jumps : Includes(jumps[k][1], node) /\ Above(jumps[k][2], jumps[k][1])
    /\ \A k \in DOMAIN jumps : k > 1 => jumps[k][1] = jumps[k - 1][2]
    /\ IF jumps = <<>> THEN node = end
       ELSE jumps[1][1] = node /\ jumps[Len(jumps)][2] = end

LEMMA WayGoesOn ==
    ASSUME NEW node \in Definition, NEW end \in Definition, NEW next \in Definition,
           NEW jumps, IsWay(jumps, node, end), Includes(end, node), Above(next, end)
    PROVE  /\ IsWay(jumps \o <<<<end, next>>>>, node, next)
           /\ jumps \o <<<<end, next>>>> # <<>>
           /\ (jumps \o <<<<end, next>>>>)[1] = IF jumps = <<>> THEN <<end, next>> ELSE jumps[1]
<1> DEFINE n == Len(jumps)
           j == <<end, next>>
           more == jumps \o <<j>>
<1>1. /\ jumps \in Seq(Jump) /\ j \in Jump
      /\ n \in Nat /\ DOMAIN jumps = 1 .. n
      /\ jumps = <<>> <=> n = 0
  BY DEF IsWay, Jump
<1>2. j[1] = end /\ j[2] = next
  OBVIOUS
<1> HIDE DEF j
<1>3. /\ more \in Seq(Jump) /\ Len(more) = n + 1 /\ DOMAIN more = 1 .. (n + 1)
      /\ more[n + 1] = j /\ \A k \in 1 .. n : more[k] = jumps[k]
  BY <1>1
<1> HIDE DEF n, more
<1>4. /\ \A k \in 1 .. n : Includes(jumps[k][1], node) /\ Above(jumps[k][2], jumps[k][1])
      /\ \A k \in 1 .. n : k > 1 => jumps[k][1] = jumps[k - 1][2]
      /\ IF n = 0 THEN node = end ELSE jumps[1][1] = node /\ jumps[n][2] = end
  BY <1>1 DEF IsWay, n
<1>5. ASSUME NEW k \in 1 .. (n + 1)
      PROVE  Includes(more[k][1], node) /\ Above(more[k][2], more[k][1])
  <2>1. CASE k = n + 1
    BY <1>2, <1>3, <2>1
  <2>2. CASE k # n + 1
    <3>1. k \in 1 .. n
      BY <1>1, <2>2
    <3> QED BY <1>3, <1>4, <3>1
  <2> QED BY <2>1, <2>2
<1>6. ASSUME NEW k \in 1 .. (n + 1), k > 1
      PROVE  more[k][1] = more[k - 1][2]
  <2>0. k - 1 \in 1 .. n
    BY <1>1, <1>6
  <2>1. CASE k = n + 1
    <3>1. k - 1 = n /\ n # 0
      BY <1>1, <2>0, <2>1
    <3> QED BY <1>2, <1>3, <1>4, <2>0, <2>1, <3>1
  <2>2. CASE k # n + 1
    <3>1. k \in 1 .. n
      BY <1>1, <2>2
    <3> QED BY <1>3, <1>4, <1>6, <2>0, <3>1
  <2> QED BY <2>1, <2>2
<1>7. more # <<>> /\ more[Len(more)][2] = next
  BY <1>1, <1>2, <1>3
<1>8. more[1] = IF jumps = <<>> THEN j ELSE jumps[1]
  <2>1. n # 0 => 1 \in 1 .. n
    BY <1>1
  <2> QED BY <1>1, <1>3, <2>1
<1>9. more[1][1] = node
  BY <1>1, <1>2, <1>4, <1>8
<1>10. IsWay(more, node, next)
  BY <1>3, <1>5, <1>6, <1>7, <1>9 DEF IsWay
<1> QED BY <1>7, <1>8, <1>10 DEF more, j

(***************************************************************************)
(* The steps of a climb without those that do not go up.                   *)
(***************************************************************************)
Upward(r, n) ==
    FlattenSeq([k \in 1 .. n |-> IF r[k] = r[k - 1] THEN <<>> ELSE <<<<r[k - 1], r[k]>>>>])

LEMMA UpwardIsWay ==
    ASSUME NEW n \in Nat, NEW r \in [0 .. n -> Definition],
           \A k \in 1 .. n : Includes(r[k], r[k - 1])
    PROVE  /\ IsWay(Upward(r, n), r[0], r[n])
           /\ Upward(r, n) # <<>> =>
                 \E k \in 1 .. n : r[k - 1] = r[0] /\ Upward(r, n)[1] = <<r[0], r[k]>>
<1> DEFINE ss == [k \in 1 .. n |-> IF r[k] = r[k - 1] THEN <<>> ELSE <<<<r[k - 1], r[k]>>>>]
<1>1. \A k \in 1 .. n : k \in 0 .. n /\ k - 1 \in 0 .. n
  OBVIOUS
<1>2. ss \in Seq(Seq(Jump)) /\ Len(ss) = n
  <2>1. ASSUME NEW k \in 1 .. n PROVE ss[k] \in Seq(Jump)
    <3>1. r[k] \in Definition /\ r[k - 1] \in Definition
      BY <1>1
    <3>2. <<r[k - 1], r[k]>> \in Jump
      BY <3>1 DEF Jump
    <3> QED BY <3>2
  <2>2. ss \in [1 .. n -> Seq(Jump)]
    BY <2>1
  <2> HIDE DEF ss
  <2> QED BY <2>2
<1>3. \A k \in 1 .. n : ss[k] = IF r[k] = r[k - 1] THEN <<>> ELSE <<<<r[k - 1], r[k]>>>>
  OBVIOUS
<1>4. Upward(r, n) = FlattenSeq(ss)
  BY DEF Upward
<1> HIDE DEF ss
<1>5. PICK f \in [0 .. n -> Seq(Jump)] : IsFlattening(f, ss)
  BY <1>2, FlattenSteps
<1>6. f[0] = <<>> /\ FlattenSeq(ss) = f[n] /\ \A k \in 1 .. n : f[k] = f[k - 1] \o ss[k]
  BY <1>2, <1>5 DEF IsFlattening
<1> DEFINE starts(k) == \E j \in 1 .. k : r[j - 1] = r[0] /\ f[k][1] = <<r[0], r[j]>>
           T == {k \in 0 .. n : /\ IsWay(f[k], r[0], r[k]) /\ Includes(r[k], r[0])
                                /\ f[k] = <<>> \/ starts(k)}
<1>7. 0 \in T
  <2>1. <<>> \in Seq(Jump) /\ DOMAIN <<>> = {}
    OBVIOUS
  <2>2. IsWay(f[0], r[0], r[0])
    BY <1>6, <2>1 DEF IsWay
  <2>3. 0 \in 0 .. n /\ r[0] \in Definition
    OBVIOUS
  <2> QED BY <1>6, <2>2, <2>3, IncludesItself
<1>8. ASSUME NEW k \in 1 .. n, k - 1 \in T PROVE k \in T
  <2>1. /\ k \in 0 .. n /\ k - 1 \in 0 .. n /\ 0 \in 0 .. n
        /\ r[k] \in Definition /\ r[k - 1] \in Definition /\ r[0] \in Definition
    BY <1>1
  <2>2. /\ IsWay(f[k - 1], r[0], r[k - 1]) /\ Includes(r[k - 1], r[0])
        /\ f[k - 1] = <<>> \/ starts(k - 1)
    BY <1>8
  <2>3. Includes(r[k], r[0])
    BY <2>1, <2>2, IncludesTransitive
  <2>4. f[k - 1] \in Seq(Jump) /\ f[k] = f[k - 1] \o ss[k]
    BY <1>6, <2>1
  <2>5. CASE r[k] = r[k - 1]
    <3>1. f[k] = f[k - 1]
      <4>1. ss[k] = <<>> /\ f[k] = f[k - 1] \o ss[k]
        BY <1>3, <2>4, <2>5
      <4>2. f[k - 1] \o <<>> = f[k - 1]
        BY <2>4
      <4> QED BY <4>1, <4>2
    <3>2. starts(k - 1) => starts(k)
      <4>1. \A j \in 1 .. (k - 1) : j \in 1 .. k
        BY <2>1
      <4> QED BY <3>1, <4>1
    <3> HIDE DEF starts
    <3> QED BY <2>1, <2>2, <2>3, <2>5, <3>1, <3>2
  <2>6. CASE r[k] # r[k - 1]
    <3>1. f[k] = f[k - 1] \o <<<<r[k - 1], r[k]>>>>
      BY <1>3, <2>4, <2>6
    <3>2. Above(r[k], r[k - 1])
      BY <2>6 DEF Above
    <3>3. /\ IsWay(f[k], r[0], r[k])
          /\ f[k][1] = IF f[k - 1] = <<>> THEN <<r[k - 1], r[k]>> ELSE f[k - 1][1]
      BY <2>1, <2>2, <3>1, <3>2, WayGoesOn
    <3>4. starts(k)
      <4>1. CASE f[k - 1] = <<>>
        <5>1. r[k - 1] = r[0]
          BY <2>2, <4>1 DEF IsWay
        <5>2. k \in 1 .. k
          BY <2>1
        <5> QED BY <3>3, <4>1, <5>1, <5>2
      <4>2. CASE f[k - 1] # <<>>
        <5>1. PICK j \in 1 .. (k - 1) : r[j - 1] = r[0] /\ f[k - 1][1] = <<r[0], r[j]>>
          BY <2>2, <4>2
        <5>2. j \in 1 .. k
          BY <2>1
        <5> QED BY <3>3, <4>2, <5>1, <5>2
      <4> QED BY <4>1, <4>2
    <3> HIDE DEF starts
    <3> QED BY <2>1, <2>3, <3>3, <3>4
  <2> QED BY <2>5, <2>6
<1>9. n \in T
  <2> HIDE DEF T
  <2>1. \A k \in 0 .. n : k \in T
    BY <1>7, <1>8, CountingUp
  <2> QED BY <2>1
<1> QED BY <1>4, <1>6, <1>9

\* what one knows of the jumps of an edge
GoodJumps(jumps, edge, node) ==
    /\ \E end \in Definition : IsUnion(end, node, ToSet(edge)) /\ IsWay(jumps, node, end)
    /\ jumps # <<>> => \E added \in SUBSET ToSet(edge) :
                           added # {} /\ IsUnion(jumps[1][2], node, added)

LEMMA JumpsOfEdge ==
    ASSUME NEW node \in Definition, NEW edge \in Seq(Definition)
    PROVE  GoodJumps(Jumps(edge, node), edge, node)
<1> DEFINE n == Len(edge)
           u == UnionOf(node, Combined(edge))
<1>0. n \in Nat /\ DOMAIN edge = 1 .. n /\ \A k \in 1 .. n : edge[k] \in Definition
  OBVIOUS
<1>1. CASE request.use_prefetch_lists
  <2> DEFINE r == Reached(node, edge)
  <2>1. /\ r \in [0 .. n -> Definition] /\ r[0] = node
        /\ \A k \in 1 .. n : r[k] = UnionOf(r[k - 1], edge[k])
    BY ReachedIsLoop
  <2>2. IsUnion(r[n], node, ToSet(edge))
    BY ReachedIsUnion
  <2>3. Jumps(edge, node) = Upward(r, n)
    BY <1>1 DEF Jumps, Upward
  <2> HIDE DEF n, r
  <2>4. ASSUME NEW k \in 1 .. n PROVE Includes(r[k], r[k - 1])
    <3>1. k - 1 \in 0 .. n
      BY <1>0
    <3> QED BY <1>0, <2>1, <3>1, UnionIncludes
  <2>5. /\ IsWay(Upward(r, n), r[0], r[n])
        /\ Upward(r, n) # <<>> =>
              \E k \in 1 .. n : r[k - 1] = r[0] /\ Upward(r, n)[1] = <<r[0], r[k]>>
    BY <1>0, <2>1, <2>4, UpwardIsWay
  <2>6. ASSUME Upward(r, n) # <<>>
        PROVE  \E added \in SUBSET ToSet(edge) :
                  added # {} /\ IsUnion(Upward(r, n)[1][2], node, added)
    <3>1. PICK k \in 1 .. n : r[k - 1] = r[0] /\ Upward(r, n)[1] = <<r[0], r[k]>>
      BY <2>5, <2>6
    <3>2. IsUnion(r[k], node, {edge[k]})
      BY <1>0, <2>1, <3>1, UnionIsUnion
    <3>3. {edge[k]} \in SUBSET ToSet(edge) /\ {edge[k]} # {}
      BY <1>0 DEF ToSet
    <3>4. Upward(r, n)[1][2] = r[k]
      BY <3>1
    <3> QED BY <3>2, <3>3, <3>4
  <2>7. r[n] \in Definition
    BY <1>0, <2>1
  <2> QED BY <2>1, <2>2, <2>3, <2>5, <2>6, <2>7 DEF GoodJumps
<1>2. CASE ~request.use_prefetch_lists
  <2> DEFINE r == [k \in 0 .. 1 |-> IF k = 0 THEN node ELSE u]
  <2>1. u \in Definition /\ IsUnion(u, node, ToSet(edge))
    BY UnionWithCombined, UnionIsDefinition
  <2>2. Jumps(edge, node) = Upward(r, 1)
    BY <1>2 DEF Jumps, Upward
  <2> HIDE DEF u
  <2>3. r \in [0 .. 1 -> Definition] /\ r[0] = node /\ r[1] = u
    BY <2>1
  <2> HIDE DEF r
  <2>4. \A k \in 1 .. 1 : Includes(r[k], r[k - 1])
    BY <2>1, <2>3 DEF IsUnion
  <2>5. /\ IsWay(Upward(r, 1), r[0], r[1])
        /\ Upward(r, 1) # <<>> =>
              \E k \in 1 .. 1 : r[k - 1] = r[0] /\ Upward(r, 1)[1] = <<r[0], r[k]>>
    BY <2>3, <2>4, UpwardIsWay
  <2>6. ASSUME Upward(r, 1) # <<>>
        PROVE  ToSet(edge) # {} /\ Upward(r, 1)[1][2] = u
    <3>1. Upward(r, 1)[1] = <<node, u>>
      BY <2>3, <2>5, <2>6
    <3>2. Above(u, node)
      <4>1. 1 \in DOMAIN Upward(r, 1)
        <5>1. Upward(r, 1) \in Seq(Jump)
          BY <2>5 DEF IsWay
        <5> QED BY <2>6, <5>1
      <4> QED BY <2>5, <3>1, <4>1 DEF IsWay
    <3>3. ToSet(edge) # {}
      <4> SUFFICES ASSUME ToSet(edge) = {} PROVE FALSE
        OBVIOUS
      <4>1. IsUnion(u, node, {}) /\ IsUnion(node, node, {})
        BY <2>1, UnionOfNone
      <4> QED BY <3>2, <4>1, UnionsAgree DEF Above
    <3> QED BY <3>1, <3>3
  <2>7. ToSet(edge) \in SUBSET ToSet(edge)
    OBVIOUS
  <2> QED BY <2>1, <2>2, <2>3, <2>5, <2>6, <2>7 DEF GoodJumps
<1> QED BY <1>1, <1>2

-----------------------------------------------------------------------------
(***************************************************************************)
(* The combinations of the elements of a sequence.                         *)
(***************************************************************************)
ChoicesFrom(in, c, fewer) ==
    [next \in 1 .. Len(in) + 1 |->
        FlattenSeq([i \in 1 .. Len(in) + 1 - next |->
            IF c = 1 THEN <<<<in[next + i - 1]>>>>
            ELSE [k \in DOMAIN fewer[next + i] |->
                     <<in[next + i - 1]>> \o fewer[next + i][k]]])]

IsChoice(f, in, choose) ==
    /\ \A c \in 1 .. choose : f[c] = ChoicesFrom(in, c, f[c - 1])
    /\ AddCombinations(in, choose) = f[choose][1]

\* the edges that a node may have when R remains
EdgesOf(R) == Seq(R) \ {<<>>}

LEMMA ChoicesAreEdges ==
    ASSUME NEW R, NEW in \in Seq(R), NEW c \in Nat,
           NEW fewer \in [1 .. Len(in) + 1 -> Seq(EdgesOf(R))]
    PROVE  ChoicesFrom(in, c, fewer) \in [1 .. Len(in) + 1 -> Seq(EdgesOf(R))]
<1> DEFINE n == Len(in)
<1>1. n \in Nat /\ \A i \in 1 .. n : in[i] \in R
  OBVIOUS
<1> SUFFICES ASSUME NEW next \in 1 .. Len(in) + 1
             PROVE  FlattenSeq([i \in 1 .. Len(in) + 1 - next |->
                        IF c = 1 THEN <<<<in[next + i - 1]>>>>
                        ELSE [k \in DOMAIN fewer[next + i] |->
                                 <<in[next + i - 1]>> \o fewer[next + i][k]]])
                    \in Seq(EdgesOf(R))
  BY DEF ChoicesFrom
<1> HIDE DEF n
<1> DEFINE ss == [i \in 1 .. n + 1 - next |->
                    IF c = 1 THEN <<<<in[next + i - 1]>>>>
                    ELSE [k \in DOMAIN fewer[next + i] |->
                             <<in[next + i - 1]>> \o fewer[next + i][k]]]
<1>2. ASSUME NEW i \in 1 .. n + 1 - next PROVE ss[i] \in Seq(EdgesOf(R))
  <2> DEFINE x == in[next + i - 1]
             ways == fewer[next + i]
  <2>1. next + i - 1 \in 1 .. n /\ next + i \in 1 .. n + 1
    BY <1>1 DEF n
  <2>2. x \in R
    BY <1>1, <2>1
  <2>3. ways \in Seq(EdgesOf(R))
    BY <2>1 DEF n
  <2> HIDE DEF x, ways
  <2>4. <<x>> \in EdgesOf(R)
    BY <2>2 DEF EdgesOf
  <2>5. <<<<x>>>> \in Seq(EdgesOf(R))
    BY <2>4
  <2>6. ASSUME NEW k \in DOMAIN ways PROVE <<x>> \o ways[k] \in EdgesOf(R)
    <3>1. ways[k] \in Seq(R)
      BY <2>3 DEF EdgesOf
    <3> DEFINE w == ways[k]
    <3> HIDE DEF w
    <3>2. <<x>> \o w \in Seq(R) /\ <<x>> \o w # <<>>
      BY <2>2, <3>1 DEF w
    <3> QED BY <3>2 DEF w, EdgesOf
  <2>7. [k \in DOMAIN ways |-> <<x>> \o ways[k]] \in Seq(EdgesOf(R))
    <3>1. DOMAIN ways = 1 .. Len(ways) /\ Len(ways) \in Nat
      BY <2>3
    <3> QED BY <2>6, <3>1
  <2>8. ss[i] = IF c = 1 THEN <<<<x>>>> ELSE [k \in DOMAIN ways |-> <<x>> \o ways[k]]
    BY DEF x, ways
  <2> HIDE DEF ss
  <2> QED BY <2>5, <2>7, <2>8
<1>3. ss \in Seq(Seq(EdgesOf(R)))
  <2>1. n + 1 - next \in Nat
    BY <1>1 DEF n
  <2>2. ss \in [1 .. n + 1 - next -> Seq(EdgesOf(R))]
    BY <1>2
  <2> HIDE DEF ss
  <2> QED BY <2>1, <2>2
<1>4. FlattenSeq(ss) \in Seq(EdgesOf(R))
  <2> HIDE DEF ss
  <2> QED BY <1>3, FlattenElements
<1> QED BY <1>4 DEF n

LEMMA CombinationsAreChosen ==
    ASSUME NEW R, NEW in \in Seq(R), NEW choose \in Nat \ {0}
    PROVE  \E f \in [0 .. choose -> [1 .. Len(in) + 1 -> Seq(EdgesOf(R))]] :
              IsChoice(f, in, choose)
<1> DEFINE V == [1 .. Len(in) + 1 -> Seq(EdgesOf(R))]
           none == [next \in 1 .. Len(in) + 1 |-> <<>>]
           step == [p \in V \X (1 .. choose) |-> ChoicesFrom(in, p[2], p[1])]
           IsFrom(g) == g = [c \in 1 .. choose |-> ChoicesFrom(in, c, g[c - 1])]
           from == CHOOSE g : IsFrom(g)
<1>1. AddCombinations(in, choose) = from[choose][1]
  BY DEF AddCombinations, ChoicesFrom
<1>2. none \in V
  OBVIOUS
<1>3. step \in [V \X (1 .. choose) -> V]
  BY ChoicesAreEdges
<1> HIDE DEF V, none
<1>4. PICK f \in [0 .. choose -> V] : IsLoop(f, choose, none, step)
  <2> HIDE DEF step
  <2> QED BY <1>2, <1>3, LoopExists
<1>5. ASSUME NEW c \in 1 .. choose PROVE f[c] = ChoicesFrom(in, c, f[c - 1])
  <2>1. c - 1 \in 0 .. choose
    OBVIOUS
  <2>2. <<f[c - 1], c>> \in V \X (1 .. choose)
    BY <2>1
  <2>3. step[<<f[c - 1], c>>] = ChoicesFrom(in, c, f[c - 1])
    BY <2>2
  <2> QED BY <1>4, <2>3 DEF IsLoop
<1>6. ASSUME NEW g, NEW h PROVE ChoicesFrom(in, 1, g) = ChoicesFrom(in, 1, h)
  BY DEF ChoicesFrom
<1> DEFINE part == [c \in 1 .. choose |-> f[c]]
<1>7. IsFrom(part)
  <2>1. ASSUME NEW c \in 1 .. choose PROVE part[c] = ChoicesFrom(in, c, part[c - 1])
    <3>1. CASE c = 1
      BY <1>5, <1>6, <3>1
    <3>2. CASE c # 1
      <4>1. c - 1 \in 1 .. choose
        BY <3>2
      <4> QED BY <1>5, <4>1
    <3> QED BY <3>1, <3>2
  <2> QED BY <2>1
<1>8. IsFrom(from)
  <2> HIDE DEF IsFrom, part
  <2> QED BY <1>7
<1> HIDE DEF from
<1> DEFINE T == {k \in 0 .. choose : k # 0 => from[k] = f[k]}
<1>9. 0 \in T
  OBVIOUS
<1>10. ASSUME NEW k \in 1 .. choose, k - 1 \in T PROVE k \in T
  <2>1. from[k] = ChoicesFrom(in, k, from[k - 1]) /\ f[k] = ChoicesFrom(in, k, f[k - 1])
    BY <1>5, <1>8
  <2>2. CASE k = 1
    BY <1>6, <2>1, <2>2
  <2>3. CASE k # 1
    <3>1. k - 1 # 0
      BY <2>3
    <3> QED BY <1>10, <2>1, <3>1
  <2> QED BY <2>2, <2>3
<1>11. choose \in T
  <2> HIDE DEF T
  <2>1. \A k \in 0 .. choose : k \in T
    BY <1>9, <1>10, CountingUp
  <2> QED BY <2>1
<1>12. AddCombinations(in, choose) = f[choose][1]
  BY <1>1, <1>11
<1> QED BY <1>4, <1>5, <1>12 DEF IsChoice, V

LEMMA CombinationsOfElements ==
    ASSUME NEW R, NEW in \in Seq(R), NEW choose \in Nat \ {0}
    PROVE  /\ AddCombinations(in, choose) \in Seq(EdgesOf(R))
           /\ choose = 1 => \A k \in DOMAIN in : <<in[k]>> \in ToSet(AddCombinations(in, choose))
<1> DEFINE n == Len(in)
<1>0. n \in Nat /\ DOMAIN in = 1 .. n /\ \A k \in 1 .. n : in[k] \in R
  OBVIOUS
<1>1. PICK f \in [0 .. choose -> [1 .. n + 1 -> Seq(EdgesOf(R))]] : IsChoice(f, in, choose)
  BY CombinationsAreChosen
<1>2. AddCombinations(in, choose) = f[choose][1]
  BY <1>1 DEF IsChoice
<1>3. choose \in 0 .. choose /\ 1 \in 1 .. n + 1 /\ choose \in 1 .. choose
  BY <1>0
<1>4. AddCombinations(in, choose) \in Seq(EdgesOf(R))
  <2> DEFINE E == Seq(EdgesOf(R))
  <2> HIDE DEF n, E
  <2>1. f \in [0 .. choose -> [1 .. n + 1 -> E]]
    BY <1>1 DEF E
  <2>2. f[choose] \in [1 .. n + 1 -> E]
    BY <1>3, <2>1
  <2>3. f[choose][1] \in E
    BY <1>3, <2>2
  <2> QED BY <1>2, <2>3 DEF E
<1>5. ASSUME choose = 1, NEW k \in 1 .. n
      PROVE  <<in[k]>> \in ToSet(AddCombinations(in, choose))
  <2> DEFINE ss == [i \in 1 .. n |-> <<<<in[i]>>>>]
  <2>1. AddCombinations(in, choose) = FlattenSeq(ss)
    <3>1. f[1] = ChoicesFrom(in, 1, f[0])
      BY <1>1, <1>3, <1>5 DEF IsChoice
    <3>2. ChoicesFrom(in, 1, f[0])[1] = FlattenSeq([i \in 1 .. n + 1 - 1 |-> <<<<in[1 + i - 1]>>>>])
      BY <1>3 DEF ChoicesFrom
    <3>3. [i \in 1 .. n + 1 - 1 |-> <<<<in[1 + i - 1]>>>>] = ss
      <4>1. 1 .. n + 1 - 1 = 1 .. n
        BY <1>0
      <4>2. \A i \in 1 .. n : 1 + i - 1 = i
        OBVIOUS
      <4> QED BY <4>1, <4>2
    <3> QED BY <1>2, <1>5, <3>1, <3>2, <3>3
  <2>2. ss \in Seq(Seq(Seq(R))) /\ DOMAIN ss = 1 .. n
    <3>1. ss \in [1 .. n -> Seq(Seq(R))]
      BY <1>0
    <3> HIDE DEF ss, n
    <3> QED BY <1>0, <3>1
  <2>3. <<in[k]>> \in ToSet(ss[k])
    <3>1. ss[k] = <<<<in[k]>>>>
      OBVIOUS
    <3>2. 1 \in DOMAIN <<<<in[k]>>>> /\ <<<<in[k]>>>>[1] = <<in[k]>>
      OBVIOUS
    <3> QED BY <3>1, <3>2 DEF ToSet
  <2> HIDE DEF ss
  <2> QED BY <2>1, <2>2, <2>3, FlattenElements
<1> QED BY <1>0, <1>4, <1>5

-----------------------------------------------------------------------------
(***************************************************************************)
(* The edges of a node, and the jumps of the edges.                        *)
(***************************************************************************)
LEMMA RequestFields ==
    ASSUME request \in Input
    PROVE  /\ request.init \in Definition
           /\ request.extensions \in Seq(Definition)
           /\ \A s \in Ext!Extensions(request) : s \in Definition
           /\ request.jump_ahead \in Nat \ {0}
           /\ InitSubset \in Definition
<1>1. /\ request.init \in Definition
      /\ request.extensions \in Seq(Definition)
      /\ request.jump_ahead \in Nat \ {0}
  BY CompilerAssumption DEF RequestOK
<1>2. \A s \in Ext!Extensions(request) : s \in Definition
  BY <1>1 DEF Ext!Extensions
<1>3. [Nothing EXCEPT !.features = DefaultFeatures] \in Definition
  <2>1. Nothing \in Definition /\ DefaultFeatures \in SUBSET Feature
    BY NothingIsDefinition, CompilerAssumption
  <2>2. [Nothing EXCEPT !.features = DefaultFeatures] =
           [codepoints |-> Nothing.codepoints, features |-> DefaultFeatures,
            design_space |-> Nothing.design_space]
    BY DEF Nothing
  <2> QED BY <2>1, <2>2 DEF Definition
<1> QED BY <1>1, <1>2, <1>3, UnionIsDefinition DEF InitSubset

LEMMA WhatRemains ==
    ASSUME request \in Input, NEW node \in Definition
    PROVE  /\ Remaining(node) \in Seq(Definition)
           /\ ToSet(Remaining(node)) =
                 {Subtract(s, node) : s \in Ext!Extensions(request)} \ {Nothing}
<1> DEFINE ext == request.extensions
           n == Len(ext)
           ss == [k \in 1 .. n |-> IF Subtract(ext[k], node) = Nothing THEN <<>>
                                   ELSE <<Subtract(ext[k], node)>>]
<1>1. n \in Nat /\ DOMAIN ext = 1 .. n /\ \A k \in 1 .. n : ext[k] \in Definition
  BY RequestFields
<1>2. Ext!Extensions(request) = {ext[k] : k \in 1 .. n}
  BY <1>1 DEF Ext!Extensions
<1>3. Remaining(node) = FlattenSeq(ss)
  BY <1>1 DEF Remaining
<1> HIDE DEF ext, n
<1>4. ss \in Seq(Seq(Definition)) /\ DOMAIN ss = 1 .. n
  <2>1. ASSUME NEW k \in 1 .. n PROVE ss[k] \in Seq(Definition)
    <3>1. Subtract(ext[k], node) \in Definition
      BY <1>1, RemainderIsDefinition
    <3> DEFINE r == Subtract(ext[k], node)
    <3> HIDE DEF r
    <3> QED BY <3>1 DEF r
  <2>2. ss \in [1 .. n -> Seq(Definition)]
    BY <2>1
  <2> HIDE DEF ss
  <2> QED BY <1>1, <2>2
<1>5. ASSUME NEW k \in 1 .. n, NEW x
      PROVE  x \in ToSet(ss[k]) <=> x = Subtract(ext[k], node) /\ x # Nothing
  <2> DEFINE r == Subtract(ext[k], node)
  <2>1. ss[k] = IF r = Nothing THEN <<>> ELSE <<r>>
    OBVIOUS
  <2> HIDE DEF r, ss
  <2>2. ToSet(ss[k]) = IF r = Nothing THEN {} ELSE {r}
    <3>1. DOMAIN <<>> = {} /\ DOMAIN <<r>> = {1} /\ <<r>>[1] = r
      OBVIOUS
    <3> QED BY <2>1, <3>1 DEF ToSet
  <2> QED BY <2>2 DEF r
<1> HIDE DEF ss
<1>6. /\ FlattenSeq(ss) \in Seq(Definition)
      /\ \A x : x \in ToSet(FlattenSeq(ss)) <=> \E k \in 1 .. n : x \in ToSet(ss[k])
  BY <1>4, FlattenElements
<1>7. ASSUME NEW x
      PROVE  x \in ToSet(FlattenSeq(ss))
             <=> x \in {Subtract(s, node) : s \in Ext!Extensions(request)} \ {Nothing}
  <2>1. x \in ToSet(FlattenSeq(ss)) <=> \E k \in 1 .. n : x = Subtract(ext[k], node) /\ x # Nothing
    BY <1>5, <1>6
  <2> QED BY <1>2, <2>1
<1> QED BY <1>3, <1>6, <1>7

LEMMA EdgesOfNode ==
    ASSUME request \in Input, NEW node \in Definition
    PROVE  /\ OutgoingEdges(node) \in Seq(EdgesOf(ToSet(Remaining(node))))
           /\ OutgoingEdges(node) \in Seq(Seq(Definition))
           /\ \A r \in ToSet(Remaining(node)) : <<r>> \in ToSet(OutgoingEdges(node))
<1> DEFINE in == Remaining(node)
           R == ToSet(in)
           n == request.jump_ahead
           ss == [choose \in 1 .. n |-> AddCombinations(in, choose)]
<1>1. n \in Nat /\ 1 \in 1 .. n
  BY RequestFields
<1>2. in \in Seq(R) /\ R \in SUBSET Definition
  <2>1. in \in Seq(Definition)
    BY WhatRemains
  <2> QED BY <2>1 DEF ToSet
<1>3. OutgoingEdges(node) = FlattenSeq(ss)
  BY DEF OutgoingEdges
<1>0. R = ToSet(in)
  OBVIOUS
<1> HIDE DEF in, R, n
<1>4. ss \in Seq(Seq(EdgesOf(R))) /\ DOMAIN ss = 1 .. n
  <2>1. ASSUME NEW choose \in 1 .. n PROVE ss[choose] \in Seq(EdgesOf(R))
    <3>1. choose \in Nat \ {0}
      OBVIOUS
    <3> QED BY <1>2, <3>1, CombinationsOfElements
  <2>2. ss \in [1 .. n -> Seq(EdgesOf(R))]
    BY <2>1
  <2> HIDE DEF ss
  <2> QED BY <1>1, <2>2
<1>5. /\ FlattenSeq(ss) \in Seq(EdgesOf(R))
      /\ \A x : x \in ToSet(FlattenSeq(ss)) <=> \E k \in 1 .. n : x \in ToSet(ss[k])
  <2> HIDE DEF ss
  <2> QED BY <1>4, FlattenElements
<1>6. ASSUME NEW r \in R PROVE <<r>> \in ToSet(FlattenSeq(ss))
  <2>1. PICK k \in DOMAIN in : r = in[k]
    BY <1>0 DEF ToSet
  <2>2. <<in[k]>> \in ToSet(AddCombinations(in, 1))
    BY <1>2, CombinationsOfElements
  <2>3. ss[1] = AddCombinations(in, 1)
    BY <1>1
  <2> QED BY <1>1, <1>5, <2>1, <2>2, <2>3
<1>7. EdgesOf(R) \subseteq Seq(Definition)
  <2>1. \A s \in Seq(R) : s \in Seq(Definition)
    BY <1>2
  <2> QED BY <2>1 DEF EdgesOf
<1>8. OutgoingEdges(node) \in Seq(Seq(Definition))
  <2> DEFINE E == EdgesOf(R)
             D == Seq(Definition)
  <2> HIDE DEF E, D
  <2>1. OutgoingEdges(node) \in Seq(E) /\ E \subseteq D
    BY <1>3, <1>5, <1>7 DEF E, D
  <2>2. OutgoingEdges(node) \in Seq(D)
    BY <2>1
  <2> QED BY <2>2 DEF D
<1> QED BY <1>3, <1>5, <1>6, <1>8 DEF in, R

IsCall(c, edges, node) ==
    \E e \in DOMAIN edges : \E k \in DOMAIN Jumps(edges[e], node) :
        c = [edge |-> e, first |-> k = 1, jump |-> Jumps(edges[e], node)[k]]

LEMMA CallsOfEdges ==
    ASSUME NEW node \in Definition, NEW edges \in Seq(Seq(Definition))
    PROVE  /\ Calls(edges, node) \in
                 Seq([edge : DOMAIN edges, first : BOOLEAN, jump : Jump])
           /\ \A c : c \in ToSet(Calls(edges, node)) <=> IsCall(c, edges, node)
<1> DEFINE n == Len(edges)
           C == [edge : DOMAIN edges, first : BOOLEAN, jump : Jump]
           jumps(e) == Jumps(edges[e], node)
           ss == [e \in 1 .. n |-> [k \in DOMAIN jumps(e) |->
                     [edge |-> e, first |-> k = 1, jump |-> jumps(e)[k]]]]
<1>1. n \in Nat /\ DOMAIN edges = 1 .. n /\ \A e \in 1 .. n : edges[e] \in Seq(Definition)
  OBVIOUS
<1>2. ASSUME NEW e \in 1 .. n PROVE jumps(e) \in Seq(Jump)
  BY <1>1, JumpsOfEdge DEF GoodJumps, IsWay
<1>3. Calls(edges, node) = FlattenSeq(ss)
  BY <1>1 DEF Calls
<1> HIDE DEF n, jumps, C
<1>4. ss \in Seq(Seq(C)) /\ DOMAIN ss = 1 .. n
  <2>1. ASSUME NEW e \in 1 .. n PROVE ss[e] \in Seq(C)
    <3> DEFINE m == Len(jumps(e))
    <3>1. m \in Nat /\ DOMAIN jumps(e) = 1 .. m /\ \A k \in 1 .. m : jumps(e)[k] \in Jump
      BY <1>2
    <3> HIDE DEF m
    <3>2. ss[e] = [k \in 1 .. m |-> [edge |-> e, first |-> k = 1, jump |-> jumps(e)[k]]]
      BY <3>1
    <3>3. \A k \in 1 .. m : [edge |-> e, first |-> k = 1, jump |-> jumps(e)[k]] \in C
      BY <1>1, <3>1 DEF C
    <3> QED BY <3>1, <3>2, <3>3
  <2>2. ss \in [1 .. n -> Seq(C)]
    BY <2>1
  <2> HIDE DEF ss
  <2> QED BY <1>1, <2>2
<1>5. /\ FlattenSeq(ss) \in Seq(C)
      /\ \A x : x \in ToSet(FlattenSeq(ss)) <=> \E k \in 1 .. n : x \in ToSet(ss[k])
  <2> HIDE DEF ss
  <2> QED BY <1>4, FlattenElements
<1>6. ASSUME NEW e \in 1 .. n, NEW c
      PROVE  c \in ToSet(ss[e]) <=>
                \E k \in DOMAIN jumps(e) :
                   c = [edge |-> e, first |-> k = 1, jump |-> jumps(e)[k]]
  BY DEF ToSet
<1> HIDE DEF ss
<1>7. ASSUME NEW c
      PROVE  c \in ToSet(Calls(edges, node)) <=> IsCall(c, edges, node)
  <2>1. c \in ToSet(FlattenSeq(ss)) <=> \E e \in 1 .. n : c \in ToSet(ss[e])
    BY <1>5
  <2>2. IsCall(c, edges, node) <=>
           \E e \in 1 .. n : \E k \in DOMAIN jumps(e) :
              c = [edge |-> e, first |-> k = 1, jump |-> jumps(e)[k]]
    BY <1>1 DEF IsCall, jumps
  <2> QED BY <1>3, <1>6, <2>1, <2>2
<1>8. Calls(edges, node) \in Seq(C)
  BY <1>3, <1>5
<1> QED BY <1>7, <1>8 DEF C

\* each jump of a node starts at the node or above it, and goes up
LEMMA JumpsGoUp ==
    ASSUME NEW node \in Definition, NEW edges \in Seq(Seq(Definition)),
           NEW c \in ToSet(Calls(edges, node))
    PROVE  /\ c.edge \in DOMAIN edges /\ c.first \in BOOLEAN /\ c.jump \in Jump
           /\ c.jump[1] \in Definition /\ c.jump[2] \in Definition
           /\ c.jump = <<c.jump[1], c.jump[2]>>
           /\ Includes(c.jump[1], node)
           /\ Above(c.jump[2], c.jump[1]) /\ Above(c.jump[2], node)
<1>0. IsCall(c, edges, node)
  BY CallsOfEdges
<1>1. PICK e \in DOMAIN edges : \E k \in DOMAIN Jumps(edges[e], node) :
             c = [edge |-> e, first |-> k = 1, jump |-> Jumps(edges[e], node)[k]]
  BY <1>0 DEF IsCall
<1> DEFINE jumps == Jumps(edges[e], node)
<1>2. PICK k \in DOMAIN jumps : c = [edge |-> e, first |-> k = 1, jump |-> jumps[k]]
  BY <1>1
<1>3. PICK end : IsWay(jumps, node, end)
  BY JumpsOfEdge DEF GoodJumps
<1>4. /\ jumps[k] \in Jump
      /\ Includes(jumps[k][1], node) /\ Above(jumps[k][2], jumps[k][1])
  BY <1>2, <1>3 DEF IsWay
<1> HIDE DEF jumps
<1>5. c.edge = e /\ c.first \in BOOLEAN /\ c.jump = jumps[k]
  BY <1>2
<1>6. /\ c.jump[1] \in Definition /\ c.jump[2] \in Definition
      /\ c.jump = <<c.jump[1], c.jump[2]>>
  BY <1>4, <1>5 DEF Jump
<1> QED BY <1>1, <1>4, <1>5, <1>6, AboveTransitive

-----------------------------------------------------------------------------
(***************************************************************************)
(* The sort of the edges: smaller edges come first, each edge has a place  *)
(* of its own, and none is lost.                                           *)
(***************************************************************************)
LEMMA EachPlaceOnce ==
    ASSUME NEW n \in Nat, NEW sizes \in [1 .. n -> Nat],
           NEW place \in [1 .. n -> Nat],
           \A e \in 1 .. n : place[e] = Cardinality({f \in 1 .. n :
               \/ sizes[f] < sizes[e]
               \/ sizes[f] = sizes[e] /\ f < e}) + 1
    PROVE  \A k \in 1 .. n : \E e \in 1 .. n : place[e] = k
<1> DEFINE S == 1 .. n
           smaller(f, e) == \/ sizes[f] < sizes[e]
                            \/ sizes[f] = sizes[e] /\ f < e
           before(e) == {f \in S : smaller(f, e)}
<1>1. IsFiniteSet(S) /\ Cardinality(S) = n
  BY FS_Interval
<1>2. ASSUME NEW e \in S
      PROVE  /\ IsFiniteSet(before(e)) /\ Cardinality(before(e)) \in Nat
             /\ place[e] = Cardinality(before(e)) + 1 /\ place[e] \in S
  <2>1. place[e] = Cardinality(before(e)) + 1
    OBVIOUS
  <2>2. e \notin before(e) /\ before(e) \subseteq S
    OBVIOUS
  <2> HIDE DEF before
  <2>3. IsFiniteSet(before(e)) /\ Cardinality(before(e)) \in Nat /\ Cardinality(before(e)) <= n
    BY <1>1, <2>2, FS_Subset, FS_CardinalityType
  <2>4. Cardinality(before(e)) # n
    BY <1>1, <2>2, FS_Subset
  <2> QED BY <2>1, <2>3, <2>4
<1>3. ASSUME NEW e \in S, NEW f \in S, smaller(f, e) PROVE place[f] < place[e]
  <2>1. before(f) \subseteq before(e)
    BY <1>3
  <2>2. f \in before(e) /\ f \notin before(f)
    BY <1>3
  <2> HIDE DEF before
  <2>3. /\ IsFiniteSet(before(e)) /\ Cardinality(before(e)) \in Nat
        /\ place[e] = Cardinality(before(e)) + 1
        /\ Cardinality(before(f)) \in Nat /\ place[f] = Cardinality(before(f)) + 1
    BY <1>2
  <2>4. /\ Cardinality(before(f)) <= Cardinality(before(e))
        /\ Cardinality(before(f)) # Cardinality(before(e))
    BY <2>1, <2>2, <2>3, FS_Subset
  <2> QED BY <2>3, <2>4
<1>4. ASSUME NEW e \in S, NEW f \in S, e # f PROVE smaller(e, f) \/ smaller(f, e)
  BY <1>4
<1> HIDE DEF before, smaller
<1>5. place \in Injection(S, S)
  <2>1. place \in [S -> S]
    BY <1>2
  <2>2. ASSUME NEW e \in S, NEW f \in S, place[e] = place[f] PROVE e = f
    <3> SUFFICES ASSUME e # f PROVE FALSE
      OBVIOUS
    <3>1. place[e] < place[f] \/ place[f] < place[e]
      BY <1>3, <1>4
    <3>2. place[e] \in Nat /\ place[f] \in Nat
      OBVIOUS
    <3> QED BY <2>2, <3>1, <3>2
  <2> HIDE DEF S
  <2> QED BY <2>1, <2>2 DEF Injection, IsInjective
<1>6. place \in Surjection(S, S)
  <2> HIDE DEF S
  <2> QED BY <1>1, <1>5, FS_Injection
<1> QED BY <1>6 DEF Surjection

LEMMA SortKeepsEdges ==
    ASSUME NEW X, Top.edges \in Seq(X), Top.sizes \in [DOMAIN Top.edges -> Nat]
    PROVE  /\ SortedEdges \in Seq(X) /\ ToSet(SortedEdges) = ToSet(Top.edges)
           /\ \A k, l \in DOMAIN SortedEdges : k # l =>
                 \E e, f \in DOMAIN Top.edges : /\ e # f /\ SortedEdges[k] = Top.edges[e]
                                               /\ SortedEdges[l] = Top.edges[f]
<1> DEFINE edges == Top.edges
           sizes == Top.sizes
           n == Len(edges)
           S == 1 .. n
           place == [e \in S |-> Cardinality({f \in S :
                        \/ sizes[f] < sizes[e]
                        \/ sizes[f] = sizes[e] /\ f < e}) + 1]
           comes(e, k) == Cardinality({f \in S : \/ sizes[f] < sizes[e]
                                                 \/ sizes[f] = sizes[e] /\ f < e}) + 1 = k
           at(k) == CHOOSE e \in S : comes(e, k)
<1>0. n \in Nat /\ DOMAIN edges = S /\ \A e \in S : edges[e] \in X
  OBVIOUS
<1>00. sizes \in [S -> Nat]
  BY <1>0
<1>1. SortedEdges = [k \in S |-> edges[at(k)]]
  BY <1>0 DEF SortedEdges
<1>9. \A e \in S : place[e] = Cardinality({f \in S :
               \/ sizes[f] < sizes[e]
               \/ sizes[f] = sizes[e] /\ f < e}) + 1
  OBVIOUS
<1> HIDE DEF edges, sizes, n
<1>2. place \in [S -> Nat]
  <2>1. ASSUME NEW e \in S
        PROVE  Cardinality({f \in S : \/ sizes[f] < sizes[e]
                                      \/ sizes[f] = sizes[e] /\ f < e}) \in Nat
    <3> DEFINE B == {f \in S : \/ sizes[f] < sizes[e]
                               \/ sizes[f] = sizes[e] /\ f < e}
    <3>1. IsFiniteSet(S) /\ B \in SUBSET S
      BY <1>0, FS_Interval
    <3> HIDE DEF B, S
    <3>2. Cardinality(B) \in Nat
      BY <3>1, FS_Subset, FS_CardinalityType
    <3> QED BY <3>2 DEF B
  <2> QED BY <2>1
<1>3. \A k \in S : \E e \in S : place[e] = k
  <2> HIDE DEF place
  <2> QED BY <1>0, <1>00, <1>2, <1>9, EachPlaceOnce
<1>4. \A k \in S : at(k) \in S /\ place[at(k)] = k
  <2>1. ASSUME NEW k \in S PROVE at(k) \in S /\ place[at(k)] = k
    <3>1. \A e \in S : comes(e, k) <=> place[e] = k
      OBVIOUS
    <3> HIDE DEF comes, place
    <3>2. \E e \in S : comes(e, k)
      BY <1>3, <3>1
    <3>3. at(k) \in S /\ comes(at(k), k)
      BY <3>2
    <3> HIDE DEF at
    <3> QED BY <3>1, <3>3
  <2> QED BY <2>1
<1>5. \A e \in S : place[e] \in S
  <2>1. ASSUME NEW e \in S PROVE place[e] <= n
    <3> DEFINE B == {f \in S : \/ sizes[f] < sizes[e]
                               \/ sizes[f] = sizes[e] /\ f < e}
    <3>1. IsFiniteSet(S) /\ Cardinality(S) = n /\ B \in SUBSET S /\ e \notin B
      BY <1>0, <1>00, FS_Interval
    <3>2. place[e] = Cardinality(B) + 1
      OBVIOUS
    <3> HIDE DEF B, S, place
    <3>3. Cardinality(B) <= n /\ Cardinality(B) # n /\ Cardinality(B) \in Nat
      BY <3>1, FS_Subset, FS_CardinalityType
    <3> QED BY <1>0, <3>2, <3>3
  <2>2. ASSUME NEW e \in S PROVE place[e] >= 1
    <3> DEFINE B == {f \in S : \/ sizes[f] < sizes[e]
                               \/ sizes[f] = sizes[e] /\ f < e}
    <3>1. IsFiniteSet(S) /\ B \in SUBSET S
      BY <1>0, FS_Interval
    <3>2. place[e] = Cardinality(B) + 1
      OBVIOUS
    <3> HIDE DEF B, S, place
    <3>3. Cardinality(B) \in Nat
      BY <3>1, FS_Subset, FS_CardinalityType
    <3> QED BY <3>2, <3>3
  <2> HIDE DEF place
  <2> QED BY <1>0, <1>2, <2>1, <2>2
<1> HIDE DEF place
<1>6. place \in Injection(S, S)
  <2>1. place \in [S -> S]
    BY <1>2, <1>5
  <2>2. place \in Surjection(S, S)
    BY <1>3, <2>1 DEF Surjection
  <2>3. IsFiniteSet(S)
    BY <1>0, FS_Interval
  <2> HIDE DEF S
  <2>4. place \in Injection(S, S)
    BY <2>2, <2>3, FS_SurjSameCardinalityImpliesInj
  <2> QED BY <2>4
<1>7. \A e \in S : at(place[e]) = e
  <2>1. ASSUME NEW e \in S PROVE at(place[e]) = e
    <3>1. place[e] \in S /\ at(place[e]) \in S /\ place[at(place[e])] = place[e]
      BY <1>4, <1>5
    <3> HIDE DEF at, S
    <3> QED BY <1>6, <3>1 DEF Injection, IsInjective
  <2> QED BY <2>1
<1> HIDE DEF at
<1>8. SortedEdges \in Seq(X) /\ DOMAIN SortedEdges = S
  BY <1>0, <1>1, <1>4
<1>10. \A e \in S : edges[e] \in ToSet(SortedEdges)
  <2>1. ASSUME NEW e \in S PROVE SortedEdges[place[e]] = edges[e]
    BY <1>1, <1>5, <1>7
  <2> QED BY <1>5, <1>8, <2>1 DEF ToSet
<1>11. \A k \in S : SortedEdges[k] \in ToSet(edges)
  BY <1>0, <1>1, <1>4 DEF ToSet
<1> HIDE DEF S
<1>12. ToSet(SortedEdges) = ToSet(edges)
  BY <1>0, <1>8, <1>10, <1>11 DEF ToSet
<1>13. ASSUME NEW k \in S, NEW l \in S, k # l
       PROVE  \E e, f \in S : e # f /\ SortedEdges[k] = edges[e] /\ SortedEdges[l] = edges[f]
  <2>1. at(k) # at(l)
    BY <1>4, <1>13
  <2>2. /\ at(k) \in S /\ SortedEdges[k] = edges[at(k)]
        /\ at(l) \in S /\ SortedEdges[l] = edges[at(l)]
    BY <1>1, <1>4
  <2> QED BY <2>1, <2>2
<1> QED BY <1>0, <1>8, <1>12, <1>13 DEF edges

-----------------------------------------------------------------------------
(***************************************************************************)
(* What is computed from the request stays as it is while the compiler and *)
(* the client work.                                                        *)
(***************************************************************************)
SameRequest ==
    /\ \A node : Remaining(node)' = Remaining(node)
    /\ \A node : OutgoingEdges(node)' = OutgoingEdges(node)
    /\ \A edge, node : Jumps(edge, node)' = Jumps(edge, node)
    /\ \A edges, node : Calls(edges, node)' = Calls(edges, node)
    /\ InitSubset' = InitSubset
    /\ IsMixedMode' = IsMixedMode
    /\ \A space : DefaultPosition(space)' = DefaultPosition(space)
    /\ \A node : CutSubset(node)' = CutSubset(node)
    /\ \A current, next : PatchFrom(current, next)' = PatchFrom(current, next)

LEMMA RequestStays ==
    ASSUME request' = request
    PROVE  SameRequest
<1>1. \A node : Remaining(node)' = Remaining(node)
  BY DEF Remaining
<1>2. \A node : OutgoingEdges(node)' = OutgoingEdges(node)
  BY <1>1 DEF OutgoingEdges
<1>3. \A edge, node : Jumps(edge, node)' = Jumps(edge, node)
  BY DEF Jumps
<1>4. \A edges, node : Calls(edges, node)' = Calls(edges, node)
  BY <1>3 DEF Calls
<1>5. InitSubset' = InitSubset
  BY DEF InitSubset
<1>6. IsMixedMode' = IsMixedMode
  BY DEF IsMixedMode
<1>7. FullDesignSpace' = FullDesignSpace
  BY <1>5 DEF FullDesignSpace
<1>8. \A space : DefaultPosition(space)' = DefaultPosition(space)
  BY <1>7 DEF DefaultPosition
<1>9. \A node : CutSubset(node)' = CutSubset(node)
  BY <1>8 DEF CutSubset
<1>10. \A current, next : PatchFrom(current, next)' = PatchFrom(current, next)
  BY <1>6 DEF PatchFrom, ModeOf
<1> QED BY <1>1, <1>2, <1>3, <1>4, <1>5, <1>6, <1>8, <1>9, <1>10 DEF SameRequest

-----------------------------------------------------------------------------
(***************************************************************************)
(* The stack of the calls of Compile.  A call works on the jumps of its    *)
(* node, and each call below is for a node with more than those above:     *)
(* what makes the recursion end.                                           *)
(***************************************************************************)
IsStack(s) == s \in Seq(ToSet(s))

FrameShape(f) ==
    /\ f = [own |-> f.own, edges |-> f.edges, phase |-> f.phase,
            current |-> f.current, left |-> f.left, sizes |-> f.sizes]
    /\ f.own = Result(f.own.node, f.own.font, f.own.compat, f.own.patch_set)
    /\ f.own.node \in Definition
    /\ f.edges = OutgoingEdges(f.own.node)
    /\ f.left \in Seq(ToSet(Calls(f.edges, f.own.node)))
    /\ f.sizes \in [DOMAIN f.edges -> Nat]

StackShape(s) ==
    /\ IsStack(s)
    /\ \A k \in DOMAIN s : FrameShape(s[k])
    /\ \A k, l \in DOMAIN s : k < l => Above(s[k].own.node, s[l].own.node)
    /\ s # <<>> => s[Len(s)].own.node = InitSubset

ContextShape(c) ==
    /\ c = [built_subsets |-> c.built_subsets,
            estimated_patch_sizes |-> c.estimated_patch_sizes,
            table_keyed_patch_id |-> c.table_keyed_patch_id, patches |-> c.patches,
            glyph_patches |-> c.glyph_patches, patch_sets |-> c.patch_sets,
            next_patch_set_id |-> c.next_patch_set_id,
            next_compat_id |-> c.next_compat_id]
    /\ \A j \in DOMAIN c.estimated_patch_sizes : c.estimated_patch_sizes[j] \in Nat

Shape ==
    /\ request \in Input
    /\ ContextShape(context)
    /\ StackShape(stack)
    /\ status = "start" => stack = <<>>

LEMMA OwnElements ==
    ASSUME NEW S, NEW s \in Seq(S)
    PROVE  s \in Seq(ToSet(s))
<1> DEFINE T == ToSet(s)
<1>1. \A k \in 1 .. Len(s) : s[k] \in T
  BY DEF ToSet
<1> HIDE DEF T
<1>2. Len(s) \in Nat /\ s = [k \in 1 .. Len(s) |-> s[k]]
  OBVIOUS
<1>3. [k \in 1 .. Len(s) |-> s[k]] \in Seq(T)
  BY <1>1, <1>2
<1>4. s \in Seq(T)
  BY <1>2, <1>3
<1> QED BY <1>4 DEF T

LEMMA Pushing ==
    ASSUME NEW s, IsStack(s), NEW f
    PROVE  /\ IsStack(<<f>> \o s) /\ <<f>> \o s # <<>>
           /\ Len(s) \in Nat /\ Len(<<f>> \o s) = Len(s) + 1
           /\ DOMAIN s = 1 .. Len(s) /\ DOMAIN (<<f>> \o s) = 1 .. Len(s) + 1
           /\ (<<f>> \o s)[1] = f /\ Head(<<f>> \o s) = f /\ Tail(<<f>> \o s) = s
           /\ \A k \in 2 .. Len(s) + 1 : (<<f>> \o s)[k] = s[k - 1]
<1>1. s \in Seq(ToSet(s) \cup {f}) /\ <<f>> \in Seq(ToSet(s) \cup {f})
  BY DEF IsStack
<1> HIDE DEF ToSet
<1>2. /\ Len(s) \in Nat /\ Len(<<f>> \o s) = Len(s) + 1
      /\ DOMAIN s = 1 .. Len(s) /\ DOMAIN (<<f>> \o s) = 1 .. Len(s) + 1
      /\ (<<f>> \o s)[1] = f
      /\ \A k \in 2 .. Len(s) + 1 : (<<f>> \o s)[k] = s[k - 1]
      /\ <<f>> \o s \in Seq(ToSet(s) \cup {f})
  BY <1>1
<1>4. <<f>> \o s \in Seq(ToSet(<<f>> \o s))
  BY <1>2, OwnElements
<1>5. <<f>> \o s # <<>> /\ Head(<<f>> \o s) = f /\ Tail(<<f>> \o s) = s
  BY <1>1, <1>2
<1> QED BY <1>2, <1>4, <1>5 DEF IsStack

LEMMA Popping ==
    ASSUME NEW s, IsStack(s), s # <<>>
    PROVE  /\ IsStack(Tail(s)) /\ Head(s) = s[1] /\ 1 \in DOMAIN s
           /\ Len(s) \in Nat \ {0} /\ Len(Tail(s)) = Len(s) - 1
           /\ DOMAIN s = 1 .. Len(s) /\ DOMAIN Tail(s) = 1 .. Len(s) - 1
           /\ \A k \in DOMAIN Tail(s) : Tail(s)[k] = s[k + 1]
           /\ Tail(s) = <<>> <=> Len(s) = 1
<1>1. s \in Seq(ToSet(s))
  BY DEF IsStack
<1>2. /\ Head(s) = s[1] /\ 1 \in DOMAIN s
      /\ Len(s) \in Nat \ {0} /\ Len(Tail(s)) = Len(s) - 1
      /\ DOMAIN s = 1 .. Len(s) /\ DOMAIN Tail(s) = 1 .. Len(s) - 1
      /\ \A k \in DOMAIN Tail(s) : Tail(s)[k] = s[k + 1]
      /\ Tail(s) \in Seq(ToSet(s))
  BY <1>1
<1>4. Tail(s) \in Seq(ToSet(Tail(s)))
  BY <1>2, OwnElements
<1>5. Tail(s) = <<>> <=> Len(s) = 1
  <2>1. ASSUME NEW S, NEW t \in Seq(S) PROVE t = <<>> <=> Len(t) = 0
    OBVIOUS
  <2>2. Tail(s) = <<>> <=> Len(Tail(s)) = 0
    BY <1>2, <2>1, Zenon
  <2>3. Len(Tail(s)) = 0 <=> Len(s) = 1
    BY <1>2
  <2> QED BY <2>2, <2>3
<1> QED BY <1>2, <1>4, <1>5 DEF IsStack

LEMMA PushShape ==
    ASSUME NEW s, StackShape(s), NEW f, FrameShape(f),
           s # <<>> => Above(f.own.node, Head(s).own.node),
           s = <<>> => f.own.node = InitSubset
    PROVE  StackShape(<<f>> \o s)
<1> DEFINE t == <<f>> \o s
<1>0. IsStack(s)
  BY DEF StackShape
<1>1. /\ IsStack(t) /\ t # <<>>
      /\ Len(s) \in Nat /\ Len(t) = Len(s) + 1
      /\ DOMAIN s = 1 .. Len(s) /\ DOMAIN t = 1 .. Len(s) + 1
      /\ t[1] = f
      /\ \A k \in 2 .. Len(s) + 1 : t[k] = s[k - 1]
  BY <1>0, Pushing
<1>2. s # <<>> => Head(s) = s[1] /\ Len(s) # 0 /\ 1 \in DOMAIN s
  BY <1>0, Popping
<1>3. s = <<>> => Len(s) = 0
  OBVIOUS
<1> HIDE DEF t
<1>4. \A k \in DOMAIN t : FrameShape(t[k])
  BY <1>1 DEF StackShape
<1>5. ASSUME NEW k \in DOMAIN t, NEW l \in DOMAIN t, k < l
      PROVE  Above(t[k].own.node, t[l].own.node)
  <2>0. s # <<>> /\ l - 1 \in DOMAIN s /\ t[l] = s[l - 1]
    BY <1>1, <1>3, <1>5
  <2>1. CASE k # 1
    <3>1. k - 1 \in DOMAIN s /\ t[k] = s[k - 1] /\ k - 1 < l - 1
      BY <1>1, <1>5, <2>1
    <3> QED BY <2>0, <3>1 DEF StackShape
  <2>2. CASE k = 1
    <3>1. Above(f.own.node, s[1].own.node)
      BY <1>2, <2>0
    <3>2. FrameShape(s[1]) /\ FrameShape(s[l - 1])
      BY <1>2, <2>0 DEF StackShape
    <3>3. f.own.node \in Definition /\ s[1].own.node \in Definition
          /\ s[l - 1].own.node \in Definition
      BY <3>2 DEF FrameShape
    <3>4. CASE l - 1 = 1
      BY <1>1, <2>0, <2>2, <3>1, <3>4
    <3>5. CASE l - 1 # 1
      <4>1. 1 < l - 1
        BY <1>1, <2>0, <3>5
      <4>2. Above(s[1].own.node, s[l - 1].own.node)
        BY <1>2, <2>0, <4>1 DEF StackShape
      <4>3. Includes(s[1].own.node, s[l - 1].own.node)
        BY <4>2 DEF Above
      <4>4. Above(f.own.node, s[l - 1].own.node)
        BY <3>1, <3>3, <4>3, AboveTransitive
      <4> QED BY <1>1, <2>0, <2>2, <4>4
    <3> QED BY <3>4, <3>5
  <2> QED BY <2>1, <2>2
<1>6. t[Len(t)].own.node = InitSubset
  <2>1. CASE s = <<>>
    BY <1>1, <1>3, <2>1
  <2>2. CASE s # <<>>
    <3>1. t[Len(t)] = s[Len(s)]
      BY <1>1, <1>2, <2>2
    <3> QED BY <2>2, <3>1 DEF StackShape
  <2> QED BY <2>1, <2>2
<1>7. StackShape(t)
  BY <1>1, <1>4, <1>5, <1>6 DEF StackShape
<1> QED BY <1>7 DEF t

LEMMA PopShape ==
    ASSUME NEW s, StackShape(s), s # <<>>
    PROVE  /\ StackShape(Tail(s)) /\ FrameShape(Head(s))
           /\ Tail(s) # <<>> => Above(Head(s).own.node, Head(Tail(s)).own.node)
           /\ Tail(s) = <<>> => Head(s).own.node = InitSubset
<1> DEFINE t == Tail(s)
<1>0. IsStack(s)
  BY DEF StackShape
<1>1. /\ IsStack(t) /\ Head(s) = s[1] /\ 1 \in DOMAIN s
      /\ Len(s) \in Nat \ {0} /\ Len(t) = Len(s) - 1
      /\ DOMAIN s = 1 .. Len(s) /\ DOMAIN t = 1 .. Len(s) - 1
      /\ \A k \in DOMAIN t : t[k] = s[k + 1]
      /\ t = <<>> <=> Len(s) = 1
  BY <1>0, Popping
<1>2. t # <<>> => Head(t) = t[1] /\ 1 \in DOMAIN t
  BY <1>1, Popping
<1> HIDE DEF t
<1>3. \A k \in DOMAIN t : k + 1 \in DOMAIN s /\ t[k] = s[k + 1]
  BY <1>1
<1>4. \A k \in DOMAIN t : FrameShape(t[k])
  BY <1>3 DEF StackShape
<1>5. \A k, l \in DOMAIN t : k < l => Above(t[k].own.node, t[l].own.node)
  <2>1. ASSUME NEW k \in DOMAIN t, NEW l \in DOMAIN t, k < l
        PROVE  Above(t[k].own.node, t[l].own.node)
    <3>1. k + 1 < l + 1
      BY <1>1, <2>1
    <3>2. k + 1 \in DOMAIN s /\ l + 1 \in DOMAIN s /\ t[k] = s[k + 1] /\ t[l] = s[l + 1]
      BY <1>3
    <3> QED BY <3>1, <3>2 DEF StackShape
  <2> QED BY <2>1
<1>6. t # <<>> => t[Len(t)].own.node = InitSubset
  <2>1. t # <<>> => t[Len(t)] = s[Len(s)]
    BY <1>1
  <2> QED BY <2>1 DEF StackShape
<1>7. StackShape(t)
  BY <1>1, <1>4, <1>5, <1>6 DEF StackShape
<1>8. t # <<>> => Above(s[1].own.node, t[1].own.node)
  <2>1. t # <<>> => 1 + 1 \in DOMAIN s /\ t[1] = s[1 + 1] /\ 1 < 1 + 1
    BY <1>1, <1>2
  <2> QED BY <1>1, <2>1 DEF StackShape
<1>9. t = <<>> => s[1].own.node = InitSubset
  BY <1>1 DEF StackShape
<1>10. FrameShape(s[1])
  BY <1>1 DEF StackShape
<1> QED BY <1>1, <1>2, <1>7, <1>8, <1>9, <1>10 DEF t

LEMMA ReplaceShape ==
    ASSUME NEW s, StackShape(s), s # <<>>, NEW f, FrameShape(f),
           f.own.node = Head(s).own.node
    PROVE  StackShape(<<f>> \o Tail(s))
  BY PopShape, PushShape

-----------------------------------------------------------------------------
(***************************************************************************)
(* What the steps of the compiler do to the context and the stack.         *)
(***************************************************************************)
LEMMA PutValues ==
    ASSUME NEW f, NEW k, NEW v
    PROVE  /\ DOMAIN Put(f, k, v) = DOMAIN f \cup {k}
           /\ Put(f, k, v)[k] = v
           /\ \A x \in DOMAIN f : x # k => Put(f, k, v)[x] = f[x]
  BY DEF Put

\* the context in which the call for a node begins, and its result so far
Populated(node) ==
    EnsureGlyphKeyedPatchesPopulated(
        [context EXCEPT !.next_compat_id = @ + 1], node.design_space)

Started(node) ==
    Result(node, CutSubset(node), context.next_compat_id,
           PatchSetOf(Populated(node), node.design_space))

Leaf(node) == Result(node, CutSubset(node), 0, NoPatchSet)

LEMMA NodeCases ==
    ASSUME NEW node, CompileNode(node)
    PROVE  \/ /\ OutgoingEdges(node) = <<>> /\ ~IsMixedMode
              /\ context' = [Populated(node) EXCEPT
                                !.built_subsets = Put(@, node, Leaf(node))]
              /\ stack' = stack
           \/ /\ context' = Populated(node)
              /\ stack' = <<Frame(Started(node), OutgoingEdges(node), "estimate")>> \o stack
  BY DEF CompileNode, Populated, Started, Leaf

LEMMA PopulatedShape ==
    ASSUME ContextShape(context), NEW node
    PROVE  /\ ContextShape(Populated(node))
           /\ Populated(node).built_subsets = context.built_subsets
           /\ Populated(node).table_keyed_patch_id = context.table_keyed_patch_id
           /\ Populated(node).patches = context.patches
<1> DEFINE c == [context EXCEPT !.next_compat_id = @ + 1]
<1>1. /\ ContextShape(c)
      /\ c.built_subsets = context.built_subsets
      /\ c.table_keyed_patch_id = context.table_keyed_patch_id
      /\ c.patches = context.patches
  BY DEF ContextShape
<1>2. Populated(node) = EnsureGlyphKeyedPatchesPopulated(c, node.design_space)
  BY DEF Populated
<1> HIDE DEF c
<1>3. CASE ~IsMixedMode \/ node.design_space \in DOMAIN c.patch_sets
  <2>1. Populated(node) = c
    BY <1>2, <1>3 DEF EnsureGlyphKeyedPatchesPopulated
  <2> QED BY <1>1, <2>1
<1>4. CASE ~(~IsMixedMode \/ node.design_space \in DOMAIN c.patch_sets)
  <2> DEFINE set == [url |-> c.next_patch_set_id, compat |-> c.next_compat_id]
             new == {set.url} \X DOMAIN request.glyph_conditions
             sets == Put(c.patch_sets, node.design_space, set)
             patches == [url \in DOMAIN c.glyph_patches \cup new |->
                            IF url \in new THEN GlyphPatch(set.compat, node.design_space)
                            ELSE c.glyph_patches[url]]
  <2>1. Populated(node) = [c EXCEPT !.next_patch_set_id = @ + 1, !.next_compat_id = @ + 1,
                                    !.patch_sets = sets, !.glyph_patches = patches]
    BY <1>1, <1>2, <1>4 DEF EnsureGlyphKeyedPatchesPopulated, ContextShape
  <2> HIDE DEF sets, patches
  <2> QED BY <1>1, <2>1 DEF ContextShape
<1> QED BY <1>3, <1>4

LEMMA NewFrame ==
    ASSUME request \in Input, NEW own, own.node \in Definition, NEW phase,
           own = Result(own.node, own.font, own.compat, own.patch_set)
    PROVE  FrameShape(Frame(own, OutgoingEdges(own.node), phase))
<1> DEFINE node == own.node
           edges == OutgoingEdges(node)
           left == Calls(edges, node)
           sizes == [e \in DOMAIN edges |-> 0]
           f == [own |-> own, edges |-> edges, phase |-> phase, current |-> own,
                 left |-> left, sizes |-> sizes]
<1>1. left \in Seq(ToSet(left))
  <2>1. edges \in Seq(Seq(Definition))
    BY EdgesOfNode
  <2>2. left \in Seq([edge : DOMAIN edges, first : BOOLEAN, jump : Jump])
    BY <2>1, CallsOfEdges
  <2> QED BY <2>2, OwnElements
<1>2. sizes \in [DOMAIN edges -> Nat]
  OBVIOUS
<1>3. f = Frame(own, edges, phase)
  BY DEF Frame
<1> HIDE DEF left, sizes, edges
<1>4. /\ f = [own |-> f.own, edges |-> f.edges, phase |-> f.phase,
              current |-> f.current, left |-> f.left, sizes |-> f.sizes]
      /\ f.own = own /\ f.edges = edges /\ f.left = left /\ f.sizes = sizes
  OBVIOUS
<1> HIDE DEF f
<1>5. FrameShape(f)
  BY <1>1, <1>2, <1>4 DEF FrameShape, edges, left
<1> QED BY <1>3, <1>5 DEF edges

LEMMA HeadAndTail ==
    ASSUME NEW S, NEW s \in Seq(S), s # <<>>
    PROVE  /\ Head(s) \in S /\ Tail(s) \in Seq(S) /\ Head(s) = s[1]
           /\ Len(s) \in Nat \ {0} /\ 1 \in DOMAIN s
  OBVIOUS

LEMMA CallOfTop ==
    ASSUME Shape, stack # <<>>, Top.left # <<>>
    PROVE  /\ FrameShape(Top) /\ Top.own.node \in Definition
           /\ Call \in ToSet(Calls(Top.edges, Top.own.node))
           /\ Call.edge \in DOMAIN Top.edges
           /\ Call.jump \in Jump /\ Call.jump = <<Call.jump[1], Target>>
           /\ Call.jump[1] \in Definition /\ Target \in Definition
           /\ Above(Target, Call.jump[1]) /\ Above(Target, Top.own.node)
           /\ Tail(Top.left) \in Seq(ToSet(Calls(Top.edges, Top.own.node)))
<1>1. FrameShape(Top) /\ request \in Input
  BY PopShape DEF Shape, Top
<1>2. /\ Top.own.node \in Definition
      /\ Top.left \in Seq(ToSet(Calls(Top.edges, Top.own.node)))
      /\ Top.edges = OutgoingEdges(Top.own.node)
  BY <1>1 DEF FrameShape
<1>3. Top.edges \in Seq(Seq(Definition))
  BY <1>1, <1>2, EdgesOfNode
<1>4. /\ Call \in ToSet(Calls(Top.edges, Top.own.node))
      /\ Tail(Top.left) \in Seq(ToSet(Calls(Top.edges, Top.own.node)))
  <2> DEFINE S == ToSet(Calls(Top.edges, Top.own.node))
             s == Top.left
  <2>2. s \in Seq(S) /\ s # <<>>
    BY <1>2
  <2> HIDE DEF S, s
  <2>3. Head(s) \in S /\ Tail(s) \in Seq(S)
    BY <2>2, HeadAndTail
  <2> QED BY <2>3 DEF S, s, Call
<1> QED BY <1>1, <1>2, <1>3, <1>4, JumpsGoUp DEF Target

-----------------------------------------------------------------------------
LEMMA NodeShape ==
    ASSUME Shape, NEW node \in Definition, CompileNode(node),
           stack # <<>> => Above(node, Top.own.node),
           stack = <<>> => node = InitSubset
    PROVE  ContextShape(context') /\ StackShape(stack')
<1>1. ContextShape(Populated(node)) /\ StackShape(stack) /\ request \in Input
  BY PopulatedShape DEF Shape
<1>2. CASE /\ context' = [Populated(node) EXCEPT
                             !.built_subsets = Put(@, node, Leaf(node))]
           /\ stack' = stack
  BY <1>1, <1>2 DEF ContextShape
<1>3. CASE /\ context' = Populated(node)
           /\ stack' = <<Frame(Started(node), OutgoingEdges(node), "estimate")>> \o stack
  <2> DEFINE f == Frame(Started(node), OutgoingEdges(node), "estimate")
  <2>1. /\ Started(node).node = node
        /\ Started(node) = Result(Started(node).node, Started(node).font,
                                  Started(node).compat, Started(node).patch_set)
    BY DEF Started, Result
  <2>2. FrameShape(f) /\ f.own.node = node
    <3>1. FrameShape(f)
      BY <1>1, <2>1, NewFrame
    <3>2. f.own = Started(node)
      BY DEF Frame
    <3> QED BY <2>1, <3>1, <3>2
  <2> HIDE DEF f
  <2>3. StackShape(<<f>> \o stack)
    BY <1>1, <2>2, PushShape DEF Top
  <2> QED BY <1>1, <1>3, <2>3 DEF f
<1> QED BY <1>2, <1>3, NodeCases

LEMMA AdvancedFrame ==
    ASSUME Shape, stack # <<>>, Top.left # <<>>, NEW next
    PROVE  LET f == Advanced(Top, next)
           IN  /\ FrameShape(f) /\ f.own = Top.own /\ f.edges = Top.edges
               /\ f.phase = Top.phase /\ f.current = next
               /\ f.left = Tail(Top.left) /\ f.sizes = Top.sizes
<1> DEFINE f == Advanced(Top, next)
           t == Top
<1>1. /\ FrameShape(t)
      /\ Tail(t.left) \in Seq(ToSet(Calls(t.edges, t.own.node)))
  BY CallOfTop
<1>2. f = [t EXCEPT !.left = Tail(@), !.current = next]
  BY DEF Advanced
<1> HIDE DEF f, t
<1>3. t = [own |-> t.own, edges |-> t.edges, phase |-> t.phase,
           current |-> t.current, left |-> t.left, sizes |-> t.sizes]
  BY <1>1 DEF FrameShape
<1>4. f = [own |-> t.own, edges |-> t.edges, phase |-> t.phase,
           current |-> next, left |-> Tail(t.left), sizes |-> t.sizes]
  BY <1>2, <1>3
<1>5. /\ f.own = t.own /\ f.edges = t.edges /\ f.phase = t.phase /\ f.current = next
      /\ f.left = Tail(t.left) /\ f.sizes = t.sizes
  BY <1>4
<1>6. FrameShape(f)
  BY <1>1, <1>4, <1>5 DEF FrameShape
<1> QED BY <1>5, <1>6 DEF f, t\* the result of the call when its maps are there

Filled ==
    [Top.own EXCEPT !.font =
        [@ EXCEPT !.ift = [compat |-> Top.own.compat,
                           entries |-> Conditions(SortedEdges, Top.own.node)],
                  !.iftx = [patch_set |-> Top.own.patch_set, applied |-> {}],
                  !.round_trip = Len(stack) = 1]]

LEMMA PopulateCases ==
    ASSUME PopulateMaps, FrameShape(Top)
    PROVE  /\ Working("estimate") /\ Top.left = <<>> /\ request' = request
           /\ Filled.node = Top.own.node
           /\ Filled = Result(Filled.node, Filled.font, Filled.compat, Filled.patch_set)
           /\ \/ UNCHANGED <<context, stack>> /\ status' \in {"failed", "undefined"}
              \/ /\ \A e \in DOMAIN Conditions(SortedEdges, Top.own.node) :
                       Conditions(SortedEdges, Top.own.node)[e].patches # <<>>
                 /\ context' = [context EXCEPT
                        !.table_keyed_patch_id = PatchIds(SortedEdges, Top.own.node),
                        !.built_subsets = Put(@, Top.own.node, Filled)]
                 /\ stack' = <<Frame(Filled, Top.edges, "patches")>> \o Tail(stack)
                 /\ status' = status
<1>0. Top.own = [node |-> Top.own.node, font |-> Top.own.font, compat |-> Top.own.compat,
                 patch_set |-> Top.own.patch_set]
  BY DEF FrameShape, Result
<1>1. [Top.own EXCEPT !.font =
          [Top.own.font EXCEPT !.ift = [compat |-> Top.own.compat,
                           entries |-> Conditions(SortedEdges, Top.own.node)],
                  !.iftx = [patch_set |-> Top.own.patch_set, applied |-> {}],
                  !.round_trip = Len(stack) = 1]] = Filled
  BY <1>0 DEF Filled
<1>2. /\ Filled.node = Top.own.node
      /\ Filled = Result(Filled.node, Filled.font, Filled.compat, Filled.patch_set)
  <2> DEFINE new == Filled.font
  <2>1. Filled = [Top.own EXCEPT !.font = new]
    BY <1>0 DEF Filled
  <2> HIDE DEF new
  <2>2. Filled = Result(Top.own.node, new, Top.own.compat, Top.own.patch_set)
    BY <1>0, <2>1 DEF Result
  <2> QED BY <2>2 DEF Result
<1> HIDE DEF Filled
<1> QED BY <1>1, <1>2 DEF PopulateMaps

LEMMA ShapeStep ==
    ASSUME Shape, CompilerNext
    PROVE  /\ request' = request
           /\ ContextShape(context') /\ StackShape(stack') /\ status' # "start"
<1>0. ContextShape(context) /\ StackShape(stack) /\ request \in Input
  BY DEF Shape
<1>1. CASE StartCompile
  <2>1. /\ status = "start" /\ CompileNode(InitSubset) /\ status' = "compiling"
        /\ request' = request
    BY <1>1 DEF StartCompile
  <2>2. stack = <<>> /\ InitSubset \in Definition
    BY <1>0, <2>1, RequestFields DEF Shape
  <2>3. ContextShape(context') /\ StackShape(stack')
    BY <2>1, <2>2, NodeShape
  <2> QED BY <2>1, <2>3
<1>2. CASE CompileChild
  <2>1. /\ status = "compiling" /\ stack # <<>> /\ Top.left # <<>> /\ request' = request
        /\ \/ status' = "failed" /\ UNCHANGED <<context, stack>>
           \/ CompileNode(Target) /\ status' = status
    BY <1>2 DEF CompileChild, TakeJump
  <2>2. Target \in Definition /\ Above(Target, Top.own.node)
    BY <2>1, CallOfTop
  <2>3. ContextShape(context') /\ StackShape(stack')
    <3>1. CASE UNCHANGED <<context, stack>>
      BY <1>0, <3>1
    <3>2. CASE CompileNode(Target)
      BY <2>1, <2>2, <3>2, NodeShape
    <3> QED BY <2>1, <3>1, <3>2
  <2> QED BY <2>1, <2>3
<1>3. CASE EstimateJump
  <2>1. /\ status = "compiling" /\ stack # <<>> /\ Top.left # <<>> /\ request' = request
        /\ status' \in {status, "failed"}
    BY <1>3 DEF EstimateJump, TakeJump
  <2>2. CASE UNCHANGED <<context, stack>>
    BY <1>0, <2>1, <2>2
  <2>3. CASE ~UNCHANGED <<context, stack>>
    <3>1. PICK size \in IF Call.jump \in DOMAIN context.estimated_patch_sizes
                        THEN {context.estimated_patch_sizes[Call.jump]} ELSE request.sizes :
             /\ context' = [context EXCEPT !.estimated_patch_sizes = Put(@, Call.jump, size)]
             /\ stack' = <<[Advanced(Top, context.built_subsets[Target]) EXCEPT
                               !.sizes[Call.edge] = @ + size]>> \o Tail(stack)
      BY <1>3, <2>3 DEF EstimateJump, TakeJump
    <3>2. size \in Nat
      <4>1. request.sizes \subseteq Nat
        BY <1>0, CompilerAssumption DEF RequestOK
      <4> QED BY <1>0, <4>1 DEF ContextShape
    <3>3. ContextShape(context')
      <4> DEFINE est == Put(context.estimated_patch_sizes, Call.jump, size)
      <4>1. \A j \in DOMAIN est : est[j] \in Nat
        <5> DEFINE old == context.estimated_patch_sizes
        <5>1. \A j \in DOMAIN old : old[j] \in Nat
          BY <1>0 DEF ContextShape
        <5>2. /\ DOMAIN est = DOMAIN old \cup {Call.jump}
              /\ est[Call.jump] = size
              /\ \A x \in DOMAIN old : x # Call.jump => est[x] = old[x]
          BY DEF Put
        <5> HIDE DEF est, old
        <5> QED BY <3>2, <5>1, <5>2
      <4>2. context' = [context EXCEPT !.estimated_patch_sizes = est]
        BY <1>0, <3>1 DEF ContextShape
      <4> HIDE DEF est
      <4> QED BY <1>0, <4>1, <4>2 DEF ContextShape
    <3>4. StackShape(stack')
      <4> DEFINE f == Advanced(Top, context.built_subsets[Target])
                 g == [f EXCEPT !.sizes[Call.edge] = @ + size]
                 e == Call.edge
      <4>1. FrameShape(f) /\ f.own = Top.own /\ e \in DOMAIN f.edges
        BY <2>1, AdvancedFrame, CallOfTop
      <4>2. stack' = <<g>> \o Tail(stack)
        BY <3>1
      <4>3. g = [f EXCEPT !.sizes[e] = @ + size]
        OBVIOUS
      <4> HIDE DEF f, g, e
      <4>4. f.sizes \in [DOMAIN f.edges -> Nat]
        BY <4>1 DEF FrameShape
      <4>5. g = [own |-> f.own, edges |-> f.edges, phase |-> f.phase,
                 current |-> f.current, left |-> f.left,
                 sizes |-> [f.sizes EXCEPT ![e] = @ + size]]
        BY <4>1, <4>3 DEF FrameShape
      <4>6. [f.sizes EXCEPT ![e] = @ + size] \in [DOMAIN f.edges -> Nat]
        BY <3>2, <4>1, <4>4
      <4>7. FrameShape(g) /\ g.own = Top.own
        BY <4>1, <4>5, <4>6 DEF FrameShape
      <4> QED BY <1>0, <2>1, <4>2, <4>7, ReplaceShape DEF Top
    <3> QED BY <2>1, <3>3, <3>4
  <2> QED BY <2>1, <2>2, <2>3, <1>3 DEF EstimateJump, TakeJump, Shape
<1>4. CASE PopulateMaps
  <2>1. /\ status = "compiling" /\ stack # <<>> /\ request' = request
        /\ status' \in {status, "failed", "undefined"}
    BY <1>4 DEF PopulateMaps, Working
  <2>0. FrameShape(Top)
    BY <1>0, <2>1, PopShape DEF Top
  <2>2. CASE UNCHANGED <<context, stack>>
    BY <1>0, <2>1, <2>2
  <2>3. CASE ~UNCHANGED <<context, stack>>
    <3>1. /\ context' = [context EXCEPT
                            !.table_keyed_patch_id = PatchIds(SortedEdges, Top.own.node),
                            !.built_subsets = Put(@, Top.own.node, Filled)]
          /\ stack' = <<Frame(Filled, Top.edges, "patches")>> \o Tail(stack)
      BY <1>4, <2>0, <2>3, PopulateCases
    <3>2. ContextShape(context')
      BY <1>0, <3>1 DEF ContextShape
    <3>3. StackShape(stack')
      <4>2. /\ Filled.node = Top.own.node
            /\ Filled = Result(Filled.node, Filled.font, Filled.compat, Filled.patch_set)
        BY <1>4, <2>0, PopulateCases
      <4>3. Top.own.node \in Definition /\ Top.edges = OutgoingEdges(Filled.node)
        BY <2>0, <4>2 DEF FrameShape
      <4> DEFINE f == Frame(Filled, Top.edges, "patches")
      <4>4. FrameShape(f)
        BY <1>0, <4>2, <4>3, NewFrame
      <4>5. f.own = Filled
        BY DEF Frame
      <4> HIDE DEF f
      <4>6. StackShape(<<f>> \o Tail(stack))
        BY <1>0, <2>1, <4>2, <4>4, <4>5, ReplaceShape DEF Top
      <4> QED BY <3>1, <4>6 DEF f
    <3> QED BY <2>1, <3>2, <3>3
  <2> QED BY <2>1, <2>2, <2>3
<1>5. CASE BuildPatch
  <2>1. /\ status = "compiling" /\ stack # <<>> /\ Top.left # <<>> /\ request' = request
        /\ status' \in {status, "failed"}
    BY <1>5 DEF BuildPatch, TakeJump
  <2>2. CASE UNCHANGED <<context, stack>>
    BY <1>0, <2>1, <2>2
  <2>3. CASE ~UNCHANGED <<context, stack>>
    <3>1. stack' = <<Advanced(Top, context.built_subsets[Target])>> \o Tail(stack)
      BY <1>5, <2>3 DEF BuildPatch, TakeJump
    <3>2. StackShape(stack')
      <4> DEFINE f == Advanced(Top, context.built_subsets[Target])
      <4>1. FrameShape(f) /\ f.own = Top.own
        BY <2>1, AdvancedFrame
      <4> HIDE DEF f
      <4>2. StackShape(<<f>> \o Tail(stack))
        BY <1>0, <2>1, <4>1, ReplaceShape DEF Top
      <4> QED BY <3>1, <4>2 DEF f
    <3>3. \/ context' = context
          \/ \E new : context' = [context EXCEPT !.patches = new]
      BY <1>5, <2>3 DEF BuildPatch, TakeJump
    <3>4. ContextShape(context')
      BY <1>0, <3>3 DEF ContextShape
    <3> QED BY <2>1, <3>2, <3>4
  <2> QED BY <2>1, <2>2, <2>3
<1>6. CASE Return
  <2>1. /\ status = "compiling" /\ stack # <<>> /\ request' = request
        /\ stack' = Tail(stack) /\ context' = context /\ status' = status
    BY <1>6 DEF Return, Working
  <2> QED BY <1>0, <2>1, PopShape
<1>7. CASE FinishCompile
  BY <1>0, <1>7 DEF FinishCompile
<1> QED BY <1>1, <1>2, <1>3, <1>4, <1>5, <1>6, <1>7 DEF CompilerNext

LEMMA InitShape ==
    ASSUME InitAll
    PROVE  Shape
<1>1. /\ request \in Input /\ stack = <<>> /\ status = "start"
      /\ context = [built_subsets |-> EmptyMap, estimated_patch_sizes |-> EmptyMap,
                    table_keyed_patch_id |-> EmptyMap, patches |-> EmptyMap,
                    glyph_patches |-> EmptyMap, patch_sets |-> EmptyMap,
                    next_patch_set_id |-> 1, next_compat_id |-> 1]
  BY DEF InitAll, Init
<1>2. ContextShape(context)
  <2>1. DOMAIN EmptyMap = {}
    BY DEF EmptyMap
  <2> QED BY <1>1, <2>1 DEF ContextShape
<1>3. StackShape(stack)
  <2>1. <<>> \in Seq(ToSet(<<>>)) /\ DOMAIN <<>> = {}
    OBVIOUS
  <2> QED BY <1>1, <2>1 DEF StackShape, IsStack
<1> QED BY <1>1, <1>2, <1>3 DEF Shape

LEMMA ShapeStays ==
    ASSUME request' = request, request \in Input,
           ContextShape(context'), StackShape(stack'), status' = "start" => stack' = <<>>
    PROVE  Shape'
<1>1. SameRequest
  BY RequestStays
<1>2. \A f : FrameShape(f)' = FrameShape(f)
  BY <1>1 DEF FrameShape, SameRequest
<1>3. \A s : StackShape(s)' = StackShape(s)
  BY <1>1, <1>2 DEF StackShape, SameRequest
<1>4. \A c : ContextShape(c)' = ContextShape(c)
  BY DEF ContextShape
<1> QED BY <1>3, <1>4 DEF Shape

LEMMA ShapeNext ==
    ASSUME Shape, [Next \/ Stopped]_vars
    PROVE  Shape'
<1>1. CASE CompilerNext
  BY <1>1, ShapeStep, ShapeStays DEF Shape
<1>2. CASE UNCHANGED compiler_vars
  <2>1. request' = request /\ context' = context /\ stack' = stack /\ status' = status
    BY <1>2 DEF compiler_vars
  <2> QED BY <2>1, ShapeStays DEF Shape
<1> QED BY <1>1, <1>2 DEF Next, Stopped, vars, compiler_vars

THEOREM ShapeInvariant == Spec => []Shape
<1>1. InitAll => Shape
  BY InitShape
<1>2. Shape /\ [Next \/ Stopped]_vars => Shape'
  BY ShapeNext
<1> QED BY <1>1, <1>2, PTL DEF Spec

(***************************************************************************)
(* The recursion of Compile never comes back to a node that it is working  *)
(* on, whichever subsets overlap: a jump leads to a node with more than    *)
(* the node of its call.                                                   *)
(***************************************************************************)
THEOREM RecursionEnds == Spec => []RecursionDescends
<1>1. Shape => RecursionDescends
  <2> SUFFICES ASSUME Shape PROVE RecursionDescends
    OBVIOUS
  <2>1. StackShape(stack) /\ IsStack(stack)
    BY DEF Shape, StackShape
  <2>2. Len(stack) \in Nat /\ DOMAIN stack = 1 .. Len(stack)
    BY <2>1 DEF IsStack
  <2>3. ASSUME NEW k \in 2 .. Len(stack)
        PROVE  Above(stack[k - 1].own.node, stack[k].own.node)
    <3>1. k - 1 \in DOMAIN stack /\ k \in DOMAIN stack /\ k - 1 < k
      BY <2>2
    <3> QED BY <2>1, <3>1 DEF StackShape
  <2> QED BY <2>3 DEF RecursionDescends, Above
<1> QED BY <1>1, ShapeInvariant, PTL

-----------------------------------------------------------------------------
(***************************************************************************)
(* Patch ids.  The ids given out are 1, 2, ..., one for each jump; a node  *)
(* that is finished gives ids to the jumps that have none and leaves the   *)
(* others as they are.                                                     *)
(***************************************************************************)
IdsOK(ids) ==
    /\ IsFiniteSet(DOMAIN ids) /\ DOMAIN ids \subseteq Jump
    /\ ids \in [DOMAIN ids -> 1 .. Cardinality(DOMAIN ids)]
    /\ \A i, j \in DOMAIN ids : ids[i] = ids[j] => i = j

Extends(g, f) == DOMAIN f \subseteq DOMAIN g /\ \A x \in DOMAIN f : g[x] = f[x]

LEMMA ExtendsTransitive ==
    ASSUME NEW f, NEW g, NEW h, Extends(g, f), Extends(h, g)
    PROVE  Extends(h, f)
  BY DEF Extends

LEMMA PutExtends ==
    ASSUME NEW f, NEW k, NEW v, k \notin DOMAIN f
    PROVE  Extends(Put(f, k, v), f)
  BY DEF Extends, Put

LEMMA OneMoreId ==
    ASSUME NEW ids, IdsOK(ids), NEW j \in Jump, j \notin DOMAIN ids
    PROVE  /\ IdsOK(Put(ids, j, Cardinality(DOMAIN ids) + 1))
           /\ Extends(Put(ids, j, Cardinality(DOMAIN ids) + 1), ids)
<1> DEFINE n == Cardinality(DOMAIN ids)
           more == Put(ids, j, n + 1)
           D == DOMAIN ids
           E == DOMAIN more
<1>1. /\ E = D \cup {j} /\ more[j] = n + 1
      /\ \A x \in D : more[x] = ids[x]
      /\ more = [x \in E |-> more[x]]
  BY DEF Put
<1>2. n \in Nat /\ IsFiniteSet(D)
  BY FS_CardinalityType DEF IdsOK
<1>3. IsFiniteSet(D \cup {j}) /\ Cardinality(D \cup {j}) = n + 1
  BY <1>2, FS_AddElement
<1>4. \A x \in D : ids[x] \in 1 .. n
  BY DEF IdsOK
<1> HIDE DEF more, D, E, n
<1>5. more \in [E -> 1 .. n + 1]
  <2>1. \A x \in E : more[x] \in 1 .. n + 1
    BY <1>1, <1>2, <1>4
  <2> QED BY <1>1, <2>1
<1>6. ASSUME NEW x \in E, NEW y \in E, more[x] = more[y] PROVE x = y
  <2>1. CASE x = j /\ y \in D
    <3>1. more[y] \in 1 .. n /\ more[x] = n + 1
      BY <1>1, <1>4, <2>1
    <3> QED BY <1>2, <1>6, <3>1
  <2>2. CASE x \in D /\ y = j
    <3>1. more[x] \in 1 .. n /\ more[y] = n + 1
      BY <1>1, <1>4, <2>2
    <3> QED BY <1>2, <1>6, <3>1
  <2>3. CASE x \in D /\ y \in D
    BY <1>1, <1>6, <2>3 DEF IdsOK, D
  <2> QED BY <1>1, <2>1, <2>2, <2>3
<1>7. IdsOK(more)
  <2>1. E \subseteq Jump
    BY <1>1 DEF IdsOK, D
  <2> QED BY <1>1, <1>3, <1>5, <1>6, <2>1 DEF IdsOK, E
<1>8. Extends(more, ids)
  BY <1>1 DEF Extends, D, E
<1> QED BY <1>7, <1>8 DEF more, n

LEMMA NewIds ==
    ASSUME IdsOK(context.table_keyed_patch_id),
           NEW node \in Definition, NEW edges \in Seq(Seq(Definition))
    PROVE  /\ IdsOK(PatchIds(edges, node))
           /\ Extends(PatchIds(edges, node), context.table_keyed_patch_id)
           /\ \A c \in ToSet(Calls(edges, node)) : c.jump \in DOMAIN PatchIds(edges, node)
<1> DEFINE old == context.table_keyed_patch_id
           calls == Calls(edges, node)
           n == Len(calls)
           V == {ids \in UNION {[D -> Nat] : D \in SUBSET Jump} :
                    IdsOK(ids) /\ Extends(ids, old)}
           next(ids, k) == IF calls[k].jump \in DOMAIN ids THEN ids
                           ELSE Put(ids, calls[k].jump, Cardinality(DOMAIN ids) + 1)
           step == [p \in V \X (1 .. n) |-> next(p[1], p[2])]
           IsIds(f) == f = [k \in 0 .. n |-> IF k = 0 THEN old ELSE next(f[k - 1], k)]
           ids == CHOOSE f : IsIds(f)
<1>1. PatchIds(edges, node) = ids[n]
  BY DEF PatchIds
<1>2. n \in Nat /\ DOMAIN calls = 1 .. n /\ \A k \in 1 .. n : calls[k].jump \in Jump
  <2> DEFINE R == [edge : DOMAIN edges, first : BOOLEAN, jump : Jump]
  <2>1. calls \in Seq(R)
    BY CallsOfEdges
  <2>2. \A c \in R : c.jump \in Jump
    OBVIOUS
  <2> HIDE DEF calls, R
  <2> QED BY <2>1, <2>2
<1> HIDE DEF n
<1>0. ASSUME NEW d, IdsOK(d), Extends(d, old) PROVE d \in V
  <2>1. d \in [DOMAIN d -> 1 .. Cardinality(DOMAIN d)] /\ DOMAIN d \in SUBSET Jump
        /\ Cardinality(DOMAIN d) \in Nat
    BY <1>0, FS_CardinalityType DEF IdsOK
  <2>2. d \in [DOMAIN d -> Nat]
    BY <2>1
  <2> QED BY <1>0, <2>1, <2>2
<1>00. \A d \in V : IdsOK(d) /\ Extends(d, old)
  OBVIOUS
<1> HIDE DEF V
<1>3. old \in V
  BY <1>0 DEF Extends
<1>4. ASSUME NEW d \in V, NEW k \in 1 .. n
      PROVE  next(d, k) \in V /\ Extends(next(d, k), d) /\ calls[k].jump \in DOMAIN next(d, k)
  <2> DEFINE j == calls[k].jump
  <2>1. CASE j \in DOMAIN d
    BY <2>1 DEF Extends
  <2>2. CASE j \notin DOMAIN d
    <3> DEFINE more == Put(d, j, Cardinality(DOMAIN d) + 1)
    <3>1. j \in DOMAIN more
      BY DEF Put
    <3>2. next(d, k) = more
      BY <2>2
    <3>3. j \in Jump /\ IdsOK(d) /\ Extends(d, old)
      BY <1>00, <1>2
    <3> HIDE DEF next, j
    <3>4. IdsOK(more) /\ Extends(more, d)
      BY <2>2, <3>3, OneMoreId
    <3> HIDE DEF more
    <3>5. Extends(more, old)
      BY <3>3, <3>4, ExtendsTransitive
    <3>6. more \in V
      BY <1>0, <3>4, <3>5
    <3> QED BY <3>1, <3>2, <3>4, <3>6 DEF j
  <2> QED BY <2>1, <2>2
<1>5. step \in [V \X (1 .. n) -> V]
  <2> HIDE DEF next
  <2> QED BY <1>4
<1>6. PICK f \in [0 .. n -> V] : IsLoop(f, n, old, step)
  <2> HIDE DEF step
  <2> QED BY <1>2, <1>3, <1>5, LoopExists
<1>7. f[0] = old
  BY <1>6 DEF IsLoop
<1> HIDE DEF next
<1>8. ASSUME NEW k \in 1 .. n PROVE f[k] = next(f[k - 1], k)
  <2>1. k - 1 \in 0 .. n
    BY <1>2
  <2>2. <<f[k - 1], k>> \in V \X (1 .. n)
    BY <2>1
  <2>3. step[<<f[k - 1], k>>] = next(f[k - 1], k)
    BY <2>2
  <2> QED BY <1>6, <2>3 DEF IsLoop
<1>9. IsIds(f)
  <2>1. ASSUME NEW k \in 0 .. n
        PROVE  f[k] = IF k = 0 THEN old ELSE next(f[k - 1], k)
    <3>1. k # 0 => k \in 1 .. n
      BY <1>2
    <3> QED BY <1>7, <1>8, <3>1
  <2> QED BY <2>1
<1>10. IsIds(ids)
  <2> HIDE DEF IsIds
  <2> QED BY <1>9
<1> HIDE DEF ids
<1>11. ids[0] = old /\ \A k \in 1 .. n : ids[k] = next(ids[k - 1], k)
  <2>1. 0 \in 0 .. n /\ \A k \in 1 .. n : k \in 0 .. n /\ k # 0
    BY <1>2
  <2> QED BY <1>10, <2>1
<1> DEFINE T == {k \in 0 .. n : ids[k] \in V
                               /\ \A l \in 1 .. k : calls[l].jump \in DOMAIN ids[k]}
<1>12. 0 \in T
  BY <1>2, <1>3, <1>11
<1>13. ASSUME NEW k \in 1 .. n, k - 1 \in T PROVE k \in T
  <2>1. k \in 0 .. n /\ ids[k - 1] \in V
        /\ \A l \in 1 .. k - 1 : calls[l].jump \in DOMAIN ids[k - 1]
    BY <1>2, <1>13
  <2>2. ids[k] \in V /\ Extends(ids[k], ids[k - 1]) /\ calls[k].jump \in DOMAIN ids[k]
    BY <1>4, <1>11, <2>1
  <2>3. \A l \in 1 .. k : l = k \/ l \in 1 .. k - 1
    BY <1>2
  <2>4. \A l \in 1 .. k : calls[l].jump \in DOMAIN ids[k]
    BY <2>1, <2>2, <2>3 DEF Extends
  <2> QED BY <2>1, <2>2, <2>4
<1>14. \A k \in 0 .. n : k \in T
  <2> HIDE DEF T
  <2> QED BY <1>2, <1>12, <1>13, CountingUp
<1>15. n \in T
  BY <1>2, <1>14
<1>16. IdsOK(ids[n]) /\ Extends(ids[n], old) /\ \A l \in 1 .. n : calls[l].jump \in DOMAIN ids[n]
  BY <1>00, <1>15
<1>17. \A c \in ToSet(calls) : c.jump \in DOMAIN ids[n]
  <2> HIDE DEF calls
  <2> QED BY <1>2, <1>16 DEF ToSet
<1> QED BY <1>1, <1>16, <1>17

-----------------------------------------------------------------------------
(***************************************************************************)
(* What is true of the context and the stack while the compiler works.     *)
(* A patch is from the fonts at the two ends of its jump.  Each design     *)
(* space has its own set of glyph patches.  A font that is built is what   *)
(* was cut for its node, with an entry for each edge of the node, and      *)
(* there are patches for all jumps of a node that is not worked on.        *)
(***************************************************************************)
IsBuilt(c, r) == r.node \in DOMAIN c.built_subsets /\ c.built_subsets[r.node] = r

PatchOK(c, id) ==
    \E j \in DOMAIN c.table_keyed_patch_id :
        /\ c.table_keyed_patch_id[j] = id
        /\ j[1] \in DOMAIN c.built_subsets /\ j[2] \in DOMAIN c.built_subsets
        /\ c.patches[id] = PatchFrom(c.built_subsets[j[1]], c.built_subsets[j[2]])

SetOK(c, space, set) ==
    /\ set = [url |-> set.url, compat |-> set.compat]
    /\ set.url \in Nat /\ set.url < c.next_patch_set_id
    /\ \A id \in DOMAIN request.glyph_conditions :
          /\ <<set.url, id>> \in DOMAIN c.glyph_patches
          /\ c.glyph_patches[<<set.url, id>>] = GlyphPatch(set.compat, space)

SetsOK(c) ==
    /\ c.next_patch_set_id \in Nat
    /\ \A space \in DOMAIN c.patch_sets : SetOK(c, space, c.patch_sets[space])
    /\ \A a, b \in DOMAIN c.patch_sets : c.patch_sets[a].url = c.patch_sets[b].url => a = b

HasPatchSet(c, node, set) ==
    IF IsMixedMode THEN /\ node.design_space \in DOMAIN c.patch_sets
                        /\ set = c.patch_sets[node.design_space]
    ELSE set = NoPatchSet

IsEntry(c, e, node) ==
    \E edge \in ToSet(OutgoingEdges(node)) :
        /\ e.segments = ToSet(edge)
        /\ Jumps(edge, node) # <<>>
        /\ \A k \in DOMAIN Jumps(edge, node) :
              Jumps(edge, node)[k] \in DOMAIN c.table_keyed_patch_id
        /\ e.patches = [k \in DOMAIN Jumps(edge, node) |->
                           c.table_keyed_patch_id[Jumps(edge, node)[k]]]

Mapped(node, r) ==
    [CutSubset(node) EXCEPT
        !.ift = [compat |-> r.compat, entries |-> r.font.ift.entries],
        !.iftx = [patch_set |-> r.patch_set, applied |-> {}],
        !.round_trip = r.font.round_trip]

BuiltOK(c, node) ==
    LET r == c.built_subsets[node]
    IN  /\ node \in Definition
        /\ r = Result(node, r.font, r.compat, r.patch_set)
        /\ r.font = Mapped(node, r)
        /\ HasPatchSet(c, node, r.patch_set)
        /\ \A e \in ToSet(r.font.ift.entries) : IsEntry(c, e, node)
        /\ \A edge \in ToSet(OutgoingEdges(node)) :
              \E e \in ToSet(r.font.ift.entries) : e.segments = ToSet(edge)

HasPatch(c, j) == /\ j \in DOMAIN c.table_keyed_patch_id
                  /\ c.table_keyed_patch_id[j] \in DOMAIN c.patches

IsPatched(c, node) ==
    \A call \in ToSet(Calls(OutgoingEdges(node), node)) : HasPatch(c, call.jump)

FrameOK(c, f) ==
    /\ f.phase \in {"estimate", "patches"}
    /\ f.phase = "estimate" =>
          /\ f.own.node \notin DOMAIN c.built_subsets
          /\ f.own.font = CutSubset(f.own.node)
          /\ HasPatchSet(c, f.own.node, f.own.patch_set)
    /\ f.phase = "patches" =>
          /\ IsBuilt(c, f.own) /\ IsBuilt(c, f.current)
          /\ \A call \in ToSet(Calls(f.edges, f.own.node)) :
                /\ call.jump \in DOMAIN c.table_keyed_patch_id
                /\ call \in ToSet(f.left) \/ HasPatch(c, call.jump)

IsOn(s, node) == \E k \in DOMAIN s : s[k].own.node = node

Good(c, s) ==
    /\ IdsOK(c.table_keyed_patch_id)
    /\ SetsOK(c)
    /\ \A id \in DOMAIN c.patches : PatchOK(c, id)
    /\ \A node \in DOMAIN c.built_subsets :
          BuiltOK(c, node) /\ (IsOn(s, node) \/ IsPatched(c, node))
    /\ \A k \in DOMAIN s : FrameOK(c, s[k])

\* nothing that the compiler has made is changed again
Grows(c, d) ==
    /\ Extends(d.built_subsets, c.built_subsets)
    /\ Extends(d.table_keyed_patch_id, c.table_keyed_patch_id)
    /\ Extends(d.patches, c.patches)
    /\ Extends(d.patch_sets, c.patch_sets)

LEMMA HasPatchSetStays ==
    ASSUME NEW c, NEW d, Grows(c, d), NEW node, NEW set, HasPatchSet(c, node, set)
    PROVE  HasPatchSet(d, node, set)
  BY DEF HasPatchSet, Grows, Extends

LEMMA HasPatchStays ==
    ASSUME NEW c, NEW d, Grows(c, d), NEW j, HasPatch(c, j)
    PROVE  HasPatch(d, j)
  BY DEF HasPatch, Grows, Extends

LEMMA PatchStays ==
    ASSUME NEW c, NEW d, Grows(c, d), NEW id \in DOMAIN c.patches, PatchOK(c, id)
    PROVE  PatchOK(d, id)
<1>1. d.patches[id] = c.patches[id]
  BY DEF Grows, Extends
<1>2. PICK j \in DOMAIN c.table_keyed_patch_id :
        /\ c.table_keyed_patch_id[j] = id
        /\ j[1] \in DOMAIN c.built_subsets /\ j[2] \in DOMAIN c.built_subsets
        /\ c.patches[id] = PatchFrom(c.built_subsets[j[1]], c.built_subsets[j[2]])
  BY DEF PatchOK
<1>3. /\ j \in DOMAIN d.table_keyed_patch_id /\ d.table_keyed_patch_id[j] = id
      /\ j[1] \in DOMAIN d.built_subsets /\ d.built_subsets[j[1]] = c.built_subsets[j[1]]
      /\ j[2] \in DOMAIN d.built_subsets /\ d.built_subsets[j[2]] = c.built_subsets[j[2]]
  BY <1>2 DEF Grows, Extends
<1> QED BY <1>1, <1>2, <1>3 DEF PatchOK

LEMMA EntryStays ==
    ASSUME NEW c, NEW d, Grows(c, d), NEW e, NEW node, IsEntry(c, e, node)
    PROVE  IsEntry(d, e, node)
<1>1. PICK edge \in ToSet(OutgoingEdges(node)) :
        /\ e.segments = ToSet(edge)
        /\ Jumps(edge, node) # <<>>
        /\ \A k \in DOMAIN Jumps(edge, node) :
              Jumps(edge, node)[k] \in DOMAIN c.table_keyed_patch_id
        /\ e.patches = [k \in DOMAIN Jumps(edge, node) |->
                           c.table_keyed_patch_id[Jumps(edge, node)[k]]]
  BY DEF IsEntry
<1> DEFINE jumps == Jumps(edge, node)
<1>2. \A k \in DOMAIN jumps :
         /\ jumps[k] \in DOMAIN d.table_keyed_patch_id
         /\ d.table_keyed_patch_id[jumps[k]] = c.table_keyed_patch_id[jumps[k]]
  BY <1>1 DEF Grows, Extends
<1>3. e.patches = [k \in DOMAIN jumps |-> d.table_keyed_patch_id[jumps[k]]]
  BY <1>1, <1>2
<1> QED BY <1>1, <1>2, <1>3 DEF IsEntry

LEMMA BuiltStays ==
    ASSUME NEW c, NEW d, Grows(c, d), NEW node \in DOMAIN c.built_subsets, BuiltOK(c, node)
    PROVE  BuiltOK(d, node)
<1>1. d.built_subsets[node] = c.built_subsets[node]
  BY DEF Grows, Extends
<1> QED BY <1>1, HasPatchSetStays, EntryStays DEF BuiltOK

LEMMA FrameStays ==
    ASSUME NEW c, NEW d, Grows(c, d), NEW f, FrameOK(c, f),
           f.phase = "estimate" => f.own.node \notin DOMAIN d.built_subsets
    PROVE  FrameOK(d, f)
<1>1. \A r : IsBuilt(c, r) => IsBuilt(d, r)
  BY DEF IsBuilt, Grows, Extends
<1>2. \A j \in DOMAIN c.table_keyed_patch_id : j \in DOMAIN d.table_keyed_patch_id
  BY DEF Grows, Extends
<1> QED BY <1>1, <1>2, HasPatchSetStays, HasPatchStays DEF FrameOK

LEMMA GoodAgain ==
    ASSUME NEW c, NEW s, NEW d, NEW t, Good(c, s), Grows(c, d),
           IdsOK(d.table_keyed_patch_id), SetsOK(d),
           \A id \in DOMAIN d.patches \ DOMAIN c.patches : PatchOK(d, id),
           \A node \in DOMAIN d.built_subsets \ DOMAIN c.built_subsets :
               BuiltOK(d, node) /\ (IsOn(t, node) \/ IsPatched(d, node)),
           \A k \in DOMAIN t : FrameOK(d, t[k]),
           \A k \in DOMAIN s : IsOn(t, s[k].own.node) \/ IsPatched(d, s[k].own.node)
    PROVE  Good(d, t)
<1>1. \A id \in DOMAIN d.patches : PatchOK(d, id)
  BY PatchStays DEF Good
<1>2. ASSUME NEW node \in DOMAIN c.built_subsets
      PROVE  BuiltOK(d, node) /\ (IsOn(t, node) \/ IsPatched(d, node))
  <2>1. BuiltOK(d, node)
    BY BuiltStays DEF Good
  <2>2. CASE IsOn(s, node)
    BY <2>1, <2>2 DEF IsOn
  <2>3. CASE IsPatched(c, node)
    BY <2>1, <2>3, HasPatchStays DEF IsPatched
  <2> QED BY <2>2, <2>3 DEF Good
<1>3. \A node \in DOMAIN d.built_subsets :
         BuiltOK(d, node) /\ (IsOn(t, node) \/ IsPatched(d, node))
  BY <1>2
<1> QED BY <1>1, <1>3 DEF Good

-----------------------------------------------------------------------------
LEMMA PopulatedGood ==
    ASSUME ContextShape(context), SetsOK(context), NEW node
    PROVE  /\ Grows(context, Populated(node)) /\ SetsOK(Populated(node))
           /\ HasPatchSet(Populated(node), node,
                          PatchSetOf(Populated(node), node.design_space))
<1> DEFINE c == [context EXCEPT !.next_compat_id = @ + 1]
           space == node.design_space
<1>1. /\ ContextShape(c)
      /\ c.built_subsets = context.built_subsets
      /\ c.table_keyed_patch_id = context.table_keyed_patch_id
      /\ c.patches = context.patches /\ c.glyph_patches = context.glyph_patches
      /\ c.patch_sets = context.patch_sets
      /\ c.next_patch_set_id = context.next_patch_set_id
  BY DEF ContextShape
<1>2. Populated(node) = EnsureGlyphKeyedPatchesPopulated(c, space)
  BY DEF Populated
<1> HIDE DEF c, space
<1>3. CASE ~IsMixedMode \/ space \in DOMAIN c.patch_sets
  <2>1. Populated(node) = c
    BY <1>2, <1>3 DEF EnsureGlyphKeyedPatchesPopulated
  <2>2. SetsOK(c)
    BY <1>1 DEF SetsOK, SetOK
  <2>3. Grows(context, c)
    BY <1>1 DEF Grows, Extends
  <2>4. HasPatchSet(c, node, PatchSetOf(c, space))
    BY <1>3 DEF HasPatchSet, PatchSetOf, space
  <2> QED BY <2>1, <2>2, <2>3, <2>4 DEF space
<1>4. CASE IsMixedMode /\ space \notin DOMAIN c.patch_sets
  <2> DEFINE set == [url |-> c.next_patch_set_id, compat |-> c.next_compat_id]
             new == {set.url} \X DOMAIN request.glyph_conditions
             sets == Put(c.patch_sets, space, set)
             patches == [url \in DOMAIN c.glyph_patches \cup new |->
                            IF url \in new THEN GlyphPatch(set.compat, space)
                            ELSE c.glyph_patches[url]]
             d == [c EXCEPT !.next_patch_set_id = @ + 1, !.next_compat_id = @ + 1,
                            !.patch_sets = sets, !.glyph_patches = patches]
  <2>1. Populated(node) = d
    BY <1>1, <1>2, <1>4 DEF EnsureGlyphKeyedPatchesPopulated, ContextShape
  <2>2. /\ DOMAIN sets = DOMAIN c.patch_sets \cup {space} /\ sets[space] = set
        /\ \A x \in DOMAIN c.patch_sets : sets[x] = c.patch_sets[x]
    BY <1>4 DEF Put
  <2>3. /\ DOMAIN patches = DOMAIN c.glyph_patches \cup new
        /\ \A url \in new : patches[url] = GlyphPatch(set.compat, space)
        /\ \A url \in DOMAIN c.glyph_patches \ new : patches[url] = c.glyph_patches[url]
    OBVIOUS
  <2>4. /\ set.url = c.next_patch_set_id /\ set = [url |-> set.url, compat |-> set.compat]
        /\ \A url, id : <<url, id>> \in new
                        <=> url = c.next_patch_set_id /\ id \in DOMAIN request.glyph_conditions
    OBVIOUS
  <2> HIDE DEF sets, patches, set, new
  <2>5. /\ d.built_subsets = c.built_subsets /\ d.patches = c.patches
        /\ d.table_keyed_patch_id = c.table_keyed_patch_id
        /\ d.patch_sets = sets /\ d.glyph_patches = patches
        /\ d.next_patch_set_id = c.next_patch_set_id + 1
    BY <1>1 DEF ContextShape
  <2> HIDE DEF d
  <2>6. SetsOK(c)
    BY <1>1 DEF SetsOK, SetOK
  <2>7. c.next_patch_set_id \in Nat /\ d.next_patch_set_id \in Nat
    BY <2>5, <2>6 DEF SetsOK
  <2>8. SetOK(d, space, set)
    BY <2>3, <2>4, <2>5, <2>7 DEF SetOK
  <2>9. ASSUME NEW x \in DOMAIN c.patch_sets
        PROVE  SetOK(d, x, c.patch_sets[x]) /\ c.patch_sets[x].url # set.url
    <3> DEFINE old == c.patch_sets[x]
    <3>1. SetOK(c, x, old)
      BY <2>6 DEF SetsOK
    <3>2. old.url \in Nat /\ old.url < c.next_patch_set_id /\ old.url < d.next_patch_set_id
          /\ old.url # set.url
      BY <2>4, <2>5, <2>7, <3>1 DEF SetOK
    <3>3. ASSUME NEW id \in DOMAIN request.glyph_conditions
          PROVE  /\ <<old.url, id>> \in DOMAIN patches
                 /\ patches[<<old.url, id>>] = GlyphPatch(old.compat, x)
      <4>1. /\ <<old.url, id>> \in DOMAIN c.glyph_patches
            /\ c.glyph_patches[<<old.url, id>>] = GlyphPatch(old.compat, x)
        BY <3>1 DEF SetOK
      <4>2. <<old.url, id>> \notin new
        BY <2>4, <3>2
      <4> QED BY <2>3, <4>1, <4>2
    <3>4. old = [url |-> old.url, compat |-> old.compat]
      BY <3>1 DEF SetOK
    <3> HIDE DEF old
    <3>5. SetOK(d, x, old)
      BY <2>5, <3>2, <3>3, <3>4 DEF SetOK
    <3> QED BY <3>2, <3>5 DEF old
  <2>10. SetsOK(d)
    <3>1. \A x \in DOMAIN sets : SetOK(d, x, sets[x])
      BY <2>2, <2>8, <2>9
    <3>2. ASSUME NEW a \in DOMAIN sets, NEW b \in DOMAIN sets, sets[a].url = sets[b].url
          PROVE  a = b
      <4>1. CASE a \in DOMAIN c.patch_sets /\ b \in DOMAIN c.patch_sets
        BY <2>2, <2>6, <3>2, <4>1 DEF SetsOK
      <4>2. CASE a = space \/ b = space
        BY <2>2, <2>9, <3>2, <4>2
      <4> QED BY <2>2, <4>1, <4>2
    <3> QED BY <2>5, <2>7, <3>1, <3>2 DEF SetsOK
  <2>11. Grows(context, d)
    BY <1>1, <2>2, <2>5 DEF Grows, Extends
  <2>12. HasPatchSet(d, node, PatchSetOf(d, space))
    BY <1>4, <2>2, <2>5 DEF HasPatchSet, PatchSetOf, space
  <2> QED BY <2>1, <2>10, <2>11, <2>12 DEF space
<1> QED BY <1>3, <1>4

LEMMA GoodPush ==
    ASSUME Good(context, stack), ContextShape(context), IsStack(stack),
           NEW node, node \notin DOMAIN context.built_subsets
    PROVE  Good(Populated(node),
                <<Frame(Started(node), OutgoingEdges(node), "estimate")>> \o stack)
<1> DEFINE d == Populated(node)
           f == Frame(Started(node), OutgoingEdges(node), "estimate")
           t == <<f>> \o stack
<1>1. /\ Grows(context, d) /\ SetsOK(d)
      /\ HasPatchSet(d, node, PatchSetOf(d, node.design_space))
  BY PopulatedGood DEF Good
<1>2. /\ d.built_subsets = context.built_subsets /\ d.patches = context.patches
      /\ d.table_keyed_patch_id = context.table_keyed_patch_id
  BY PopulatedShape
<1>3. /\ DOMAIN t = 1 .. Len(stack) + 1 /\ t[1] = f /\ Len(stack) \in Nat
      /\ DOMAIN stack = 1 .. Len(stack)
      /\ \A k \in 2 .. Len(stack) + 1 : t[k] = stack[k - 1]
  BY Pushing
<1>4. /\ f.phase = "estimate" /\ f.own.node = node /\ f.own.font = CutSubset(node)
      /\ f.own.patch_set = PatchSetOf(d, node.design_space)
  BY DEF Frame, Started, Result
<1> HIDE DEF d, f, t
<1>5. FrameOK(d, f)
  BY <1>1, <1>2, <1>4 DEF FrameOK
<1>6. \A k \in DOMAIN stack : FrameOK(d, stack[k])
  <2>1. \A k \in DOMAIN stack : FrameOK(context, stack[k])
    BY DEF Good
  <2>2. \A k \in DOMAIN stack : stack[k].phase = "estimate" =>
                                   stack[k].own.node \notin DOMAIN d.built_subsets
    BY <1>2, <2>1 DEF FrameOK
  <2> QED BY <1>1, <2>1, <2>2, FrameStays
<1>7. \A k \in DOMAIN t : FrameOK(d, t[k])
  <2>1. \A k \in DOMAIN t : k = 1 \/ (k \in 2 .. Len(stack) + 1 /\ k - 1 \in DOMAIN stack)
    BY <1>3
  <2> QED BY <1>3, <1>5, <1>6, <2>1
<1>8. \A k \in DOMAIN stack : IsOn(t, stack[k].own.node)
  <2>1. \A k \in DOMAIN stack : k + 1 \in DOMAIN t /\ t[k + 1] = stack[k]
    BY <1>3
  <2> QED BY <2>1 DEF IsOn
<1>9. IdsOK(d.table_keyed_patch_id)
  BY <1>2 DEF Good
<1>10. Good(d, t)
  BY <1>1, <1>2, <1>7, <1>8, <1>9, GoodAgain
<1> QED BY <1>10 DEF d, f, t

LEMMA SameSets ==
    ASSUME NEW c, NEW d, SetsOK(c), d.patch_sets = c.patch_sets,
           d.glyph_patches = c.glyph_patches, d.next_patch_set_id = c.next_patch_set_id
    PROVE  SetsOK(d)
  BY DEF SetsOK, SetOK

LEMMA GoodLeaf ==
    ASSUME request \in Input, Good(context, stack), ContextShape(context),
           NEW node \in Definition, node \notin DOMAIN context.built_subsets,
           \A k \in DOMAIN stack : stack[k].own.node # node,
           OutgoingEdges(node) = <<>>, ~IsMixedMode
    PROVE  Good([Populated(node) EXCEPT !.built_subsets = Put(@, node, Leaf(node))], stack)
<1> DEFINE p == Populated(node)
           built == Put(p.built_subsets, node, Leaf(node))
           d == [p EXCEPT !.built_subsets = built]
<1>1. /\ Grows(context, p) /\ SetsOK(p)
      /\ p.built_subsets = context.built_subsets /\ p.patches = context.patches
      /\ p.table_keyed_patch_id = context.table_keyed_patch_id
      /\ ContextShape(p)
  BY PopulatedGood, PopulatedShape DEF Good
<1>2. /\ DOMAIN built = DOMAIN p.built_subsets \cup {node} /\ built[node] = Leaf(node)
      /\ Extends(built, p.built_subsets)
  BY <1>1, PutExtends DEF Put
<1> HIDE DEF p, built
<1>3. /\ d.built_subsets = built /\ d.patches = p.patches
      /\ d.table_keyed_patch_id = p.table_keyed_patch_id /\ d.patch_sets = p.patch_sets
      /\ d.glyph_patches = p.glyph_patches /\ d.next_patch_set_id = p.next_patch_set_id
  BY <1>1 DEF ContextShape
<1>4. d = [p EXCEPT !.built_subsets = Put(@, node, Leaf(node))]
  BY <1>1 DEF ContextShape, built
<1> HIDE DEF d
<1>5. Grows(context, d) /\ SetsOK(d)
  <2>1. Grows(context, d)
    BY <1>1, <1>2, <1>3 DEF Grows
  <2> QED BY <1>1, <1>3, <2>1, SameSets
<1>6. BuiltOK(d, node)
  <2> DEFINE r == Leaf(node)
  <2>1. d.built_subsets[node] = r
    BY <1>2, <1>3
  <2>2. r = Result(node, r.font, r.compat, r.patch_set)
    BY DEF Leaf, Result
  <2>3. /\ r.font = CutSubset(node) /\ r.compat = 0 /\ r.patch_set = NoPatchSet
        /\ r.font.ift = NoMap /\ r.font.iftx = NoGlyphMap /\ r.font.round_trip = FALSE
        /\ r.font.ift.entries = <<>>
    BY DEF Leaf, Result, CutSubset, NoMap
  <2>4. r.font = Mapped(node, r)
    BY <2>3 DEF Mapped, CutSubset, NoMap, NoGlyphMap
  <2>5. HasPatchSet(d, node, r.patch_set)
    BY <2>3 DEF HasPatchSet
  <2>6. ToSet(r.font.ift.entries) = {} /\ ToSet(OutgoingEdges(node)) = {}
    <3>1. ToSet(<<>>) = {}
      BY DEF ToSet
    <3> QED BY <2>3, <3>1
  <2> HIDE DEF r
  <2> QED BY <2>1, <2>2, <2>4, <2>5, <2>6 DEF BuiltOK
<1>7. IsPatched(d, node)
  <2>1. <<>> \in Seq(Seq(Definition)) /\ DOMAIN <<>> = {}
    OBVIOUS
  <2>2. \A call : call \in ToSet(Calls(<<>>, node)) => IsCall(call, <<>>, node)
    BY <2>1, CallsOfEdges
  <2>3. \A call : ~IsCall(call, <<>>, node)
    BY <2>1 DEF IsCall
  <2> QED BY <2>2, <2>3 DEF IsPatched
<1>8. \A k \in DOMAIN stack : FrameOK(d, stack[k])
  <2>1. \A k \in DOMAIN stack : FrameOK(context, stack[k])
    BY DEF Good
  <2>2. \A k \in DOMAIN stack : stack[k].phase = "estimate" =>
                                   stack[k].own.node \notin DOMAIN d.built_subsets
    BY <1>1, <1>2, <1>3, <2>1 DEF FrameOK
  <2> QED BY <1>5, <2>1, <2>2, FrameStays
<1>9. \A k \in DOMAIN stack : IsOn(stack, stack[k].own.node)
  BY DEF IsOn
<1>10. IdsOK(d.table_keyed_patch_id)
  BY <1>1, <1>3 DEF Good
<1>11. /\ DOMAIN d.patches \ DOMAIN context.patches = {}
       /\ DOMAIN d.built_subsets \ DOMAIN context.built_subsets = {node}
  BY <1>1, <1>2, <1>3
<1>12. Good(d, stack)
  BY <1>5, <1>6, <1>7, <1>8, <1>9, <1>10, <1>11, GoodAgain
<1> QED BY <1>4, <1>12 DEF p

LEMMA NotOnStack ==
    ASSUME StackShape(stack), stack # <<>>, NEW node \in Definition,
           Above(node, Top.own.node)
    PROVE  \A k \in DOMAIN stack : stack[k].own.node # node
<1>1. IsStack(stack)
  BY DEF StackShape
<1>2. Top = stack[1] /\ 1 \in DOMAIN stack /\ Len(stack) \in Nat /\ DOMAIN stack = 1 .. Len(stack)
  BY <1>1, Popping DEF Top
<1>3. ASSUME NEW k \in DOMAIN stack PROVE stack[k].own.node # node
  <2>1. CASE k = 1
    BY <1>2, <2>1 DEF Above
  <2>2. CASE k # 1
    <3>1. 1 < k
      BY <1>2, <2>2
    <3>2. Above(stack[1].own.node, stack[k].own.node)
      BY <1>2, <3>1 DEF StackShape
    <3>3. stack[1].own.node \in Definition /\ stack[k].own.node \in Definition
      BY <1>2 DEF StackShape, FrameShape
    <3>4. Includes(stack[1].own.node, stack[k].own.node)
      BY <3>2 DEF Above
    <3>5. Above(node, stack[k].own.node)
      BY <1>2, <3>3, <3>4, AboveTransitive
    <3> QED BY <3>5 DEF Above
  <2> QED BY <2>1, <2>2
<1> QED BY <1>3

LEMMA GoodReplace ==
    ASSUME NEW c, NEW s, Good(c, s), StackShape(s), s # <<>>,
           NEW d, Grows(c, d), IdsOK(d.table_keyed_patch_id), SetsOK(d),
           NEW f, FrameOK(d, f), f.own.node = Head(s).own.node,
           \A id \in DOMAIN d.patches \ DOMAIN c.patches : PatchOK(d, id),
           \A node \in DOMAIN d.built_subsets \ DOMAIN c.built_subsets :
               BuiltOK(d, node) /\ node = f.own.node
    PROVE  Good(d, <<f>> \o Tail(s))
<1> DEFINE u == Tail(s)
           t == <<f>> \o u
<1>1. /\ IsStack(u) /\ Head(s) = s[1] /\ 1 \in DOMAIN s
      /\ Len(s) \in Nat \ {0} /\ Len(u) = Len(s) - 1
      /\ DOMAIN s = 1 .. Len(s) /\ DOMAIN u = 1 .. Len(s) - 1
      /\ \A k \in DOMAIN u : u[k] = s[k + 1]
  BY Popping DEF StackShape
<1>2. /\ DOMAIN t = 1 .. Len(u) + 1 /\ t[1] = f
      /\ \A k \in 2 .. Len(u) + 1 : t[k] = u[k - 1]
  BY <1>1, Pushing
<1> HIDE DEF t, u
<1>3. DOMAIN t = DOMAIN s /\ \A k \in DOMAIN s : k # 1 => t[k] = s[k]
  <2>1. DOMAIN t = DOMAIN s
    BY <1>1, <1>2
  <2>2. ASSUME NEW k \in DOMAIN s, k # 1 PROVE t[k] = s[k]
    <3>1. k \in 2 .. Len(u) + 1 /\ k - 1 \in DOMAIN u /\ (k - 1) + 1 = k
      BY <1>1, <2>2
    <3> QED BY <1>1, <1>2, <3>1
  <2> QED BY <2>1, <2>2
<1>4. ASSUME NEW k \in DOMAIN s, k # 1 PROVE FrameOK(d, s[k])
  <2>1. 1 < k
    BY <1>1, <1>4
  <2>2. Above(s[1].own.node, s[k].own.node)
    BY <1>1, <2>1 DEF StackShape
  <2>3. s[k].own.node # f.own.node
    BY <1>1, <2>2 DEF Above
  <2>4. FrameOK(c, s[k])
    BY DEF Good
  <2>5. s[k].phase = "estimate" => s[k].own.node \notin DOMAIN d.built_subsets
    BY <2>3, <2>4 DEF FrameOK
  <2> QED BY <2>4, <2>5, FrameStays
<1>5. \A k \in DOMAIN t : FrameOK(d, t[k])
  BY <1>2, <1>3, <1>4
<1>6. \A k \in DOMAIN s : IsOn(t, s[k].own.node)
  <2>1. \A k \in DOMAIN s : t[k].own.node = s[k].own.node
    BY <1>1, <1>2, <1>3
  <2> QED BY <1>3, <2>1 DEF IsOn
<1>7. IsOn(t, f.own.node)
  BY <1>1, <1>2, <1>3 DEF IsOn
<1>8. Good(d, t)
  BY <1>5, <1>6, <1>7, GoodAgain
<1> QED BY <1>8 DEF t, u

LEMMA BuiltNode ==
    ASSUME NEW c, NEW s, Good(c, s), NEW node \in DOMAIN c.built_subsets
    PROVE  c.built_subsets[node].node = node /\ IsBuilt(c, c.built_subsets[node])
<1>1. c.built_subsets[node].node = node
  <2> DEFINE r == c.built_subsets[node]
  <2>1. BuiltOK(c, node)
    BY DEF Good
  <2>2. r = Result(node, r.font, r.compat, r.patch_set)
    BY <2>1 DEF BuiltOK
  <2> HIDE DEF r
  <2>3. r.node = node
    BY <2>2 DEF Result
  <2> QED BY <2>3 DEF r
<1> QED BY <1>1 DEF IsBuilt

LEMMA TopOK ==
    ASSUME StackShape(stack), stack # <<>>, Good(context, stack)
    PROVE  FrameShape(Top) /\ FrameOK(context, Top) /\ Top = Head(stack)
<1>1. IsStack(stack)
  BY DEF StackShape
<1> QED BY <1>1, Popping DEF Top, StackShape, Good

LEMMA GoodEstimate ==
    ASSUME Shape, Good(context, stack), stack # <<>>, Top.left # <<>>,
           Top.phase = "estimate", NEW est, NEW sizes, NEW next
    PROVE  Good([context EXCEPT !.estimated_patch_sizes = est],
                <<[Advanced(Top, next) EXCEPT !.sizes = sizes]>> \o Tail(stack))
<1> DEFINE d == [context EXCEPT !.estimated_patch_sizes = est]
           f == Advanced(Top, next)
           g == [f EXCEPT !.sizes = sizes]
<1>1. StackShape(stack) /\ ContextShape(context) /\ FrameOK(context, Top) /\ Top = Head(stack)
  BY TopOK DEF Shape
<1>2. /\ d.built_subsets = context.built_subsets /\ d.patches = context.patches
      /\ d.table_keyed_patch_id = context.table_keyed_patch_id
      /\ d.patch_sets = context.patch_sets /\ d.glyph_patches = context.glyph_patches
      /\ d.next_patch_set_id = context.next_patch_set_id
  BY <1>1 DEF ContextShape
<1> HIDE DEF d
<1>3. Grows(context, d) /\ SetsOK(d) /\ IdsOK(d.table_keyed_patch_id)
  <2>1. Grows(context, d)
    BY <1>2 DEF Grows, Extends
  <2> QED BY <1>2, <2>1, SameSets DEF Good
<1>4. g.own = Top.own /\ g.phase = "estimate"
  <2>1. FrameShape(f) /\ f.own = Top.own /\ f.phase = Top.phase
    BY AdvancedFrame
  <2> HIDE DEF f
  <2> QED BY <2>1 DEF FrameShape
<1> HIDE DEF g
<1>5. FrameOK(d, g)
  BY <1>1, <1>2, <1>4 DEF FrameOK, HasPatchSet
<1>6. /\ DOMAIN d.patches \ DOMAIN context.patches = {}
      /\ DOMAIN d.built_subsets \ DOMAIN context.built_subsets = {}
  BY <1>2
<1>7. Good(d, <<g>> \o Tail(stack))
  BY <1>1, <1>3, <1>4, <1>5, <1>6, GoodReplace
<1> QED BY <1>7 DEF d, g, f

LEMMA GoodPatch ==
    ASSUME Shape, Good(context, stack), stack # <<>>, Top.left # <<>>,
           Top.phase = "patches", Call.jump[1] = Current.node, Built(Target),
           NEW d,
           LET id == context.table_keyed_patch_id[Call.jump]
           IN  IF id \in DOMAIN context.patches THEN d = context
               ELSE d = [context EXCEPT !.patches =
                            Put(@, id, PatchFrom(Current, context.built_subsets[Target]))]
    PROVE  Good(d, <<Advanced(Top, context.built_subsets[Target])>> \o Tail(stack))
<1> DEFINE j == Call.jump
           ids == context.table_keyed_patch_id
           id == ids[j]
           next == context.built_subsets[Target]
           f == Advanced(Top, next)
<1>1. StackShape(stack) /\ ContextShape(context) /\ FrameOK(context, Top) /\ Top = Head(stack)
  BY TopOK DEF Shape
<1>2. /\ Call \in ToSet(Calls(Top.edges, Top.own.node)) /\ j[2] = Target
      /\ FrameShape(Top)
  BY CallOfTop DEF Target
<1>3. /\ IsBuilt(context, Top.own) /\ IsBuilt(context, Top.current)
      /\ \A call \in ToSet(Calls(Top.edges, Top.own.node)) :
            call.jump \in DOMAIN ids /\ (call \in ToSet(Top.left) \/ HasPatch(context, call.jump))
  BY <1>1 DEF FrameOK
<1>4. IsBuilt(context, Current) /\ j[1] \in DOMAIN context.built_subsets
      /\ context.built_subsets[j[1]] = Current
  BY <1>3 DEF Current, IsBuilt
<1>5. j[2] \in DOMAIN context.built_subsets /\ IsBuilt(context, next)
      /\ context.built_subsets[j[2]] = next
  BY <1>2, BuiltNode DEF Built
<1>6. /\ f.own = Top.own /\ f.edges = Top.edges /\ f.phase = "patches"
      /\ f.current = next /\ f.left = Tail(Top.left)
  BY AdvancedFrame
<1>7. j \in DOMAIN ids
  BY <1>2, <1>3
<1>8. /\ d.built_subsets = context.built_subsets
      /\ d.table_keyed_patch_id = ids
      /\ d.patch_sets = context.patch_sets /\ d.glyph_patches = context.glyph_patches
      /\ d.next_patch_set_id = context.next_patch_set_id
      /\ Extends(d.patches, context.patches) /\ id \in DOMAIN d.patches
      /\ \A x \in DOMAIN d.patches \ DOMAIN context.patches :
            x = id /\ d.patches[x] = PatchFrom(Current, next)
  <2>1. CASE id \in DOMAIN context.patches
    <3>1. d = context
      BY <2>1
    <3> QED BY <2>1, <3>1 DEF Extends
  <2>2. CASE id \notin DOMAIN context.patches
    <3> DEFINE new == Put(context.patches, id, PatchFrom(Current, next))
    <3>1. d = [context EXCEPT !.patches = new]
      BY <1>1, <2>2 DEF ContextShape
    <3>2. /\ Extends(new, context.patches) /\ DOMAIN new = DOMAIN context.patches \cup {id}
          /\ new[id] = PatchFrom(Current, next)
      BY <2>2, PutExtends DEF Put
    <3> HIDE DEF new, id, ids, next
    <3>3. /\ d.built_subsets = context.built_subsets
          /\ d.table_keyed_patch_id = context.table_keyed_patch_id
          /\ d.patch_sets = context.patch_sets /\ d.glyph_patches = context.glyph_patches
          /\ d.next_patch_set_id = context.next_patch_set_id /\ d.patches = new
      BY <1>1, <3>1 DEF ContextShape
    <3> QED BY <3>2, <3>3 DEF ids
  <2> QED BY <2>1, <2>2
<1> HIDE DEF f, next, id, ids, j
<1>9. Grows(context, d) /\ SetsOK(d) /\ IdsOK(d.table_keyed_patch_id)
  <2>1. Grows(context, d)
    BY <1>8 DEF Grows, Extends, ids
  <2> QED BY <1>8, <2>1, SameSets DEF Good, ids
<1>10. HasPatch(d, j)
  BY <1>7, <1>8 DEF HasPatch, id
<1>11. FrameOK(d, f)
  <2>1. IsBuilt(d, f.own) /\ IsBuilt(d, f.current)
    BY <1>3, <1>5, <1>6, <1>8 DEF IsBuilt
  <2>2. \A call \in ToSet(Top.left) : call = Call \/ call \in ToSet(Tail(Top.left))
    <3>1. Top.left \in Seq(ToSet(Calls(Top.edges, Top.own.node)))
      BY <1>2 DEF FrameShape
    <3> HIDE DEF ToSet
    <3>2. ASSUME NEW S, NEW l \in Seq(S), l # <<>>, NEW x \in ToSet(l)
          PROVE  x = Head(l) \/ x \in ToSet(Tail(l))
      <4>1. PICK k \in DOMAIN l : x = l[k]
        BY <3>2 DEF ToSet
      <4>2. /\ Len(l) \in Nat \ {0} /\ DOMAIN l = 1 .. Len(l) /\ Head(l) = l[1]
            /\ DOMAIN Tail(l) = 1 .. Len(l) - 1
            /\ \A i \in 1 .. Len(l) - 1 : Tail(l)[i] = l[i + 1]
        BY <3>2
      <4>3. CASE k # 1
        <5>1. k - 1 \in DOMAIN Tail(l) /\ Tail(l)[k - 1] = l[k]
          BY <4>2, <4>3
        <5> QED BY <4>1, <5>1 DEF ToSet
      <4> QED BY <4>1, <4>2, <4>3
    <3> QED BY <3>1, <3>2 DEF Call
  <2>3. ASSUME NEW call \in ToSet(Calls(f.edges, f.own.node))
        PROVE  /\ call.jump \in DOMAIN d.table_keyed_patch_id
               /\ call \in ToSet(f.left) \/ HasPatch(d, call.jump)
    <3>1. call.jump \in DOMAIN ids
          /\ (call \in ToSet(Top.left) \/ HasPatch(context, call.jump))
      BY <1>3, <1>6 DEF ids
    <3>2. HasPatch(context, call.jump) => HasPatch(d, call.jump)
      BY <1>9, HasPatchStays
    <3> QED BY <1>6, <1>8, <1>10, <2>2, <3>1, <3>2 DEF j
  <2> QED BY <1>6, <2>1, <2>3 DEF FrameOK
<1>12. \A x \in DOMAIN d.patches \ DOMAIN context.patches : PatchOK(d, x)
  <2>1. /\ j \in DOMAIN d.table_keyed_patch_id /\ d.table_keyed_patch_id[j] = id
        /\ j[1] \in DOMAIN d.built_subsets /\ d.built_subsets[j[1]] = Current
        /\ j[2] \in DOMAIN d.built_subsets /\ d.built_subsets[j[2]] = next
    BY <1>4, <1>5, <1>7, <1>8 DEF id
  <2> QED BY <1>8, <2>1 DEF PatchOK
<1>13. DOMAIN d.built_subsets \ DOMAIN context.built_subsets = {}
  BY <1>8
<1>14. Good(d, <<f>> \o Tail(stack))
  BY <1>1, <1>6, <1>9, <1>11, <1>12, <1>13, GoodReplace
<1> QED BY <1>14 DEF f, next

LEMMA GoodReturn ==
    ASSUME Shape, Good(context, stack), stack # <<>>, Top.left = <<>>,
           Top.phase = "patches"
    PROVE  Good(context, Tail(stack))
<1> DEFINE t == Tail(stack)
<1>1. /\ StackShape(stack) /\ FrameShape(Top) /\ FrameOK(context, Top)
  BY TopOK DEF Shape
<1>2. /\ Top = stack[1] /\ Len(stack) \in Nat \ {0} /\ Len(t) = Len(stack) - 1
      /\ DOMAIN stack = 1 .. Len(stack) /\ DOMAIN t = 1 .. Len(stack) - 1
      /\ \A k \in DOMAIN t : t[k] = stack[k + 1]
  BY <1>1, Popping DEF StackShape, Top
<1> HIDE DEF t
<1>3. IsPatched(context, Top.own.node)
  <2>1. ToSet(Top.left) = {}
    BY DEF ToSet
  <2>2. Top.edges = OutgoingEdges(Top.own.node)
    BY <1>1 DEF FrameShape
  <2> QED BY <1>1, <2>1, <2>2 DEF FrameOK, IsPatched
<1>4. \A k \in DOMAIN t : FrameOK(context, t[k])
  <2>1. \A k \in DOMAIN t : k + 1 \in DOMAIN stack
    BY <1>2
  <2> QED BY <1>2, <2>1 DEF Good
<1>5. ASSUME NEW k \in DOMAIN stack
      PROVE  IsOn(t, stack[k].own.node) \/ IsPatched(context, stack[k].own.node)
  <2>1. CASE k = 1
    BY <1>2, <1>3, <2>1
  <2>2. CASE k # 1
    <3>1. k - 1 \in DOMAIN t /\ t[k - 1] = stack[k]
      BY <1>2, <2>2
    <3> QED BY <3>1 DEF IsOn
  <2> QED BY <2>1, <2>2
<1>6. Grows(context, context)
  BY DEF Grows, Extends
<1>7. Good(context, t)
  <2>1. IdsOK(context.table_keyed_patch_id) /\ SetsOK(context)
    BY DEF Good
  <2> QED BY <1>4, <1>5, <1>6, <2>1, GoodAgain
<1> QED BY <1>7 DEF t

(***************************************************************************)
(* The maps of a node: every jump of an edge gets an id, and every edge    *)
(* an entry.                                                               *)
(***************************************************************************)
LEMMA GoodPopulate ==
    ASSUME Shape, Good(context, stack), stack # <<>>, Top.phase = "estimate",
           Filled.node = Top.own.node,
           Filled = Result(Filled.node, Filled.font, Filled.compat, Filled.patch_set),
           \A e \in DOMAIN Conditions(SortedEdges, Top.own.node) :
               Conditions(SortedEdges, Top.own.node)[e].patches # <<>>
    PROVE  Good([context EXCEPT
                    !.table_keyed_patch_id = PatchIds(SortedEdges, Top.own.node),
                    !.built_subsets = Put(@, Top.own.node, Filled)],
                <<Frame(Filled, Top.edges, "patches")>> \o Tail(stack))
<1> DEFINE node == Top.own.node
           ids == PatchIds(SortedEdges, node)
           conditions == Conditions(SortedEdges, node)
           built == Put(context.built_subsets, node, Filled)
           d == [context EXCEPT !.table_keyed_patch_id = ids, !.built_subsets = built]
           f == Frame(Filled, Top.edges, "patches")
<1>1. /\ StackShape(stack) /\ ContextShape(context) /\ FrameOK(context, Top)
      /\ FrameShape(Top) /\ Top = Head(stack) /\ request \in Input
  BY TopOK DEF Shape
<1>2. /\ node \in Definition /\ Top.edges = OutgoingEdges(node)
      /\ Top.sizes \in [DOMAIN Top.edges -> Nat]
      /\ Top.own = Result(node, Top.own.font, Top.own.compat, Top.own.patch_set)
  BY <1>1 DEF FrameShape
<1>3. /\ node \notin DOMAIN context.built_subsets /\ Top.own.font = CutSubset(node)
      /\ HasPatchSet(context, node, Top.own.patch_set)
  BY <1>1 DEF FrameOK
<1>4. /\ Top.edges \in Seq(Seq(Definition))
      /\ SortedEdges \in Seq(Seq(Definition)) /\ ToSet(SortedEdges) = ToSet(Top.edges)
  BY <1>1, <1>2, EdgesOfNode, SortKeepsEdges
<1>5. /\ IdsOK(ids) /\ Extends(ids, context.table_keyed_patch_id)
      /\ \A c \in ToSet(Calls(SortedEdges, node)) : c.jump \in DOMAIN ids
  BY <1>2, <1>4, NewIds DEF Good
<1>6. /\ DOMAIN built = DOMAIN context.built_subsets \cup {node} /\ built[node] = Filled
      /\ Extends(built, context.built_subsets)
  BY <1>3, PutExtends DEF Put
<1>7. /\ d.built_subsets = built /\ d.patches = context.patches
      /\ d.table_keyed_patch_id = ids
      /\ d.patch_sets = context.patch_sets /\ d.glyph_patches = context.glyph_patches
      /\ d.next_patch_set_id = context.next_patch_set_id
  BY <1>1 DEF ContextShape
<1>8. d = [context EXCEPT !.table_keyed_patch_id = ids,
                          !.built_subsets = Put(@, node, Filled)]
  BY <1>1 DEF ContextShape
<1>9. /\ f.own = Filled /\ f.current = Filled /\ f.edges = Top.edges /\ f.phase = "patches"
      /\ f.left = Calls(Top.edges, node)
  BY DEF Frame
<1> HIDE DEF d, f, built, ids
<1>10. Grows(context, d) /\ SetsOK(d)
  <2>1. Grows(context, d)
    BY <1>5, <1>6, <1>7 DEF Grows, Extends
  <2> QED BY <1>7, <2>1, SameSets DEF Good
<1>11. ASSUME NEW edge \in ToSet(SortedEdges), NEW k \in DOMAIN Jumps(edge, node)
       PROVE  Jumps(edge, node)[k] \in DOMAIN ids
  <2>1. PICK e \in DOMAIN SortedEdges : edge = SortedEdges[e]
    BY DEF ToSet
  <2> DEFINE c == [edge |-> e, first |-> k = 1, jump |-> Jumps(edge, node)[k]]
  <2>2. IsCall(c, SortedEdges, node)
    BY <2>1 DEF IsCall
  <2>3. c \in ToSet(Calls(SortedEdges, node))
    BY <1>2, <1>4, <2>2, CallsOfEdges
  <2>4. c.jump \in DOMAIN ids
    BY <1>5, <2>3
  <2> QED BY <2>4
<1>12. FrameOK(d, f)
  <2>1. IsBuilt(d, Filled)
    BY <1>6, <1>7 DEF IsBuilt
  <2>2. ASSUME NEW c \in ToSet(Calls(Top.edges, node)) PROVE c.jump \in DOMAIN ids
    <3>1. IsCall(c, Top.edges, node)
      BY <1>2, <1>4, CallsOfEdges
    <3>2. PICK e \in DOMAIN Top.edges : \E k \in DOMAIN Jumps(Top.edges[e], node) :
             c = [edge |-> e, first |-> k = 1, jump |-> Jumps(Top.edges[e], node)[k]]
      BY <3>1 DEF IsCall
    <3>3. PICK k \in DOMAIN Jumps(Top.edges[e], node) :
             c = [edge |-> e, first |-> k = 1, jump |-> Jumps(Top.edges[e], node)[k]]
      BY <3>2
    <3>4. Top.edges[e] \in ToSet(SortedEdges)
      BY <1>4 DEF ToSet
    <3>5. c.jump = Jumps(Top.edges[e], node)[k]
      BY <3>3
    <3> QED BY <1>11, <3>4, <3>5
  <2>3. f.own.node = node
    BY <1>9
  <2> HIDE DEF node
  <2> QED BY <1>7, <1>9, <2>1, <2>2, <2>3 DEF FrameOK
<1>13. /\ DOMAIN conditions = DOMAIN SortedEdges
       /\ \A e \in DOMAIN SortedEdges :
             /\ conditions[e].segments = ToSet(SortedEdges[e])
             /\ conditions[e].patches = [k \in DOMAIN Jumps(SortedEdges[e], node) |->
                                            ids[Jumps(SortedEdges[e], node)[k]]]
  BY DEF Conditions, ids
<1>14. /\ Filled.font = [CutSubset(node) EXCEPT
                            !.ift = [compat |-> Filled.compat, entries |-> conditions],
                            !.iftx = [patch_set |-> Filled.patch_set, applied |-> {}],
                            !.round_trip = Len(stack) = 1]
       /\ Filled.compat = Top.own.compat /\ Filled.patch_set = Top.own.patch_set
  <2> DEFINE own == Top.own
  <2>1. own = [node |-> node, font |-> CutSubset(node), compat |-> own.compat,
               patch_set |-> own.patch_set]
    BY <1>2, <1>3 DEF Result
  <2> DEFINE new(cut) == [cut EXCEPT !.ift = [compat |-> own.compat, entries |-> conditions],
                                     !.iftx = [patch_set |-> own.patch_set, applied |-> {}],
                                     !.round_trip = Len(stack) = 1]
  <2>2. Filled = [own EXCEPT !.font = new(own.font)]
    BY <2>1 DEF Filled
  <2>3. own.font = CutSubset(node)
    BY <1>3
  <2> HIDE DEF own, conditions, node, new
  <2>4. Filled = [own EXCEPT !.font = new(CutSubset(node))]
    BY <2>2, <2>3
  <2>5. /\ Filled.compat = own.compat /\ Filled.patch_set = own.patch_set
        /\ Filled.font = new(CutSubset(node))
    BY <2>1, <2>4
  <2> QED BY <2>5 DEF own, new
<1>15. /\ Filled.font = Mapped(node, Filled)
       /\ Filled.font.ift.entries = conditions
  <2> DEFINE c == Filled.compat
             p == Filled.patch_set
             b == Len(stack) = 1
             new == Filled.font
  <2>1. new = [CutSubset(node) EXCEPT !.ift = [compat |-> c, entries |-> conditions],
                                      !.iftx = [patch_set |-> p, applied |-> {}],
                                      !.round_trip = b]
    BY <1>14
  <2> HIDE DEF c, p, b, new, conditions, node
  <2>2. new.ift.entries = conditions /\ new.round_trip = b
    BY <2>1 DEF CutSubset
  <2>3. new = [CutSubset(node) EXCEPT !.ift = [compat |-> c, entries |-> new.ift.entries],
                                      !.iftx = [patch_set |-> p, applied |-> {}],
                                      !.round_trip = new.round_trip]
    BY <2>1, <2>2
  <2> QED BY <2>2, <2>3 DEF Mapped, new, c, p
<1>16. \A x \in ToSet(conditions) : IsEntry(d, x, node)
  <2>1. ASSUME NEW e \in DOMAIN SortedEdges PROVE IsEntry(d, conditions[e], node)
    <3> DEFINE edge == SortedEdges[e]
               jumps == Jumps(edge, node)
    <3>1. edge \in ToSet(SortedEdges) /\ edge \in ToSet(OutgoingEdges(node))
      BY <1>2, <1>4 DEF ToSet
    <3>2. /\ conditions[e].segments = ToSet(edge)
          /\ conditions[e].patches = [k \in DOMAIN jumps |-> ids[jumps[k]]]
          /\ conditions[e].patches # <<>>
      BY <1>13
    <3>3. jumps # <<>>
      <4>1. [k \in DOMAIN <<>> |-> ids[<<>>[k]]] = <<>>
        OBVIOUS
      <4> HIDE DEF jumps, conditions
      <4> QED BY <3>2, <4>1
    <3>4. \A k \in DOMAIN jumps : jumps[k] \in DOMAIN ids
      BY <1>11, <3>1
    <3> HIDE DEF conditions
    <3> QED BY <1>7, <3>1, <3>2, <3>3, <3>4 DEF IsEntry
  <2> HIDE DEF conditions
  <2> QED BY <1>13, <2>1 DEF ToSet
<1>17. \A edge \in ToSet(OutgoingEdges(node)) :
          \E x \in ToSet(conditions) : x.segments = ToSet(edge)
  <2>1. ASSUME NEW edge \in ToSet(OutgoingEdges(node))
        PROVE  \E x \in ToSet(conditions) : x.segments = ToSet(edge)
    <3>1. edge \in ToSet(SortedEdges)
      BY <1>2, <1>4
    <3>2. PICK e \in DOMAIN SortedEdges : edge = SortedEdges[e]
      BY <3>1 DEF ToSet
    <3> HIDE DEF conditions
    <3>3. conditions[e] \in ToSet(conditions) /\ conditions[e].segments = ToSet(edge)
      <4>1. conditions[e] \in ToSet(conditions)
        BY <1>13, <3>2 DEF ToSet
      <4> QED BY <1>13, <3>2, <4>1
    <3> QED BY <3>3
  <2> QED BY <2>1
<1> HIDE DEF conditions
<1>18. BuiltOK(d, node)
  <2>1. d.built_subsets[node] = Filled
    BY <1>6, <1>7
  <2>2. HasPatchSet(d, node, Filled.patch_set)
    BY <1>3, <1>7, <1>14 DEF HasPatchSet
  <2>3. Filled = Result(node, Filled.font, Filled.compat, Filled.patch_set)
    OBVIOUS
  <2> HIDE DEF node
  <2> QED BY <1>2, <1>15, <1>16, <1>17, <2>1, <2>2, <2>3 DEF BuiltOK
<1>19. /\ DOMAIN d.patches \ DOMAIN context.patches = {}
       /\ DOMAIN d.built_subsets \ DOMAIN context.built_subsets = {node}
  BY <1>3, <1>6, <1>7
<1>20. f.own.node = node
  BY <1>9
<1>21. Good(d, <<f>> \o Tail(stack))
  <2> HIDE DEF node
  <2>1. node = Head(stack).own.node
    BY <1>1 DEF node
  <2> QED BY <1>1, <1>5, <1>7, <1>10, <1>12, <1>18, <1>19, <1>20, <2>1, GoodReplace
<1> QED BY <1>8, <1>21 DEF f, ids

Works ==
    /\ Shape
    /\ Good(context, stack)
    /\ status = "start" => DOMAIN context.built_subsets = {}
    /\ status = "compiling" /\ stack = <<>> => InitSubset \in DOMAIN context.built_subsets
    /\ status = "done" => stack = <<>> /\ InitSubset \in DOMAIN context.built_subsets

NowWorks ==
    /\ Good(context', stack')
    /\ status' = "compiling" /\ stack' = <<>> => InitSubset \in DOMAIN context'.built_subsets
    /\ status' = "done" => stack' = <<>> /\ InitSubset \in DOMAIN context'.built_subsets

LEMMA NodeGood ==
    ASSUME Shape, Good(context, stack), NEW node \in Definition, CompileNode(node),
           node \notin DOMAIN context.built_subsets,
           \A k \in DOMAIN stack : stack[k].own.node # node
    PROVE  /\ Good(context', stack')
           /\ stack' # <<>> \/ node \in DOMAIN context'.built_subsets
<1>1. /\ ContextShape(context) /\ IsStack(stack) /\ request \in Input
      /\ ContextShape(Populated(node))
  BY PopulatedShape DEF Shape, StackShape
<1>2. CASE /\ OutgoingEdges(node) = <<>> /\ ~IsMixedMode
           /\ context' = [Populated(node) EXCEPT
                             !.built_subsets = Put(@, node, Leaf(node))]
           /\ stack' = stack
  <2>1. Good(context', stack')
    BY <1>1, <1>2, GoodLeaf
  <2>2. context'.built_subsets = Put(Populated(node).built_subsets, node, Leaf(node))
    BY <1>1, <1>2 DEF ContextShape
  <2> QED BY <2>1, <2>2 DEF Put
<1>3. CASE /\ context' = Populated(node)
           /\ stack' = <<Frame(Started(node), OutgoingEdges(node), "estimate")>> \o stack
  BY <1>1, <1>3, GoodPush, Pushing
<1> QED BY <1>2, <1>3, NodeCases

LEMMA StepWorks ==
    ASSUME Works, CompilerNext
    PROVE  NowWorks
<1>0. /\ Shape /\ ContextShape(context) /\ StackShape(stack) /\ IsStack(stack)
      /\ request \in Input /\ Good(context, stack)
  BY DEF Works, Shape, StackShape
<1>00. ASSUME NEW f, stack # <<>> PROVE <<f>> \o Tail(stack) # <<>>
  BY <1>0, <1>00, Popping, Pushing
<1>000. stack # <<>> => FrameShape(Top) /\ FrameOK(context, Top) /\ Top = Head(stack)
  BY <1>0, TopOK
<1>1. CASE StartCompile
  <2>1. status = "start" /\ CompileNode(InitSubset) /\ status' = "compiling"
    BY <1>1 DEF StartCompile
  <2>2. /\ stack = <<>> /\ DOMAIN stack = {} /\ InitSubset \in Definition
        /\ InitSubset \notin DOMAIN context.built_subsets
    BY <1>0, <2>1, RequestFields DEF Works, Shape
  <2>3. /\ Good(context', stack')
        /\ stack' # <<>> \/ InitSubset \in DOMAIN context'.built_subsets
    BY <1>0, <2>1, <2>2, NodeGood
  <2> QED BY <2>1, <2>3 DEF NowWorks
<1>2. CASE CompileChild
  <2>1. /\ status = "compiling" /\ stack # <<>> /\ Top.left # <<>>
        /\ \/ status' = "failed" /\ UNCHANGED <<context, stack>>
           \/ ~Built(Target) /\ CompileNode(Target) /\ status' = status
    BY <1>2 DEF CompileChild, TakeJump
  <2>2. CASE status' = "failed" /\ UNCHANGED <<context, stack>>
    BY <1>0, <2>2 DEF NowWorks
  <2>3. CASE ~Built(Target) /\ CompileNode(Target) /\ status' = status
    <3>1. Target \in Definition /\ Above(Target, Top.own.node)
      BY <1>0, <2>1, CallOfTop
    <3>2. \A k \in DOMAIN stack : stack[k].own.node # Target
      BY <1>0, <2>1, <3>1, NotOnStack
    <3>3. Good(context', stack')
      BY <1>0, <2>3, <3>1, <3>2, NodeGood DEF Built
    <3>4. stack' # <<>>
      <4>1. ASSUME NEW f PROVE <<f>> \o stack # <<>>
        BY <1>0, Pushing
      <4>2. stack' = stack \/ \E f : stack' = <<f>> \o stack
        BY <2>3, NodeCases
      <4> QED BY <2>1, <4>1, <4>2
    <3> QED BY <2>1, <2>3, <3>3, <3>4 DEF NowWorks
  <2> QED BY <2>1, <2>2, <2>3
<1>3. CASE EstimateJump
  <2>1. /\ status = "compiling" /\ stack # <<>> /\ Top.left # <<>>
        /\ \/ status' = "failed" /\ UNCHANGED <<context, stack>>
           \/ /\ status' = status /\ Top.phase = "estimate"
              /\ \E size : /\ context' = [context EXCEPT
                                            !.estimated_patch_sizes = Put(@, Call.jump, size)]
                           /\ stack' = <<[Advanced(Top, context.built_subsets[Target]) EXCEPT
                                             !.sizes[Call.edge] = @ + size]>> \o Tail(stack)
    BY <1>3 DEF EstimateJump, TakeJump
  <2>2. CASE status' = "failed" /\ UNCHANGED <<context, stack>>
    BY <1>0, <2>2 DEF NowWorks
  <2>3. CASE status' # "failed"
    <3> DEFINE f == Advanced(Top, context.built_subsets[Target])
    <3>1. PICK size : /\ context' = [context EXCEPT
                                       !.estimated_patch_sizes = Put(@, Call.jump, size)]
                      /\ stack' = <<[f EXCEPT !.sizes[Call.edge] = @ + size]>> \o Tail(stack)
      BY <2>1, <2>3
    <3> DEFINE est == Put(context.estimated_patch_sizes, Call.jump, size)
               sizes == [f.sizes EXCEPT ![Call.edge] = @ + size]
    <3>2. context' = [context EXCEPT !.estimated_patch_sizes = est]
      BY <1>0, <3>1 DEF ContextShape
    <3>3. FrameShape(f)
      BY <1>0, <2>1, AdvancedFrame
    <3>4. [f EXCEPT !.sizes[Call.edge] = @ + size] = [f EXCEPT !.sizes = sizes]
      <4> HIDE DEF f
      <4> QED BY <3>3 DEF FrameShape
    <3>5. stack' = <<[f EXCEPT !.sizes = sizes]>> \o Tail(stack)
      BY <3>1, <3>4
    <3> HIDE DEF est, sizes
    <3>6. Good(context', stack')
      BY <1>0, <2>1, <2>3, <3>2, <3>5, GoodEstimate
    <3>7. stack' # <<>>
      BY <1>00, <2>1, <3>5
    <3> QED BY <2>1, <2>3, <3>6, <3>7 DEF NowWorks
  <2> QED BY <2>1, <2>2, <2>3
<1>4. CASE PopulateMaps
  <2>1. status = "compiling" /\ stack # <<>> /\ Top.phase = "estimate"
    BY <1>4 DEF PopulateMaps, Working
  <2>2. FrameShape(Top)
    BY <1>000, <2>1
  <2>3. CASE UNCHANGED <<context, stack>> /\ status' \in {"failed", "undefined"}
    BY <1>0, <2>3 DEF NowWorks
  <2>4. CASE ~(UNCHANGED <<context, stack>> /\ status' \in {"failed", "undefined"})
    <3>1. /\ Filled.node = Top.own.node
          /\ Filled = Result(Filled.node, Filled.font, Filled.compat, Filled.patch_set)
          /\ \A e \in DOMAIN Conditions(SortedEdges, Top.own.node) :
                Conditions(SortedEdges, Top.own.node)[e].patches # <<>>
          /\ context' = [context EXCEPT
                 !.table_keyed_patch_id = PatchIds(SortedEdges, Top.own.node),
                 !.built_subsets = Put(@, Top.own.node, Filled)]
          /\ stack' = <<Frame(Filled, Top.edges, "patches")>> \o Tail(stack)
          /\ status' = status
      BY <1>4, <2>2, <2>4, PopulateCases
    <3>2. Good(context', stack')
      BY <1>0, <2>1, <3>1, GoodPopulate
    <3>3. stack' # <<>>
      BY <1>00, <2>1, <3>1
    <3> QED BY <2>1, <3>1, <3>2, <3>3 DEF NowWorks
  <2> QED BY <2>3, <2>4
<1>5. CASE BuildPatch
  <2> DEFINE id == context.table_keyed_patch_id[Call.jump]
             next == context.built_subsets[Target]
  <2>1. /\ status = "compiling" /\ stack # <<>> /\ Top.left # <<>>
        /\ \/ status' = "failed" /\ UNCHANGED <<context, stack>>
           \/ /\ status' = status /\ Top.phase = "patches" /\ Call.jump[1] = Current.node
              /\ Built(Target)
              /\ IF id \in DOMAIN context.patches THEN context' = context
                 ELSE context' = [context EXCEPT
                                    !.patches = Put(@, id, PatchFrom(Current, next))]
              /\ stack' = <<Advanced(Top, next)>> \o Tail(stack)
    BY <1>5 DEF BuildPatch, TakeJump
  <2>2. CASE status' = "failed" /\ UNCHANGED <<context, stack>>
    BY <1>0, <2>2 DEF NowWorks
  <2>3. CASE status' # "failed"
    <3>1. Good(context', stack')
      <4>1. /\ Top.phase = "patches" /\ Call.jump[1] = Current.node /\ Built(Target)
            /\ IF id \in DOMAIN context.patches THEN context' = context
               ELSE context' = [context EXCEPT
                                    !.patches = Put(@, id, PatchFrom(Current, next))]
            /\ stack' = <<Advanced(Top, next)>> \o Tail(stack)
        BY <2>1, <2>3
      <4> QED BY <1>0, <2>1, <4>1, GoodPatch
    <3>2. stack' # <<>>
      BY <1>00, <2>1, <2>3
    <3> QED BY <2>1, <2>3, <3>1, <3>2 DEF NowWorks
  <2> QED BY <2>1, <2>2, <2>3
<1>6. CASE Return
  <2>1. /\ status = "compiling" /\ stack # <<>> /\ Top.phase = "patches" /\ Top.left = <<>>
        /\ stack' = Tail(stack) /\ context' = context /\ status' = status
    BY <1>6 DEF Return, Working
  <2>2. Good(context', stack')
    BY <1>0, <2>1, GoodReturn
  <2>3. stack' = <<>> => InitSubset \in DOMAIN context'.built_subsets
    <3>1. Tail(stack) = <<>> => Top.own.node = InitSubset
      BY <1>0, <1>000, <2>1, PopShape
    <3>2. Top.own.node \in DOMAIN context.built_subsets
      BY <1>000, <2>1 DEF FrameOK, IsBuilt
    <3> QED BY <2>1, <3>1, <3>2
  <2> QED BY <2>1, <2>2, <2>3 DEF NowWorks
<1>7. CASE FinishCompile
  BY <1>0, <1>7 DEF FinishCompile, NowWorks, Works
<1> QED BY <1>1, <1>2, <1>3, <1>4, <1>5, <1>6, <1>7 DEF CompilerNext, Works

LEMMA GoodStays ==
    ASSUME request' = request
    PROVE  \A c, s : Good(c, s)' = Good(c, s)
<1>1. SameRequest
  BY RequestStays
<1>2. \A c, id : PatchOK(c, id)' = PatchOK(c, id)
  BY <1>1 DEF PatchOK, SameRequest
<1>3. \A c, space, set : SetOK(c, space, set)' = SetOK(c, space, set)
  BY DEF SetOK
<1>4. \A c : SetsOK(c)' = SetsOK(c)
  BY <1>3 DEF SetsOK
<1>5. \A c, node, set : HasPatchSet(c, node, set)' = HasPatchSet(c, node, set)
  BY <1>1 DEF HasPatchSet, SameRequest
<1>6. \A c, e, node : IsEntry(c, e, node)' = IsEntry(c, e, node)
  BY <1>1 DEF IsEntry, SameRequest
<1>7. \A node, r : Mapped(node, r)' = Mapped(node, r)
  BY <1>1 DEF Mapped, SameRequest
<1>8. \A c, node : BuiltOK(c, node)' = BuiltOK(c, node)
  BY <1>1, <1>5, <1>6, <1>7 DEF BuiltOK, SameRequest
<1>9. \A c, node : IsPatched(c, node)' = IsPatched(c, node)
  BY <1>1 DEF IsPatched, SameRequest
<1>10. \A c, f : FrameOK(c, f)' = FrameOK(c, f)
  BY <1>1, <1>5 DEF FrameOK, SameRequest
<1> QED BY <1>2, <1>4, <1>8, <1>9, <1>10 DEF Good

LEMMA InitWorks ==
    ASSUME InitAll
    PROVE  Works
<1>1. /\ stack = <<>> /\ status = "start"
      /\ context.built_subsets = EmptyMap /\ context.table_keyed_patch_id = EmptyMap
      /\ context.patches = EmptyMap /\ context.patch_sets = EmptyMap
      /\ context.next_patch_set_id = 1
  BY DEF InitAll, Init
<1>2. DOMAIN EmptyMap = {} /\ EmptyMap \in [{} -> 1 .. Cardinality({})]
  BY DEF EmptyMap
<1>3. IdsOK(EmptyMap)
  BY <1>2, FS_EmptySet DEF IdsOK
<1>4. SetsOK(context)
  BY <1>1, <1>2 DEF SetsOK
<1>5. DOMAIN stack = {}
  BY <1>1
<1>6. Good(context, stack)
  BY <1>1, <1>2, <1>3, <1>4, <1>5 DEF Good
<1> QED BY <1>1, <1>2, <1>6, InitShape DEF Works

LEMMA WorksNext ==
    ASSUME Works, [Next \/ Stopped]_vars
    PROVE  Works'
<1>0. Shape /\ request \in Input
  BY DEF Works, Shape
<1>1. Shape'
  BY <1>0, ShapeNext
<1>2. CASE CompilerNext
  <2>1. NowWorks /\ request' = request /\ status' # "start"
    BY <1>0, <1>2, StepWorks, ShapeStep
  <2>2. InitSubset' = InitSubset
    BY <2>1, RequestStays DEF SameRequest
  <2>3. Good(context, stack)'
    BY <2>1, GoodStays DEF NowWorks
  <2> QED BY <1>1, <2>1, <2>2, <2>3 DEF Works, NowWorks
<1>3. CASE UNCHANGED compiler_vars
  <2>1. request' = request /\ context' = context /\ stack' = stack /\ status' = status
    BY <1>3 DEF compiler_vars
  <2>2. InitSubset' = InitSubset
    BY <2>1, RequestStays DEF SameRequest
  <2>3. Good(context, stack)'
    BY <2>1, GoodStays DEF Works
  <2> QED BY <1>1, <2>1, <2>2, <2>3 DEF Works
<1> QED BY <1>2, <1>3 DEF Next, Stopped, vars, compiler_vars

LEMMA WorksInvariant == Spec => []Works
<1>1. InitAll => Works
  BY InitWorks
<1>2. Works /\ [Next \/ Stopped]_vars => Works'
  BY WorksNext
<1> QED BY <1>1, <1>2, PTL DEF Spec

-----------------------------------------------------------------------------
(***************************************************************************)
(* The font of a client.  Whatever has been loaded, the font is that of    *)
(* the node with its subset, but for the outlines: those of the variations *)
(* are for the node's design space, the others for a space that has been.  *)
(***************************************************************************)
FontShape(f) ==
    f = [subset |-> f.subset, round_trip |-> f.round_trip, glyf |-> f.glyf,
         gvar |-> f.gvar, ift |-> f.ift, iftx |-> f.iftx]

FontIs(f, node) ==
    /\ FontShape(f)
    /\ f.iftx = [patch_set |-> f.iftx.patch_set, applied |-> f.iftx.applied]
    /\ node \in DOMAIN context.built_subsets
    /\ f.subset = node
    /\ f.ift = context.built_subsets[node].font.ift
    /\ f.round_trip = context.built_subsets[node].font.round_trip
    /\ f.iftx.patch_set = context.built_subsets[node].patch_set
    /\ f.iftx.applied \subseteq DOMAIN request.glyph_conditions
    /\ ~IsMixedMode => f = context.built_subsets[node].font
    /\ \A id \in {Base} \cup f.iftx.applied :
          /\ id \in DOMAIN f.gvar /\ f.gvar[id] = node.design_space
          /\ id \in DOMAIN f.glyf
          /\ \E n \in DOMAIN context.built_subsets : f.glyf[id] = DefaultPosition(n.design_space)

LEMMA CutFont ==
    ASSUME NEW node
    PROVE  /\ CutSubset(node).subset = node
           /\ DOMAIN CutSubset(node) = {"subset", "round_trip", "glyf", "gvar", "ift", "iftx"}
           /\ CutSubset(node).gvar = [g \in {Base} |-> node.design_space]
           /\ CutSubset(node).glyf = [g \in {Base} |-> DefaultPosition(node.design_space)]
  BY DEF CutSubset

LEMMA BuiltFont ==
    ASSUME NEW node, BuiltOK(context, node), node \in DOMAIN context.built_subsets
    PROVE  LET r == context.built_subsets[node]
           IN  /\ FontIs(r.font, node) /\ node \in Definition
               /\ r.font.ift = [compat |-> r.compat, entries |-> r.font.ift.entries]
               /\ r.font.iftx = [patch_set |-> r.patch_set, applied |-> {}]
               /\ r.font.gvar = [g \in {Base} |-> node.design_space]
               /\ HasPatchSet(context, node, r.patch_set)
               /\ r.node = node
<1> DEFINE r == context.built_subsets[node]
           f == r.font
           cut == CutSubset(node)
<1>1. /\ node \in Definition /\ r = Result(node, f, r.compat, r.patch_set)
      /\ f = Mapped(node, r) /\ HasPatchSet(context, node, r.patch_set)
  BY DEF BuiltOK
<1>2. f = [cut EXCEPT !.ift = [compat |-> r.compat, entries |-> f.ift.entries],
                      !.iftx = [patch_set |-> r.patch_set, applied |-> {}],
                      !.round_trip = f.round_trip]
  BY <1>1 DEF Mapped
<1>3. /\ cut.subset = node
      /\ DOMAIN cut = {"subset", "round_trip", "glyf", "gvar", "ift", "iftx"}
      /\ cut.gvar = [g \in {Base} |-> node.design_space]
      /\ cut.glyf = [g \in {Base} |-> DefaultPosition(node.design_space)]
  BY CutFont
<1>4. r.node = node
  <2> HIDE DEF r
  <2> QED BY <1>1 DEF Result
<1> HIDE DEF cut, f
<1>5. /\ f.subset = node
      /\ f.ift = [compat |-> r.compat, entries |-> f.ift.entries]
      /\ f.iftx = [patch_set |-> r.patch_set, applied |-> {}]
      /\ f.gvar = [g \in {Base} |-> node.design_space]
      /\ f.glyf = [g \in {Base} |-> DefaultPosition(node.design_space)]
      /\ FontShape(f)
  <2> DEFINE ift == [compat |-> r.compat, entries |-> f.ift.entries]
             iftx == [patch_set |-> r.patch_set, applied |-> {}]
             b == f.round_trip
  <2>1. f = [cut EXCEPT !.ift = ift, !.iftx = iftx, !.round_trip = b]
    BY <1>2
  <2> HIDE DEF ift, iftx, b, r
  <2>2. f.subset = node /\ f.ift = ift /\ f.iftx = iftx /\ f.gvar = cut.gvar
        /\ f.glyf = cut.glyf /\ f.round_trip = b
    BY <1>3, <2>1
  <2>3. FontShape(f)
    BY <1>3, <2>1 DEF FontShape
  <2> QED BY <1>3, <2>2, <2>3 DEF ift, iftx
<1>6. f.iftx.patch_set = r.patch_set /\ f.iftx.applied = {}
  BY <1>5
<1>7. FontIs(f, node)
  <2>1. f = context.built_subsets[node].font
    BY DEF f
  <2>2. ASSUME NEW id \in {Base} \cup f.iftx.applied
        PROVE  /\ id \in DOMAIN f.gvar /\ f.gvar[id] = node.design_space
               /\ id \in DOMAIN f.glyf /\ f.glyf[id] = DefaultPosition(node.design_space)
    BY <1>5, <1>6
  <2> QED BY <1>5, <1>6, <2>1, <2>2 DEF FontIs
<1> QED BY <1>1, <1>4, <1>5, <1>7 DEF f, r

(***************************************************************************)
(* The patch of a jump leads from the font at one end to the font at the   *)
(* other: patches have distinct ids, and patch sets distinct URLs.         *)
(***************************************************************************)
LEMMA PatchLeads ==
    ASSUME Good(context, stack), NEW j, HasPatch(context, j), NEW f, FontIs(f, j[1]),
           NEW led, led = [ok |-> TRUE, font |-> f]
    PROVE  LET next == Load(led, context.table_keyed_patch_id[j])
           IN  /\ next = [ok |-> TRUE, font |-> next.font]
               /\ FontIs(next.font, j[2])
<1> DEFINE ids == context.table_keyed_patch_id
           id == ids[j]
           patch == context.patches[id]
           a == context.built_subsets[j[1]]
           b == context.built_subsets[j[2]]
<1>1. j \in DOMAIN ids /\ id \in DOMAIN context.patches
  BY DEF HasPatch
<1>2. PICK i \in DOMAIN ids : /\ ids[i] = id
                              /\ i[1] \in DOMAIN context.built_subsets
                              /\ i[2] \in DOMAIN context.built_subsets
                              /\ patch = PatchFrom(context.built_subsets[i[1]],
                                                   context.built_subsets[i[2]])
  BY <1>1 DEF Good, PatchOK
<1>3. i = j
  BY <1>1, <1>2 DEF Good, IdsOK
<1>4. /\ j[1] \in DOMAIN context.built_subsets /\ j[2] \in DOMAIN context.built_subsets
      /\ patch = PatchFrom(a, b)
  BY <1>2, <1>3
<1>5. BuiltOK(context, j[1]) /\ BuiltOK(context, j[2])
  BY <1>4 DEF Good
<1>6. /\ FontIs(a.font, j[1]) /\ a.node = j[1]
      /\ a.font.ift = [compat |-> a.compat, entries |-> a.font.ift.entries]
      /\ HasPatchSet(context, j[1], a.patch_set)
  BY <1>4, <1>5, BuiltFont
<1>7. /\ FontIs(b.font, j[2]) /\ b.node = j[2]
      /\ b.font.iftx = [patch_set |-> b.patch_set, applied |-> {}]
      /\ b.font.gvar = [g \in {Base} |-> j[2].design_space]
      /\ HasPatchSet(context, j[2], b.patch_set)
  BY <1>4, <1>5, BuiltFont
<1>8. /\ patch.compat = a.compat /\ patch.base = a.font /\ patch.result = b.font
      /\ patch.mode = ModeOf(a, b)
  BY <1>4 DEF PatchFrom
<1>9. /\ FontShape(f) /\ f.iftx = [patch_set |-> f.iftx.patch_set, applied |-> f.iftx.applied]
      /\ f.subset = j[1] /\ f.ift = a.font.ift /\ f.round_trip = a.font.round_trip
      /\ f.iftx.patch_set = a.patch_set
      /\ ~IsMixedMode => f = a.font
      /\ a.font.subset = j[1]
  BY <1>6 DEF FontIs
<1> HIDE DEF a, b, patch, id
<1>10. Fits(f, patch)
  <2>1. f.ift.compat = a.compat
    BY <1>6, <1>9
  <2>2. patch.mode = "whole" => ~IsMixedMode
    BY <1>8 DEF ModeOf
  <2> QED BY <1>8, <1>9, <2>1, <2>2 DEF Fits
<1> DEFINE g == Apply(f, patch)
<1>11. Load(led, id) = [ok |-> TRUE, font |-> g]
  <2>1. Load(led, id) = [led EXCEPT !.font = g]
    BY <1>1, <1>10 DEF Load, patch, id
  <2> HIDE DEF g
  <2> QED BY <2>1
<1>12. FontIs(g, j[2])
  <2>1. CASE ~IsMixedMode
    <3>1. g = b.font
      BY <1>8, <2>1 DEF Apply, ModeOf
    <3> QED BY <1>7, <3>1
  <2>2. CASE IsMixedMode /\ b.patch_set.url # a.patch_set.url
    <3>1. g = [f EXCEPT !.ift = b.font.ift, !.subset = b.font.subset,
                        !.round_trip = b.font.round_trip, !.gvar = b.font.gvar,
                        !.iftx = b.font.iftx]
      BY <1>8, <1>9, <2>2 DEF Apply, ModeOf, FontShape
    <3>2. /\ FontShape(g) /\ g.ift = b.font.ift /\ g.subset = b.font.subset
          /\ g.round_trip = b.font.round_trip /\ g.gvar = b.font.gvar
          /\ g.iftx = b.font.iftx /\ g.glyf = f.glyf
      <4> HIDE DEF g
      <4> QED BY <1>9, <3>1 DEF FontShape
    <3> HIDE DEF g
    <3>3. g.iftx.applied = {} /\ g.iftx.patch_set = b.patch_set
          /\ g.iftx = [patch_set |-> g.iftx.patch_set, applied |-> g.iftx.applied]
      BY <1>7, <3>2
    <3>4. \A x \in {Base} \cup g.iftx.applied : x \in {Base} \cup f.iftx.applied
      BY <3>3
    <3>5. b.font.subset = j[2] /\ \A x \in {Base} : g.gvar[x] = j[2].design_space
                                                   /\ x \in DOMAIN g.gvar
      BY <1>7, <3>2 DEF FontIs
    <3> QED BY <1>4, <2>2, <3>2, <3>3, <3>4, <3>5 DEF FontIs, b
  <2>3. CASE IsMixedMode /\ b.patch_set.url = a.patch_set.url
    <3>1. g = [f EXCEPT !.ift = b.font.ift, !.subset = b.font.subset,
                        !.round_trip = b.font.round_trip]
      BY <1>8, <1>9, <2>3 DEF Apply, ModeOf, FontShape
    <3>2. /\ FontShape(g) /\ g.ift = b.font.ift /\ g.subset = b.font.subset
          /\ g.round_trip = b.font.round_trip /\ g.gvar = f.gvar
          /\ g.iftx = f.iftx /\ g.glyf = f.glyf
      <4> HIDE DEF g
      <4> QED BY <1>9, <3>1 DEF FontShape
    <3> HIDE DEF g
    <3>3. a.patch_set = b.patch_set /\ j[1].design_space = j[2].design_space
      BY <1>6, <1>7, <2>3 DEF HasPatchSet, Good, SetsOK
    <3>4. b.font.subset = j[2]
      BY <1>7 DEF FontIs
    <3> QED BY <1>4, <1>9, <2>3, <3>2, <3>3, <3>4 DEF FontIs, b
  <2> QED BY <2>1, <2>2, <2>3
<1> HIDE DEF g
<1>13. Load(led, id).font = g
  BY <1>11
<1> QED BY <1>11, <1>12, <1>13 DEF id

(***************************************************************************)
(* Each entry is an edge, and when the compiler is done there is a patch   *)
(* for each jump of the edge.                                              *)
(***************************************************************************)
EntryLeads(e, node, edge) ==
    /\ edge \in ToSet(OutgoingEdges(node))
    /\ edge \in EdgesOf(ToSet(Remaining(node))) /\ edge \in Seq(Definition)
    /\ e.segments = ToSet(edge)
    /\ Jumps(edge, node) # <<>>
    /\ GoodJumps(Jumps(edge, node), edge, node)
    /\ \A k \in DOMAIN Jumps(edge, node) : HasPatch(context, Jumps(edge, node)[k])
    /\ e.patches = [k \in DOMAIN Jumps(edge, node) |->
                       context.table_keyed_patch_id[Jumps(edge, node)[k]]]

LEMMA EdgeOfNode ==
    ASSUME request \in Input, NEW node \in Definition,
           NEW edge \in ToSet(OutgoingEdges(node))
    PROVE  edge \in EdgesOf(ToSet(Remaining(node))) /\ edge \in Seq(Definition)
<1> DEFINE E == EdgesOf(ToSet(Remaining(node)))
           D == Seq(Definition)
           edges == OutgoingEdges(node)
<1>1. edges \in Seq(E) /\ edges \in Seq(D)
  BY EdgesOfNode
<1>2. ASSUME NEW S, edges \in Seq(S) PROVE edge \in S
  BY <1>2 DEF ToSet
<1> HIDE DEF E, D, edges
<1>3. edge \in E /\ edge \in D
  BY <1>1, <1>2
<1> QED BY <1>3 DEF E, D

LEMMA EntryIsEdge ==
    ASSUME request \in Input, Good(context, stack), stack = <<>>,
           NEW f, NEW node, FontIs(f, node), NEW e \in Entries(f)
    PROVE  \E edge : EntryLeads(e, node, edge)
<1>1. /\ node \in DOMAIN context.built_subsets /\ BuiltOK(context, node)
      /\ f.ift = context.built_subsets[node].font.ift
  BY DEF FontIs, Good
<1>2. node \in Definition /\ IsEntry(context, e, node)
  BY <1>1 DEF BuiltOK, Entries
<1>3. PICK edge \in ToSet(OutgoingEdges(node)) :
        /\ e.segments = ToSet(edge)
        /\ Jumps(edge, node) # <<>>
        /\ \A k \in DOMAIN Jumps(edge, node) :
              Jumps(edge, node)[k] \in DOMAIN context.table_keyed_patch_id
        /\ e.patches = [k \in DOMAIN Jumps(edge, node) |->
                           context.table_keyed_patch_id[Jumps(edge, node)[k]]]
  BY <1>2 DEF IsEntry
<1>4. edge \in EdgesOf(ToSet(Remaining(node))) /\ edge \in Seq(Definition)
  BY <1>2, EdgeOfNode
<1>5. GoodJumps(Jumps(edge, node), edge, node)
  BY <1>2, <1>4, JumpsOfEdge
<1>6. IsPatched(context, node)
  <2>1. ~IsOn(stack, node)
    BY DEF IsOn
  <2> QED BY <1>1, <2>1 DEF Good
<1>7. ASSUME NEW k \in DOMAIN Jumps(edge, node)
      PROVE  HasPatch(context, Jumps(edge, node)[k])
  <2>1. PICK i \in DOMAIN OutgoingEdges(node) : edge = OutgoingEdges(node)[i]
    BY DEF ToSet
  <2> DEFINE c == [edge |-> i, first |-> k = 1, jump |-> Jumps(edge, node)[k]]
  <2>2. IsCall(c, OutgoingEdges(node), node)
    BY <2>1 DEF IsCall
  <2>3. c \in ToSet(Calls(OutgoingEdges(node), node))
    BY <1>2, <2>2, EdgesOfNode, CallsOfEdges
  <2>4. HasPatch(context, c.jump)
    BY <1>6, <2>3 DEF IsPatched
  <2> QED BY <2>4
<1> QED BY <1>3, <1>4, <1>5, <1>7 DEF EntryLeads

LEMMA FollowIsLoop ==
    ASSUME Good(context, stack), NEW f, FontShape(f), NEW S, NEW ids \in Seq(S)
    PROVE  /\ Follow(f, ids)[0] = [ok |-> TRUE, font |-> f]
           /\ \A k \in 1 .. Len(ids) : Follow(f, ids)[k] = Load(Follow(f, ids)[k - 1], ids[k])
<1> DEFINE n == Len(ids)
           Of(h, g) == {g[h]} \cup {context.patches[id].result[h] : id \in DOMAIN context.patches}
           F == [subset : Of("subset", f), round_trip : Of("round_trip", f),
                 glyf : Of("glyf", f), gvar : Of("gvar", f), ift : Of("ift", f),
                 iftx : Of("iftx", f)]
           V == [ok : BOOLEAN, font : F]
           base == [ok |-> TRUE, font |-> f]
           step == [p \in V \X (1 .. n) |-> Load(p[1], ids[p[2]])]
           IsLed(g) == g = [k \in 0 .. n |-> IF k = 0 THEN base ELSE Load(g[k - 1], ids[k])]
           led == CHOOSE g : IsLed(g)
<1>1. Follow(f, ids) = led
  BY DEF Follow
<1>2. n \in Nat
  OBVIOUS
<1>3. f \in F /\ base \in V
  BY DEF FontShape
<1>4. \A g \in F : g = [subset |-> g.subset, round_trip |-> g.round_trip, glyf |-> g.glyf,
                        gvar |-> g.gvar, ift |-> g.ift, iftx |-> g.iftx]
                   /\ g.subset \in Of("subset", f) /\ g.round_trip \in Of("round_trip", f)
                   /\ g.glyf \in Of("glyf", f) /\ g.gvar \in Of("gvar", f)
                   /\ g.ift \in Of("ift", f) /\ g.iftx \in Of("iftx", f)
  OBVIOUS
<1>5. ASSUME NEW a \in Of("subset", f), NEW b \in Of("round_trip", f),
             NEW c \in Of("glyf", f), NEW d \in Of("gvar", f),
             NEW i \in Of("ift", f), NEW j \in Of("iftx", f)
      PROVE  [subset |-> a, round_trip |-> b, glyf |-> c, gvar |-> d,
              ift |-> i, iftx |-> j] \in F
  OBVIOUS
<1>6. ASSUME NEW id \in DOMAIN context.patches
      PROVE  LET r == context.patches[id].result
             IN  /\ r \in F
                 /\ r.subset \in Of("subset", f) /\ r.round_trip \in Of("round_trip", f)
                 /\ r.gvar \in Of("gvar", f)
                 /\ r.ift \in Of("ift", f) /\ r.iftx \in Of("iftx", f)
  <2> DEFINE r == context.patches[id].result
  <2>1. PICK i \in DOMAIN context.table_keyed_patch_id :
           /\ i[2] \in DOMAIN context.built_subsets
           /\ context.patches[id] = PatchFrom(context.built_subsets[i[1]],
                                              context.built_subsets[i[2]])
    BY DEF Good, PatchOK
  <2>2. r = context.built_subsets[i[2]].font
    BY <2>1 DEF PatchFrom
  <2>3. FontShape(r)
    BY <2>1, <2>2, BuiltFont DEF Good, FontIs
  <2>4. /\ r.subset \in Of("subset", f) /\ r.round_trip \in Of("round_trip", f)
        /\ r.glyf \in Of("glyf", f) /\ r.gvar \in Of("gvar", f)
        /\ r.ift \in Of("ift", f) /\ r.iftx \in Of("iftx", f)
    OBVIOUS
  <2> HIDE DEF r, Of, F
  <2>5. r \in F
    BY <1>5, <2>3, <2>4 DEF FontShape
  <2> QED BY <2>4, <2>5 DEF r
<1>7. ASSUME NEW v \in V, NEW id PROVE Load(v, id) \in V
  <2>1. v = [ok |-> v.ok, font |-> v.font] /\ v.font \in F /\ v.ok \in BOOLEAN
    OBVIOUS
  <2> DEFINE g == v.font
             new == Apply(g, context.patches[id])
  <2>2. id \in DOMAIN context.patches => new \in F
    <3> SUFFICES ASSUME id \in DOMAIN context.patches PROVE new \in F
      OBVIOUS
    <3> DEFINE r == context.patches[id].result
    <3>1. /\ r \in F /\ r.subset \in Of("subset", f) /\ r.round_trip \in Of("round_trip", f)
          /\ r.gvar \in Of("gvar", f) /\ r.ift \in Of("ift", f) /\ r.iftx \in Of("iftx", f)
      BY <1>6
    <3>2. /\ g = [subset |-> g.subset, round_trip |-> g.round_trip, glyf |-> g.glyf,
                  gvar |-> g.gvar, ift |-> g.ift, iftx |-> g.iftx]
          /\ g.glyf \in Of("glyf", f) /\ g.gvar \in Of("gvar", f) /\ g.iftx \in Of("iftx", f)
      BY <1>4, <2>1
    <3>3. \/ new = r
          \/ new = [[g EXCEPT !.ift = r.ift, !.subset = r.subset, !.round_trip = r.round_trip]
                       EXCEPT !.gvar = r.gvar, !.iftx = r.iftx]
          \/ new = [g EXCEPT !.ift = r.ift, !.subset = r.subset, !.round_trip = r.round_trip]
      BY DEF Apply
    <3> HIDE DEF new, g, r, Of, F
    <3>4. \/ new = r
          \/ new = [subset |-> r.subset, round_trip |-> r.round_trip, glyf |-> g.glyf,
                    gvar |-> r.gvar, ift |-> r.ift, iftx |-> r.iftx]
          \/ new = [subset |-> r.subset, round_trip |-> r.round_trip, glyf |-> g.glyf,
                    gvar |-> g.gvar, ift |-> r.ift, iftx |-> g.iftx]
      BY <3>2, <3>3
    <3> QED BY <1>5, <3>1, <3>2, <3>4
  <2>3. \/ Load(v, id) = [v EXCEPT !.ok = FALSE]
        \/ id \in DOMAIN context.patches /\ Load(v, id) = [v EXCEPT !.font = new]
    BY <2>1 DEF Load
  <2> HIDE DEF new, F
  <2> QED BY <2>1, <2>2, <2>3
<1> HIDE DEF V, base, n
<1>8. step \in [V \X (1 .. n) -> V]
  BY <1>7
<1>9. PICK h \in [0 .. n -> V] : IsLoop(h, n, base, step)
  <2> HIDE DEF step
  <2> QED BY <1>2, <1>3, <1>8, LoopExists
<1>10. h[0] = base
  BY <1>9 DEF IsLoop
<1>11. ASSUME NEW k \in 1 .. n PROVE h[k] = Load(h[k - 1], ids[k])
  <2>1. k - 1 \in 0 .. n
    BY <1>2
  <2>2. <<h[k - 1], k>> \in V \X (1 .. n)
    BY <2>1
  <2>3. step[<<h[k - 1], k>>] = Load(h[k - 1], ids[k])
    BY <2>2
  <2> QED BY <1>9, <2>3 DEF IsLoop
<1>12. IsLed(h)
  <2>1. ASSUME NEW k \in 0 .. n
        PROVE  h[k] = IF k = 0 THEN base ELSE Load(h[k - 1], ids[k])
    <3>1. k # 0 => k \in 1 .. n
      BY <1>2
    <3> QED BY <1>10, <1>11, <3>1
  <2> QED BY <2>1
<1>13. IsLed(led)
  <2> HIDE DEF IsLed
  <2> QED BY <1>12
<1> HIDE DEF led
<1>14. led[0] = base /\ \A k \in 1 .. n : led[k] = Load(led[k - 1], ids[k])
  <2>1. 0 \in 0 .. n /\ \A k \in 1 .. n : k \in 0 .. n /\ k # 0
    BY <1>2
  <2> QED BY <1>13, <2>1
<1> QED BY <1>1, <1>14 DEF n, base

LEMMA PatchesFollow ==
    ASSUME request \in Input, Good(context, stack), stack = <<>>,
           NEW f, NEW node, FontIs(f, node), NEW e \in Entries(f)
    PROVE  LET led == Follow(f, e.patches)
               end == led[Len(e.patches)]
           IN  /\ end.ok
               /\ end.font.subset = Ext!UnionAll(node, e.segments)
               /\ \A k \in DOMAIN e.patches :
                     /\ Includes(led[k].font.subset, led[k - 1].font.subset)
                     /\ led[k].font.subset # led[k - 1].font.subset
<1>1. PICK edge : EntryLeads(e, node, edge)
  BY EntryIsEdge
<1> DEFINE jumps == Jumps(edge, node)
           n == Len(jumps)
           ids == context.table_keyed_patch_id
           led == Follow(f, e.patches)
           at(k) == IF k = 0 THEN node ELSE jumps[k][2]
<1>2. /\ e.segments = ToSet(edge) /\ edge \in Seq(Definition)
      /\ jumps # <<>> /\ GoodJumps(jumps, edge, node)
      /\ \A k \in DOMAIN jumps : HasPatch(context, jumps[k])
      /\ e.patches = [k \in DOMAIN jumps |-> ids[jumps[k]]]
  BY <1>1 DEF EntryLeads
<1>3. PICK end \in Definition : IsUnion(end, node, ToSet(edge)) /\ IsWay(jumps, node, end)
  BY <1>2 DEF GoodJumps
<1>4. node \in Definition
  <2>1. node \in DOMAIN context.built_subsets
    BY DEF FontIs
  <2>2. BuiltOK(context, node)
    BY <2>1 DEF Good
  <2> QED BY <2>2 DEF BuiltOK
<1> HIDE DEF jumps
<1>5. jumps \in Seq(Jump) /\ n \in Nat \ {0} /\ DOMAIN jumps = 1 .. n
  <2>1. jumps \in Seq(Jump) /\ jumps # <<>>
    BY <1>2, <1>3 DEF IsWay
  <2>2. Len(jumps) \in Nat \ {0}
    BY <2>1, HeadAndTail
  <2>3. DOMAIN jumps = 1 .. Len(jumps)
    BY <2>1
  <2> QED BY <2>1, <2>2, <2>3
<1>6. /\ e.patches \in Seq({ids[jumps[k]] : k \in DOMAIN jumps})
      /\ Len(e.patches) = n /\ DOMAIN e.patches = 1 .. n
      /\ \A k \in 1 .. n : e.patches[k] = ids[jumps[k]]
  <2> DEFINE S == {ids[jumps[k]] : k \in DOMAIN jumps}
             s == [k \in 1 .. n |-> ids[jumps[k]]]
  <2>1. \A k \in 1 .. n : ids[jumps[k]] \in S
    BY <1>5
  <2>2. e.patches = s
    BY <1>2, <1>5
  <2> HIDE DEF S, n
  <2>3. s \in Seq(S) /\ Len(s) = n /\ DOMAIN s = 1 .. n
    BY <1>5, <2>1
  <2> QED BY <2>2, <2>3 DEF S
<1>7. /\ led[0] = [ok |-> TRUE, font |-> f]
      /\ \A k \in 1 .. n : led[k] = Load(led[k - 1], e.patches[k])
  <2>1. FontShape(f)
    BY DEF FontIs
  <2> QED BY <1>6, <2>1, FollowIsLoop
<1> HIDE DEF led, n
<1>8. \A k \in 1 .. n : jumps[k][1] = at(k - 1) /\ Above(at(k), at(k - 1))
  <2>1. ASSUME NEW k \in 1 .. n PROVE jumps[k][1] = at(k - 1)
    <3>1. CASE k = 1
      <4>1. jumps[1][1] = node
        BY <1>2, <1>3 DEF IsWay
      <4> QED BY <3>1, <4>1
    <3>2. CASE k # 1
      <4>1. k > 1 /\ k - 1 # 0
        BY <1>5, <3>2
      <4>2. jumps[k][1] = jumps[k - 1][2]
        BY <1>3, <1>5, <4>1 DEF IsWay
      <4> QED BY <4>1, <4>2
    <3> QED BY <3>1, <3>2
  <2>2. ASSUME NEW k \in 1 .. n PROVE Above(jumps[k][2], jumps[k][1]) /\ at(k) = jumps[k][2]
    BY <1>3, <1>5 DEF IsWay
  <2> HIDE DEF at
  <2> QED BY <2>1, <2>2
<1> DEFINE Led(k) == /\ led[k] = [ok |-> TRUE, font |-> led[k].font]
                     /\ FontIs(led[k].font, at(k))
           T == {k \in 0 .. n : Led(k)}
<1>9. 0 \in T
  <2>1. at(0) = node
    OBVIOUS
  <2>2. led[0].font = f
    BY <1>7
  <2>3. Led(0)
    BY <1>7, <2>1, <2>2
  <2> HIDE DEF Led
  <2> QED BY <1>5, <2>3
<1>10. ASSUME NEW k \in 1 .. n, k - 1 \in T PROVE k \in T
  <2>1. /\ led[k - 1] = [ok |-> TRUE, font |-> led[k - 1].font]
        /\ FontIs(led[k - 1].font, jumps[k][1])
    BY <1>8, <1>10
  <2>2. HasPatch(context, jumps[k])
    BY <1>2, <1>5
  <2> DEFINE next == Load(led[k - 1], ids[jumps[k]])
  <2>3. next = [ok |-> TRUE, font |-> next.font] /\ FontIs(next.font, jumps[k][2])
    BY <2>1, <2>2, PatchLeads
  <2>4. led[k] = next
    BY <1>6, <1>7
  <2>5. at(k) = jumps[k][2] /\ k \in 0 .. n
    BY <1>5
  <2> HIDE DEF next, at
  <2>6. Led(k)
    BY <2>3, <2>4, <2>5
  <2> HIDE DEF Led
  <2> QED BY <2>5, <2>6
<1>11. \A k \in 0 .. n : k \in T
  <2> HIDE DEF T
  <2> QED BY <1>5, <1>9, <1>10, CountingUp
<1>12. \A k \in 0 .. n : /\ led[k] = [ok |-> TRUE, font |-> led[k].font]
                         /\ led[k].font.subset = at(k)
  <2>1. \A k \in 0 .. n : Led(k)
    BY <1>11
  <2> HIDE DEF at
  <2> QED BY <2>1 DEF FontIs
<1>13. led[n].ok /\ led[n].font.subset = end
  <2>1. n \in 0 .. n /\ n # 0
    BY <1>5
  <2>2. jumps[n][2] = end
    BY <1>2, <1>3 DEF IsWay, n
  <2>3. at(n) = end
    BY <2>1, <2>2
  <2> HIDE DEF at
  <2>4. led[n] = [ok |-> TRUE, font |-> led[n].font] /\ led[n].font.subset = end
    BY <1>12, <2>1, <2>3
  <2>5. led[n].ok
    <3> DEFINE g == led[n].font
    <3>1. led[n] = [ok |-> TRUE, font |-> g]
      BY <2>4
    <3> HIDE DEF g
    <3> QED BY <3>1
  <2> QED BY <2>4, <2>5
<1>14. end = Ext!UnionAll(node, e.segments)
  <2>1. ToSet(edge) \in SUBSET Definition /\ IsFiniteSet(ToSet(edge))
    <3>1. Len(edge) \in Nat /\ DOMAIN edge = 1 .. Len(edge)
          /\ \A k \in DOMAIN edge : edge[k] \in Definition
      BY <1>2
    <3>2. IsFiniteSet(1 .. Len(edge))
      BY <3>1, FS_Interval
    <3>3. ToSet(edge) \in SUBSET Definition
      BY <3>1 DEF ToSet
    <3>4. edge \in Surjection(1 .. Len(edge), ToSet(edge))
      <4>1. edge \in [1 .. Len(edge) -> ToSet(edge)]
        BY <1>2, OwnElements
      <4> QED BY <3>1, <4>1 DEF ToSet, Surjection
    <3>5. IsFiniteSet(ToSet(edge))
      BY <3>2, <3>4, FS_Surjection
    <3> QED BY <3>3, <3>5
  <2>2. IsUnion(Ext!UnionAll(node, ToSet(edge)), node, ToSet(edge))
    BY <1>4, <2>1, UnionAllIsUnion
  <2>3. end = Ext!UnionAll(node, ToSet(edge))
    BY <1>3, <2>2, UnionsAgree
  <2> QED BY <1>2, <2>3
<1>15. ASSUME NEW k \in 1 .. n
       PROVE  /\ Includes(led[k].font.subset, led[k - 1].font.subset)
              /\ led[k].font.subset # led[k - 1].font.subset
  <2>1. k \in 0 .. n /\ k - 1 \in 0 .. n
    BY <1>5
  <2>2. Above(at(k), at(k - 1))
    BY <1>8
  <2> HIDE DEF at
  <2> QED BY <1>12, <2>1, <2>2 DEF Above
<1> QED BY <1>6, <1>13, <1>14, <1>15 DEF led, n

LEMMA GlyphPatchFitsFont ==
    ASSUME Good(context, stack), NEW f, NEW node, FontIs(f, node),
           NEW id \in DOMAIN request.glyph_conditions
    PROVE  /\ GlyphPatchFits(f, id)
           /\ context.glyph_patches[GlyphUrl(f, id)].design_space = node.design_space
<1>1. IsMixedMode
  BY DEF IsMixedMode
<1>2. /\ node \in DOMAIN context.built_subsets /\ BuiltOK(context, node)
      /\ f.iftx.patch_set = context.built_subsets[node].patch_set
  BY DEF FontIs, Good
<1> DEFINE set == f.iftx.patch_set
<1>3. /\ node.design_space \in DOMAIN context.patch_sets
      /\ set = context.patch_sets[node.design_space]
  BY <1>1, <1>2 DEF BuiltOK, HasPatchSet
<1>4. SetOK(context, node.design_space, set)
  BY <1>3 DEF Good, SetsOK
<1> HIDE DEF set
<1>5. /\ <<set.url, id>> \in DOMAIN context.glyph_patches
      /\ context.glyph_patches[<<set.url, id>>] = GlyphPatch(set.compat, node.design_space)
  BY <1>4 DEF SetOK
<1>6. GlyphUrl(f, id) = <<set.url, id>>
  BY DEF GlyphUrl, set
<1>7. GlyphPatch(set.compat, node.design_space).compat = set.compat
      /\ GlyphPatch(set.compat, node.design_space).design_space = node.design_space
  BY DEF GlyphPatch
<1> QED BY <1>5, <1>6, <1>7 DEF GlyphPatchFits, set

-----------------------------------------------------------------------------
(***************************************************************************)
(* The client: it starts when the compiler is done.                        *)
(***************************************************************************)
ClientOK ==
    /\ target \in Definition
    /\ client = "waiting" => font = CutSubset(InitSubset)
    /\ client # "waiting" => status = "done" /\ FontIs(font, font.subset)
    /\ client = "extended" => MatchingGlyphs \subseteq font.iftx.applied

LEMMA SameFont ==
    ASSUME request' = request, context' = context
    PROVE  /\ \A f, node : FontIs(f, node)' = FontIs(f, node)
           /\ \A led, id : Load(led, id)' = Load(led, id)
           /\ \A f, ids : Follow(f, ids)' = Follow(f, ids)
<1>1. SameRequest
  BY RequestStays
<1>2. \A f, node : FontIs(f, node)' = FontIs(f, node)
  BY <1>1 DEF FontIs, SameRequest
<1>3. \A led, id : Load(led, id)' = Load(led, id)
  BY DEF Load
<1>4. \A f, ids : Follow(f, ids)' = Follow(f, ids)
  BY <1>3 DEF Follow
<1> QED BY <1>2, <1>3, <1>4

LEMMA OpenStep ==
    ASSUME Works, ClientOK, Open
    PROVE  FontIs(font', InitSubset) /\ font'.subset = InitSubset
<1>1. font' = context.built_subsets[InitSubset].font
  BY DEF Open, InitFont
<1>2. InitSubset \in DOMAIN context.built_subsets /\ BuiltOK(context, InitSubset)
  BY DEF Open, Works, Good
<1>3. FontIs(context.built_subsets[InitSubset].font, InitSubset)
  BY <1>2, BuiltFont
<1> QED BY <1>1, <1>3 DEF FontIs

(***************************************************************************)
(* A step of the client by a table keyed patch: the first patch of an      *)
(* entry is for the first jump of its edge.                                *)
(***************************************************************************)
StepLeads(e, edge, jump) ==
    /\ e \in Matching(font) /\ EntryLeads(e, font.subset, edge)
    /\ jump = Jumps(edge, font.subset)[1]
    /\ FontIs(font', jump[2]) /\ font'.subset = jump[2]

LEMMA TableKeyedStep ==
    ASSUME Works, ClientOK, ApplyTableKeyed
    PROVE  \E e, edge, jump : StepLeads(e, edge, jump)
<1>1. /\ request \in Input /\ Good(context, stack) /\ stack = <<>>
      /\ FontIs(font, font.subset)
  BY DEF ApplyTableKeyed, Works, Shape, ClientOK
<1>2. PICK e \in Candidates(font) :
        LET r == Load([ok |-> TRUE, font |-> font], Head(e.patches))
        IN  r.ok /\ font' = r.font
  BY DEF ApplyTableKeyed
<1>3. e \in Matching(font) /\ e \in Entries(font)
  BY DEF Candidates, Matching
<1>4. PICK edge : EntryLeads(e, font.subset, edge)
  BY <1>1, <1>3, EntryIsEdge
<1> DEFINE jumps == Jumps(edge, font.subset)
           ids == context.table_keyed_patch_id
<1>5. /\ jumps # <<>> /\ GoodJumps(jumps, edge, font.subset)
      /\ \A k \in DOMAIN jumps : HasPatch(context, jumps[k])
      /\ e.patches = [k \in DOMAIN jumps |-> ids[jumps[k]]]
  BY <1>4 DEF EntryLeads
<1> HIDE DEF jumps
<1>6. PICK end \in Definition : IsWay(jumps, font.subset, end)
  BY <1>5 DEF GoodJumps
<1>7. jumps \in Seq(Jump) /\ jumps[1][1] = font.subset
  BY <1>5, <1>6 DEF IsWay
<1>8. 1 \in DOMAIN jumps /\ Len(jumps) \in Nat \ {0}
  BY <1>5, <1>7, HeadAndTail
<1>9. Head(e.patches) = ids[jumps[1]]
  <2>1. e.patches[1] = ids[jumps[1]]
    BY <1>5, <1>8
  <2>2. e.patches \in Seq({ids[jumps[k]] : k \in DOMAIN jumps}) /\ e.patches # <<>>
    <3> DEFINE S == {ids[jumps[k]] : k \in DOMAIN jumps}
               n == Len(jumps)
    <3>1. DOMAIN jumps = 1 .. n
      BY <1>7
    <3>2. \A k \in 1 .. n : ids[jumps[k]] \in S
      BY <3>1
    <3>3. e.patches = [k \in 1 .. n |-> ids[jumps[k]]]
      BY <1>5, <3>1
    <3> HIDE DEF S, n
    <3>4. n \in Nat \ {0}
      BY <1>8 DEF n
    <3>5. e.patches \in Seq(S) /\ Len(e.patches) = n
      BY <3>2, <3>3, <3>4
    <3>6. e.patches # <<>>
      BY <3>4, <3>5
    <3> QED BY <3>5, <3>6 DEF S
  <2>3. Head(e.patches) = e.patches[1]
    BY <2>2, HeadAndTail
  <2> QED BY <2>1, <2>3
<1> DEFINE led == [ok |-> TRUE, font |-> font]
           next == Load(led, ids[jumps[1]])
<1>10. HasPatch(context, jumps[1]) /\ FontIs(font, jumps[1][1])
  BY <1>1, <1>5, <1>7, <1>8
<1>11. next = [ok |-> TRUE, font |-> next.font] /\ FontIs(next.font, jumps[1][2])
  BY <1>1, <1>10, PatchLeads
<1>12. font' = next.font
  BY <1>2, <1>9
<1> HIDE DEF next
<1>13. FontIs(font', jumps[1][2]) /\ font'.subset = jumps[1][2]
  BY <1>11, <1>12 DEF FontIs
<1> QED BY <1>3, <1>4, <1>13 DEF StepLeads, jumps

LEMMA GlyphKeyedStep ==
    ASSUME Works, ClientOK, ApplyGlyphKeyed
    PROVE  FontIs(font', font.subset) /\ font'.subset = font.subset
<1>1. /\ Good(context, stack) /\ FontIs(font, font.subset)
      /\ request \in Input
  BY DEF ApplyGlyphKeyed, Works, ClientOK, Shape
<1>2. PICK id \in MatchingGlyphs \ font.iftx.applied :
        LET space == context.glyph_patches[GlyphUrl(font, id)].design_space
        IN  font' = [font EXCEPT !.glyf = Put(@, id, DefaultPosition(space)),
                                 !.gvar = Put(@, id, space),
                                 !.iftx.applied = @ \cup {id}]
  BY DEF ApplyGlyphKeyed
<1>3. id \in DOMAIN request.glyph_conditions
  BY DEF MatchingGlyphs
<1> DEFINE node == font.subset
           space == node.design_space
           f == font
           g == font'
           glyf == Put(f.glyf, id, DefaultPosition(space))
           gvar == Put(f.gvar, id, space)
           iftx == [patch_set |-> f.iftx.patch_set, applied |-> f.iftx.applied \cup {id}]
<1>4. /\ FontShape(f) /\ f.iftx = [patch_set |-> f.iftx.patch_set, applied |-> f.iftx.applied]
      /\ IsMixedMode /\ node \in DOMAIN context.built_subsets
  BY <1>1, <1>3 DEF FontIs, IsMixedMode
<1>5. context.glyph_patches[GlyphUrl(font, id)].design_space = space
  BY <1>1, <1>3, GlyphPatchFitsFont
<1>6. g = [f EXCEPT !.glyf = glyf, !.gvar = gvar, !.iftx = iftx]
  <2>1. g = [f EXCEPT !.glyf = glyf, !.gvar = gvar, !.iftx.applied = @ \cup {id}]
    BY <1>2, <1>4, <1>5 DEF FontShape
  <2>2. [f.iftx EXCEPT !.applied = @ \cup {id}] = iftx
    BY <1>4
  <2> HIDE DEF glyf, gvar, iftx, g
  <2> QED BY <1>4, <2>1, <2>2 DEF FontShape
<1>7. /\ DOMAIN glyf = DOMAIN f.glyf \cup {id} /\ glyf[id] = DefaultPosition(space)
      /\ \A x \in DOMAIN f.glyf : x # id => glyf[x] = f.glyf[x]
      /\ DOMAIN gvar = DOMAIN f.gvar \cup {id} /\ gvar[id] = space
      /\ \A x \in DOMAIN f.gvar : x # id => gvar[x] = f.gvar[x]
  BY DEF Put
<1>8. iftx.applied = f.iftx.applied \cup {id} /\ iftx.patch_set = f.iftx.patch_set
      /\ iftx = [patch_set |-> iftx.patch_set, applied |-> iftx.applied]
  OBVIOUS
<1> HIDE DEF glyf, gvar, iftx, g, f
<1>9. /\ FontShape(g) /\ g.subset = f.subset /\ g.ift = f.ift
      /\ g.round_trip = f.round_trip /\ g.glyf = glyf /\ g.gvar = gvar /\ g.iftx = iftx
  BY <1>4, <1>6 DEF FontShape
<1>10. FontIs(f, node)
  BY <1>1 DEF f
<1>11. ASSUME NEW x \in {Base} \cup iftx.applied
       PROVE  /\ x \in DOMAIN gvar /\ gvar[x] = space
              /\ x \in DOMAIN glyf
              /\ \E n \in DOMAIN context.built_subsets : glyf[x] = DefaultPosition(n.design_space)
  <2>1. CASE x = id
    BY <1>4, <1>7, <2>1
  <2>2. CASE x # id
    <3>1. x \in {Base} \cup f.iftx.applied
      BY <1>8, <2>2
    <3>2. /\ x \in DOMAIN f.gvar /\ f.gvar[x] = space
          /\ x \in DOMAIN f.glyf
          /\ \E n \in DOMAIN context.built_subsets : f.glyf[x] = DefaultPosition(n.design_space)
      BY <1>10, <3>1 DEF FontIs
    <3> QED BY <1>7, <2>2, <3>2
  <2> QED BY <2>1, <2>2
<1>12. FontIs(g, node)
  <2>1. g.iftx.applied \subseteq DOMAIN request.glyph_conditions
    BY <1>3, <1>8, <1>9, <1>10 DEF FontIs
  <2> QED BY <1>4, <1>8, <1>9, <1>10, <1>11, <2>1 DEF FontIs
<1> QED BY <1>12, <1>9 DEF g, f

LEMMA InitClient ==
    ASSUME InitAll
    PROVE  ClientOK
  BY NothingIsDefinition DEF InitAll, ClientOK

LEMMA ClientStays ==
    ASSUME Works, ClientOK, request' = request, context' = context,
           status' = status, target' = target, font' = font, client' = client
    PROVE  ClientOK'
<1>1. /\ \A f, node : FontIs(f, node)' = FontIs(f, node)
      /\ \A node : CutSubset(node)' = CutSubset(node)
      /\ InitSubset' = InitSubset
  BY SameFont, RequestStays DEF SameRequest
<1>2. MatchingGlyphs' = MatchingGlyphs
  BY DEF MatchingGlyphs
<1>3. FontIs(font, font.subset)' = FontIs(font, font.subset)
  BY <1>1
<1>4. CutSubset(InitSubset)' = CutSubset(InitSubset)
  BY <1>1
<1> QED BY <1>2, <1>3, <1>4 DEF ClientOK

LEMMA ClientNextOK ==
    ASSUME Works, ClientOK, [Next \/ Stopped]_vars
    PROVE  ClientOK'
<1>1. CASE CompilerNext /\ UNCHANGED client_vars
  <2>1. status # "done" /\ request' = request
    <3>1. status \in {"start", "compiling"}
      BY <1>1 DEF CompilerNext, StartCompile, CompileChild, EstimateJump, PopulateMaps,
                  BuildPatch, TakeJump, Return, FinishCompile, Working
    <3>2. request' = request
      BY <1>1 DEF CompilerNext, StartCompile, CompileChild, EstimateJump, PopulateMaps,
                  BuildPatch, TakeJump, Return, FinishCompile, Working
    <3> QED BY <3>1, <3>2
  <2>2. client = "waiting" /\ font = CutSubset(InitSubset)
    BY <2>1 DEF ClientOK
  <2>3. CutSubset(InitSubset)' = CutSubset(InitSubset)
    BY <2>1, RequestStays DEF SameRequest
  <2> QED BY <1>1, <2>2, <2>3 DEF ClientOK, client_vars
<1>2. CASE (ClientNext \/ Ask) /\ UNCHANGED compiler_vars
  <2>0. /\ request' = request /\ context' = context /\ status' = status
        /\ \A f, node : FontIs(f, node)' = FontIs(f, node)
    BY <1>2, SameFont DEF compiler_vars
  <2>1. CASE Open
    <3>1. FontIs(font', InitSubset) /\ font'.subset = InitSubset
      BY <2>1, OpenStep
    <3>2. FontIs(font', font'.subset) = FontIs(font, font.subset)'
      BY <2>0
    <3> QED BY <2>0, <2>1, <3>1, <3>2 DEF Open, ClientOK
  <2>2. CASE ApplyTableKeyed
    <3>1. FontIs(font', font'.subset)
      BY <2>2, TableKeyedStep DEF StepLeads
    <3>2. FontIs(font', font'.subset) = FontIs(font, font.subset)'
      BY <2>0
    <3> QED BY <2>0, <2>2, <3>1, <3>2 DEF ApplyTableKeyed, ClientOK
  <2>3. CASE ApplyGlyphKeyed
    <3>1. FontIs(font', font'.subset)
      BY <2>3, GlyphKeyedStep
    <3>2. FontIs(font', font'.subset) = FontIs(font, font.subset)'
      BY <2>0
    <3> QED BY <2>0, <2>3, <3>1, <3>2 DEF ApplyGlyphKeyed, ClientOK
  <2>4. CASE FinishExtension
    <3>1. FontIs(font, font.subset)' = FontIs(font, font.subset)
      BY <2>0, <2>4 DEF FinishExtension
    <3>2. MatchingGlyphs' = MatchingGlyphs
      BY <2>0, <2>4 DEF FinishExtension, MatchingGlyphs
    <3> QED BY <2>0, <2>4, <3>1, <3>2 DEF FinishExtension, ClientOK
  <2>5. CASE Ask
    <3>1. FontIs(font, font.subset)' = FontIs(font, font.subset)
      BY <2>0, <2>5 DEF Ask
    <3>2. target' \in Definition
      BY <2>5, ClientAssumption DEF Ask
    <3> QED BY <2>0, <2>5, <3>1, <3>2 DEF Ask, ClientOK
  <2> QED BY <1>2, <2>1, <2>2, <2>3, <2>4, <2>5 DEF ClientNext
<1>3. CASE Stopped \/ UNCHANGED vars
  BY <1>3, ClientStays DEF Stopped, vars
<1> QED BY <1>1, <1>2, <1>3 DEF Next

LEMMA ClientInvariant == Spec => [](Works /\ ClientOK)
<1>1. InitAll => ClientOK
  BY InitClient
<1>2. Works /\ ClientOK /\ [Next \/ Stopped]_vars => ClientOK'
  BY ClientNextOK
<1> QED BY <1>1, <1>2, WorksInvariant, PTL DEF Spec

(***************************************************************************)
(* Whatever a client has loaded, the patches of each entry lead on, one    *)
(* after the other, to a font with all segments of the entry.              *)
(***************************************************************************)
THEOREM PatchesApplyInvariant == Spec => []PatchesApply
<1>1. Works /\ ClientOK => PatchesApply
  <2> SUFFICES ASSUME Works, ClientOK, client # "waiting", NEW e \in Entries(font)
               PROVE  LET led == Follow(font, e.patches)
                          end == led[Len(e.patches)]
                      IN  /\ end.ok
                          /\ end.font.subset = Ext!UnionAll(font.subset, e.segments)
                          /\ \A k \in DOMAIN e.patches :
                                /\ Includes(led[k].font.subset, led[k - 1].font.subset)
                                /\ led[k].font.subset # led[k - 1].font.subset
    BY DEF PatchesApply
  <2>1. /\ FontIs(font, font.subset) /\ request \in Input
        /\ Good(context, stack) /\ stack = <<>>
    BY DEF ClientOK, Works, Shape
  <2> QED BY <2>1, PatchesFollow
<1> QED BY <1>1, ClientInvariant, PTL

(***************************************************************************)
(* Each glyph keyed patch in the map of the client's font exists, has the  *)
(* compatibility id of the map and was cut for the font's design space.    *)
(***************************************************************************)
THEOREM GlyphPatchesFitInvariant == Spec => []GlyphPatchesFit
<1>1. Works /\ ClientOK => GlyphPatchesFit
  BY GlyphPatchFitsFont DEF GlyphPatchesFit, ClientOK, Works
<1> QED BY <1>1, ClientInvariant, PTL

-----------------------------------------------------------------------------
(***************************************************************************)
(* The client's steps are those of Extension.                              *)
(***************************************************************************)
LEMMA IncludesRemainder ==
    ASSUME NEW v \in Definition, NEW node \in Definition, NEW s \in Definition,
           Includes(v, node)
    PROVE  Includes(v, Subtract(s, node)) <=> Includes(v, s)
<1> DEFINE r == Subtract(s, node)
<1>1. r \in Definition
  BY RemainderIsDefinition
<1>2. UnionOf(node, r) = UnionOf(node, s)
  BY UnionWithRemainder
<1> HIDE DEF r
<1>3. UnionOf(node, s) \in Definition
  BY UnionIsDefinition
<1>4. Includes(v, r) => Includes(v, s)
  <2> SUFFICES ASSUME Includes(v, r) PROVE Includes(v, s)
    OBVIOUS
  <2>1. Includes(v, UnionOf(node, r))
    BY <1>1, UnionIsLeast
  <2>2. Includes(UnionOf(node, s), s)
    BY UnionIncludes
  <2> QED BY <1>2, <1>3, <2>1, <2>2, IncludesTransitive
<1>5. Includes(v, s) => Includes(v, r)
  <2> SUFFICES ASSUME Includes(v, s) PROVE Includes(v, r)
    OBVIOUS
  <2>1. Includes(v, UnionOf(node, s))
    BY UnionIsLeast
  <2>2. Includes(UnionOf(node, r), r)
    BY <1>1, UnionIncludes
  <2> QED BY <1>1, <1>2, <1>3, <2>1, <2>2, IncludesTransitive
<1> QED BY <1>4, <1>5 DEF r

\* a union with what is left of some subsets is the union with these
LEMMA UnionWithSubsets ==
    ASSUME request \in Input, NEW node \in Definition,
           NEW added \in SUBSET ToSet(Remaining(node)), NEW u, IsUnion(u, node, added),
           NEW chosen,
           chosen = {s \in Ext!Extensions(request) : Subtract(s, node) \in added}
    PROVE  u = Ext!UnionAll(node, chosen)
<1>1. /\ chosen \in SUBSET Definition /\ chosen \subseteq Ext!Extensions(request)
      /\ added = {Subtract(s, node) : s \in chosen}
  <2>1. ToSet(Remaining(node)) =
           {Subtract(s, node) : s \in Ext!Extensions(request)} \ {Nothing}
    BY WhatRemains
  <2>2. chosen \in SUBSET Definition
    BY RequestFields
  <2> QED BY <2>1, <2>2
<1>2. u \in Definition /\ Includes(u, node)
  BY DEF IsUnion
<1>3. \A s \in chosen : Includes(u, s)
  <2> SUFFICES ASSUME NEW s \in chosen PROVE Includes(u, s)
    OBVIOUS
  <2>1. Includes(u, Subtract(s, node))
    BY <1>1 DEF IsUnion
  <2> QED BY <1>1, <1>2, <2>1, IncludesRemainder
<1>4. ASSUME NEW v \in Definition, Includes(v, node), \A s \in chosen : Includes(v, s)
      PROVE  Includes(v, u)
  <2>1. \A s \in chosen : Includes(v, Subtract(s, node))
    BY <1>1, <1>4, IncludesRemainder
  <2>2. \A r \in added : Includes(v, r)
    BY <1>1, <2>1
  <2> QED BY <1>4, <2>2 DEF IsUnion
<1>5. IsUnion(u, node, chosen)
  BY <1>2, <1>3, <1>4 DEF IsUnion
<1>6. IsFiniteSet(chosen)
  <2> DEFINE ext == request.extensions
             n == Len(ext)
  <2>1. n \in Nat /\ DOMAIN ext = 1 .. n
    BY RequestFields
  <2>2. IsFiniteSet(1 .. n)
    BY <2>1, FS_Interval
  <2>3. ext \in Surjection(1 .. n, ToSet(ext))
    <3>1. ext \in [1 .. n -> ToSet(ext)]
      BY RequestFields, OwnElements
    <3> QED BY <2>1, <3>1 DEF ToSet, Surjection
  <2>4. IsFiniteSet(ToSet(ext))
    BY <2>2, <2>3, FS_Surjection
  <2>5. Ext!Extensions(request) = ToSet(ext)
    BY DEF Ext!Extensions, ToSet
  <2> QED BY <1>1, <2>4, <2>5, FS_Subset
<1>7. IsUnion(Ext!UnionAll(node, chosen), node, chosen)
  BY <1>1, <1>6, UnionAllIsUnion
<1> QED BY <1>5, <1>7, UnionsAgree

LEMMA FontNode ==
    ASSUME Works, ClientOK, client # "waiting"
    PROVE  /\ font.subset \in Definition /\ font.subset \in DOMAIN context.built_subsets
           /\ BuiltOK(context, font.subset)
           /\ Entries(font) = ToSet(context.built_subsets[font.subset].font.ift.entries)
<1>1. /\ font.subset \in DOMAIN context.built_subsets
      /\ font.ift = context.built_subsets[font.subset].font.ift
  BY DEF ClientOK, FontIs
<1>2. BuiltOK(context, font.subset)
  BY <1>1 DEF Works, Good
<1> QED BY <1>1, <1>2 DEF BuiltOK, Entries

LEMMA ExtendStep ==
    ASSUME Works, ClientOK, ApplyTableKeyed, request' = request
    PROVE  Ext!Extend
<1> DEFINE node == font.subset
<1>1. PICK e, edge, jump : StepLeads(e, edge, jump)
  BY TableKeyedStep
<1>2. /\ e \in Matching(font) /\ EntryLeads(e, node, edge)
      /\ jump = Jumps(edge, node)[1] /\ font'.subset = jump[2]
  BY <1>1 DEF StepLeads
<1>3. /\ client = "extending" /\ client' = client /\ target' = target
      /\ request \in Input /\ node \in Definition /\ target \in Definition
  BY FontNode DEF ApplyTableKeyed, Works, Shape, ClientOK
<1>4. PICK added \in SUBSET ToSet(edge) : added # {} /\ IsUnion(jump[2], node, added)
  BY <1>2 DEF EntryLeads, GoodJumps
<1>5. ToSet(edge) \subseteq ToSet(Remaining(node))
  <2> DEFINE R == ToSet(Remaining(node))
  <2> HIDE DEF R
  <2>1. edge \in Seq(R)
    BY <1>2 DEF EntryLeads, EdgesOf, R
  <2>2. ToSet(edge) \subseteq R
    BY <2>1 DEF ToSet
  <2> QED BY <2>2 DEF R
<1> DEFINE chosen == {s \in Ext!Extensions(request) : Subtract(s, node) \in added}
<1>6. font'.subset = Ext!UnionAll(node, chosen)
  <2>1. added \in SUBSET ToSet(Remaining(node))
    BY <1>4, <1>5
  <2> HIDE DEF node
  <2>2. jump[2] = Ext!UnionAll(node, chosen)
    BY <1>3, <1>4, <2>1, UnionWithSubsets
  <2> QED BY <1>2, <2>2
<1>7. chosen # {}
  <2>1. PICK r \in added : r \in ToSet(Remaining(node))
    BY <1>4, <1>5
  <2>2. PICK s \in Ext!Extensions(request) : r = Subtract(s, node)
    BY <1>3, <2>1, WhatRemains
  <2> QED BY <2>1, <2>2
<1>8. ASSUME NEW s \in chosen
      PROVE  /\ s \in Ext!Extensions(request)
             /\ Ext!Intersects(target, s) /\ ~Ext!Includes(node, s)
  <2>1. s \in Definition /\ s \in Ext!Extensions(request) /\ Subtract(s, node) \in added
    BY <1>3, RequestFields
  <2>2. Intersects(target, Subtract(s, node))
    <3>1. e.segments = ToSet(edge)
      BY <1>2 DEF EntryLeads
    <3> QED BY <1>2, <1>4, <2>1, <3>1 DEF Matching
  <2>3. Intersects(target, s)
    BY <1>3, <2>1, <2>2, AsksForSubset
  <2>4. Subtract(s, node) # Nothing
    BY <1>3, <1>4, <1>5, <2>1, WhatRemains
  <2>5. ~Includes(node, s)
    BY <1>3, <2>1, <2>4, NothingLeft
  <2> QED BY <2>1, <2>3, <2>5, SameOperators
<1> HIDE DEF chosen
<1>9. chosen \in SUBSET {s \in Ext!Extensions(request) :
                            Ext!Intersects(target, s) /\ ~Ext!Includes(node, s)}
  BY <1>8
<1> QED BY <1>3, <1>6, <1>7, <1>9 DEF Ext!Extend

LEMMA FinishStep ==
    ASSUME Works, ClientOK, FinishExtension, request' = request
    PROVE  Ext!Finish
<1> DEFINE node == font.subset
<1>1. /\ client = "extending" /\ client' = "extended"
      /\ target' = target /\ font' = font /\ Matching(font) = {}
      /\ request \in Input /\ node \in Definition /\ target \in Definition
  BY FontNode DEF FinishExtension, Works, Shape, ClientOK
<1>2. ASSUME NEW s \in Ext!Extensions(request)
      PROVE  Ext!Satisfies(node, target, s)
  <2> DEFINE r == Subtract(s, node)
  <2>1. s \in Definition
    BY <1>1, RequestFields
  <2>2. CASE r = Nothing
    <3>1. ~Intersects(target, Nothing)
      BY DEF Intersects, FieldIntersects, Field, Nothing
    <3> QED BY <1>1, <2>1, <2>2, <3>1, NotAskedIsThere
  <2>3. CASE r # Nothing
    <3>1. r \in ToSet(Remaining(node))
      BY <1>1, <2>3, WhatRemains
    <3>2. <<r>> \in ToSet(OutgoingEdges(node))
      BY <1>1, <3>1, EdgesOfNode
    <3>3. PICK e \in Entries(font) : e.segments = ToSet(<<r>>)
      BY <1>1, <3>2, FontNode DEF BuiltOK
    <3>4. ToSet(<<r>>) = {r}
      <4>1. DOMAIN <<r>> = {1} /\ <<r>>[1] = r
        OBVIOUS
      <4> HIDE DEF r
      <4> QED BY <4>1 DEF ToSet
    <3>5. ~Intersects(target, r)
      <4> HIDE DEF r
      <4> QED BY <1>1, <3>3, <3>4 DEF Matching
    <3> QED BY <1>1, <2>1, <3>5, NotAskedIsThere
  <2> QED BY <2>2, <2>3
<1> QED BY <1>1, <1>2 DEF Ext!Finish

LEMMA InitExtension ==
    ASSUME InitAll
    PROVE  Ext!Init
<1>1. /\ request \in Input /\ target = Nothing /\ client # "extended"
      /\ font.subset = InitSubset
  BY CutFont DEF InitAll, Init
<1>2. InitSubset = Ext!UnionOf(request.init, [Ext!Nothing EXCEPT !.features = DefaultFeatures])
  BY SameOperators DEF InitSubset
<1> QED BY <1>1, <1>2, SameOperators DEF Ext!Init

LEMMA ExtensionNext ==
    ASSUME Works, ClientOK, [Next \/ Stopped]_vars
    PROVE  [Ext!Ask \/ Ext!Extend \/ Ext!Finish]_Ext!vars
<1>1. CASE CompilerNext /\ UNCHANGED client_vars
  BY <1>1, ShapeStep DEF Works, client_vars, Ext!vars
<1>2. CASE (ClientNext \/ Ask) /\ UNCHANGED compiler_vars
  <2>0. request' = request
    BY <1>2 DEF compiler_vars
  <2>1. CASE Open
    <3>1. font.subset = InitSubset
      BY <2>1, CutFont DEF Open, ClientOK
    <3>2. font'.subset = InitSubset
      BY <2>1, OpenStep
    <3> QED BY <2>0, <2>1, <3>1, <3>2 DEF Open, Ext!vars
  <2>2. CASE ApplyTableKeyed
    BY <2>0, <2>2, ExtendStep
  <2>3. CASE ApplyGlyphKeyed
    BY <2>0, <2>3, GlyphKeyedStep DEF ApplyGlyphKeyed, Ext!vars
  <2>4. CASE FinishExtension
    BY <2>0, <2>4, FinishStep
  <2>5. CASE Ask
    <3>1. Ext!Ask
      BY <2>0, <2>5, SameOperators DEF Ask, Ext!Ask
    <3> QED BY <3>1
  <2> QED BY <1>2, <2>1, <2>2, <2>3, <2>4, <2>5 DEF ClientNext
<1>3. CASE Stopped \/ UNCHANGED vars
  BY <1>3 DEF Stopped, vars, Ext!vars
<1> QED BY <1>1, <1>2, <1>3 DEF Next

(***************************************************************************)
(* The compiled font can be extended by any combination of the extension   *)
(* subsets, and loads nothing else: each step of the compiler and of a     *)
(* client is a step of Extension, or changes nothing that it tells of.     *)
(***************************************************************************)
THEOREM FontImplementsExtension == Spec => ImplementsExtension
<1>1. InitAll => Ext!Init
  BY InitExtension
<1>2. Works /\ ClientOK /\ [Next \/ Stopped]_vars
      => [Ext!Ask \/ Ext!Extend \/ Ext!Finish]_Ext!vars
  BY ExtensionNext
<1> QED BY <1>1, <1>2, ClientInvariant, PTL DEF Spec, ImplementsExtension, Ext!Spec

-----------------------------------------------------------------------------
(***************************************************************************)
(* The default position stays in the design space of each node.            *)
(***************************************************************************)
HoldsDefaults(node) == \A x \in DOMAIN node.design_space : HoldsDefault(node.design_space, x)

\* what d adds to a node, on the axes that the node does not have
AddsDefaults(d, node) ==
    \A x \in DOMAIN d.design_space \ DOMAIN node.design_space : HoldsDefault(d.design_space, x)

LEMMA UnionHolds ==
    ASSUME NEW d \in Definition, NEW e \in Definition, HoldsDefaults(d), AddsDefaults(e, d)
    PROVE  HoldsDefaults(UnionOf(d, e))
<1> SUFFICES ASSUME NEW x \in DOMAIN UnionOf(d, e).design_space
             PROVE  HoldsDefault(UnionOf(d, e).design_space, x)
  BY DEF HoldsDefaults
<1> DEFINE a == d.design_space
           b == e.design_space
           u == UnionOf(d, e).design_space
<1>1. /\ x \in DOMAIN a \cup DOMAIN b
      /\ u[x] = IF x \notin DOMAIN b THEN a[x] ELSE IF x \notin DOMAIN a THEN b[x]
                ELSE Hull(a[x], b[x])
  BY UnionDesignSpace
<1>2. CASE x \notin DOMAIN b
  BY <1>1, <1>2 DEF HoldsDefaults, HoldsDefault
<1>3. CASE x \notin DOMAIN a
  BY <1>1, <1>3 DEF AddsDefaults, HoldsDefault
<1>4. CASE x \in DOMAIN a /\ x \in DOMAIN b
  <2>1. a[x] \in AxisRange /\ b[x] \in AxisRange /\ AxisDefault[x] \in Nat
    <3>1. x \in Axis
      BY <1>4, DefinitionFields
    <3> QED BY <1>4, <3>1, DefinitionFields, CompilerAssumption, PositionAssumption
  <2>2. Covers(a[x], <<AxisDefault[x], AxisDefault[x]>>)
    BY <1>4 DEF HoldsDefaults, HoldsDefault
  <2>3. Covers(Hull(a[x], b[x]), <<AxisDefault[x], AxisDefault[x]>>)
    BY <2>1, <2>2, Ranges DEF Hull, Covers
  <2> QED BY <1>1, <1>4, <2>3 DEF HoldsDefault
<1> QED BY <1>2, <1>3, <1>4

LEMMA ReachedHolds ==
    ASSUME NEW node \in Definition, NEW subsets \in Seq(Definition), HoldsDefaults(node),
           \A k \in DOMAIN subsets : AddsDefaults(subsets[k], node)
    PROVE  \A k \in 0 .. Len(subsets) : HoldsDefaults(Reached(node, subsets)[k])
<1> DEFINE n == Len(subsets)
           r == Reached(node, subsets)
           T == {k \in 0 .. n : Includes(r[k], node) /\ HoldsDefaults(r[k])}
<1>1. /\ r \in [0 .. n -> Definition] /\ r[0] = node
      /\ \A k \in 1 .. n : r[k] = UnionOf(r[k - 1], subsets[k])
  BY ReachedIsLoop
<1>2. n \in Nat /\ DOMAIN subsets = 1 .. n /\ \A k \in 1 .. n : subsets[k] \in Definition
  OBVIOUS
<1> HIDE DEF n, r
<1>3. 0 \in T
  BY <1>1, <1>2, IncludesItself
<1>4. ASSUME NEW k \in 1 .. n, k - 1 \in T PROVE k \in T
  <2>1. /\ k \in 0 .. n /\ k - 1 \in 0 .. n
        /\ Includes(r[k - 1], node) /\ HoldsDefaults(r[k - 1])
    BY <1>2, <1>4
  <2>2. r[k - 1] \in Definition /\ r[k] \in Definition /\ subsets[k] \in Definition
    BY <1>1, <1>2, <2>1
  <2>3. AddsDefaults(subsets[k], r[k - 1])
    <3>1. DOMAIN node.design_space \subseteq DOMAIN r[k - 1].design_space
      BY <2>1 DEF Includes
    <3>2. AddsDefaults(subsets[k], node)
      BY <1>2
    <3> QED BY <3>1, <3>2 DEF AddsDefaults
  <2>4. HoldsDefaults(UnionOf(r[k - 1], subsets[k]))
    BY <2>1, <2>2, <2>3, UnionHolds
  <2>5. Includes(UnionOf(r[k - 1], subsets[k]), r[k - 1])
    BY <2>2, UnionIncludes
  <2>6. Includes(r[k], node)
    BY <1>1, <2>1, <2>2, <2>5, IncludesTransitive
  <2> QED BY <1>1, <2>1, <2>4, <2>6
<1>5. \A k \in 0 .. n : k \in T
  <2> HIDE DEF T
  <2> QED BY <1>2, <1>3, <1>4, CountingUp
<1> QED BY <1>5 DEF n, r

LEMMA UpwardElements ==
    ASSUME NEW n \in Nat, NEW r \in [0 .. n -> Definition],
           NEW j \in ToSet(Upward(r, n))
    PROVE  \E k \in 1 .. n : j = <<r[k - 1], r[k]>>
<1> DEFINE ss == [k \in 1 .. n |-> IF r[k] = r[k - 1] THEN <<>> ELSE <<<<r[k - 1], r[k]>>>>]
<1>1. \A k \in 1 .. n : k \in 0 .. n /\ k - 1 \in 0 .. n
  OBVIOUS
<1>2. ss \in Seq(Seq(Jump)) /\ DOMAIN ss = 1 .. n
  <2>1. ASSUME NEW k \in 1 .. n PROVE ss[k] \in Seq(Jump)
    <3>1. r[k] \in Definition /\ r[k - 1] \in Definition
      BY <1>1
    <3>2. <<r[k - 1], r[k]>> \in Jump
      BY <3>1 DEF Jump
    <3> QED BY <3>2
  <2>2. ss \in [1 .. n -> Seq(Jump)]
    BY <2>1
  <2> HIDE DEF ss
  <2> QED BY <2>2
<1>3. Upward(r, n) = FlattenSeq(ss)
  BY DEF Upward
<1>4. \A k \in 1 .. n : ss[k] = IF r[k] = r[k - 1] THEN <<>> ELSE <<<<r[k - 1], r[k]>>>>
  OBVIOUS
<1> HIDE DEF ss
<1>5. PICK k \in 1 .. n : j \in ToSet(ss[k])
  BY <1>2, <1>3, FlattenElements
<1> DEFINE pair == <<r[k - 1], r[k]>>
<1>6. ss[k] = <<>> \/ ss[k] = <<pair>>
  BY <1>4
<1> HIDE DEF pair
<1>7. j = pair
  <2>1. DOMAIN <<>> = {} /\ DOMAIN <<pair>> = {1} /\ <<pair>>[1] = pair
    OBVIOUS
  <2> QED BY <1>5, <1>6, <2>1 DEF ToSet
<1> QED BY <1>7 DEF pair

LEMMA JumpsHold ==
    ASSUME NEW node \in Definition, NEW edge \in Seq(Definition), HoldsDefaults(node),
           \A k \in DOMAIN edge : AddsDefaults(edge[k], node),
           NEW j \in ToSet(Jumps(edge, node))
    PROVE  HoldsDefaults(j[2])
<1> DEFINE n == Len(edge)
           reached == Reached(node, edge)
           u == UnionOf(node, Combined(edge))
<1>1. n \in Nat /\ \A k \in 0 .. n : HoldsDefaults(reached[k])
  BY ReachedHolds
<1>2. CASE request.use_prefetch_lists
  <2>1. Jumps(edge, node) = Upward(reached, n)
    BY <1>2 DEF Jumps, Upward
  <2>2. reached \in [0 .. n -> Definition]
    BY ReachedIsLoop
  <2> HIDE DEF reached, n
  <2>3. PICK k \in 1 .. n : j = <<reached[k - 1], reached[k]>>
    BY <1>1, <2>1, <2>2, UpwardElements
  <2>4. k \in 0 .. n /\ j[2] = reached[k]
    BY <1>1, <2>3
  <2> QED BY <1>1, <2>4
<1>3. CASE ~request.use_prefetch_lists
  <2> DEFINE r == [k \in 0 .. 1 |-> IF k = 0 THEN node ELSE u]
  <2>1. u \in Definition /\ u = reached[n]
    BY UnionWithCombined, UnionIsDefinition, ReachedIsUnion, UnionsAgree
  <2>2. Jumps(edge, node) = Upward(r, 1)
    BY <1>3 DEF Jumps, Upward
  <2> HIDE DEF u, reached, n
  <2>3. r \in [0 .. 1 -> Definition] /\ r[1] = u
    BY <2>1
  <2> HIDE DEF r
  <2> DEFINE one == 1
  <2>0. one \in Nat /\ j \in ToSet(Upward(r, one)) /\ r \in [0 .. one -> Definition]
    BY <2>2, <2>3
  <2> HIDE DEF one
  <2>4. PICK k \in 1 .. one : j = <<r[k - 1], r[k]>>
    BY <2>0, UpwardElements
  <2>5. j[2] = u /\ n \in 0 .. n
    BY <1>1, <2>3, <2>4 DEF one
  <2> QED BY <1>1, <2>1, <2>5
<1> QED BY <1>2, <1>3

LEMMA InitDesignSpace ==
    ASSUME request \in Input
    PROVE  InitSubset.design_space = request.init.design_space
<1> DEFINE a == request.init.design_space
           b == [Nothing EXCEPT !.features = DefaultFeatures]
<1>1. b.design_space = [x \in {} |-> x]
  BY DEF Nothing
<1>2. DOMAIN b.design_space = {}
  BY <1>1
<1>3. a = [x \in DOMAIN a |-> a[x]]
  BY RequestFields, DefinitionFields
<1> HIDE DEF b
<1>4. InitSubset.design_space = [x \in DOMAIN a |-> a[x]]
  BY <1>2 DEF InitSubset, UnionOf, b
<1> QED BY <1>3, <1>4

LEMMA RemainingHolds ==
    ASSUME request \in Input, DefaultsStay(request), NEW node \in Definition,
           Includes(node, InitSubset), NEW r \in ToSet(Remaining(node))
    PROVE  AddsDefaults(r, node)
<1>1. PICK s \in Ext!Extensions(request) : r = Subtract(s, node)
  BY WhatRemains
<1>2. s \in Definition
  BY RequestFields
<1> SUFFICES ASSUME NEW x \in DOMAIN r.design_space \ DOMAIN node.design_space
             PROVE  HoldsDefault(r.design_space, x)
  BY DEF AddsDefaults
<1>3. x \in DOMAIN s.design_space /\ r.design_space[x] = s.design_space[x]
  BY <1>1, <1>2, SubtractDesignSpace
<1>4. x \notin DOMAIN request.init.design_space
  BY InitDesignSpace DEF Includes
<1>5. HoldsDefault(s.design_space, x)
  BY <1>3, <1>4 DEF DefaultsStay
<1> QED BY <1>3, <1>5 DEF HoldsDefault

LEMMA CallsHold ==
    ASSUME request \in Input, DefaultsStay(request), NEW node \in Definition,
           Includes(node, InitSubset), HoldsDefaults(node),
           NEW c \in ToSet(Calls(OutgoingEdges(node), node))
    PROVE  HoldsDefaults(c.jump[2])
<1> DEFINE edges == OutgoingEdges(node)
<1>1. edges \in Seq(Seq(Definition))
  BY EdgesOfNode
<1>2. IsCall(c, edges, node)
  BY <1>1, CallsOfEdges
<1>3. PICK e \in DOMAIN edges : \E k \in DOMAIN Jumps(edges[e], node) :
             c = [edge |-> e, first |-> k = 1, jump |-> Jumps(edges[e], node)[k]]
  BY <1>2 DEF IsCall
<1> DEFINE edge == edges[e]
           jumps == Jumps(edge, node)
           R == ToSet(Remaining(node))
<1>4. PICK k \in DOMAIN jumps : c = [edge |-> e, first |-> k = 1, jump |-> jumps[k]]
  BY <1>3
<1>5. edge \in ToSet(edges)
  BY DEF ToSet
<1>6. edge \in EdgesOf(R) /\ edge \in Seq(Definition)
  BY <1>5, EdgeOfNode
<1>7. \A i \in DOMAIN edge : AddsDefaults(edge[i], node)
  <2> HIDE DEF edge
  <2>1. \A i \in DOMAIN edge : edge[i] \in R
    <3> HIDE DEF R
    <3>1. edge \in Seq(R)
      BY <1>6 DEF EdgesOf
    <3> QED BY <3>1
  <2> QED BY <2>1, RemainingHolds
<1>8. jumps[k] \in ToSet(jumps) /\ c.jump = jumps[k]
  BY <1>4 DEF ToSet
<1> HIDE DEF edge
<1> QED BY <1>6, <1>7, <1>8, JumpsHold

(***************************************************************************)
(* A step takes up no nodes but the initial subset and the target of the   *)
(* call.                                                                   *)
(***************************************************************************)
IsNode(n, c, s) == IsOn(s, n) \/ n \in DOMAIN c.built_subsets

LEMMA PushedNodes ==
    ASSUME NEW s, IsStack(s), NEW f, NEW n, IsOn(<<f>> \o s, n)
    PROVE  n = f.own.node \/ IsOn(s, n)
<1> DEFINE t == <<f>> \o s
<1>1. /\ Len(s) \in Nat /\ DOMAIN s = 1 .. Len(s) /\ DOMAIN t = 1 .. Len(s) + 1
      /\ t[1] = f /\ \A k \in 2 .. Len(s) + 1 : t[k] = s[k - 1]
  BY Pushing
<1>2. PICK k \in DOMAIN t : t[k].own.node = n
  BY DEF IsOn
<1> HIDE DEF t
<1>3. CASE k = 1
  BY <1>1, <1>2, <1>3
<1>4. CASE k # 1
  <2>1. k \in 2 .. Len(s) + 1 /\ k - 1 \in DOMAIN s
    BY <1>1, <1>4
  <2> QED BY <1>1, <1>2, <2>1 DEF IsOn
<1> QED BY <1>3, <1>4

LEMMA TailNodes ==
    ASSUME NEW s, IsStack(s), s # <<>>
    PROVE  /\ \A n : IsOn(Tail(s), n) => IsOn(s, n)
           /\ IsOn(s, Head(s).own.node)
<1>1. /\ Head(s) = s[1] /\ 1 \in DOMAIN s /\ Len(s) \in Nat \ {0}
      /\ DOMAIN s = 1 .. Len(s) /\ DOMAIN Tail(s) = 1 .. Len(s) - 1
      /\ \A k \in DOMAIN Tail(s) : Tail(s)[k] = s[k + 1]
  BY Popping
<1>2. \A k \in DOMAIN Tail(s) : k + 1 \in DOMAIN s
  BY <1>1
<1> QED BY <1>1, <1>2 DEF IsOn

LEMMA ReplacedNodes ==
    ASSUME NEW s, IsStack(s), s # <<>>, NEW f, f.own.node = Head(s).own.node,
           NEW n, IsOn(<<f>> \o Tail(s), n)
    PROVE  IsOn(s, n)
<1>1. IsStack(Tail(s))
  BY Popping
<1> QED BY <1>1, PushedNodes, TailNodes

LEMMA NewNode ==
    ASSUME Shape, NEW node, CompileNode(node), NEW n, IsNode(n, context', stack')
    PROVE  n = node \/ IsNode(n, context, stack)
<1>1. /\ ContextShape(Populated(node)) /\ IsStack(stack)
      /\ Populated(node).built_subsets = context.built_subsets
  BY PopulatedShape DEF Shape, StackShape
<1>2. CASE /\ context' = [Populated(node) EXCEPT
                             !.built_subsets = Put(@, node, Leaf(node))]
           /\ stack' = stack
  <2>1. context'.built_subsets = Put(context.built_subsets, node, Leaf(node))
    BY <1>1, <1>2 DEF ContextShape
  <2>2. DOMAIN context'.built_subsets = DOMAIN context.built_subsets \cup {node}
    BY <2>1 DEF Put
  <2> QED BY <1>2, <2>2 DEF IsNode
<1>3. CASE /\ context' = Populated(node)
           /\ stack' = <<Frame(Started(node), OutgoingEdges(node), "estimate")>> \o stack
  <2> DEFINE f == Frame(Started(node), OutgoingEdges(node), "estimate")
  <2>1. f.own.node = node
    BY DEF Frame, Started, Result
  <2> HIDE DEF f
  <2>2. IsOn(stack', n) => n = node \/ IsOn(stack, n)
    BY <1>1, <1>3, <2>1, PushedNodes DEF f
  <2> QED BY <1>1, <1>3, <2>2 DEF IsNode
<1> QED BY <1>2, <1>3, NodeCases

LEMMA StepNodes ==
    ASSUME Shape, CompilerNext, NEW n, IsNode(n, context', stack')
    PROVE  \/ IsNode(n, context, stack) \/ n = InitSubset
           \/ stack # <<>> /\ Top.left # <<>> /\ n = Target
<1>0. StackShape(stack) /\ IsStack(stack) /\ ContextShape(context)
  BY DEF Shape, StackShape
<1>1. CASE StartCompile
  BY <1>1, NewNode DEF StartCompile
<1>2. CASE CompileChild
  BY <1>2, NewNode DEF CompileChild, TakeJump
<1>3. CASE EstimateJump
  <2>1. CASE UNCHANGED <<context, stack>>
    BY <2>1
  <2>2. CASE ~UNCHANGED <<context, stack>>
    <3>1. PICK size : /\ context' = [context EXCEPT
                             !.estimated_patch_sizes = Put(@, Call.jump, size)]
                      /\ stack' = <<[Advanced(Top, context.built_subsets[Target]) EXCEPT
                               !.sizes[Call.edge] = @ + size]>> \o Tail(stack)
                      /\ stack # <<>> /\ Top.left # <<>>
      BY <1>3, <2>2 DEF EstimateJump, TakeJump
    <3> DEFINE f == Advanced(Top, context.built_subsets[Target])
               e == Call.edge
               g == [f EXCEPT !.sizes[e] = @ + size]
    <3>2. FrameShape(f) /\ f.own = Top.own
      BY <3>1, AdvancedFrame
    <3>3. stack' = <<g>> \o Tail(stack)
      BY <3>1
    <3> HIDE DEF f, e
    <3>4. g.own = Top.own
      BY <3>2 DEF FrameShape
    <3> HIDE DEF g
    <3>5. IsOn(stack', n) => IsOn(stack, n)
      BY <1>0, <3>1, <3>3, <3>4, ReplacedNodes DEF Top
    <3>6. context'.built_subsets = context.built_subsets
      BY <1>0, <3>1 DEF ContextShape
    <3> QED BY <3>5, <3>6 DEF IsNode
  <2> QED BY <2>1, <2>2
<1>4. CASE PopulateMaps
  <2>1. CASE UNCHANGED <<context, stack>>
    BY <2>1
  <2>2. CASE ~UNCHANGED <<context, stack>>
    <3>0. stack # <<>>
      BY <1>4 DEF PopulateMaps, Working
    <3>1. FrameShape(Top)
      BY <1>0, <3>0, PopShape DEF Top
    <3>2. /\ context' = [context EXCEPT
                            !.table_keyed_patch_id = PatchIds(SortedEdges, Top.own.node),
                            !.built_subsets = Put(@, Top.own.node, Filled)]
          /\ stack' = <<Frame(Filled, Top.edges, "patches")>> \o Tail(stack)
          /\ Filled.node = Top.own.node
      BY <1>4, <2>2, <3>1, PopulateCases
    <3> DEFINE f == Frame(Filled, Top.edges, "patches")
    <3>3. f.own.node = Top.own.node
      BY <3>2 DEF Frame
    <3> HIDE DEF f
    <3>4. IsOn(stack', n) => IsOn(stack, n)
      BY <1>0, <3>0, <3>2, <3>3, ReplacedNodes DEF Top, f
    <3>5. DOMAIN context'.built_subsets = DOMAIN context.built_subsets \cup {Top.own.node}
      <4>1. context'.built_subsets = Put(context.built_subsets, Top.own.node, Filled)
        BY <1>0, <3>2 DEF ContextShape
      <4> QED BY <4>1 DEF Put
    <3>6. IsOn(stack, Top.own.node)
      BY <1>0, <3>0, TailNodes DEF Top
    <3> QED BY <3>4, <3>5, <3>6 DEF IsNode
  <2> QED BY <2>1, <2>2
<1>5. CASE BuildPatch
  <2>1. CASE UNCHANGED <<context, stack>>
    BY <2>1
  <2>2. CASE ~UNCHANGED <<context, stack>>
    <3>1. /\ stack' = <<Advanced(Top, context.built_subsets[Target])>> \o Tail(stack)
          /\ stack # <<>> /\ Top.left # <<>>
          /\ context' = context \/ \E new : context' = [context EXCEPT !.patches = new]
      BY <1>5, <2>2 DEF BuildPatch, TakeJump
    <3> DEFINE f == Advanced(Top, context.built_subsets[Target])
    <3>2. f.own = Top.own
      BY <3>1, AdvancedFrame
    <3> HIDE DEF f
    <3>3. IsOn(stack', n) => IsOn(stack, n)
      BY <1>0, <3>1, <3>2, ReplacedNodes DEF Top, f
    <3>4. context'.built_subsets = context.built_subsets
      BY <1>0, <3>1 DEF ContextShape
    <3> QED BY <3>3, <3>4 DEF IsNode
  <2> QED BY <2>1, <2>2
<1>6. CASE Return
  <2>1. /\ stack # <<>> /\ stack' = Tail(stack) /\ context' = context
    BY <1>6 DEF Return, Working
  <2> QED BY <1>0, <2>1, TailNodes DEF IsNode
<1>7. CASE FinishCompile
  BY <1>7 DEF FinishCompile
<1> QED BY <1>1, <1>2, <1>3, <1>4, <1>5, <1>6, <1>7 DEF CompilerNext

-----------------------------------------------------------------------------
(***************************************************************************)
(* The outlines.  When the default position stays, it is where each        *)
(* outline is cut for, whatever the design space.                          *)
(***************************************************************************)
Defaults == \A n : IsNode(n, context, stack) => HoldsDefaults(n)

LEMMA InitHolds ==
    ASSUME request \in Input, DefaultsStay(request)
    PROVE  HoldsDefaults(InitSubset)
  BY InitDesignSpace DEF HoldsDefaults, HoldsDefault, DefaultsStay

LEMMA NodeAboveInit ==
    ASSUME Shape, stack # <<>>
    PROVE  Top.own.node \in Definition /\ Includes(Top.own.node, InitSubset)
<1>1. /\ StackShape(stack) /\ IsStack(stack) /\ request \in Input
      /\ InitSubset \in Definition
  BY RequestFields DEF Shape, StackShape
<1>2. /\ Top = stack[1] /\ 1 \in DOMAIN stack /\ Len(stack) \in Nat \ {0}
      /\ DOMAIN stack = 1 .. Len(stack)
  BY <1>1, Popping DEF Top
<1>3. stack[Len(stack)].own.node = InitSubset
  BY <1>1 DEF StackShape
<1>4. Top.own.node \in Definition
  BY <1>1, <1>2 DEF StackShape, FrameShape
<1>5. Len(stack) # 1 => Above(Top.own.node, InitSubset)
  <2>1. Len(stack) # 1 => 1 < Len(stack) /\ Len(stack) \in DOMAIN stack
    BY <1>2
  <2> QED BY <1>1, <1>2, <1>3, <2>1 DEF StackShape
<1>6. Len(stack) = 1 => Top.own.node = InitSubset
  BY <1>2, <1>3
<1> QED BY <1>1, <1>4, <1>5, <1>6, IncludesItself DEF Above

LEMMA DefaultsNext ==
    ASSUME \A r \in Input : DefaultsStay(r), Works, Defaults, [Next \/ Stopped]_vars
    PROVE  Defaults'
<1>0. /\ Shape /\ request \in Input /\ DefaultsStay(request)
  BY DEF Works, Shape
<1>1. CASE CompilerNext
  <2>1. ASSUME NEW n, IsNode(n, context', stack') PROVE HoldsDefaults(n)
    <3>1. CASE IsNode(n, context, stack)
      BY <3>1 DEF Defaults
    <3>2. CASE n = InitSubset
      BY <1>0, <3>2, InitHolds
    <3>3. CASE stack # <<>> /\ Top.left # <<>> /\ n = Target
      <4>1. /\ Call \in ToSet(Calls(Top.edges, Top.own.node))
            /\ Top.edges = OutgoingEdges(Top.own.node)
        BY <1>0, <3>3, CallOfTop DEF FrameShape
      <4>2. Top.own.node \in Definition /\ Includes(Top.own.node, InitSubset)
        BY <1>0, <3>3, NodeAboveInit
      <4>3. IsOn(stack, Top.own.node)
        BY <1>0, <3>3, TailNodes DEF Shape, StackShape, Top
      <4>4. HoldsDefaults(Top.own.node)
        BY <4>3 DEF Defaults, IsNode
      <4>5. HoldsDefaults(Call.jump[2])
        BY <1>0, <4>1, <4>2, <4>4, CallsHold
      <4> QED BY <3>3, <4>5 DEF Target
    <3> QED BY <1>0, <1>1, <2>1, <3>1, <3>2, <3>3, StepNodes
  <2>2. (\A n : IsNode(n, context, stack) => HoldsDefaults(n))'
        <=> \A n : IsNode(n, context', stack') => HoldsDefaults(n)
    BY DEF IsNode, IsOn, HoldsDefaults, HoldsDefault
  <2> QED BY <2>1, <2>2 DEF Defaults
<1>2. CASE UNCHANGED compiler_vars
  <2>1. context' = context /\ stack' = stack
    BY <1>2 DEF compiler_vars
  <2> QED BY <2>1 DEF Defaults, IsNode, IsOn, HoldsDefaults, HoldsDefault
<1> QED BY <1>1, <1>2 DEF Next, Stopped, vars, compiler_vars

LEMMA DefaultPositions ==
    ASSUME request \in Input, DefaultsStay(request), NEW node \in Definition,
           HoldsDefaults(node)
    PROVE  DefaultPosition(node.design_space) = AxisDefault
<1> DEFINE space == node.design_space
           full == FullDesignSpace
<1>1. \A x \in DOMAIN full : HoldsDefault(full, x) /\ full[x] \in AxisRange
  <2> DEFINE ext == request.extensions
             n == Len(ext)
  <2>1. /\ ext \in Seq(Definition) /\ InitSubset \in Definition
        /\ HoldsDefaults(InitSubset) /\ n \in Nat
    BY RequestFields, InitHolds
  <2>2. ASSUME NEW k \in DOMAIN ext PROVE AddsDefaults(ext[k], InitSubset)
    <3>1. ext[k] \in Ext!Extensions(request)
      BY DEF Ext!Extensions
    <3> QED BY <3>1, InitDesignSpace DEF DefaultsStay, AddsDefaults
  <2> HIDE DEF ext
  <2>3. HoldsDefaults(Reached(InitSubset, ext)[n])
    BY <2>1, <2>2, ReachedHolds
  <2>4. Reached(InitSubset, ext)[n] \in Definition
    BY <2>1, ReachedIsLoop
  <2> QED BY <2>3, <2>4, DefinitionFields DEF HoldsDefaults, FullDesignSpace, ext
<1>2. \A x \in DOMAIN space : HoldsDefault(space, x) /\ space[x] \in AxisRange
  BY DefinitionFields DEF HoldsDefaults
<1> HIDE DEF full, space
<1>3. AxisDefault \in [Axis -> Nat]
  BY CompilerAssumption, PositionAssumption
<1>4. ASSUME NEW x \in Axis
      PROVE  LET range == IF x \in DOMAIN space THEN space[x]
                          ELSE IF x \in DOMAIN full THEN full[x]
                          ELSE <<AxisDefault[x], AxisDefault[x]>>
             IN  /\ ~(AxisDefault[x] < range[1])
                 /\ ~(AxisDefault[x] > range[2])
  <2> DEFINE d == AxisDefault[x]
  <2>1. d \in Nat
    BY <1>3
  <2>2. ASSUME NEW r \in AxisRange, Covers(r, <<d, d>>) PROVE ~(d < r[1]) /\ ~(d > r[2])
    BY <2>1, <2>2, Ranges DEF Covers
  <2>3. CASE x \in DOMAIN space
    BY <1>2, <2>2, <2>3 DEF HoldsDefault
  <2>4. CASE x \notin DOMAIN space /\ x \in DOMAIN full
    BY <1>1, <2>2, <2>4 DEF HoldsDefault
  <2>5. CASE x \notin DOMAIN space /\ x \notin DOMAIN full
    BY <2>1, <2>5
  <2> QED BY <2>3, <2>4, <2>5
<1>5. DefaultPosition(space) = [x \in Axis |-> AxisDefault[x]]
  BY <1>4 DEF DefaultPosition, full
<1>6. AxisDefault = [x \in Axis |-> AxisDefault[x]]
  BY <1>3
<1> QED BY <1>5, <1>6 DEF space

LEMMA DefaultsInvariant ==
    ASSUME \A r \in Input : DefaultsStay(r)
    PROVE  Spec => [](Works /\ ClientOK /\ Defaults)
<1>1. InitAll => Defaults
  <2> SUFFICES ASSUME InitAll, NEW n PROVE ~IsNode(n, context, stack)
    BY DEF Defaults
  <2>1. context.built_subsets = EmptyMap /\ stack = <<>>
    BY DEF InitAll, Init
  <2>2. DOMAIN EmptyMap = {} /\ DOMAIN <<>> = {}
    BY DEF EmptyMap
  <2> QED BY <2>1, <2>2 DEF IsNode, IsOn
<1>2. Works /\ ClientOK /\ Defaults /\ [Next \/ Stopped]_vars => Defaults'
  BY DefaultsNext
<1> QED BY <1>1, <1>2, ClientInvariant, PTL DEF Spec

(***************************************************************************)
(* When the extension is over, the outlines of all that was asked for are  *)
(* those of the font's design space, provided that no design space leaves  *)
(* the default position out.  That premise is what the patches rest on:    *)
(* none of them replaces glyf.                                             *)
(***************************************************************************)
THEOREM OutlinesMatchInvariant ==
    ASSUME \A r \in Input : DefaultsStay(r)
    PROVE  Spec => []OutlinesMatch
<1>1. Works /\ ClientOK /\ Defaults => OutlinesMatch
  <2> SUFFICES ASSUME Works, ClientOK, Defaults, client = "extended",
                      NEW id \in {Base} \cup MatchingGlyphs
               PROVE  /\ font.glyf[id] = DefaultPosition(font.subset.design_space)
                      /\ font.gvar[id] = font.subset.design_space
    BY DEF OutlinesMatch
  <2>1. /\ FontIs(font, font.subset) /\ MatchingGlyphs \subseteq font.iftx.applied
        /\ Good(context, stack) /\ request \in Input
    BY DEF ClientOK, Works, Shape
  <2>2. font.gvar[id] = font.subset.design_space
    BY <2>1 DEF FontIs
  <2>3. PICK n \in DOMAIN context.built_subsets : font.glyf[id] = DefaultPosition(n.design_space)
    BY <2>1 DEF FontIs
  <2>4. /\ font.subset \in DOMAIN context.built_subsets /\ font.subset \in Definition
        /\ n \in Definition
    BY <2>1, <2>3, FontNode DEF Good, BuiltOK
  <2>5. HoldsDefaults(n) /\ HoldsDefaults(font.subset)
    BY <2>3, <2>4 DEF Defaults, IsNode
  <2> QED BY <2>1, <2>2, <2>3, <2>4, <2>5, DefaultPositions
<1> QED BY <1>1, DefaultsInvariant, PTL
-----------------------------------------------------------------------------
(***************************************************************************)
(* Why the compiler fails.  Each jump of an edge starts where the one      *)
(* before it ended, and each edge has a jump, as it adds to the node.      *)
(***************************************************************************)
LEMMA EdgesJump ==
    ASSUME request \in Input, NEW node \in Definition,
           NEW edge \in ToSet(OutgoingEdges(node))
    PROVE  Jumps(edge, node) # <<>>
<1> DEFINE R == ToSet(Remaining(node))
<1>1. edge \in EdgesOf(R) /\ edge \in Seq(Definition)
  BY EdgeOfNode
<1>2. PICK end \in Definition :
         IsUnion(end, node, ToSet(edge)) /\ IsWay(Jumps(edge, node), node, end)
  BY <1>1, JumpsOfEdge DEF GoodJumps
<1>3. PICK r \in R : r \in ToSet(edge)
  <2> HIDE DEF R
  <2>1. edge \in Seq(R) /\ edge # <<>>
    BY <1>1 DEF EdgesOf
  <2>2. Head(edge) \in R /\ Head(edge) = edge[1] /\ 1 \in DOMAIN edge
    BY <2>1, HeadAndTail
  <2> QED BY <2>2 DEF ToSet
<1>4. PICK s \in Ext!Extensions(request) : r = Subtract(s, node)
  BY WhatRemains
<1>5. s \in Definition /\ r # Nothing
  BY <1>4, WhatRemains, RequestFields
<1>6. ~Includes(node, r)
  BY <1>4, <1>5, IncludesItself, IncludesRemainder, NothingLeft
<1>7. Includes(end, r)
  BY <1>2, <1>3 DEF IsUnion
<1> QED BY <1>2, <1>6, <1>7 DEF IsWay

\* from where the calls of a node go on, and now the first of them
Linked(left, node, now) ==
    \A k \in DOMAIN left :
        left[k].jump[1] = IF left[k].first THEN node
                          ELSE IF k = 1 THEN now ELSE left[k - 1].jump[2]

LinkedFrame(f) == Linked(f.left, f.own.node, f.current.node)

LEMMA ConcatLinked ==
    ASSUME NEW C, NEW a \in Seq(C), NEW b \in Seq(C), NEW node,
           \A now : Linked(a, node, now), \A now : Linked(b, node, now)
    PROVE  \A now : Linked(a \o b, node, now)
<1> DEFINE m == Len(a)
           n == Len(b)
           s == a \o b
<1>1. /\ m \in Nat /\ n \in Nat /\ DOMAIN a = 1 .. m /\ DOMAIN b = 1 .. n
      /\ DOMAIN s = 1 .. m + n
      /\ \A k \in 1 .. m : s[k] = a[k]
      /\ \A k \in 1 .. n : s[m + k] = b[k]
  OBVIOUS
<1> HIDE DEF s, m, n
<1> SUFFICES ASSUME NEW now, NEW k \in DOMAIN s
             PROVE  s[k].jump[1] = IF s[k].first THEN node
                                   ELSE IF k = 1 THEN now ELSE s[k - 1].jump[2]
  BY DEF Linked, s
<1>2. CASE k \in 1 .. m
  <2>1. k # 1 => k - 1 \in 1 .. m /\ s[k - 1] = a[k - 1]
    BY <1>1, <1>2
  <2>2. Linked(a, node, now)
    OBVIOUS
  <2> QED BY <1>1, <1>2, <2>1, <2>2 DEF Linked
<1>3. CASE k \notin 1 .. m
  <2> DEFINE l == k - m
             last == IF m = 0 THEN now ELSE a[m].jump[2]
  <2>1. l \in 1 .. n /\ k = m + l
    BY <1>1, <1>3
  <2> HIDE DEF l
  <2>2. s[k] = b[l]
    BY <1>1, <2>1
  <2>3. Linked(b, node, last)
    OBVIOUS
  <2>4. b[l].jump[1] = IF b[l].first THEN node
                       ELSE IF l = 1 THEN last ELSE b[l - 1].jump[2]
    BY <1>1, <2>1, <2>3 DEF Linked
  <2>5. CASE l = 1
    <3>1. k = 1 <=> m = 0
      BY <1>1, <2>1, <2>5
    <3>2. m # 0 => k - 1 = m /\ m \in 1 .. m
      BY <1>1, <2>1, <2>5
    <3> QED BY <1>1, <2>2, <2>4, <2>5, <3>1, <3>2
  <2>6. CASE l # 1
    <3>1. k # 1 /\ l - 1 \in 1 .. n /\ k - 1 = m + (l - 1)
      BY <1>1, <2>1, <2>6
    <3>2. s[k - 1] = b[l - 1]
      BY <1>1, <3>1
    <3> QED BY <2>2, <2>4, <2>6, <3>1, <3>2
  <2> QED BY <2>5, <2>6
<1> QED BY <1>2, <1>3

LEMMA FlattenLinked ==
    ASSUME NEW C, NEW ss \in Seq(Seq(C)), NEW node,
           \A k \in DOMAIN ss : \A now : Linked(ss[k], node, now)
    PROVE  \A now : Linked(FlattenSeq(ss), node, now)
<1> DEFINE n == Len(ss)
<1>1. n \in Nat /\ DOMAIN ss = 1 .. n /\ \A k \in 1 .. n : ss[k] \in Seq(C)
  OBVIOUS
<1>2. PICK f \in [0 .. n -> Seq(C)] : IsFlattening(f, ss)
  BY FlattenSteps
<1> DEFINE T == {k \in 0 .. n : \A now : Linked(f[k], node, now)}
<1>3. /\ f[0] = <<>> /\ \A k \in 1 .. n : f[k] = f[k - 1] \o ss[k]
      /\ FlattenSeq(ss) = f[n]
  BY <1>2 DEF IsFlattening
<1> HIDE DEF n
<1>4. 0 \in T
  <2>1. DOMAIN f[0] = {}
    BY <1>3
  <2> QED BY <1>1, <2>1 DEF Linked
<1>5. ASSUME NEW k \in 1 .. n, k - 1 \in T PROVE k \in T
  <2>1. k \in 0 .. n /\ k - 1 \in 0 .. n
    BY <1>1
  <2> DEFINE a == f[k - 1]
             b == ss[k]
  <2>2. a \in Seq(C) /\ b \in Seq(C)
    BY <1>1, <2>1
  <2>3. \A now : Linked(a, node, now)
    BY <1>5, Zenon
  <2>4. \A now : Linked(b, node, now)
    BY <1>1
  <2> HIDE DEF a, b
  <2>5. \A now : Linked(a \o b, node, now)
    BY <2>2, <2>3, <2>4, ConcatLinked
  <2> QED BY <1>3, <2>1, <2>5 DEF a, b
<1>6. n \in T
  <2> HIDE DEF T
  <2>1. \A k \in 0 .. n : k \in T
    BY <1>1, <1>4, <1>5, CountingUp
  <2> QED BY <1>1, <2>1
<1> QED BY <1>3, <1>6

LEMMA CallsLinked ==
    ASSUME NEW node \in Definition, NEW edges \in Seq(Seq(Definition))
    PROVE  /\ \A now : Linked(Calls(edges, node), node, now)
<1> DEFINE n == Len(edges)
           C == [edge : DOMAIN edges, first : BOOLEAN, jump : Jump]
           jumps(e) == Jumps(edges[e], node)
           ss == [e \in 1 .. n |-> [k \in DOMAIN jumps(e) |->
                     [edge |-> e, first |-> k = 1, jump |-> jumps(e)[k]]]]
<1>1. n \in Nat /\ DOMAIN edges = 1 .. n /\ \A e \in 1 .. n : edges[e] \in Seq(Definition)
  OBVIOUS
<1>2. ASSUME NEW e \in 1 .. n
      PROVE  /\ jumps(e) \in Seq(Jump)
             /\ \A k \in DOMAIN jumps(e) : k > 1 => jumps(e)[k][1] = jumps(e)[k - 1][2]
             /\ jumps(e) # <<>> => jumps(e)[1][1] = node
  BY <1>1, JumpsOfEdge DEF GoodJumps, IsWay
<1>3. Calls(edges, node) = FlattenSeq(ss)
  BY <1>1 DEF Calls
<1> HIDE DEF n, jumps, C
<1>4. ASSUME NEW e \in 1 .. n
      PROVE  ss[e] \in Seq(C) /\ \A now : Linked(ss[e], node, now)
  <2> DEFINE m == Len(jumps(e))
             call(k) == [edge |-> e, first |-> k = 1, jump |-> jumps(e)[k]]
  <2>1. m \in Nat /\ DOMAIN jumps(e) = 1 .. m /\ \A k \in 1 .. m : jumps(e)[k] \in Jump
    BY <1>2
  <2>2. ss[e] = [k \in 1 .. m |-> call(k)]
    BY <2>1
  <2>3. \A k \in 1 .. m : call(k) \in C
    BY <1>1, <2>1 DEF C
  <2>4. \A k \in 1 .. m : call(k).first = (k = 1) /\ call(k).jump = jumps(e)[k]
    OBVIOUS
  <2>5. \A k \in 1 .. m : k # 1 => k - 1 \in 1 .. m /\ k > 1
    BY <2>1
  <2>6. m # 0 => jumps(e)[1][1] = node
    <3>1. m # 0 => jumps(e) # <<>>
      BY <1>2
    <3> QED BY <1>2, <3>1
  <2> HIDE DEF m, call, ss
  <2>7. ss[e] \in Seq(C) /\ DOMAIN ss[e] = 1 .. m
    BY <2>1, <2>2, <2>3
  <2>8. ASSUME NEW now, NEW k \in 1 .. m
        PROVE  ss[e][k].jump[1] = IF ss[e][k].first THEN node
                                  ELSE IF k = 1 THEN now ELSE ss[e][k - 1].jump[2]
    <3>1. ss[e][k] = call(k)
      BY <2>2
    <3>2. CASE k = 1
      <4>1. m # 0
        BY <2>1
      <4> QED BY <2>4, <2>6, <3>1, <3>2, <4>1
    <3>3. CASE k # 1
      <4>1. k - 1 \in 1 .. m /\ k > 1 /\ ss[e][k - 1] = call(k - 1)
        BY <2>2, <2>5, <3>3
      <4>2. jumps(e)[k][1] = jumps(e)[k - 1][2]
        BY <1>2, <2>1, <4>1
      <4> QED BY <2>4, <3>1, <3>3, <4>1, <4>2
    <3> QED BY <3>2, <3>3
  <2> QED BY <2>7, <2>8 DEF Linked
<1>5. ss \in Seq(Seq(C)) /\ DOMAIN ss = 1 .. n
  <2>1. ss \in [1 .. n -> Seq(C)]
    BY <1>4
  <2> HIDE DEF ss
  <2> QED BY <1>1, <2>1
<1> HIDE DEF ss
<1>6. \A now : Linked(FlattenSeq(ss), node, now)
  BY <1>4, <1>5, FlattenLinked
<1> QED BY <1>3, <1>6
LEMMA LinkedPush ==
    ASSUME NEW s, IsStack(s), \A k \in DOMAIN s : LinkedFrame(s[k]), NEW f, LinkedFrame(f)
    PROVE  \A k \in DOMAIN (<<f>> \o s) : LinkedFrame((<<f>> \o s)[k])
<1> DEFINE t == <<f>> \o s
<1>1. /\ Len(s) \in Nat /\ DOMAIN s = 1 .. Len(s) /\ DOMAIN t = 1 .. Len(s) + 1
      /\ t[1] = f /\ \A k \in 2 .. Len(s) + 1 : t[k] = s[k - 1]
  BY Pushing
<1> HIDE DEF t
<1>2. ASSUME NEW k \in DOMAIN t PROVE LinkedFrame(t[k])
  <2>1. k # 1 => k \in 2 .. Len(s) + 1 /\ k - 1 \in DOMAIN s
    BY <1>1
  <2> QED BY <1>1, <2>1
<1> QED BY <1>2 DEF t

LEMMA LinkedTail ==
    ASSUME NEW s, IsStack(s), s # <<>>, \A k \in DOMAIN s : LinkedFrame(s[k])
    PROVE  \A k \in DOMAIN Tail(s) : LinkedFrame(Tail(s)[k])
<1>1. /\ Len(s) \in Nat \ {0} /\ DOMAIN s = 1 .. Len(s) /\ DOMAIN Tail(s) = 1 .. Len(s) - 1
      /\ \A k \in DOMAIN Tail(s) : Tail(s)[k] = s[k + 1]
  BY Popping
<1>2. \A k \in DOMAIN Tail(s) : k + 1 \in DOMAIN s
  BY <1>1
<1> QED BY <1>1, <1>2

LEMMA NewFrameLinked ==
    ASSUME request \in Input, NEW own, own.node \in Definition, NEW phase,
           NEW edges, edges = OutgoingEdges(own.node)
    PROVE  LinkedFrame(Frame(own, edges, phase))
<1>1. edges \in Seq(Seq(Definition))
  BY EdgesOfNode
<1>2. \A now : Linked(Calls(edges, own.node), own.node, now)
  BY <1>1, CallsLinked
<1> DEFINE f == Frame(own, edges, phase)
<1>3. f.left = Calls(edges, own.node) /\ f.own = own /\ f.current = own
  BY DEF Frame
<1> HIDE DEF f
<1>4. LinkedFrame(f)
  BY <1>2, <1>3 DEF LinkedFrame
<1> QED BY <1>4 DEF f

LEMMA NextCall ==
    ASSUME Works, stack # <<>>, Top.left # <<>>, LinkedFrame(Top)
    PROVE  /\ Call.jump[1] = Current.node
           /\ Built(Target) => LinkedFrame(Advanced(Top, context.built_subsets[Target]))
<1> DEFINE left == Top.left
           node == Top.own.node
           next == context.built_subsets[Target]
           f == Advanced(Top, next)
<1>1. /\ FrameShape(Top) /\ left \in Seq(ToSet(Calls(Top.edges, node))) /\ Shape
  BY CallOfTop DEF FrameShape, Works
<1>2. /\ Call = left[1] /\ Len(left) \in Nat \ {0} /\ DOMAIN left = 1 .. Len(left)
      /\ DOMAIN Tail(left) = 1 .. Len(left) - 1
      /\ \A k \in DOMAIN Tail(left) : Tail(left)[k] = left[k + 1]
  <2> DEFINE S == ToSet(Calls(Top.edges, node))
  <2>1. left \in Seq(S) /\ left # <<>>
    BY <1>1
  <2> HIDE DEF S, left
  <2>2. /\ Head(left) = left[1] /\ Len(left) \in Nat \ {0} /\ DOMAIN left = 1 .. Len(left)
        /\ DOMAIN Tail(left) = 1 .. Len(left) - 1
        /\ \A k \in DOMAIN Tail(left) : Tail(left)[k] = left[k + 1]
    BY <2>1, HeadAndTail
  <2> QED BY <2>2 DEF Call, left
<1>3. \A k \in DOMAIN left :
         left[k].jump[1] = IF left[k].first THEN node
                           ELSE IF k = 1 THEN Top.current.node ELSE left[k - 1].jump[2]
  BY DEF LinkedFrame, Linked
<1>4. Call.jump[1] = Current.node
  <2>1. 1 \in DOMAIN left
    BY <1>2
  <2> QED BY <1>2, <1>3, <2>1 DEF Current
<1>5. ASSUME Built(Target) PROVE LinkedFrame(f)
  <2>1. next.node = Target
    BY <1>5, BuiltFont DEF Built, Works, Good
  <2>2. f.own = Top.own /\ f.current = next /\ f.left = Tail(left)
    BY <1>1, AdvancedFrame
  <2>3. Target = left[1].jump[2]
    BY <1>2 DEF Target
  <2> DEFINE tail == Tail(left)
  <2> HIDE DEF f, next, left, tail
  <2>4. ASSUME NEW k \in DOMAIN tail
        PROVE  tail[k].jump[1] = IF tail[k].first THEN node
                                 ELSE IF k = 1 THEN next.node ELSE tail[k - 1].jump[2]
    <3>1. k + 1 \in DOMAIN left /\ k + 1 # 1 /\ tail[k] = left[k + 1] /\ (k + 1) - 1 = k
      BY <1>2 DEF tail
    <3>2. left[k + 1].jump[1] = IF left[k + 1].first THEN node ELSE left[k].jump[2]
      BY <1>3, <3>1
    <3>3. k # 1 => k - 1 \in DOMAIN tail /\ tail[k - 1] = left[k]
      <4>1. k # 1 => k - 1 \in DOMAIN tail /\ k - 1 + 1 = k
        BY <1>2 DEF tail
      <4> QED BY <1>2, <4>1 DEF tail
    <3> QED BY <2>1, <2>3, <3>1, <3>2, <3>3
  <2> QED BY <2>2, <2>4 DEF LinkedFrame, Linked, tail
<1> QED BY <1>4, <1>5 DEF f, next

(***************************************************************************)
(* Two edges of the node that is worked on add just the same.              *)
(***************************************************************************)
Conflict ==
    /\ stack # <<>>
    /\ \E e, f \in DOMAIN Top.edges : e # f /\ ToSet(Top.edges[e]) = ToSet(Top.edges[f])

Fails ==
    /\ status # "undefined"
    /\ status = "failed" => Conflict
    /\ \A k \in DOMAIN stack : LinkedFrame(stack[k])

NowFails ==
    /\ status' # "undefined"
    /\ status' = "failed" => UNCHANGED stack /\ Conflict
    /\ \A k \in DOMAIN stack' : LinkedFrame(stack'[k])

LEMMA NodeLinked ==
    ASSUME Works, Fails, NEW node \in Definition, CompileNode(node)
    PROVE  \A k \in DOMAIN stack' : LinkedFrame(stack'[k])
<1>1. IsStack(stack) /\ request \in Input
  BY DEF Works, Shape, StackShape
<1>2. CASE stack' = stack
  BY <1>2 DEF Fails
<1>3. CASE stack' = <<Frame(Started(node), OutgoingEdges(node), "estimate")>> \o stack
  <2> DEFINE f == Frame(Started(node), OutgoingEdges(node), "estimate")
  <2>1. Started(node).node = node
    BY DEF Started, Result
  <2>2. LinkedFrame(f)
    BY <1>1, <2>1, NewFrameLinked
  <2> HIDE DEF f
  <2>3. stack' = <<f>> \o stack
    BY <1>3 DEF f
  <2> QED BY <1>1, <2>2, <2>3, LinkedPush DEF Fails
<1> QED BY <1>2, <1>3, NodeCases
LEMMA StepFails ==
    ASSUME Works, Fails, CompilerNext
    PROVE  NowFails
<1>0. /\ Shape /\ StackShape(stack) /\ IsStack(stack) /\ request \in Input
      /\ Good(context, stack) /\ InitSubset \in Definition
  BY RequestFields DEF Works, Shape, StackShape
<1>00. stack # <<>> => FrameShape(Top) /\ Top = stack[1] /\ LinkedFrame(Top)
  <2>1. stack # <<>> => Top = stack[1] /\ 1 \in DOMAIN stack
    BY <1>0, Popping DEF Top
  <2> QED BY <1>0, <2>1, TopOK DEF Fails
<1>000. ASSUME NEW f, LinkedFrame(f), stack # <<>>, stack' = <<f>> \o Tail(stack)
        PROVE  \A k \in DOMAIN stack' : LinkedFrame(stack'[k])
  BY <1>0, <1>000, Popping, LinkedTail, LinkedPush DEF Fails
<1>1. CASE StartCompile
  <2>1. CompileNode(InitSubset) /\ status' = "compiling"
    BY <1>1 DEF StartCompile
  <2> QED BY <1>0, <2>1, NodeLinked DEF NowFails
<1>2. CASE CompileChild
  <2>1. /\ status = "compiling" /\ stack # <<>> /\ Top.left # <<>>
    BY <1>2 DEF CompileChild, TakeJump
  <2>2. Call.jump[1] = Current.node
    BY <1>00, <2>1, NextCall
  <2>3. CompileNode(Target) /\ status' = status
    BY <1>2, <2>2 DEF CompileChild, TakeJump
  <2>4. Target \in Definition
    BY <1>0, <2>1, CallOfTop
  <2> QED BY <2>1, <2>3, <2>4, NodeLinked DEF NowFails
<1>3. CASE EstimateJump
  <2>1. /\ status = "compiling" /\ stack # <<>> /\ Top.left # <<>>
    BY <1>3 DEF EstimateJump, TakeJump
  <2> DEFINE f == Advanced(Top, context.built_subsets[Target])
             e == Call.edge
  <2>2. /\ Call.jump[1] = Current.node
        /\ Built(Target) => LinkedFrame(f)
    BY <1>00, <2>1, NextCall
  <2>3. PICK size : /\ Built(Target) /\ status' = status
                    /\ stack' = <<[f EXCEPT !.sizes[Call.edge] = @ + size]>> \o Tail(stack)
    BY <1>3, <2>2 DEF EstimateJump, TakeJump
  <2> DEFINE g == [f EXCEPT !.sizes[e] = @ + size]
  <2>4. FrameShape(f)
    BY <1>0, <2>1, AdvancedFrame
  <2>5. stack' = <<g>> \o Tail(stack)
    BY <2>3
  <2> HIDE DEF f, e
  <2>6. g.left = f.left /\ g.own = f.own /\ g.current = f.current
    BY <2>4 DEF FrameShape
  <2> HIDE DEF g
  <2>7. LinkedFrame(g)
    BY <2>2, <2>3, <2>6 DEF LinkedFrame
  <2> QED BY <1>000, <2>1, <2>3, <2>5, <2>7 DEF NowFails
<1>4. CASE PopulateMaps
  <2> DEFINE node == Top.own.node
             conditions == Conditions(SortedEdges, node)
  <2>1. stack # <<>> /\ status = "compiling"
    BY <1>4 DEF PopulateMaps, Working
  <2>2. /\ node \in Definition /\ Top.edges = OutgoingEdges(node)
        /\ Top.sizes \in [DOMAIN Top.edges -> Nat]
    BY <1>00, <2>1 DEF FrameShape
  <2>3. Top.edges \in Seq(Seq(Definition))
    BY <1>0, <2>2, EdgesOfNode
  <2>4. /\ ToSet(SortedEdges) = ToSet(Top.edges)
        /\ \A k, l \in DOMAIN SortedEdges : k # l =>
              \E e, f \in DOMAIN Top.edges : /\ e # f /\ SortedEdges[k] = Top.edges[e]
                                            /\ SortedEdges[l] = Top.edges[f]
    BY <2>2, <2>3, SortKeepsEdges
  <2>5. /\ DOMAIN conditions = DOMAIN SortedEdges
        /\ \A k \in DOMAIN SortedEdges :
              /\ conditions[k].segments = ToSet(SortedEdges[k])
              /\ DOMAIN conditions[k].patches = DOMAIN Jumps(SortedEdges[k], node)
    BY DEF Conditions
  <2> HIDE DEF conditions
  <2>6. \A k \in DOMAIN conditions : conditions[k].patches # <<>>
    <3> SUFFICES ASSUME NEW k \in DOMAIN conditions PROVE conditions[k].patches # <<>>
      OBVIOUS
    <3> DEFINE edge == SortedEdges[k]
    <3>1. edge \in ToSet(OutgoingEdges(node))
      BY <2>2, <2>4, <2>5 DEF ToSet
    <3>2. Jumps(edge, node) # <<>>
      BY <1>0, <2>2, <3>1, EdgesJump
    <3>3. Jumps(edge, node) \in Seq(Jump)
      <4>1. edge \in Seq(Definition)
        BY <1>0, <2>2, <3>1, EdgeOfNode
      <4> HIDE DEF edge, node
      <4> QED BY <2>2, <4>1, JumpsOfEdge DEF GoodJumps, IsWay
    <3>4. 1 \in DOMAIN Jumps(edge, node)
      BY <3>2, <3>3, HeadAndTail
    <3>5. 1 \in DOMAIN conditions[k].patches
      BY <2>5, <3>4
    <3>6. DOMAIN <<>> = {}
      OBVIOUS
    <3> QED BY <3>5, <3>6
  <2>7. CASE \E k, l \in DOMAIN conditions : k # l /\ conditions[k].segments = conditions[l].segments
    <3>1. PICK k \in DOMAIN SortedEdges, l \in DOMAIN SortedEdges :
             k # l /\ ToSet(SortedEdges[k]) = ToSet(SortedEdges[l])
      BY <2>5, <2>7
    <3>2. Conflict
      BY <2>1, <2>4, <3>1 DEF Conflict
    <3>3. status' = "failed" /\ UNCHANGED stack
      BY <1>4, <2>6, <2>7 DEF PopulateMaps, conditions
    <3> QED BY <3>2, <3>3 DEF NowFails, Fails
  <2>8. CASE ~\E k, l \in DOMAIN conditions : k # l /\ conditions[k].segments = conditions[l].segments
    <3>1. status' = status /\ ~(UNCHANGED <<context, stack>> /\ status' \in {"failed", "undefined"})
      BY <1>4, <2>1, <2>6, <2>8 DEF PopulateMaps, conditions
    <3>2. /\ Filled.node = node
          /\ stack' = <<Frame(Filled, Top.edges, "patches")>> \o Tail(stack)
      BY <1>00, <1>4, <2>1, <3>1, PopulateCases
    <3>3. LinkedFrame(Frame(Filled, Top.edges, "patches"))
      BY <1>0, <2>2, <3>2, NewFrameLinked
    <3> QED BY <1>000, <2>1, <3>1, <3>2, <3>3 DEF NowFails
  <2> QED BY <2>7, <2>8
<1>5. CASE BuildPatch
  <2>1. /\ status = "compiling" /\ stack # <<>> /\ Top.left # <<>>
    BY <1>5 DEF BuildPatch, TakeJump
  <2> DEFINE f == Advanced(Top, context.built_subsets[Target])
  <2>2. /\ Call.jump[1] = Current.node
        /\ Built(Target) => LinkedFrame(f)
    BY <1>00, <2>1, NextCall
  <2>3. Built(Target) /\ status' = status /\ stack' = <<f>> \o Tail(stack)
    BY <1>5, <2>2 DEF BuildPatch, TakeJump
  <2> HIDE DEF f
  <2> QED BY <1>000, <2>1, <2>2, <2>3 DEF NowFails
<1>6. CASE Return
  <2>1. /\ status = "compiling" /\ stack # <<>> /\ stack' = Tail(stack) /\ status' = status
    BY <1>6 DEF Return, Working
  <2> QED BY <1>0, <2>1, LinkedTail DEF NowFails, Fails
<1>7. CASE FinishCompile
  BY <1>7 DEF FinishCompile, NowFails, Fails
<1> QED BY <1>1, <1>2, <1>3, <1>4, <1>5, <1>6, <1>7 DEF CompilerNext

LEMMA FailsNext ==
    ASSUME Works, Fails, [Next \/ Stopped]_vars
    PROVE  Fails'
<1>1. CASE CompilerNext
  <2>1. NowFails
    BY <1>1, StepFails
  <2>2. UNCHANGED stack => Conflict' = Conflict
    BY DEF Conflict, Top
  <2> QED BY <2>1, <2>2 DEF NowFails, Fails, LinkedFrame, Linked
<1>2. CASE UNCHANGED compiler_vars
  <2>1. status' = status /\ stack' = stack
    BY <1>2 DEF compiler_vars
  <2>2. Conflict' = Conflict
    BY <2>1 DEF Conflict, Top
  <2> QED BY <2>1, <2>2 DEF Fails, LinkedFrame, Linked
<1> QED BY <1>1, <1>2 DEF Next, Stopped, vars, compiler_vars

(***************************************************************************)
(* The compiler fails on conflicting patch mappings only, that is when two *)
(* edges of a node add the same: never with a base mismatch, and it never  *)
(* reads the first patch of an edge without any.                           *)
(***************************************************************************)
THEOREM OnlyConflictsFail == Spec => [](NoInternalError \/ (status = "failed" /\ Conflict))
<1>1. InitAll => Fails
  <2>1. DOMAIN <<>> = {}
    OBVIOUS
  <2> QED BY <2>1 DEF InitAll, Init, Fails
<1>2. Works /\ Fails /\ [Next \/ Stopped]_vars => Fails'
  BY FailsNext
<1>3. Fails => NoInternalError \/ (status = "failed" /\ Conflict)
  BY DEF Fails, NoInternalError
<1> QED BY <1>1, <1>2, <1>3, WorksInvariant, PTL DEF Spec
=============================================================================
