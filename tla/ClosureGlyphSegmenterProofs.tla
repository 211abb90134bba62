--------------------- MODULE ClosureGlyphSegmenterProofs ---------------------
(***************************************************************************)
(* Proofs about the segmentation of a font (ClosureGlyphSegmenter): for    *)
(* every font with a monotone closure, every request and whatever the      *)
(* mergers choose, the incremental analysis is that of the present         *)
(* segments.                                                               *)
(***************************************************************************)
EXTENDS ClosureGlyphSegmenter, SegmentationInfoProofs

-----------------------------------------------------------------------------
(***************************************************************************)
(* What the operations on the groupings (GlyphGroupings) keep: their type, *)
(* the agreement of the groups with the conditions of the glyphs, and      *)
(* unmapped glyphs that are not in the initial font.                       *)
(***************************************************************************)
-----------------------------------------------------------------------------
(***************************************************************************)
(* The search for the condition of an unmapped glyph.                      *)
(***************************************************************************)
LEMMA LeastIsElement ==
  ASSUME NEW T \in SUBSET Segment, T # {}
  PROVE  Least(T) \in T /\ Least(T) \in Segment
<1>1. \E s \in T : \A t \in T : s <= t
  <2> DEFINE R == OpToRel(<, Nat)
  <2>1. T \subseteq Nat
    BY SegmentAssumption
  <2>2. PICK s \in T : \A t \in T : ~(<<t, s>> \in R)
    BY <2>1, NatLessThanWellFounded, WFMin
  <2>3. \A t \in T : ~(t < s)
    BY <2>1, <2>2 DEF OpToRel
  <2> QED BY <2>1, <2>3
<1> QED BY <1>1 DEF Least

LEMMA MaxIsElement ==
  ASSUME NEW T \in SUBSET Segment, T # {}
  PROVE  Max(T) \in T
<1> DEFINE has(U) == \E m \in U : \A t \in U : m >= t
           bad == {U \in SUBSET T : U # {} /\ ~has(U)}
<1>1. IsFiniteSet(T) /\ T \subseteq Nat
  BY SegmentAssumption, FS_Subset
<1>2. bad = {}
  <2> SUFFICES ASSUME bad # {} PROVE FALSE
    OBVIOUS
  <2>1. PICK U \in bad : \A W \in bad : W \subseteq U => W = U
    <3>1. bad \in SUBSET (SUBSET T)
      OBVIOUS
    <3> HIDE DEF bad
    <3>2. IsFiniteSet(T)
      BY <1>1
    <3>3. \E U \in bad : \A W \in bad : W \subseteq U => W = U
      BY <3>1, <3>2, SmallestSubset
    <3> QED BY <3>3
  <2>2. PICK u \in U : TRUE
    OBVIOUS
  <2>3. CASE U \ {u} = {}
    <3>1. \A t \in U : u >= t
      BY <1>1, <2>3
    <3> QED BY <3>1
  <2>4. CASE U \ {u} # {}
    <3>1. U \ {u} \notin bad
      BY <2>1, <2>2
    <3>2. PICK m \in U \ {u} : \A t \in U \ {u} : m >= t
      BY <2>4, <3>1
    <3>3. m \in Nat /\ u \in Nat /\ \A t \in U : t \in Nat
      BY <1>1
    <3>4. (\A t \in U : m >= t) \/ (\A t \in U : u >= t)
      BY <3>2, <3>3
    <3> QED BY <3>4
  <2> QED BY <2>3, <2>4
<1>3. has(T)
  BY <1>2
<1> QED BY <1>3 DEF Max

LEMMA SubConditionIsEnough ==
  ASSUME NEW i, NEW g, NEW ss \in SUBSET Segment, BroughtBy(i, g, ss)
  PROVE  /\ SubCondition(i, g, ss) \in SUBSET ss
         /\ BroughtBy(i, g, SubCondition(i, g, ss))
<1> DEFINE brings(K) == BroughtBy(i, g, K)
           value(T, before) == IF brings(before \cup (ss \ T)) THEN before
                               ELSE before \cup {Max(T)}
           kept[T \in SUBSET ss] ==
              LET s      == Max(T)
                  before == kept[T \ {s}]
              IN  IF T = {} THEN {}
                  ELSE IF BroughtBy(i, g, before \cup (ss \ T)) THEN before
                  ELSE before \cup {s}
           Sol(h) == h = [T \in SUBSET ss |->
                             IF T = {} THEN {} ELSE value(T, h[T \ {Max(T)}])]
           V == SUBSET Segment
           pick == [T \in (SUBSET ss) \ {{}} |-> Max(T)]
           step == [p \in V \X (SUBSET ss) |->
                       IF p[2] = {} THEN {} ELSE value(p[2], p[1])]
           good == [T \in SUBSET ss |-> {K \in SUBSET T : brings(K \cup (ss \ T))}]
<1>1. kept = CHOOSE h : Sol(h)
  OBVIOUS
<1>2. SubCondition(i, g, ss) = kept[ss]
  BY DEF SubCondition
<1> HIDE DEF kept, brings
<1>3. ASSUME NEW T \in (SUBSET ss) \ {{}} PROVE Max(T) \in T
  BY MaxIsElement
<1>4. IsFiniteSet(ss)
  BY SegmentAssumption, FS_Subset
<1>5. \E h : Sol(h)
  <2>1. /\ pick \in [(SUBSET ss) \ {{}} -> ss]
        /\ \A T \in (SUBSET ss) \ {{}} : pick[T] \in T
    BY <1>3
  <2>2. step \in [V \X (SUBSET ss) -> V] /\ {} \in V
    <3>1. ASSUME NEW T \in SUBSET ss, T # {}, NEW K \in V PROVE value(T, K) \in V
      BY <1>3, <3>1
    <3> HIDE DEF value
    <3> QED BY <3>1
  <2> HIDE DEF pick, step, V
  <2>3. PICK f \in [SUBSET ss -> V] : IsSetRecursion(f, ss, {}, pick, step)
    BY <1>4, <2>1, <2>2, SetRecursionExists
  <2>4. ASSUME NEW T \in SUBSET ss
        PROVE  f[T] = IF T = {} THEN {} ELSE value(T, f[T \ {Max(T)}])
    <3>1. CASE T = {}
      BY <2>3, <3>1 DEF IsSetRecursion
    <3>2. CASE T # {}
      <4>1. pick[T] = Max(T)
        BY <3>2 DEF pick
      <4>2. f[T] = step[<<f[T \ {Max(T)}], T>>]
        BY <2>3, <3>2, <4>1 DEF IsSetRecursion
      <4>3. f[T \ {Max(T)}] \in V
        BY <1>3, <3>2
      <4> HIDE DEF value
      <4> QED BY <3>2, <4>2, <4>3 DEF step
    <3> QED BY <3>1, <3>2
  <2> HIDE DEF value
  <2>5. Sol(f)
    BY <2>4
  <2> QED BY <2>5
<1>6. Sol(kept)
  <2> HIDE DEF Sol
  <2> QED BY <1>1, <1>5
<1>7. kept[{}] \in good[{}]
  <2>1. kept[{}] = {}
    BY <1>6
  <2>2. ss \ {} = ss
    OBVIOUS
  <2> QED BY <2>1, <2>2 DEF brings
<1>8. ASSUME NEW T \in (SUBSET ss) \ {{}}
      PROVE  \E s \in T : kept[T \ {s}] \in good[T \ {s}] => kept[T] \in good[T]
  <2> DEFINE s == Max(T)
             U == T \ {s}
             before == kept[U]
  <2>1. s \in T
    BY <1>3
  <2>2. kept[T] = value(T, before)
    BY <1>6
  <2> HIDE DEF s
  <2>3. U \in SUBSET ss /\ T \in SUBSET ss
    BY <2>1
  <2>4. SUFFICES ASSUME before \in good[U] PROVE kept[T] \in good[T]
    BY <2>1
  <2>5. before \in SUBSET U /\ brings(before \cup (ss \ U))
    BY <2>3, <2>4
  <2> HIDE DEF before
  <2>6. (before \cup {s}) \cup (ss \ T) = before \cup (ss \ U)
    BY <2>1
  <2>7. CASE brings(before \cup (ss \ T))
    <3>1. kept[T] = before
      BY <2>2, <2>7
    <3> QED BY <2>3, <2>5, <2>7, <3>1
  <2>8. CASE ~brings(before \cup (ss \ T))
    <3>1. kept[T] = before \cup {s}
      BY <2>2, <2>8 DEF s
    <3>2. brings((before \cup {s}) \cup (ss \ T))
      BY <2>5, <2>6
    <3> QED BY <2>1, <2>3, <2>5, <3>1, <3>2
  <2> QED BY <2>7, <2>8
<1> HIDE DEF Sol
<1>9. kept[ss] \in good[ss]
  <2> HIDE DEF good
  <2>1. \A T \in SUBSET ss : kept[T] \in good[T]
    BY <1>4, <1>7, <1>8, RecursionKeeps
  <2> QED BY <2>1
<1>10. kept[ss] \in SUBSET ss /\ brings(kept[ss] \cup (ss \ ss))
  BY <1>9
<1>11. kept[ss] \cup (ss \ ss) = kept[ss]
  OBVIOUS
<1> QED BY <1>2, <1>10, <1>11 DEF brings

LEMMA NothingBringsNothing ==
  ASSUME NEW i, InfoOK(i), NEW g, g \notin i.init.gids
  PROVE  ~BroughtBy(i, g, {})
<1>1. i \in Info /\ i.init \in Definition
  BY DEF InfoOK, Info
<1>2. /\ CombinedDefinition(i, {}) \in Definition
      /\ CombinedDefinition(i, {}).codepoints
            = (UNION {i.segments[s] : s \in {}}) \cup i.init.codepoints
      /\ CombinedDefinition(i, {}).gids = i.init.gids
  BY <1>1, CombinedType
<1>3. CombinedDefinition(i, {}).codepoints = i.init.codepoints
  BY <1>2
<1>4. CombinedDefinition(i, {}) = i.init
  BY <1>1, <1>2, <1>3, SameDefinition
<1>5. i.init.gids \cup Closure(i.font, i.init) = i.init.gids
  <2>1. ExpandOnce(i.font, i.init) = i.init
    BY DEF InfoOK
  <2>2. ExpandOnce(i.font, i.init).gids = i.init.gids \cup Closure(i.font, i.init)
    BY DEF ExpandOnce
  <2> QED BY <2>1, <2>2
<1> QED BY <1>4, <1>5 DEF BroughtBy

LEMMA CompletedIsEnough ==
  ASSUME NEW i, InfoOK(i), NEW g, g \notin i.init.gids, NEW full \in SUBSET Segment
  PROVE  /\ Completed(i, Segment, g, full) \in SUBSET Segment
         /\ ~BroughtWithout(i, g, Completed(i, Segment, g, full))
         /\ BroughtWithout(i, g, full) => BroughtBy(i, g, Completed(i, Segment, g, full))
<1> DEFINE further(ss) == SubCondition(i, g, (NonEmptySegments(i) \ ss) \cap Segment)
           brought(ss) == BroughtWithout(i, g, ss)
           found[ss \in SUBSET Segment] ==
              IF BroughtWithout(i, g, ss)
              THEN found[ss \cup SubCondition(i, g, (NonEmptySegments(i) \ ss)
                                                       \cap Segment)]
              ELSE ss
           Sol(h) == h = [ss \in SUBSET Segment |->
                             IF brought(ss) THEN h[ss \cup further(ss)] ELSE ss]
           S == SUBSET Segment
           stop == {ss \in S : ~brought(ss)}
           next == [ss \in S |-> IF brought(ss) THEN ss \cup further(ss) ELSE ss]
           out == [ss \in S |-> ss]
           ended(ss) == /\ found[ss] \in S /\ ~brought(found[ss])
                        /\ ss \subseteq found[ss]
                        /\ brought(ss) => BroughtBy(i, g, found[ss])
           bad == {Segment \ ss : ss \in {x \in S : ~ended(x)}}
<1>1. found = CHOOSE h : Sol(h)
  OBVIOUS
<1>2. Completed(i, Segment, g, full) = found[full]
  BY DEF Completed
<1>3. ASSUME NEW ss \in S, brought(ss)
      PROVE  /\ ss \cup further(ss) \in S
             /\ \E s \in Segment : s \in further(ss) /\ s \notin ss
             /\ \A tt \in S : further(ss) \subseteq tt => BroughtBy(i, g, tt)
  <2> DEFINE left == (NonEmptySegments(i) \ ss) \cap Segment
  <2>1. left = NonEmptySegments(i) \ ss /\ left \in SUBSET Segment
    BY DEF NonEmptySegments
  <2>2. BroughtBy(i, g, left)
    BY <1>3, <2>1 DEF BroughtWithout
  <2> HIDE DEF left
  <2>3. SubCondition(i, g, left) \in SUBSET left /\ BroughtBy(i, g, SubCondition(i, g, left))
    BY <2>1, <2>2, SubConditionIsEnough
  <2>4. SubCondition(i, g, left) # {}
    BY <2>3, NothingBringsNothing
  <2>5. further(ss) = SubCondition(i, g, left)
    BY DEF left
  <2>6. i \in Info
    BY DEF InfoOK
  <2> HIDE DEF further
  <2>7. ASSUME NEW tt \in S, further(ss) \subseteq tt PROVE BroughtBy(i, g, tt)
    <3>1. further(ss) \in SUBSET Segment /\ tt \in SUBSET Segment
      BY <2>1, <2>3, <2>5
    <3>2. Closure(i.font, CombinedDefinition(i, further(ss)))
             \subseteq Closure(i.font, CombinedDefinition(i, tt))
      BY <2>6, <2>7, <3>1, BringsMonotone
    <3> QED BY <2>3, <2>5, <3>2 DEF BroughtBy
  <2> QED BY <2>1, <2>3, <2>4, <2>5, <2>7
<1> HIDE DEF found, brought, further
<1>4. \E h : Sol(h)
  <2>1. next \in [S -> S] /\ out \in [S -> S] /\ stop \in SUBSET S
    BY <1>3
  <2> HIDE DEF S, next, out, stop
  <2>2. PICK h \in [S -> S] : IsIteration(h, S, stop, next, out)
    BY <2>1, IterationExists
  <2>3. \A ss \in S : h[ss] = IF brought(ss) THEN h[ss \cup further(ss)] ELSE ss
    BY <2>2 DEF IsIteration, S, next, out, stop
  <2>4. Sol(h)
    BY <2>2, <2>3 DEF S
  <2> QED BY <2>4
<1>5. Sol(found)
  <2> HIDE DEF Sol
  <2> QED BY <1>1, <1>4
<1>6. bad = {}
  <2> SUFFICES ASSUME bad # {} PROVE FALSE
    OBVIOUS
  <2>1. PICK T \in bad : \A U \in bad : U \subseteq T => U = T
    <3>1. bad \in SUBSET (SUBSET Segment)
      OBVIOUS
    <3> HIDE DEF bad
    <3>2. IsFiniteSet(Segment)
      BY SegmentAssumption
    <3>3. \E T \in bad : \A U \in bad : U \subseteq T => U = T
      BY <3>1, <3>2, SmallestSubset
    <3> QED BY <3>3
  <2>2. PICK ss \in S : ~ended(ss) /\ T = Segment \ ss
    BY <2>1
  <2>3. brought(ss)
    <3> SUFFICES ASSUME ~brought(ss) PROVE FALSE
      OBVIOUS
    <3>1. found[ss] = ss
      BY <1>5
    <3> QED BY <2>2, <3>1
  <2> DEFINE tt == ss \cup further(ss)
  <2>4. found[ss] = found[tt]
    BY <1>5, <2>3
  <2>5. tt \in S /\ \E s \in Segment : s \in tt /\ s \notin ss
    BY <1>3, <2>3
  <2>6. ss \subseteq tt
    OBVIOUS
  <2> HIDE DEF tt, S
  <2>7. ~ended(tt)
    <3> SUFFICES ASSUME ended(tt) PROVE ended(ss)
      BY <2>2
    <3>1. further(ss) \subseteq found[tt] /\ ss \subseteq found[tt] /\ found[tt] \in S
      BY <2>6 DEF tt
    <3>2. BroughtBy(i, g, found[tt])
      BY <1>3, <2>3, <3>1
    <3> QED BY <2>4, <3>1, <3>2
  <2>8. Segment \ tt \in bad
    BY <2>5, <2>7
  <2> HIDE DEF bad
  <2>9. Segment \ tt \subseteq T /\ Segment \ tt # T
    BY <2>2, <2>5, <2>6
  <2> QED BY <2>1, <2>8, <2>9
<1>7. ended(full)
  BY <1>6
<1> QED BY <1>2, <1>7 DEF brought

LEMMA FoundType ==
  ASSUME NEW i, InfoOK(i), NEW g, g \notin i.init.gids, NEW conditions, NEW gs,
         UNION conditions[g].groups \subseteq Segment
  PROVE  FoundSegments(i, conditions, Segment, gs, g) \in SUBSET Segment
<1> DEFINE existing == ExistingSegments(conditions[g])
<1>1. existing \in SUBSET Segment
  BY DEF ExistingSegments, TriggeringSegments
<1>2. \A full \in SUBSET Segment : Completed(i, Segment, g, full) \in SUBSET Segment
  BY CompletedIsEnough
<1>3. \E full \in {{}, existing} : FoundSegments(i, conditions, Segment, gs, g)
                                      = existing \cup Completed(i, Segment, g, full)
  BY DEF FoundSegments
<1> HIDE DEF existing
<1> QED BY <1>1, <1>2, <1>3

-----------------------------------------------------------------------------
(***************************************************************************)
(* The operations that take something away.                                *)
(***************************************************************************)
SameGroups(H, G) ==
    /\ H.pre = G.pre
    /\ H.exclusive_groups = G.exclusive_groups
    /\ H.or_groups = G.or_groups
    /\ H.combined_patches = G.combined_patches
    /\ H.unmapped = G.unmapped
    /\ H.found = G.found

LEMMA CombinationsRemoved ==
  ASSUME NEW G \in Groupings
  PROVE  /\ RemoveAllCombinedConditions(G) \in Groupings
         /\ SameGroups(RemoveAllCombinedConditions(G), G)
<1> DEFINE gs == {g \in Glyph : G.post[g] \in G.combined_conditions}
           post == Unset(G.post, gs)
           H == [G EXCEPT !.post = post, !.dirty = TRUE, !.combined_conditions = {},
                          !.combined_exclusive = {}]
<1>1. RemoveAllCombinedConditions(G) = H
  BY DEF RemoveAllCombinedConditions
<1>2. post \in Table
  BY DEF Unset, Table, Groupings
<1> HIDE DEF post
<1>3. H \in Groupings
  BY <1>2 DEF Groupings
<1>4. SameGroups(H, G)
  BY DEF SameGroups, Groupings
<1> QED BY <1>1, <1>3, <1>4

IsForgotten(H, G, gs) ==
    /\ H \in Groupings
    /\ H.pre = Unset(G.pre, gs)
    /\ H.found = G.found \ gs
    /\ H.unmapped = G.unmapped \ gs
    /\ H.combined_patches = G.combined_patches
    /\ \A ss \in SUBSET Segment :
          H.or_groups[ss] = G.or_groups[ss] \
             {g \in gs : /\ G.pre[g] # NoCondition
                         /\ TriggeringSegments(G.pre[g]) = ss
                         /\ ~IsExclusive(G.pre[g])
                         /\ IsPurelyDisjunctive(G.pre[g])}

LEMMA Forgotten ==
  ASSUME NEW G \in Groupings, NEW gs
  PROVE  IsForgotten(Forget(G, gs), G, gs)
<1> DEFINE gone(ss) == {g \in gs : /\ G.pre[g] # NoCondition
                                   /\ TriggeringSegments(G.pre[g]) = ss}
           exclusive == [s \in Segment |->
              G.exclusive_groups[s] \ {g \in gone({s}) : IsExclusive(G.pre[g])}]
           ors == [ss \in SUBSET Segment |->
              G.or_groups[ss] \ {g \in gone(ss) : /\ ~IsExclusive(G.pre[g])
                                                  /\ IsPurelyDisjunctive(G.pre[g])}]
           post == Unset(G.post, gs)
           pre == Unset(G.pre, gs)
           H == [G EXCEPT !.unmapped = @ \ gs, !.found = @ \ gs, !.post = post,
                          !.pre = pre, !.exclusive_groups = exclusive,
                          !.or_groups = ors]
<1>1. Forget(G, gs) = H
  BY DEF Forget
<1>2. post \in Table /\ pre \in Table
  BY DEF Unset, Table, Groupings
<1>3. /\ exclusive \in [Segment -> SUBSET Glyph]
      /\ ors \in [SUBSET Segment -> SUBSET Glyph]
  BY DEF Groupings
<1>4. \A ss \in SUBSET Segment :
          ors[ss] = G.or_groups[ss] \
             {g \in gs : /\ G.pre[g] # NoCondition
                         /\ TriggeringSegments(G.pre[g]) = ss
                         /\ ~IsExclusive(G.pre[g])
                         /\ IsPurelyDisjunctive(G.pre[g])}
  OBVIOUS
<1> HIDE DEF post, pre, exclusive, ors
<1>5. H \in Groupings
  BY <1>2, <1>3 DEF Groupings
<1>6. /\ H.pre = pre /\ H.found = G.found \ gs /\ H.unmapped = G.unmapped \ gs
      /\ H.combined_patches = G.combined_patches /\ H.or_groups = ors
  BY DEF Groupings
<1> HIDE DEF H
<1>7. IsForgotten(H, G, gs)
  BY <1>4, <1>5, <1>6 DEF IsForgotten, pre
<1> QED BY <1>1, <1>7

LEMMA Invalidated ==
  ASSUME NEW G \in Groupings, NEW gs
  PROVE  IsForgotten(Invalidate(G, gs), G, gs)
<1> DEFINE F == Forget(G, gs)
           R == RemoveAllCombinedConditions(F)
<1>1. IsForgotten(F, G, gs)
  BY Forgotten
<1>2. F \in Groupings
  BY <1>1 DEF IsForgotten
<1> HIDE DEF F
<1>3. R \in Groupings /\ SameGroups(R, F)
  BY <1>2, CombinationsRemoved
<1> HIDE DEF R
<1>4. IsForgotten(R, G, gs)
  BY <1>1, <1>3 DEF IsForgotten, SameGroups
<1>5. Invalidate(G, gs) \in {F, R}
  BY DEF Invalidate, F, R
<1> QED BY <1>1, <1>4, <1>5

-----------------------------------------------------------------------------
(***************************************************************************)
(* The folds over sets.  Each has the values its step can give, whatever   *)
(* the order of the elements.                                              *)
(***************************************************************************)
LEMMA JoinType ==
  ASSUME NEW blocks \in SUBSET SUBSET Glyph, NEW gs \in SUBSET Glyph
  PROVE  Join(blocks, gs) \in SUBSET SUBSET Glyph
BY DEF Join

LEMMA JoinAllType ==
  ASSUME NEW blocks \in SUBSET SUBSET Glyph, NEW sets \in SUBSET SUBSET Glyph
  PROVE  JoinAll(blocks, sets) \in SUBSET SUBSET Glyph
<1> DEFINE one(T) == CHOOSE x \in T : TRUE
           iter[T \in SUBSET sets] ==
              IF T = {} THEN blocks
              ELSE LET x == CHOOSE y \in T : TRUE IN Join(iter[T \ {x}], x)
           Sol(h) == h = [T \in SUBSET sets |->
                             IF T = {} THEN blocks
                             ELSE Join(h[T \ {one(T)}], one(T))]
           V == SUBSET SUBSET Glyph
           pick == [T \in (SUBSET sets) \ {{}} |-> one(T)]
           step == [p \in V \X (SUBSET sets) |->
                       IF p[2] = {} THEN blocks ELSE Join(p[1], one(p[2]))]
           good == [T \in SUBSET sets |-> V]
<1>1. iter = CHOOSE h : Sol(h)
  OBVIOUS
<1>2. JoinAll(blocks, sets) = iter[sets]
  BY DEF JoinAll, FoldSet, MapThenFoldSet
<1> HIDE DEF iter
<1>3. \A T \in (SUBSET sets) \ {{}} : one(T) \in T
  OBVIOUS
<1>4. IsFiniteSet(sets)
  BY FontAssumption, FS_SUBSET, FS_Subset
<1>5. ASSUME NEW T \in (SUBSET sets) \ {{}}, NEW v \in V PROVE Join(v, one(T)) \in V
  <2>1. one(T) \in SUBSET Glyph
    BY <1>3
  <2> HIDE DEF one
  <2> QED BY <2>1, JoinType
<1> HIDE DEF one
<1>6. \E h : Sol(h)
  <2>1. /\ pick \in [(SUBSET sets) \ {{}} -> sets]
        /\ \A T \in (SUBSET sets) \ {{}} : pick[T] \in T
    BY <1>3
  <2>2. step \in [V \X (SUBSET sets) -> V] /\ blocks \in V
    BY <1>5
  <2> HIDE DEF pick, step, V
  <2>3. PICK f \in [SUBSET sets -> V] : IsSetRecursion(f, sets, blocks, pick, step)
    BY <1>4, <2>1, <2>2, SetRecursionExists
  <2>4. ASSUME NEW T \in SUBSET sets
        PROVE  f[T] = IF T = {} THEN blocks ELSE Join(f[T \ {one(T)}], one(T))
    <3>1. CASE T = {}
      BY <2>3, <3>1 DEF IsSetRecursion
    <3>2. CASE T # {}
      <4>1. pick[T] = one(T)
        BY <3>2 DEF pick
      <4>2. f[T] = step[<<f[T \ {one(T)}], T>>]
        BY <2>3, <3>2, <4>1 DEF IsSetRecursion
      <4>3. f[T \ {one(T)}] \in V
        BY <1>3, <3>2
      <4> QED BY <3>2, <4>2, <4>3 DEF step
    <3> QED BY <3>1, <3>2
  <2>5. Sol(f)
    BY <2>4
  <2> QED BY <2>5
<1>7. Sol(iter)
  <2> HIDE DEF Sol
  <2> QED BY <1>1, <1>6
<1>8. iter[{}] \in good[{}]
  BY <1>7
<1>9. ASSUME NEW T \in (SUBSET sets) \ {{}}
      PROVE  \E x \in T : iter[T \ {x}] \in good[T \ {x}] => iter[T] \in good[T]
  <2> DEFINE U == T \ {one(T)}
  <2>1. U \in SUBSET sets /\ T \in SUBSET sets /\ one(T) \in T
    BY <1>3
  <2>2. iter[T] = Join(iter[U], one(T))
    BY <1>7
  <2> HIDE DEF U, V
  <2>3. good[U] = V /\ good[T] = V
    BY <2>1
  <2>4. iter[U] \in V => iter[T] \in V
    BY <1>5, <2>2
  <2> HIDE DEF good
  <2> QED BY <2>1, <2>3, <2>4 DEF U
<1> HIDE DEF Sol
<1>10. iter[sets] \in good[sets]
  <2> HIDE DEF good
  <2>1. \A T \in SUBSET sets : iter[T] \in good[T]
    BY <1>4, <1>8, <1>9, RecursionKeeps
  <2> QED BY <2>1
<1> QED BY <1>2, <1>10

LEMMA OrType ==
  ASSUME NEW a \in GlyphCondition, NEW b \in GlyphCondition
  PROVE  Or(a, b) \in GlyphCondition
<1>1. a.groups \in SUBSET Group /\ b.groups \in SUBSET Group
  BY DEF GlyphCondition, Condition
<1>2. ASSUME NEW as \in SUBSET Group, NEW bs \in SUBSET Group
      PROVE  CrossProduct(as, bs) \in SUBSET Group
  <2>1. ASSUME NEW pair \in as \X bs PROVE pair[1] \cup pair[2] \in Group
    <3>1. pair[1] \in SUBSET Segment /\ pair[2] \in SUBSET Segment
      BY DEF Group
    <3> QED BY <3>1 DEF Group
  <2> QED BY <2>1 DEF CrossProduct
<1>3. CrossProduct(a.groups \ b.groups, b.groups \ a.groups) \in SUBSET Group
  BY <1>1, <1>2
<1>4. OrGroups(a.groups, b.groups) \in SUBSET Group
  BY <1>1, <1>3 DEF OrGroups, Simplify
<1> QED BY <1>4 DEF Or, GlyphCondition, Condition, IsExclusive

LEMMA OrAllType ==
  ASSUME NEW conditions \in SUBSET GlyphCondition, IsFiniteSet(conditions), conditions # {}
  PROVE  OrAll(conditions) \in GlyphCondition
<1> DEFINE first == CHOOSE c \in conditions : TRUE
           others == conditions \ {first}
           one(T) == CHOOSE x \in T : TRUE
           iter[T \in SUBSET others] ==
              IF T = {} THEN first
              ELSE LET x == CHOOSE y \in T : TRUE IN Or(x, iter[T \ {x}])
           Sol(h) == h = [T \in SUBSET others |->
                             IF T = {} THEN first ELSE Or(one(T), h[T \ {one(T)}])]
           V == GlyphCondition
           pick == [T \in (SUBSET others) \ {{}} |-> one(T)]
           step == [p \in V \X (SUBSET others) |->
                       IF p[2] = {} THEN first ELSE Or(one(p[2]), p[1])]
           good == [T \in SUBSET others |-> V]
<1>1. iter = CHOOSE h : Sol(h)
  OBVIOUS
<1>2. OrAll(conditions) = iter[others]
  BY DEF OrAll, FoldSet, MapThenFoldSet
<1> HIDE DEF iter
<1>3. \A T \in (SUBSET others) \ {{}} : one(T) \in T
  OBVIOUS
<1>4. IsFiniteSet(others)
  BY FS_Subset
<1>5. ASSUME NEW T \in (SUBSET others) \ {{}}, NEW v \in V PROVE Or(one(T), v) \in V
  <2>1. one(T) \in GlyphCondition
    BY <1>3
  <2> HIDE DEF one
  <2> QED BY <2>1, OrType
<1>6. first \in V
  OBVIOUS
<1> HIDE DEF one, first, others
<1>7. \E h : Sol(h)
  <2>1. /\ pick \in [(SUBSET others) \ {{}} -> others]
        /\ \A T \in (SUBSET others) \ {{}} : pick[T] \in T
    BY <1>3
  <2>2. step \in [V \X (SUBSET others) -> V]
    BY <1>5, <1>6
  <2> HIDE DEF pick, step, V
  <2>3. PICK f \in [SUBSET others -> V] : IsSetRecursion(f, others, first, pick, step)
    BY <1>4, <1>6, <2>1, <2>2, SetRecursionExists
  <2>4. ASSUME NEW T \in SUBSET others
        PROVE  f[T] = IF T = {} THEN first ELSE Or(one(T), f[T \ {one(T)}])
    <3>1. CASE T = {}
      BY <2>3, <3>1 DEF IsSetRecursion
    <3>2. CASE T # {}
      <4>1. pick[T] = one(T)
        BY <3>2 DEF pick
      <4>2. f[T] = step[<<f[T \ {one(T)}], T>>]
        BY <2>3, <3>2, <4>1 DEF IsSetRecursion
      <4>3. f[T \ {one(T)}] \in V
        BY <1>3, <3>2
      <4> QED BY <3>2, <4>2, <4>3 DEF step
    <3> QED BY <3>1, <3>2
  <2>5. Sol(f)
    BY <2>4
  <2> QED BY <2>5
<1>8. Sol(iter)
  <2> HIDE DEF Sol
  <2> QED BY <1>1, <1>7
<1>9. iter[{}] \in good[{}]
  BY <1>6, <1>8
<1>10. ASSUME NEW T \in (SUBSET others) \ {{}}
       PROVE  \E x \in T : iter[T \ {x}] \in good[T \ {x}] => iter[T] \in good[T]
  <2> DEFINE U == T \ {one(T)}
  <2>1. U \in SUBSET others /\ T \in SUBSET others /\ one(T) \in T
    BY <1>3
  <2>2. iter[T] = Or(one(T), iter[U])
    BY <1>8
  <2> HIDE DEF U, V
  <2>3. good[U] = V /\ good[T] = V
    BY <2>1
  <2>4. iter[U] \in V => iter[T] \in V
    BY <1>5, <2>2
  <2> HIDE DEF good
  <2> QED BY <2>1, <2>3, <2>4 DEF U
<1> HIDE DEF Sol
<1>11. iter[others] \in good[others]
  <2> HIDE DEF good
  <2>1. \A T \in SUBSET others : iter[T] \in good[T]
    BY <1>4, <1>9, <1>10, RecursionKeeps
  <2> QED BY <2>1
<1> QED BY <1>2, <1>11

-----------------------------------------------------------------------------
(***************************************************************************)
(* Combining patches touches neither the glyphs' own conditions nor what   *)
(* is grouped by them.                                                     *)
(***************************************************************************)
LEMMA AffectedType ==
  ASSUME NEW G \in Groupings
  PROVE  /\ Affected(G) \in SUBSET GlyphCondition
         /\ IsFiniteSet(Affected(G))
         /\ CombinedBlocks(G) \in SUBSET SUBSET Glyph
<1> DEFINE gs == (UNION G.combined_patches) \cap Mapped(G.pre)
<1>1. \A g \in gs : G.pre[g] \in GlyphCondition
  BY DEF Mapped, Groupings, Table
<1>2. IsFiniteSet(gs)
  BY FontAssumption, FS_Subset DEF Mapped
<1>3. Affected(G) = {G.pre[g] : g \in gs}
  BY DEF Affected
<1> HIDE DEF gs
<1>4. IsFiniteSet({G.pre[g] : g \in gs})
  <2> DEFINE T == {G.pre[g] : g \in gs}
             f == [g \in gs |-> G.pre[g]]
  <2>1. f \in Surjection(gs, T)
    BY DEF Surjection
  <2> HIDE DEF T, f
  <2>2. IsFiniteSet(T)
    BY <1>2, <2>1, FS_Surjection
  <2> QED BY <2>2 DEF T
<1>5. G.combined_patches \in SUBSET SUBSET Glyph
  BY DEF Groupings
<1>6. {GlyphsOf(G.pre, c) : c \in Affected(G)} \in SUBSET SUBSET Glyph
  BY DEF GlyphsOf
<1>7. CombinedBlocks(G) \in SUBSET SUBSET Glyph
  BY <1>5, <1>6, JoinAllType DEF CombinedBlocks
<1> QED BY <1>1, <1>3, <1>4, <1>7

LEMMA SameMerges ==
  ASSUME NEW G, NEW H, SameGroups(H, G), NEW b
  PROVE  MergedConditions(H, b) = MergedConditions(G, b)
<1>1. Affected(H) = Affected(G)
  BY DEF SameGroups, Affected
<1> QED BY <1>1 DEF SameGroups, MergedConditions

LEMMA BlockCombined ==
  ASSUME NEW H \in Groupings, NEW b, NEW affected, MergedConditions(H, b) # {}
  PROVE  /\ CombineBlock(H, b, affected) \in Groupings
         /\ SameGroups(CombineBlock(H, b, affected), H)
<1> DEFINE conditions == MergedConditions(H, b)
           merged == OrAll(conditions)
           own == IF merged \in affected THEN {} ELSE GlyphsOf(H.pre, merged)
           gs == UNION {GlyphsOf(H.pre, c) : c \in conditions}
           post == Assign(H.post, merged, gs \cup own)
           ok == H.ok /\ CanUnion(H.post, merged, gs \cup own)
           U == [H EXCEPT !.post = post, !.ok = ok]
           X == [U EXCEPT !.combined_conditions = @ \cup {merged}]
<1>1. CombineBlock(H, b, affected) = X
  BY DEF CombineBlock, UnionCombined
<1>2. merged \in GlyphCondition
  <2>1. /\ Affected(H) \in SUBSET GlyphCondition /\ IsFiniteSet(Affected(H))
    BY AffectedType
  <2>2. conditions \subseteq Affected(H)
    BY DEF MergedConditions
  <2>3. conditions \in SUBSET GlyphCondition /\ IsFiniteSet(conditions)
    BY <2>1, <2>2, FS_Subset
  <2> HIDE DEF conditions
  <2> QED BY <2>3, OrAllType DEF conditions
<1> HIDE DEF merged, gs, own
<1>3. post \in Table
  BY <1>2 DEF Assign, Table, Groupings
<1>4. ok \in BOOLEAN
  BY DEF Groupings, CanUnion
<1> HIDE DEF post, ok
<1>5. U \in Groupings /\ SameGroups(U, H)
  BY <1>3, <1>4 DEF Groupings, SameGroups
<1> HIDE DEF U
<1>6. X \in Groupings /\ SameGroups(X, U)
  BY <1>2, <1>5 DEF Groupings, SameGroups
<1>7. SameGroups(X, H)
  BY <1>5, <1>6 DEF SameGroups
<1> HIDE DEF X
<1> QED BY <1>1, <1>6, <1>7

LEMMA Separated ==
  ASSUME NEW G \in Groupings
  PROVE  Separate(G) \in Groupings /\ SameGroups(Separate(G), G)
<1> DEFINE merging == UNION {MergedConditions(G, b) : b \in CombinedBlocks(G)}
           whole == UNION {GlyphsOf(G.pre, c) : c \in Affected(G) \ merging}
           post == [g \in Glyph |-> IF G.post[g] \in merging THEN NoCondition
                                    ELSE IF g \in whole THEN G.pre[g]
                                    ELSE G.post[g]]
           exclusive == G.combined_exclusive
                           \cup UNION {TriggeringSegments(c) :
                                          c \in {d \in merging : IsExclusive(d)}}
           can == \A c \in Affected(G) \ merging :
                     CanAdd(G.post, c, GlyphsOf(G.pre, c))
           ok == G.ok /\ can
           H == [G EXCEPT !.post = post, !.combined_exclusive = exclusive, !.ok = ok]
<1>1. Separate(G) = H
  BY DEF Separate
<1>2. post \in Table
  BY DEF Table, Groupings
<1>3. exclusive \in SUBSET Segment
  <2>1. merging \in SUBSET GlyphCondition
    <3>1. Affected(G) \in SUBSET GlyphCondition
      BY AffectedType
    <3> QED BY <3>1 DEF MergedConditions
  <2>2. \A c \in merging : TriggeringSegments(c) \in SUBSET Segment
    <3> HIDE DEF merging
    <3> QED BY <2>1 DEF TriggeringSegments, GlyphCondition, Condition, Group
  <2>3. G.combined_exclusive \in SUBSET Segment
    BY DEF Groupings
  <2> HIDE DEF merging
  <2> QED BY <2>2, <2>3
<1>4. ok \in BOOLEAN
  <2>1. can \in BOOLEAN
    OBVIOUS
  <2> HIDE DEF can
  <2> QED BY <2>1 DEF Groupings
<1> HIDE DEF post, exclusive, ok
<1>5. H \in Groupings /\ SameGroups(H, G)
  BY <1>2, <1>3, <1>4 DEF Groupings, SameGroups
<1> HIDE DEF H
<1> QED BY <1>1, <1>5

LEMMA CombinationsRecomputed ==
  ASSUME NEW G \in Groupings
  PROVE  /\ RecomputeCombinedConditions(G) \in Groupings
         /\ SameGroups(RecomputeCombinedConditions(G), G)
<1> DEFINE merges == {b \in CombinedBlocks(G) : MergedConditions(G, b) # {}}
           first == IF Affected(G) = {} THEN G ELSE Separate(G)
           affected == Affected(G)
           one(T) == CHOOSE x \in T : TRUE
           iter[T \in SUBSET merges] ==
              IF T = {} THEN first
              ELSE LET x == CHOOSE y \in T : TRUE
                   IN CombineBlock(iter[T \ {x}], x, affected)
           Sol(h) == h = [T \in SUBSET merges |->
                             IF T = {} THEN first
                             ELSE CombineBlock(h[T \ {one(T)}], one(T), affected)]
           V == {H \in Groupings : SameGroups(H, G)}
           pick == [T \in (SUBSET merges) \ {{}} |-> one(T)]
           step == [p \in V \X (SUBSET merges) |->
                       IF p[2] = {} THEN first
                       ELSE CombineBlock(p[1], one(p[2]), affected)]
           good == [T \in SUBSET merges |-> V]
<1>1. iter = CHOOSE h : Sol(h)
  OBVIOUS
<1>2. RecomputeCombinedConditions(G) = [iter[merges] EXCEPT !.dirty = FALSE]
  BY DEF RecomputeCombinedConditions, FoldSet, MapThenFoldSet
<1> HIDE DEF iter
<1>3. \A T \in (SUBSET merges) \ {{}} : one(T) \in T
  OBVIOUS
<1>4. IsFiniteSet(merges)
  <2>1. merges \in SUBSET SUBSET Glyph
    BY AffectedType
  <2> HIDE DEF merges
  <2> QED BY <2>1, FontAssumption, FS_SUBSET, FS_Subset
<1>5. ASSUME NEW T \in (SUBSET merges) \ {{}}, NEW H \in V
      PROVE  CombineBlock(H, one(T), affected) \in V
  <2>1. MergedConditions(G, one(T)) # {}
    BY <1>3
  <2> HIDE DEF one, affected
  <2>2. H \in Groupings /\ SameGroups(H, G)
    OBVIOUS
  <2>3. MergedConditions(H, one(T)) # {}
    BY <2>1, <2>2, SameMerges
  <2> DEFINE X == CombineBlock(H, one(T), affected)
  <2>4. X \in Groupings /\ SameGroups(X, H)
    BY <2>2, <2>3, BlockCombined
  <2> HIDE DEF X
  <2>5. SameGroups(X, G)
    BY <2>2, <2>4 DEF SameGroups
  <2> QED BY <2>4, <2>5 DEF X
<1>6. first \in V
  <2>1. SameGroups(G, G)
    BY DEF SameGroups
  <2>2. Separate(G) \in V
    BY Separated
  <2> QED BY <2>1, <2>2
<1> HIDE DEF one, first, merges, affected
<1>7. \E h : Sol(h)
  <2>1. /\ pick \in [(SUBSET merges) \ {{}} -> merges]
        /\ \A T \in (SUBSET merges) \ {{}} : pick[T] \in T
    BY <1>3
  <2>2. step \in [V \X (SUBSET merges) -> V]
    <3> HIDE DEF V
    <3> QED BY <1>5, <1>6
  <2> HIDE DEF pick, step, V
  <2>3. PICK f \in [SUBSET merges -> V] : IsSetRecursion(f, merges, first, pick, step)
    BY <1>4, <1>6, <2>1, <2>2, SetRecursionExists
  <2>4. ASSUME NEW T \in SUBSET merges
        PROVE  f[T] = IF T = {} THEN first
                      ELSE CombineBlock(f[T \ {one(T)}], one(T), affected)
    <3>1. CASE T = {}
      BY <2>3, <3>1 DEF IsSetRecursion
    <3>2. CASE T # {}
      <4>1. pick[T] = one(T)
        BY <3>2 DEF pick
      <4>2. f[T] = step[<<f[T \ {one(T)}], T>>]
        BY <2>3, <3>2, <4>1 DEF IsSetRecursion
      <4>3. f[T \ {one(T)}] \in V
        BY <1>3, <3>2
      <4> QED BY <3>2, <4>2, <4>3 DEF step
    <3> QED BY <3>1, <3>2
  <2>5. Sol(f)
    BY <2>4
  <2> QED BY <2>5
<1>8. Sol(iter)
  <2> HIDE DEF Sol
  <2> QED BY <1>1, <1>7
<1> HIDE DEF V
<1>9. iter[{}] \in good[{}]
  BY <1>6, <1>8
<1>10. ASSUME NEW T \in (SUBSET merges) \ {{}}
       PROVE  \E x \in T : iter[T \ {x}] \in good[T \ {x}] => iter[T] \in good[T]
  <2> DEFINE U == T \ {one(T)}
  <2>1. U \in SUBSET merges /\ T \in SUBSET merges /\ one(T) \in T
    BY <1>3
  <2>2. iter[T] = CombineBlock(iter[U], one(T), affected)
    BY <1>8
  <2> HIDE DEF U
  <2>3. good[U] = V /\ good[T] = V
    BY <2>1
  <2>4. iter[U] \in V => iter[T] \in V
    BY <1>5, <2>2
  <2> HIDE DEF good
  <2> QED BY <2>1, <2>3, <2>4 DEF U
<1> HIDE DEF Sol
<1>11. iter[merges] \in good[merges]
  <2> HIDE DEF good
  <2>1. \A T \in SUBSET merges : iter[T] \in good[T]
    BY <1>4, <1>9, <1>10, RecursionKeeps
  <2> QED BY <2>1
<1>12. iter[merges] \in Groupings /\ SameGroups(iter[merges], G)
  BY <1>11 DEF V
<1> DEFINE L == iter[merges]
<1> HIDE DEF L
<1>13. [L EXCEPT !.dirty = FALSE] \in Groupings /\ SameGroups([L EXCEPT !.dirty = FALSE], L)
  BY <1>12 DEF Groupings, SameGroups, L
<1>14. SameGroups([L EXCEPT !.dirty = FALSE], G)
  BY <1>12, <1>13 DEF SameGroups, L
<1> QED BY <1>2, <1>13, <1>14 DEF L

LEMMA RecomputedIfNeeded ==
  ASSUME NEW G \in Groupings, NEW gs
  PROVE  /\ RecomputeIfNeeded(G, gs) \in Groupings
         /\ SameGroups(RecomputeIfNeeded(G, gs), G)
<1> DEFINE R == RemoveAllCombinedConditions(G)
           touched == ~G.dirty /\ gs \cap UNION G.combined_patches # {}
           H == IF touched THEN R ELSE G
           C == RecomputeCombinedConditions(H)
<1>1. R \in Groupings /\ SameGroups(R, G)
  BY CombinationsRemoved
<1>2. SameGroups(G, G)
  BY DEF SameGroups
<1> HIDE DEF R, touched
<1>3. H \in Groupings /\ SameGroups(H, G)
  BY <1>1, <1>2
<1> HIDE DEF H
<1>4. C \in Groupings /\ SameGroups(C, H)
  BY <1>3, CombinationsRecomputed
<1> HIDE DEF C
<1>5. SameGroups(C, G)
  BY <1>3, <1>4 DEF SameGroups
<1>6. RecomputeIfNeeded(G, gs) = IF H.dirty THEN C ELSE H
  BY DEF RecomputeIfNeeded, C, H, R, touched
<1> QED BY <1>3, <1>4, <1>5, <1>6

-----------------------------------------------------------------------------
(***************************************************************************)
(* Giving glyphs to a condition.                                           *)
(***************************************************************************)
IsAssigned(H, G, c, gs) ==
    /\ H \in Groupings
    /\ H.pre = Assign(G.pre, c, gs)
    /\ H.or_groups = G.or_groups
    /\ H.combined_patches = G.combined_patches
    /\ H.unmapped = G.unmapped
    /\ H.found = G.found

LEMMA Assigned ==
  ASSUME NEW G \in Groupings, NEW c \in GlyphCondition, NEW gs
  PROVE  /\ IsAssigned(AddConditionAndGlyphs(G, c, gs), G, c, gs)
         /\ IsAssigned(UnionConditionAndGlyphs(G, c, gs), G, c, gs)
<1> DEFINE post == Assign(G.post, c, gs)
           pre == Assign(G.pre, c, gs)
           ok1 == G.ok /\ CanAdd(G.post, c, gs) /\ CanAdd(G.pre, c, gs)
           ok2 == G.ok /\ CanUnion(G.post, c, gs) /\ CanUnion(G.pre, c, gs)
           H(ok) == [G EXCEPT !.post = post, !.pre = pre, !.ok = ok]
<1>1. AddConditionAndGlyphs(G, c, gs) = H(ok1) /\ UnionConditionAndGlyphs(G, c, gs) = H(ok2)
  BY DEF AddConditionAndGlyphs, UnionConditionAndGlyphs
<1>2. post \in Table /\ pre \in Table
  BY DEF Assign, Table, Groupings
<1>3. ok1 \in BOOLEAN /\ ok2 \in BOOLEAN
  BY DEF CanAdd, CanUnion, Groupings
<1> HIDE DEF post, pre, ok1, ok2
<1>4. \A ok \in BOOLEAN : /\ H(ok) \in Groupings /\ H(ok).pre = pre
                          /\ H(ok).or_groups = G.or_groups
                          /\ H(ok).combined_patches = G.combined_patches
                          /\ H(ok).unmapped = G.unmapped /\ H(ok).found = G.found
  BY <1>2 DEF Groupings
<1> HIDE DEF H
<1>5. \A ok \in BOOLEAN : IsAssigned(H(ok), G, c, gs)
  BY <1>4 DEF IsAssigned, pre
<1> QED BY <1>1, <1>3, <1>5

AreAdded(H, G, new) ==
    /\ H \in Groupings
    /\ \A g \in Glyph : \/ H.pre[g] = G.pre[g]
                        \/ \E c \in DOMAIN new : g \in new[c] /\ H.pre[g] = c
    /\ H.or_groups = G.or_groups
    /\ H.combined_patches = G.combined_patches
    /\ H.unmapped = G.unmapped
    /\ H.found = G.found

AddsInTurn(h, G, new, rest) ==
    /\ h[{}] = G
    /\ \A T \in (SUBSET rest) \ {{}} : \E x \in T :
          h[T] = AddConditionAndGlyphs(h[T \ {x}], x, new[x])

LEMMA AddedInTurn ==
  ASSUME NEW G \in Groupings, NEW rest \in SUBSET GlyphCondition, IsFiniteSet(rest),
         NEW new, DOMAIN new = rest
  PROVE  \E h : AddAll(G, new) = h[rest] /\ AddsInTurn(h, G, new, rest)
<1> DEFINE one(T) == CHOOSE x \in T : TRUE
           iter[T \in SUBSET rest] ==
              IF T = {} THEN G
              ELSE LET x == CHOOSE y \in T : TRUE
                   IN AddConditionAndGlyphs(iter[T \ {x}], x, new[x])
           next(T, H) == AddConditionAndGlyphs(H, one(T), new[one(T)])
           Sol(h) == h = [T \in SUBSET rest |->
                             IF T = {} THEN G ELSE next(T, h[T \ {one(T)}])]
           V == Groupings
           pick == [T \in (SUBSET rest) \ {{}} |-> one(T)]
           step == [p \in V \X (SUBSET rest) |->
                       IF p[2] = {} THEN G ELSE next(p[2], p[1])]
<1>1. iter = CHOOSE h : Sol(h)
  OBVIOUS
<1>2. AddAll(G, new) = iter[rest]
  BY DEF AddAll, FoldSet, MapThenFoldSet
<1> HIDE DEF iter
<1>3. \A T \in (SUBSET rest) \ {{}} : one(T) \in T
  OBVIOUS
<1>5. ASSUME NEW T \in (SUBSET rest) \ {{}}, NEW H \in V PROVE next(T, H) \in V
  <2> DEFINE c == one(T)
             X == next(T, H)
  <2>1. c \in rest /\ c \in GlyphCondition
    BY <1>3
  <2> HIDE DEF one
  <2>2. IsAssigned(X, H, c, new[c])
    BY <2>1, Assigned
  <2> QED BY <2>2 DEF X, IsAssigned
<1>6. G \in V
  OBVIOUS
<1> HIDE DEF one, next
<1>7. \E h : Sol(h)
  <2>1. /\ pick \in [(SUBSET rest) \ {{}} -> rest]
        /\ \A T \in (SUBSET rest) \ {{}} : pick[T] \in T
    BY <1>3
  <2>2. step \in [V \X (SUBSET rest) -> V]
    <3> HIDE DEF V
    <3> QED BY <1>5, <1>6
  <2> HIDE DEF pick, step, V
  <2>3. PICK f \in [SUBSET rest -> V] : IsSetRecursion(f, rest, G, pick, step)
    BY <1>6, <2>1, <2>2, SetRecursionExists
  <2>4. ASSUME NEW T \in SUBSET rest
        PROVE  f[T] = IF T = {} THEN G ELSE next(T, f[T \ {one(T)}])
    <3>1. CASE T = {}
      BY <2>3, <3>1 DEF IsSetRecursion
    <3>2. CASE T # {}
      <4>1. pick[T] = one(T)
        BY <3>2 DEF pick
      <4>2. f[T] = step[<<f[T \ {one(T)}], T>>]
        BY <2>3, <3>2, <4>1 DEF IsSetRecursion
      <4>3. f[T \ {one(T)}] \in V
        BY <1>3, <3>2
      <4> QED BY <3>2, <4>2, <4>3 DEF step
    <3> QED BY <3>1, <3>2
  <2>5. Sol(f)
    BY <2>4
  <2> QED BY <2>5
<1>8. Sol(iter)
  <2>1. iter = CHOOSE h : Sol(h)
    BY <1>1 DEF next
  <2> HIDE DEF Sol
  <2> QED BY <2>1, <1>7
<1>9. AddsInTurn(iter, G, new, rest)
  <2>1. iter[{}] = G
    BY <1>8
  <2>2. ASSUME NEW T \in (SUBSET rest) \ {{}}
        PROVE  \E x \in T : iter[T] = AddConditionAndGlyphs(iter[T \ {x}], x, new[x])
    <3>1. iter[T] = next(T, iter[T \ {one(T)}])
      BY <1>8
    <3> QED BY <1>3, <3>1 DEF next
  <2> QED BY <2>1, <2>2 DEF AddsInTurn
<1> QED BY <1>2, <1>9

LEMMA AllAdded ==
  ASSUME NEW G \in Groupings, NEW rest \in SUBSET GlyphCondition, IsFiniteSet(rest),
         NEW new, DOMAIN new = rest
  PROVE  AreAdded(AddAll(G, new), G, new)
<1> DEFINE V == {H \in Groupings : AreAdded(H, G, new)}
           good == [T \in SUBSET rest |-> V]
<1>1. PICK h : AddAll(G, new) = h[rest] /\ AddsInTurn(h, G, new, rest)
  BY AddedInTurn
<1>2. ASSUME NEW c \in rest, NEW H \in V
      PROVE  AddConditionAndGlyphs(H, c, new[c]) \in V
  <2> DEFINE X == AddConditionAndGlyphs(H, c, new[c])
  <2>1. IsAssigned(X, H, c, new[c])
    BY Assigned
  <2> HIDE DEF X
  <2>2. AreAdded(H, G, new)
    OBVIOUS
  <2>3. ASSUME NEW g \in Glyph
        PROVE  X.pre[g] = H.pre[g] \/ (g \in new[c] /\ X.pre[g] = c)
    BY <2>1 DEF IsAssigned, Assign
  <2>4. AreAdded(X, G, new)
    BY <2>1, <2>2, <2>3 DEF AreAdded, IsAssigned
  <2> QED BY <2>1, <2>4 DEF X, IsAssigned
<1>3. G \in V
  BY DEF AreAdded
<1>4. h[{}] \in good[{}]
  BY <1>1, <1>3 DEF AddsInTurn
<1>5. ASSUME NEW T \in (SUBSET rest) \ {{}}
      PROVE  \E x \in T : h[T \ {x}] \in good[T \ {x}] => h[T] \in good[T]
  <2>1. PICK x \in T : h[T] = AddConditionAndGlyphs(h[T \ {x}], x, new[x])
    BY <1>1 DEF AddsInTurn
  <2>2. good[T \ {x}] = V /\ good[T] = V
    OBVIOUS
  <2> HIDE DEF V, good
  <2> QED BY <1>2, <2>1, <2>2
<1>6. h[rest] \in good[rest]
  <2> HIDE DEF good
  <2>1. \A T \in SUBSET rest : h[T] \in good[T]
    BY <1>4, <1>5, RecursionKeeps
  <2> QED BY <2>1
<1> QED BY <1>1, <1>6

-----------------------------------------------------------------------------
(***************************************************************************)
(* The agreement of the groups with the conditions cs of the glyphs.  A    *)
(* glyph is grouped by its condition unless the condition was found for    *)
(* it; the disjunctive groups are those of the table, but for the groups   *)
(* of left, which are still to be added; no unmapped glyph is in one of    *)
(* them or in the initial font.                                            *)
(***************************************************************************)
GroupsFollow(G, cs) ==
    \A g \in Mapped(G.pre) \ G.found : G.pre[g] = cs[g]

OrGroupsFollow(G, cs, left) ==
    \A ss \in SUBSET Segment : \A g \in G.or_groups[ss] :
        \/ G.pre[g] = OrSegments(ss)
        \/ ss \in left /\ G.pre[g] = NoCondition /\ cs[g] = OrSegments(ss)

UnmappedApart(G) == \A ss \in SUBSET Segment : G.or_groups[ss] \cap G.unmapped = {}

InGroups(i, cs, G, left) ==
    /\ G \in Groupings
    /\ G.unmapped \subseteq NonInitFontGlyphs(i)
    /\ GroupsFollow(G, cs)
    /\ OrGroupsFollow(G, cs, left)
    /\ UnmappedApart(G)

LEMMA OrConditions ==
  ASSUME NEW ss \in SUBSET Segment
  PROVE  /\ OrSegments(ss) \in GlyphCondition
         /\ OrSegments(ss) # NoCondition
         /\ OrSegments(ss).groups = {ss}
         /\ TriggeringSegments(OrSegments(ss)) = ss
         /\ ~IsExclusive(OrSegments(ss)) /\ IsPurelyDisjunctive(OrSegments(ss))
         /\ ~IsAlwaysTrue(OrSegments(ss))
         /\ \A tt : OrSegments(tt) = OrSegments(ss) => tt = ss
<1>1. OrSegments(ss).groups = {ss} /\ OrSegments(ss).exclusive = FALSE
  BY DEF OrSegments
<1>2. OrSegments(ss) \in GlyphCondition
  BY DEF OrSegments, GlyphCondition, Condition, Group, IsExclusive
<1>3. ASSUME NEW tt, OrSegments(tt) = OrSegments(ss) PROVE tt = ss
  <2>1. OrSegments(tt).groups = {tt}
    BY DEF OrSegments
  <2> QED BY <1>1, <1>3, <2>1
<1> QED
  BY <1>1, <1>2, <1>3, NoConditionAssumption
     DEF GlyphCondition, TriggeringSegments, IsExclusive, IsPurelyDisjunctive, IsAlwaysTrue

LEMMA OrGroupsApart ==
  ASSUME NEW G, NEW cs, NEW left, OrGroupsFollow(G, cs, left),
         NEW ss \in SUBSET Segment, NEW tt \in SUBSET Segment, ss # tt
  PROVE  G.or_groups[ss] \cap G.or_groups[tt] = {}
<1> SUFFICES ASSUME NEW g \in G.or_groups[ss], g \in G.or_groups[tt] PROVE FALSE
  OBVIOUS
<1>1. /\ OrSegments(ss) # NoCondition /\ OrSegments(tt) # NoCondition
      /\ OrSegments(ss) # OrSegments(tt)
  BY OrConditions
<1>2. \/ G.pre[g] = OrSegments(ss)
      \/ G.pre[g] = NoCondition /\ cs[g] = OrSegments(ss)
  BY DEF OrGroupsFollow
<1>3. \/ G.pre[g] = OrSegments(tt)
      \/ G.pre[g] = NoCondition /\ cs[g] = OrSegments(tt)
  BY DEF OrGroupsFollow
<1> QED BY <1>1, <1>2, <1>3

LEMMA OthersOutside ==
  ASSUME NEW i, InfoOK(i), NEW ss \in SUBSET Segment
  PROVE  AnalyzeSegment(i, ss).or \subseteq NonInitFontGlyphs(i)
<1>1. CASE ss = {}
  BY <1>1 DEF AnalyzeSegment
<1>2. CASE ss # {}
  <2>1. AnalyzeSegment(i, ss).or
           \subseteq Closure(i.font, CombinedDefinition(i, ss)) \ i.init.gids
    BY <1>2 DEF AnalyzeSegment
  <2> QED BY <2>1, ClosureOfSegments DEF NonInitFontGlyphs
<1> QED BY <1>1, <1>2

LEMMA OrGroupAdded ==
  ASSUME NEW i, InfoOK(i), NEW cs, NEW left, NEW G, InGroups(i, cs, G, left),
         NEW ss \in SUBSET Segment
  PROVE  InGroups(i, cs, AddOrGroup(G, i, ss), left \ {ss})
<1> DEFINE others == AnalyzeSegment(i, Segment \ ss).or
           kept == G.or_groups[ss] \ others
           c == OrSegments(ss)
           unmapped == G.unmapped \cup (G.or_groups[ss] \cap others)
           ors == [G.or_groups EXCEPT ![ss] = kept]
           H == [G EXCEPT !.unmapped = unmapped, !.or_groups[ss] = kept]
           gs == GlyphsOf(G.pre, c)
           U == [H EXCEPT !.post = Unset(@, GlyphsOf(@, c)),
                          !.pre = Unset(@, GlyphsOf(@, c))]
           A == AddConditionAndGlyphs(H, c, kept)
           X == AddOrGroup(G, i, ss)
<1>1. X = IF kept = {} THEN U ELSE A
  BY DEF AddOrGroup
<1>2. others \subseteq NonInitFontGlyphs(i)
  BY OthersOutside
<1>3. /\ c \in GlyphCondition /\ c # NoCondition
      /\ \A tt : OrSegments(tt) = c => tt = ss
  BY OrConditions
<1>4. G \in Groupings
  BY DEF InGroups
<1>5. G.or_groups[ss] \in SUBSET Glyph
  BY <1>4 DEF Groupings
<1> HIDE DEF others, c
<1>6. /\ kept \in SUBSET Glyph /\ unmapped \in SUBSET Glyph
      /\ ors \in [SUBSET Segment -> SUBSET Glyph]
      /\ ors[ss] = kept
      /\ \A tt \in SUBSET Segment : tt # ss => ors[tt] = G.or_groups[tt]
  BY <1>4, <1>5 DEF Groupings
<1> HIDE DEF kept, unmapped, ors
<1>7. /\ H \in Groupings /\ H.or_groups = ors /\ H.unmapped = unmapped
      /\ H.found = G.found /\ H.pre = G.pre
  <2>1. H = [G EXCEPT !.unmapped = unmapped, !.or_groups = ors]
    BY DEF ors
  <2> HIDE DEF H
  <2> QED BY <1>4, <1>6, <2>1 DEF Groupings
<1> HIDE DEF H
<1>8. /\ U \in Groupings /\ U.or_groups = ors /\ U.unmapped = unmapped
      /\ U.found = G.found /\ U.pre = Unset(G.pre, gs)
  <2> DEFINE post == Unset(H.post, GlyphsOf(H.post, c))
             pre == Unset(H.pre, GlyphsOf(H.pre, c))
  <2>1. U = [H EXCEPT !.post = post, !.pre = pre]
    OBVIOUS
  <2>2. post \in Table /\ pre \in Table
    BY <1>7 DEF Unset, Table, Groupings
  <2>3. pre = Unset(G.pre, gs)
    BY <1>7
  <2> HIDE DEF U, post, pre
  <2> QED BY <1>7, <2>1, <2>2, <2>3 DEF Groupings
<1>9. /\ A \in Groupings /\ A.or_groups = ors /\ A.unmapped = unmapped
      /\ A.found = G.found /\ A.pre = Assign(G.pre, c, kept)
  <2>1. IsAssigned(A, H, c, kept)
    BY <1>3, <1>7, Assigned
  <2> QED BY <1>7, <2>1 DEF IsAssigned
<1> HIDE DEF U, A, X
<1>10. /\ X \in Groupings /\ X.or_groups = ors /\ X.unmapped = unmapped
       /\ X.found = G.found
       /\ kept = {} => X.pre = Unset(G.pre, gs)
       /\ kept # {} => X.pre = Assign(G.pre, c, kept)
  BY <1>1, <1>8, <1>9
<1>11. \A tt \in SUBSET Segment : tt # ss => G.or_groups[tt] \cap G.or_groups[ss] = {}
  BY OrGroupsApart DEF InGroups
<1>12. X.unmapped \subseteq NonInitFontGlyphs(i)
  BY <1>2, <1>10 DEF InGroups, unmapped
<1>13. UnmappedApart(X)
  <2> SUFFICES ASSUME NEW tt \in SUBSET Segment PROVE ors[tt] \cap unmapped = {}
    BY <1>10 DEF UnmappedApart
  <2>1. G.or_groups[tt] \cap G.unmapped = {} /\ G.or_groups[ss] \cap G.unmapped = {}
    BY DEF InGroups, UnmappedApart
  <2>2. CASE tt = ss
    BY <1>6, <2>1, <2>2 DEF kept, unmapped
  <2>3. CASE tt # ss
    BY <1>6, <1>11, <2>1, <2>3 DEF unmapped
  <2> QED BY <2>2, <2>3
<1>14. \A g \in kept : \/ G.pre[g] = c
                       \/ G.pre[g] = NoCondition /\ cs[g] = c
  BY DEF InGroups, OrGroupsFollow, kept, c
<1>15. GroupsFollow(X, cs)
  <2> SUFFICES ASSUME NEW g \in Glyph, X.pre[g] # NoCondition, g \notin X.found
               PROVE  X.pre[g] = cs[g]
    BY DEF GroupsFollow, Mapped
  <2>1. G.pre[g] # NoCondition => G.pre[g] = cs[g]
    BY <1>10 DEF InGroups, GroupsFollow, Mapped
  <2>2. CASE kept = {}
    BY <1>10, <2>1, <2>2 DEF Unset
  <2>3. CASE kept # {} /\ g \in kept
    BY <1>3, <1>10, <1>14, <2>1, <2>3 DEF Assign
  <2>4. CASE kept # {} /\ g \notin kept
    BY <1>10, <2>1, <2>4 DEF Assign
  <2> QED BY <2>2, <2>3, <2>4
<1>16. OrGroupsFollow(X, cs, left \ {ss})
  <2> SUFFICES ASSUME NEW tt \in SUBSET Segment, NEW g \in ors[tt]
               PROVE  \/ X.pre[g] = OrSegments(tt)
                      \/ /\ tt \in left \ {ss} /\ X.pre[g] = NoCondition
                         /\ cs[g] = OrSegments(tt)
    BY <1>10 DEF OrGroupsFollow
  <2>0. g \in Glyph
    BY <1>6
  <2>1. CASE tt = ss
    <3>1. g \in kept
      BY <1>6, <2>1
    <3>2. X.pre[g] = c
      BY <1>10, <2>0, <3>1 DEF Assign
    <3> QED BY <2>1, <3>2 DEF c
  <2>2. CASE tt # ss
    <3>1. g \in G.or_groups[tt]
      BY <1>6, <2>2
    <3>2. \/ G.pre[g] = OrSegments(tt)
          \/ tt \in left /\ G.pre[g] = NoCondition /\ cs[g] = OrSegments(tt)
      BY <3>1 DEF InGroups, OrGroupsFollow
    <3>3. g \notin kept /\ OrSegments(tt) # c
      BY <1>3, <1>11, <2>2, <3>1 DEF kept
    <3>4. G.pre[g] # c
      BY <1>3, <3>2, <3>3
    <3>5. X.pre[g] = G.pre[g]
      BY <1>10, <2>0, <3>3, <3>4 DEF Unset, Assign, GlyphsOf
    <3> QED BY <2>2, <3>2, <3>5
  <2> QED BY <2>1, <2>2
<1> QED BY <1>10, <1>12, <1>13, <1>15, <1>16 DEF InGroups, X

AddOrGroups(i, G, sets) == FoldSet(LAMBDA ss, H : AddOrGroup(H, i, ss), G, sets)

AddsOrGroupsInTurn(h, i, cs, G, ors) ==
    /\ h[{}] = G
    /\ \A T \in SUBSET ors : InGroups(i, cs, h[T], ors \ T)
    /\ \A T \in (SUBSET ors) \ {{}} : \E x \in T :
          h[T] = AddOrGroup(h[T \ {x}], i, x)

LEMMA OrGroupsInTurn ==
  ASSUME NEW i, InfoOK(i), NEW cs, NEW ors \in SUBSET SUBSET Segment, NEW G,
         InGroups(i, cs, G, ors)
  PROVE  \E h : /\ AddOrGroups(i, G, ors) = h[ors]
                /\ AddsOrGroupsInTurn(h, i, cs, G, ors)
<1> DEFINE one(T) == CHOOSE x \in T : TRUE
           iter[T \in SUBSET ors] ==
              IF T = {} THEN G
              ELSE LET x == CHOOSE y \in T : TRUE IN AddOrGroup(iter[T \ {x}], i, x)
           next(T, H) == AddOrGroup(H, i, one(T))
           Sol(h) == h = [T \in SUBSET ors |->
                             IF T = {} THEN G ELSE next(T, h[T \ {one(T)}])]
           V == {H \in Groupings : InGroups(i, cs, H, ors)}
           pick == [T \in (SUBSET ors) \ {{}} |-> one(T)]
           step == [p \in V \X (SUBSET ors) |->
                       IF p[2] = {} THEN G ELSE next(p[2], p[1])]
           good == [T \in SUBSET ors |->
                       {H \in Groupings : InGroups(i, cs, H, ors \ T)}]
<1>1. iter = CHOOSE h : Sol(h)
  OBVIOUS
<1>2. AddOrGroups(i, G, ors) = iter[ors]
  BY DEF AddOrGroups, FoldSet, MapThenFoldSet
<1> HIDE DEF iter
<1>3. \A T \in (SUBSET ors) \ {{}} : one(T) \in T
  OBVIOUS
<1>4. IsFiniteSet(ors)
  BY SegmentAssumption, FS_SUBSET, FS_Subset
<1>5. ASSUME NEW T \in (SUBSET ors) \ {{}}, NEW left, NEW H, InGroups(i, cs, H, left)
      PROVE  InGroups(i, cs, next(T, H), left \ {one(T)})
  <2>1. one(T) \in SUBSET Segment
    BY <1>3
  <2> HIDE DEF one
  <2> QED BY <1>5, <2>1, OrGroupAdded
<1>6. G \in V
  BY DEF InGroups
<1> HIDE DEF one, next
<1>7. \E h : Sol(h)
  <2>1. /\ pick \in [(SUBSET ors) \ {{}} -> ors]
        /\ \A T \in (SUBSET ors) \ {{}} : pick[T] \in T
    BY <1>3
  <2>2. ASSUME NEW T \in (SUBSET ors) \ {{}}, NEW H \in V PROVE next(T, H) \in V
    <3>1. InGroups(i, cs, next(T, H), ors \ {one(T)})
      BY <1>5
    <3>2. InGroups(i, cs, next(T, H), ors)
      BY <3>1 DEF InGroups, OrGroupsFollow
    <3> QED BY <3>2 DEF InGroups
  <2>3. step \in [V \X (SUBSET ors) -> V]
    <3> HIDE DEF V
    <3> QED BY <1>6, <2>2
  <2> HIDE DEF pick, step, V
  <2>4. PICK f \in [SUBSET ors -> V] : IsSetRecursion(f, ors, G, pick, step)
    BY <1>4, <1>6, <2>1, <2>3, SetRecursionExists
  <2>5. ASSUME NEW T \in SUBSET ors
        PROVE  f[T] = IF T = {} THEN G ELSE next(T, f[T \ {one(T)}])
    <3>1. CASE T = {}
      BY <2>4, <3>1 DEF IsSetRecursion
    <3>2. CASE T # {}
      <4>1. pick[T] = one(T)
        BY <3>2 DEF pick
      <4>2. f[T] = step[<<f[T \ {one(T)}], T>>]
        BY <2>4, <3>2, <4>1 DEF IsSetRecursion
      <4>3. f[T \ {one(T)}] \in V
        BY <1>3, <3>2
      <4> QED BY <3>2, <4>2, <4>3 DEF step
    <3> QED BY <3>1, <3>2
  <2>6. Sol(f)
    BY <2>5
  <2> QED BY <2>6
<1>8. Sol(iter)
  <2>1. iter = CHOOSE h : Sol(h)
    BY <1>1 DEF next
  <2> HIDE DEF Sol
  <2> QED BY <2>1, <1>7
<1>9. iter[{}] \in good[{}]
  <2>1. iter[{}] = G
    BY <1>8
  <2>2. ors \ {} = ors
    OBVIOUS
  <2> QED BY <1>6, <2>1, <2>2
<1>10. ASSUME NEW T \in (SUBSET ors) \ {{}}
       PROVE  \E x \in T : iter[T \ {x}] \in good[T \ {x}] => iter[T] \in good[T]
  <2> DEFINE U == T \ {one(T)}
  <2>1. U \in SUBSET ors /\ T \in SUBSET ors /\ one(T) \in T
    BY <1>3
  <2>2. iter[T] = next(T, iter[U])
    BY <1>8
  <2>3. (ors \ U) \ {one(T)} = ors \ T
    BY <2>1
  <2> HIDE DEF U
  <2>4. ASSUME iter[U] \in good[U] PROVE iter[T] \in good[T]
    <3>1. InGroups(i, cs, iter[U], ors \ U)
      BY <2>1, <2>4
    <3>2. InGroups(i, cs, iter[T], (ors \ U) \ {one(T)})
      BY <1>5, <2>2, <3>1
    <3>3. InGroups(i, cs, iter[T], ors \ T)
      BY <2>3, <3>2
    <3> QED BY <2>1, <3>3 DEF InGroups
  <2> HIDE DEF good
  <2> QED BY <2>1, <2>4 DEF U
<1>11. \A T \in SUBSET ors : InGroups(i, cs, iter[T], ors \ T)
  <2>1. \A T \in SUBSET ors : iter[T] \in good[T]
    <3> HIDE DEF good, Sol
    <3> QED BY <1>4, <1>9, <1>10, RecursionKeeps
  <2> HIDE DEF Sol
  <2> QED BY <2>1
<1>12. ASSUME NEW T \in (SUBSET ors) \ {{}}
       PROVE  \E x \in T : iter[T] = AddOrGroup(iter[T \ {x}], i, x)
  <2>1. iter[T] = next(T, iter[T \ {one(T)}])
    BY <1>8
  <2> QED BY <1>3, <2>1 DEF next
<1>13. AddsOrGroupsInTurn(iter, i, cs, G, ors)
  <2>1. iter[{}] = G
    BY <1>8
  <2> HIDE DEF Sol
  <2> QED BY <1>11, <1>12, <2>1 DEF AddsOrGroupsInTurn
<1> QED BY <1>2, <1>13

LEMMA OrGroupsAdded ==
  ASSUME NEW i, InfoOK(i), NEW cs, NEW ors \in SUBSET SUBSET Segment, NEW G,
         InGroups(i, cs, G, ors)
  PROVE  InGroups(i, cs, AddOrGroups(i, G, ors), {})
<1>1. PICK h : /\ AddOrGroups(i, G, ors) = h[ors]
               /\ AddsOrGroupsInTurn(h, i, cs, G, ors)
  BY OrGroupsInTurn
<1>2. ors \ ors = {}
  OBVIOUS
<1>3. InGroups(i, cs, h[ors], ors \ ors)
  BY <1>1 DEF AddsOrGroupsInTurn
<1> QED BY <1>1, <1>2, <1>3

-----------------------------------------------------------------------------
(***************************************************************************)
(* Unmapped glyphs and the conditions found for them.  While they are      *)
(* assigned, those of the sets in done are.                                *)
(***************************************************************************)
WhileAssigning(i, cs, H, found, done) ==
    /\ InGroups(i, cs, H, {})
    /\ H.unmapped = {}
    /\ DOMAIN found \subseteq H.found
    /\ \A ss \in SUBSET Segment : \A g \in H.or_groups[ss] \cap DOMAIN found :
          found[g] \in done

LEMMA FoundAssigned ==
  ASSUME NEW i, NEW cs, NEW found, NEW done, NEW H,
         WhileAssigning(i, cs, H, found, done), DOMAIN found \in SUBSET Glyph,
         NEW ss \in SUBSET Segment, ss \notin done
  PROVE  WhileAssigning(i, cs, AssignFound(H, ss, {g \in DOMAIN found : found[g] = ss}),
                        found, done \cup {ss})
<1> DEFINE gs == {g \in DOMAIN found : found[g] = ss}
           X == AssignFound(H, ss, gs)
           least == Least(ss)
           E == [H EXCEPT !.exclusive_groups[least] = @ \cup gs]
           O == [H EXCEPT !.or_groups[ss] = @ \cup gs]
           ors == [H.or_groups EXCEPT ![ss] = @ \cup gs]
<1>1. X = IF Cardinality(ss) = 1 THEN UnionConditionAndGlyphs(E, ExclusiveSegment(least), gs)
          ELSE UnionConditionAndGlyphs(O, OrSegments(ss), gs)
  BY DEF AssignFound
<1>2. H \in Groupings
  BY DEF WhileAssigning, InGroups
<1>3. gs \in SUBSET Glyph /\ gs \subseteq H.found
  BY DEF WhileAssigning
<1>4. \A tt \in SUBSET Segment : H.or_groups[tt] \cap gs = {}
  BY DEF WhileAssigning
<1>5. \A tt \in SUBSET Segment : \A g \in H.or_groups[tt] : H.pre[g] = OrSegments(tt)
  BY DEF WhileAssigning, InGroups, OrGroupsFollow
<1>6. \A tt \in SUBSET Segment : \A g \in H.or_groups[tt] \cap DOMAIN found : found[g] \in done
  BY DEF WhileAssigning
<1>7. GroupsFollow(H, cs)
  BY DEF WhileAssigning, InGroups
<1>8. DOMAIN found \subseteq H.found /\ H.unmapped = {}
  BY DEF WhileAssigning
<1>9. \A g \in gs : g \in DOMAIN found /\ found[g] = ss
  OBVIOUS
<1>10. /\ ors \in [SUBSET Segment -> SUBSET Glyph]
       /\ ors[ss] = H.or_groups[ss] \cup gs
       /\ \A tt \in SUBSET Segment : tt # ss => ors[tt] = H.or_groups[tt]
  BY <1>2, <1>3 DEF Groupings
<1> HIDE DEF gs, ors
<1>11. ASSUME NEW Y, Y \in Groupings, NEW c, Y.pre = Assign(H.pre, c, gs),
              Y.found = H.found, Y.unmapped = H.unmapped,
              Y.or_groups = H.or_groups \/ (Y.or_groups = ors /\ c = OrSegments(ss))
       PROVE  WhileAssigning(i, cs, Y, found, done \cup {ss})
  <2>1. \A tt \in SUBSET Segment : \A g \in Y.or_groups[tt] :
            \/ g \in H.or_groups[tt] /\ g \notin gs
            \/ g \in gs /\ tt = ss /\ c = OrSegments(ss)
    BY <1>4, <1>10, <1>11
  <2>2. \A tt \in SUBSET Segment : Y.or_groups[tt] \subseteq Glyph
    BY <1>11 DEF Groupings
  <2>3. GroupsFollow(Y, cs)
    <3> SUFFICES ASSUME NEW g \in Glyph, Y.pre[g] # NoCondition, g \notin Y.found
                 PROVE  Y.pre[g] = cs[g]
      BY DEF GroupsFollow, Mapped
    <3>1. g \notin gs
      BY <1>3, <1>11
    <3>2. Y.pre[g] = H.pre[g]
      BY <1>11, <3>1 DEF Assign
    <3> QED BY <1>7, <1>11, <3>2 DEF GroupsFollow, Mapped
  <2>4. OrGroupsFollow(Y, cs, {})
    <3> SUFFICES ASSUME NEW tt \in SUBSET Segment, NEW g \in Y.or_groups[tt]
                 PROVE  Y.pre[g] = OrSegments(tt)
      BY DEF OrGroupsFollow
    <3>1. g \in Glyph
      BY <2>2
    <3>2. CASE g \in H.or_groups[tt] /\ g \notin gs
      BY <1>5, <1>11, <3>1, <3>2 DEF Assign
    <3>3. CASE g \in gs /\ tt = ss /\ c = OrSegments(ss)
      BY <1>11, <3>1, <3>3 DEF Assign
    <3> QED BY <2>1, <3>2, <3>3
  <2>5. \A tt \in SUBSET Segment : \A g \in Y.or_groups[tt] \cap DOMAIN found :
            found[g] \in done \cup {ss}
    BY <1>6, <1>9, <2>1
  <2>6. UnmappedApart(Y) /\ Y.unmapped \subseteq NonInitFontGlyphs(i)
    BY <1>8, <1>11 DEF UnmappedApart
  <2> QED BY <1>8, <1>11, <2>3, <2>4, <2>5, <2>6 DEF WhileAssigning, InGroups
<1>12. CASE Cardinality(ss) = 1
  <2>1. ss # {}
    BY <1>12, FS_EmptySet
  <2>2. least \in Segment
    BY <2>1, LeastIsElement
  <2> HIDE DEF least
  <2>3. ExclusiveSegment(least) \in GlyphCondition
    BY <2>2 DEF ExclusiveSegment, GlyphCondition, Condition, Group, IsUnitary
  <2>4. E \in Groupings /\ SameGroups(E, [H EXCEPT !.exclusive_groups = E.exclusive_groups])
    <3> DEFINE ex == [H.exclusive_groups EXCEPT ![least] = @ \cup gs]
    <3>1. ex \in [Segment -> SUBSET Glyph]
      BY <1>2, <1>3 DEF Groupings
    <3>2. E = [H EXCEPT !.exclusive_groups = ex]
      OBVIOUS
    <3> HIDE DEF ex, E
    <3> QED BY <1>2, <3>1, <3>2 DEF Groupings, SameGroups
  <2>5. E.pre = H.pre /\ E.or_groups = H.or_groups /\ E.unmapped = H.unmapped /\ E.found = H.found
    BY <1>2, <2>4 DEF SameGroups, Groupings
  <2>6. X = UnionConditionAndGlyphs(E, ExclusiveSegment(least), gs)
    BY <1>1, <1>12
  <2> HIDE DEF E, X
  <2>7. IsAssigned(X, E, ExclusiveSegment(least), gs)
    BY <2>3, <2>4, <2>6, Assigned
  <2>8. WhileAssigning(i, cs, X, found, done \cup {ss})
    BY <1>11, <2>5, <2>7 DEF IsAssigned
  <2> QED BY <2>8 DEF X, gs
<1>13. CASE Cardinality(ss) # 1
  <2>1. O \in Groupings /\ O.pre = H.pre /\ O.or_groups = ors
        /\ O.unmapped = H.unmapped /\ O.found = H.found
    <3>1. O = [H EXCEPT !.or_groups = ors]
      BY DEF ors
    <3> HIDE DEF O
    <3> QED BY <1>2, <1>10, <3>1 DEF Groupings
  <2>2. X = UnionConditionAndGlyphs(O, OrSegments(ss), gs)
    BY <1>1, <1>13
  <2>3. OrSegments(ss) \in GlyphCondition
    BY OrConditions
  <2> HIDE DEF O, X
  <2>4. IsAssigned(X, O, OrSegments(ss), gs)
    BY <2>1, <2>2, <2>3, Assigned
  <2>5. WhileAssigning(i, cs, X, found, done \cup {ss})
    BY <1>11, <2>1, <2>4 DEF IsAssigned
  <2> QED BY <2>5 DEF X, gs
<1> QED BY <1>12, <1>13

LEMMA AssignFoundType ==
  ASSUME NEW H \in Groupings, NEW ss \in SUBSET Segment, NEW gs \in SUBSET Glyph
  PROVE  AssignFound(H, ss, gs) \in Groupings
<1> DEFINE least == Least(ss)
           E == [H EXCEPT !.exclusive_groups[least] = @ \cup gs]
           O == [H EXCEPT !.or_groups[ss] = @ \cup gs]
<1>1. CASE Cardinality(ss) = 1
  <2>1. ss # {}
    BY <1>1, FS_EmptySet
  <2>2. least \in Segment
    BY <2>1, LeastIsElement
  <2> HIDE DEF least
  <2>3. ExclusiveSegment(least) \in GlyphCondition
    BY <2>2 DEF ExclusiveSegment, GlyphCondition, Condition, Group, IsUnitary
  <2>4. E \in Groupings
    <3> DEFINE ex == [H.exclusive_groups EXCEPT ![least] = @ \cup gs]
    <3>1. ex \in [Segment -> SUBSET Glyph]
      BY DEF Groupings
    <3>2. E = [H EXCEPT !.exclusive_groups = ex]
      OBVIOUS
    <3> HIDE DEF ex, E
    <3> QED BY <3>1, <3>2 DEF Groupings
  <2>5. AssignFound(H, ss, gs) = UnionConditionAndGlyphs(E, ExclusiveSegment(least), gs)
    BY <1>1 DEF AssignFound, least
  <2> HIDE DEF E
  <2> QED BY <2>3, <2>4, <2>5, Assigned DEF IsAssigned
<1>2. CASE Cardinality(ss) # 1
  <2>1. O \in Groupings
    <3> DEFINE ors == [H.or_groups EXCEPT ![ss] = @ \cup gs]
    <3>1. ors \in [SUBSET Segment -> SUBSET Glyph]
      BY DEF Groupings
    <3>2. O = [H EXCEPT !.or_groups = ors]
      OBVIOUS
    <3> HIDE DEF ors, O
    <3> QED BY <3>1, <3>2 DEF Groupings
  <2>2. AssignFound(H, ss, gs) = UnionConditionAndGlyphs(O, OrSegments(ss), gs)
    BY <1>2 DEF AssignFound
  <2>3. OrSegments(ss) \in GlyphCondition
    BY OrConditions
  <2> HIDE DEF O
  <2> QED BY <2>1, <2>2, <2>3, Assigned DEF IsAssigned
<1> QED BY <1>1, <1>2

AssignAll(found, G, S) ==
    FoldSet(LAMBDA ss, H : AssignFound(H, ss, {g \in DOMAIN found : found[g] = ss}), G, S)

AssignsInTurn(h, i, cs, found, G, S) ==
    /\ h[{}] = G
    /\ \A T \in SUBSET S : WhileAssigning(i, cs, h[T], found, T)
    /\ \A T \in (SUBSET S) \ {{}} : \E x \in T :
          h[T] = AssignFound(h[T \ {x}], x, {g \in DOMAIN found : found[g] = x})

LEMMA FoundInTurn ==
  ASSUME NEW i, NEW cs, NEW found, DOMAIN found \in SUBSET Glyph,
         NEW S \in SUBSET SUBSET Segment, NEW G, WhileAssigning(i, cs, G, found, {})
  PROVE  \E h : /\ AssignAll(found, G, S) = h[S]
                /\ AssignsInTurn(h, i, cs, found, G, S)
<1> DEFINE of(ss) == {g \in DOMAIN found : found[g] = ss}
           one(T) == CHOOSE x \in T : TRUE
           iter[T \in SUBSET S] ==
              IF T = {} THEN G
              ELSE LET x == CHOOSE y \in T : TRUE IN AssignFound(iter[T \ {x}], x, of(x))
           next(T, H) == AssignFound(H, one(T), of(one(T)))
           Sol(h) == h = [T \in SUBSET S |->
                             IF T = {} THEN G ELSE next(T, h[T \ {one(T)}])]
           V == Groupings
           pick == [T \in (SUBSET S) \ {{}} |-> one(T)]
           step == [p \in V \X (SUBSET S) |->
                       IF p[2] = {} THEN G ELSE next(p[2], p[1])]
           good == [T \in SUBSET S |->
                       {H \in Groupings : WhileAssigning(i, cs, H, found, T)}]
           ff == AssignAll(found, G, S)
<1>1. iter = CHOOSE h : Sol(h)
  OBVIOUS
<1>2. ff = iter[S]
  BY DEF AssignAll, FoldSet, MapThenFoldSet
<1> HIDE DEF iter, ff
<1>3. \A T \in (SUBSET S) \ {{}} : one(T) \in T
  OBVIOUS
<1>4. IsFiniteSet(S)
  BY SegmentAssumption, FS_SUBSET, FS_Subset
<1>5. ASSUME NEW T \in (SUBSET S) \ {{}}, NEW done, one(T) \notin done,
             NEW H, WhileAssigning(i, cs, H, found, done)
      PROVE  WhileAssigning(i, cs, next(T, H), found, done \cup {one(T)})
  <2>1. one(T) \in SUBSET Segment
    BY <1>3
  <2> HIDE DEF one
  <2> QED BY <1>5, <2>1, FoundAssigned
<1>6. G \in V
  BY DEF WhileAssigning, InGroups
<1>7. ASSUME NEW T \in (SUBSET S) \ {{}}, NEW H \in V PROVE next(T, H) \in V
  <2>1. one(T) \in SUBSET Segment
    BY <1>3
  <2>2. of(one(T)) \in SUBSET Glyph
    OBVIOUS
  <2> HIDE DEF one, of
  <2> QED BY <2>1, <2>2, AssignFoundType
<1> HIDE DEF one, next, of
<1>8. \E h : Sol(h)
  <2>1. /\ pick \in [(SUBSET S) \ {{}} -> S]
        /\ \A T \in (SUBSET S) \ {{}} : pick[T] \in T
    BY <1>3
  <2>2. step \in [V \X (SUBSET S) -> V]
    <3> HIDE DEF V
    <3> QED BY <1>6, <1>7
  <2> HIDE DEF pick, step, V
  <2>3. PICK f \in [SUBSET S -> V] : IsSetRecursion(f, S, G, pick, step)
    BY <1>4, <1>6, <2>1, <2>2, SetRecursionExists
  <2>4. ASSUME NEW T \in SUBSET S
        PROVE  f[T] = IF T = {} THEN G ELSE next(T, f[T \ {one(T)}])
    <3>1. CASE T = {}
      BY <2>3, <3>1 DEF IsSetRecursion
    <3>2. CASE T # {}
      <4>1. pick[T] = one(T)
        BY <3>2 DEF pick
      <4>2. f[T] = step[<<f[T \ {one(T)}], T>>]
        BY <2>3, <3>2, <4>1 DEF IsSetRecursion
      <4>3. f[T \ {one(T)}] \in V
        BY <1>3, <3>2
      <4> QED BY <3>2, <4>2, <4>3 DEF step
    <3> QED BY <3>1, <3>2
  <2>5. Sol(f)
    BY <2>4
  <2> QED BY <2>5
<1>9. Sol(iter)
  <2>1. iter = CHOOSE h : Sol(h)
    BY <1>1 DEF next, one
  <2> HIDE DEF Sol
  <2> QED BY <2>1, <1>8
<1>10. iter[{}] \in good[{}]
  <2>1. iter[{}] = G
    BY <1>9
  <2> QED BY <1>6, <2>1
<1>11. ASSUME NEW T \in (SUBSET S) \ {{}}
       PROVE  \E x \in T : iter[T \ {x}] \in good[T \ {x}] => iter[T] \in good[T]
  <2> DEFINE U == T \ {one(T)}
  <2>1. U \in SUBSET S /\ T \in SUBSET S /\ one(T) \in T /\ one(T) \notin U
    BY <1>3
  <2>2. iter[T] = next(T, iter[U])
    BY <1>9
  <2>3. U \cup {one(T)} = T
    BY <2>1
  <2> HIDE DEF U
  <2>4. ASSUME iter[U] \in good[U] PROVE iter[T] \in good[T]
    <3>1. WhileAssigning(i, cs, iter[U], found, U)
      BY <2>1, <2>4
    <3>2. WhileAssigning(i, cs, iter[T], found, U \cup {one(T)})
      BY <1>5, <2>1, <2>2, <3>1
    <3>3. WhileAssigning(i, cs, iter[T], found, T)
      BY <2>3, <3>2
    <3> QED BY <2>1, <3>3 DEF WhileAssigning, InGroups
  <2> HIDE DEF good
  <2> QED BY <2>1, <2>4 DEF U
<1>12. \A T \in SUBSET S : WhileAssigning(i, cs, iter[T], found, T)
  <2>1. \A T \in SUBSET S : iter[T] \in good[T]
    <3> HIDE DEF good, Sol
    <3> QED BY <1>4, <1>10, <1>11, RecursionKeeps
  <2> HIDE DEF Sol
  <2> QED BY <2>1
<1>13. ASSUME NEW T \in (SUBSET S) \ {{}}
       PROVE  \E x \in T : iter[T] = AssignFound(iter[T \ {x}], x, of(x))
  <2>1. iter[T] = next(T, iter[T \ {one(T)}])
    BY <1>9
  <2> QED BY <1>3, <2>1 DEF next
<1>14. AssignsInTurn(iter, i, cs, found, G, S)
  <2>1. iter[{}] = G
    BY <1>9
  <2> HIDE DEF Sol
  <2> QED BY <1>12, <1>13, <2>1 DEF AssignsInTurn, of
<1> QED BY <1>2, <1>14 DEF ff

LEMMA AllFoundAssigned ==
  ASSUME NEW i, NEW cs, NEW found, DOMAIN found \in SUBSET Glyph,
         NEW S \in SUBSET SUBSET Segment, NEW G, WhileAssigning(i, cs, G, found, {})
  PROVE  /\ InGroups(i, cs, AssignAll(found, G, S), {})
         /\ AssignAll(found, G, S).unmapped = {}
<1>1. PICK h : /\ AssignAll(found, G, S) = h[S]
               /\ AssignsInTurn(h, i, cs, found, G, S)
  BY FoundInTurn
<1>2. WhileAssigning(i, cs, h[S], found, S)
  BY <1>1 DEF AssignsInTurn
<1> QED BY <1>1, <1>2 DEF WhileAssigning

\* where conditions are searched for unmapped glyphs, none of these is left
NoneLeftOver(i, G) ==
    i.handling = "FIND_CONDITIONS" /\ i.disjoint => G.unmapped = {}

LEMMA FallbackConditionsFound ==
  ASSUME NEW i, InfoOK(i), NEW cs, \A g \in Glyph : UNION cs[g].groups \subseteq Segment,
         NEW G, InGroups(i, cs, G, {})
  PROVE  /\ InGroups(i, cs, FindFallbackGlyphConditions(G, i, cs), {})
         /\ i.disjoint => FindFallbackGlyphConditions(G, i, cs).unmapped = {}
<1> DEFINE found == [g \in G.unmapped |->
                        FoundSegments(i, cs, Segment, G.unmapped, g)]
           S == {found[g] : g \in G.unmapped}
           f == G.found \cup G.unmapped
           B == [G EXCEPT !.found = f, !.unmapped = {}]
           N == [G EXCEPT !.ok = FALSE]
           F == AssignAll(found, B, S)
           X == FindFallbackGlyphConditions(G, i, cs)
<1>1. G \in Groupings
  BY DEF InGroups
<1>2. G.unmapped \in SUBSET Glyph /\ G.found \in SUBSET Glyph
  BY <1>1 DEF Groupings
<1>3. X = IF G.unmapped = {} THEN G ELSE IF ~i.disjoint THEN N ELSE F
  <2>1. DOMAIN found = G.unmapped
    OBVIOUS
  <2> QED BY <2>1 DEF FindFallbackGlyphConditions, AssignAll
<1>4. ASSUME NEW g \in G.unmapped PROVE found[g] \in SUBSET Segment
  <2>1. g \notin i.init.gids
    BY DEF InGroups, NonInitFontGlyphs
  <2> QED BY <1>2, <2>1, FoundType
<1>5. S \in SUBSET SUBSET Segment /\ DOMAIN found = G.unmapped
  BY <1>4
<1> HIDE DEF found, S, X
<1>6. f \in SUBSET Glyph
  BY <1>2
<1>7. /\ B \in Groupings /\ B.found = f /\ B.unmapped = {}
      /\ B.pre = G.pre /\ B.or_groups = G.or_groups
  <2> HIDE DEF f
  <2> QED BY <1>1, <1>6 DEF Groupings
<1>8. WhileAssigning(i, cs, B, found, {})
  <2>1. GroupsFollow(B, cs)
    BY <1>7 DEF InGroups, GroupsFollow, f
  <2>2. OrGroupsFollow(B, cs, {})
    BY <1>7 DEF InGroups, OrGroupsFollow
  <2>3. UnmappedApart(B) /\ B.unmapped \subseteq NonInitFontGlyphs(i)
    BY <1>7 DEF UnmappedApart
  <2>4. \A ss \in SUBSET Segment : B.or_groups[ss] \cap DOMAIN found = {}
    BY <1>5, <1>7 DEF InGroups, UnmappedApart
  <2> QED BY <1>5, <1>7, <2>1, <2>2, <2>3, <2>4 DEF WhileAssigning, InGroups, f
<1>9. InGroups(i, cs, F, {}) /\ F.unmapped = {}
  <2> HIDE DEF B
  <2> QED BY <1>2, <1>5, <1>8, AllFoundAssigned
<1>10. InGroups(i, cs, N, {})
  <2>1. /\ N \in Groupings /\ N.found = G.found /\ N.unmapped = G.unmapped
        /\ N.pre = G.pre /\ N.or_groups = G.or_groups
    BY <1>1 DEF Groupings
  <2> HIDE DEF N
  <2> QED BY <2>1 DEF InGroups, GroupsFollow, OrGroupsFollow, UnmappedApart
<1> HIDE DEF F, N
<1>11. InGroups(i, cs, X, {})
  BY <1>3, <1>9, <1>10
<1>12. i.disjoint => X.unmapped = {}
  BY <1>3, <1>9
<1> QED BY <1>11, <1>12 DEF X

-----------------------------------------------------------------------------
(***************************************************************************)
(* GroupGlyphs brings the groups in agreement with conditions which may    *)
(* have changed for the given glyphs only.                                 *)
(***************************************************************************)
CanBeGrouped(i, cs, G, glyphs) ==
    /\ G \in Groupings
    /\ G.unmapped \ glyphs \subseteq NonInitFontGlyphs(i)
    /\ \A g \in Mapped(G.pre) \ (G.found \cup glyphs) : G.pre[g] = cs[g]
    /\ OrGroupsFollow(G, cs, {})
    /\ UnmappedApart(G)

IsCleared(H, G, gs) ==
    /\ H \in Groupings
    /\ H.pre = Unset(G.pre, gs)
    /\ H.found = G.found \ gs
    /\ H.unmapped = G.unmapped \ gs
    /\ H.combined_patches = G.combined_patches
    /\ \A ss \in SUBSET Segment : H.or_groups[ss] = G.or_groups[ss] \ gs

LEMMA Cleared ==
  ASSUME NEW G \in Groupings, NEW cs, OrGroupsFollow(G, cs, {}), NEW gs
  PROVE  IsCleared(Invalidate(G, gs), G, gs)
<1> DEFINE H == Invalidate(G, gs)
<1>1. IsForgotten(H, G, gs)
  BY Invalidated
<1> HIDE DEF H
<1>2. ASSUME NEW ss \in SUBSET Segment PROVE H.or_groups[ss] = G.or_groups[ss] \ gs
  <2> DEFINE gone == {g \in gs : /\ G.pre[g] # NoCondition
                                 /\ TriggeringSegments(G.pre[g]) = ss
                                 /\ ~IsExclusive(G.pre[g])
                                 /\ IsPurelyDisjunctive(G.pre[g])}
  <2>1. H.or_groups[ss] = G.or_groups[ss] \ gone
    BY <1>1 DEF IsForgotten
  <2>2. \A g \in G.or_groups[ss] : G.pre[g] = OrSegments(ss)
    BY DEF OrGroupsFollow
  <2>3. /\ OrSegments(ss) # NoCondition /\ TriggeringSegments(OrSegments(ss)) = ss
        /\ ~IsExclusive(OrSegments(ss)) /\ IsPurelyDisjunctive(OrSegments(ss))
    BY OrConditions
  <2>4. \A g \in G.or_groups[ss] : g \in gs <=> g \in gone
    BY <2>2, <2>3
  <2> HIDE DEF gone
  <2> QED BY <2>1, <2>4
<1>3. IsCleared(H, G, gs)
  BY <1>1, <1>2 DEF IsForgotten, IsCleared
<1> QED BY <1>3 DEF H

LEMMA ClearedTwice ==
  ASSUME NEW G \in Groupings, NEW cs, OrGroupsFollow(G, cs, {}),
         NEW gs, NEW F, IsCleared(F, G, gs), NEW more
  PROVE  IsCleared(Invalidate(F, more), G, gs \cup more)
<1> DEFINE H == Invalidate(F, more)
<1>1. OrGroupsFollow(F, cs, {})
  <2> SUFFICES ASSUME NEW ss \in SUBSET Segment, NEW g \in F.or_groups[ss]
               PROVE  F.pre[g] = OrSegments(ss)
    BY DEF OrGroupsFollow
  <2>1. g \in G.or_groups[ss] /\ g \notin gs /\ g \in Glyph
    BY DEF IsCleared, Groupings
  <2>2. G.pre[g] = OrSegments(ss)
    BY <2>1 DEF OrGroupsFollow
  <2> QED BY <2>1, <2>2 DEF IsCleared, Unset
<1>2. IsCleared(H, F, more)
  BY <1>1, Cleared DEF IsCleared
<1> HIDE DEF H
<1>3. /\ H \in Groupings
      /\ H.found = G.found \ (gs \cup more)
      /\ H.unmapped = G.unmapped \ (gs \cup more)
      /\ H.combined_patches = G.combined_patches
  BY <1>2 DEF IsCleared
<1>4. H.pre = Unset(G.pre, gs \cup more)
  BY <1>2 DEF IsCleared, Unset
<1>5. \A ss \in SUBSET Segment : H.or_groups[ss] = G.or_groups[ss] \ (gs \cup more)
  BY <1>2 DEF IsCleared
<1>6. IsCleared(H, G, gs \cup more)
  BY <1>3, <1>4, <1>5 DEF IsCleared
<1> QED BY <1>6 DEF H

IsSorted(S, F, gs, cs, unmapped) ==
    /\ S \in Groupings
    /\ S.pre = F.pre
    /\ S.found = F.found
    /\ S.unmapped = unmapped
    /\ S.combined_patches = F.combined_patches
    /\ \A ss \in SUBSET Segment :
          S.or_groups[ss] = F.or_groups[ss] \cup {g \in gs : cs[g] = OrSegments(ss)}

LEMMA AreSorted ==
  ASSUME NEW F \in Groupings, NEW gs \in SUBSET Glyph, NEW cs,
         NEW unmapped \in SUBSET Glyph
  PROVE  IsSorted(Sorted([F EXCEPT !.unmapped = unmapped], gs, cs), F, gs, cs, unmapped)
<1> DEFINE U == [F EXCEPT !.unmapped = unmapped]
           ex == [s \in Segment |->
                     U.exclusive_groups[s] \cup {g \in gs : cs[g] = ExclusiveSegment(s)}]
           ors == [ss \in SUBSET Segment |->
                     U.or_groups[ss] \cup {g \in gs : cs[g] = OrSegments(ss)}]
           S == Sorted(U, gs, cs)
<1>1. /\ U \in Groupings /\ U.pre = F.pre /\ U.found = F.found
      /\ U.unmapped = unmapped /\ U.or_groups = F.or_groups
      /\ U.combined_patches = F.combined_patches
  BY DEF Groupings
<1>2. S = [U EXCEPT !.exclusive_groups = ex, !.or_groups = ors]
  BY DEF Sorted
<1> HIDE DEF U, S
<1>3. /\ ex \in [Segment -> SUBSET Glyph]
      /\ ors \in [SUBSET Segment -> SUBSET Glyph]
  BY <1>1 DEF Groupings
<1>4. \A ss \in SUBSET Segment :
          ors[ss] = F.or_groups[ss] \cup {g \in gs : cs[g] = OrSegments(ss)}
  BY <1>1
<1> HIDE DEF ex, ors
<1>5. /\ S \in Groupings /\ S.pre = U.pre /\ S.found = U.found
      /\ S.unmapped = U.unmapped /\ S.or_groups = ors
      /\ S.combined_patches = U.combined_patches
  BY <1>1, <1>2, <1>3 DEF Groupings
<1>6. IsSorted(S, F, gs, cs, unmapped)
  BY <1>1, <1>4, <1>5 DEF IsSorted
<1> QED BY <1>6 DEF S, U

(***************************************************************************)
(* The steps of GroupGlyphs: the glyphs that lose their groups, the groups *)
(* without them, and the groups when all but the disjunctions are placed.  *)
(***************************************************************************)
Regrouped(G, glyphs, modified) ==
    glyphs \cup ModifiedGlyphs(Invalidate(G, glyphs), modified)

Ungrouped(G, glyphs, modified) ==
    Invalidate(Invalidate(G, glyphs), ModifiedGlyphs(Invalidate(G, glyphs), modified))

AlwaysTrue(cs, gs) == {g \in gs : IsAlwaysTrue(cs[g])}

NewConditions(cs, gs) == {cs[g] : g \in gs \ AlwaysTrue(cs, gs)}

NewOrs(cs, gs) ==
    {c \in NewConditions(cs, gs) : IsPurelyDisjunctive(c) /\ ~IsExclusive(c)}

OrsToPlace(cs, gs) == {TriggeringSegments(c) : c \in NewOrs(cs, gs)}

Placed(i, cs, F, gs) ==
    AddAll(Sorted([F EXCEPT !.unmapped =
                      @ \cup (AlwaysTrue(cs, gs) \cap NonInitFontGlyphs(i))],
                  gs \ AlwaysTrue(cs, gs), cs),
           [c \in NewConditions(cs, gs) \ NewOrs(cs, gs) |->
               NewGrouping(F.pre, cs, gs, c)])

LEMMA GroupedInSteps ==
  ASSUME NEW i, NEW cs, NEW glyphs, NEW modified, NEW G
  PROVE  LET gs == Regrouped(G, glyphs, modified)
             F == Ungrouped(G, glyphs, modified)
             grouped == AddOrGroups(i, Placed(i, cs, F, gs), OrsToPlace(cs, gs))
         IN  GroupGlyphs(G, i, cs, glyphs, modified)
                = RecomputeIfNeeded(IF i.handling = "FIND_CONDITIONS"
                                    THEN FindFallbackGlyphConditions(grouped, i, cs)
                                    ELSE grouped, gs)
BY DEF GroupGlyphs, AddOrGroups, Regrouped, Ungrouped, AlwaysTrue, NewConditions,
       NewOrs, OrsToPlace, Placed

LEMMA NewConditionsType ==
  ASSUME NEW cs \in [Glyph -> GlyphCondition], NEW all \in SUBSET Glyph
  PROVE  /\ NewConditions(cs, all) \in SUBSET GlyphCondition
         /\ IsFiniteSet(NewConditions(cs, all))
         /\ OrsToPlace(cs, all) \in SUBSET SUBSET Segment
<1> DEFINE gs == all \ AlwaysTrue(cs, all)
           f == [g \in gs |-> cs[g]]
<1>1. gs \in SUBSET Glyph
  OBVIOUS
<1>2. IsFiniteSet(gs)
  BY <1>1, FontAssumption, FS_Subset
<1>3. NewConditions(cs, all) = {cs[g] : g \in gs}
  BY DEF NewConditions
<1> HIDE DEF gs
<1>4. f \in Surjection(gs, {cs[g] : g \in gs})
  BY DEF Surjection
<1>5. IsFiniteSet({cs[g] : g \in gs})
  BY <1>2, <1>4, FS_Surjection
<1>6. {cs[g] : g \in gs} \in SUBSET GlyphCondition
  BY <1>1
<1>7. NewOrs(cs, all) \in SUBSET GlyphCondition
  BY <1>3, <1>6 DEF NewOrs
<1>8. OrsToPlace(cs, all) \in SUBSET SUBSET Segment
  BY <1>7 DEF OrsToPlace, TriggeringSegments, GlyphCondition, Condition, Group
<1> QED BY <1>3, <1>5, <1>6, <1>8

LEMMA AreCleared ==
  ASSUME NEW cs, NEW glyphs \in SUBSET Glyph, NEW modified, NEW G \in Groupings,
         OrGroupsFollow(G, cs, {})
  PROVE  /\ Regrouped(G, glyphs, modified) \in SUBSET Glyph
         /\ IsCleared(Ungrouped(G, glyphs, modified), G, Regrouped(G, glyphs, modified))
<1> DEFINE first == Invalidate(G, glyphs)
           more == ModifiedGlyphs(first, modified)
<1>1. IsCleared(first, G, glyphs)
  BY Cleared
<1>2. more \in SUBSET Glyph
  BY DEF ModifiedGlyphs, Mapped
<1>3. Regrouped(G, glyphs, modified) = glyphs \cup more
  BY DEF Regrouped
<1>4. Ungrouped(G, glyphs, modified) = Invalidate(first, more)
  BY DEF Ungrouped
<1> HIDE DEF first, more
<1>5. IsCleared(Invalidate(first, more), G, glyphs \cup more)
  BY <1>1, ClearedTwice
<1> QED BY <1>2, <1>3, <1>4, <1>5

LEMMA GlyphsPlaced ==
  ASSUME NEW i, InfoOK(i), NEW cs \in [Glyph -> GlyphCondition],
         NEW glyphs \in SUBSET Glyph, NEW all \in SUBSET Glyph, glyphs \subseteq all,
         NEW G, CanBeGrouped(i, cs, G, glyphs), NEW fresh, IsCleared(fresh, G, all)
  PROVE  InGroups(i, cs, Placed(i, cs, fresh, all), OrsToPlace(cs, all))
<1> DEFINE always == AlwaysTrue(cs, all)
           unmapped == fresh.unmapped \cup (always \cap NonInitFontGlyphs(i))
           sorted == Sorted([fresh EXCEPT !.unmapped = unmapped], all \ always, cs)
           conditions == NewConditions(cs, all)
           ors == NewOrs(cs, all)
           rest == conditions \ ors
           new == [c \in rest |-> NewGrouping(fresh.pre, cs, all, c)]
           added == AddAll(sorted, new)
           sets == OrsToPlace(cs, all)
<1>1. Placed(i, cs, fresh, all) = added
  BY DEF Placed
<1>2. G \in Groupings /\ OrGroupsFollow(G, cs, {}) /\ UnmappedApart(G)
  BY DEF CanBeGrouped
<1>3. IsCleared(fresh, G, all)
  OBVIOUS
<1>4. all \in SUBSET Glyph
  OBVIOUS
<1>5. fresh \in Groupings /\ always \in SUBSET Glyph
  BY <1>3, <1>4 DEF IsCleared, AlwaysTrue
<1>6. unmapped \in SUBSET Glyph
  BY <1>5 DEF Groupings
<1>7. IsSorted(sorted, fresh, all \ always, cs, unmapped)
  <2>1. all \ always \in SUBSET Glyph
    BY <1>4
  <2> HIDE DEF always, unmapped
  <2> QED BY <1>5, <1>6, <2>1, AreSorted
<1>8. conditions \in SUBSET GlyphCondition /\ IsFiniteSet(conditions)
  BY NewConditionsType
<1>9. rest \in SUBSET GlyphCondition /\ IsFiniteSet(rest)
  <2>1. rest \subseteq conditions
    OBVIOUS
  <2> HIDE DEF rest, conditions
  <2> QED BY <1>8, <2>1, FS_Subset
<1>10. AreAdded(added, sorted, new)
  <2>1. DOMAIN new = rest
    OBVIOUS
  <2> HIDE DEF rest, new, sorted
  <2> QED BY <1>7, <1>9, <2>1, AllAdded DEF IsSorted
<1>11. sets \in SUBSET SUBSET Segment
  BY NewConditionsType
<1> DEFINE A == added
<1>12. /\ A \in Groupings /\ A.found = G.found \ all /\ A.unmapped = unmapped
       /\ A.or_groups = sorted.or_groups
  BY <1>3, <1>7, <1>10 DEF AreAdded, IsSorted, IsCleared
<1>13. ASSUME NEW g \in Glyph
       PROVE  \/ g \notin all /\ A.pre[g] = G.pre[g]
              \/ g \in all /\ A.pre[g] = NoCondition
              \/ g \in all /\ A.pre[g] = cs[g] /\ A.pre[g] \in rest
  <2>1. fresh.pre[g] = IF g \in all THEN NoCondition ELSE G.pre[g]
    BY <1>3 DEF IsCleared, Unset
  <2>2. sorted.pre = fresh.pre
    BY <1>7 DEF IsSorted
  <2>3. \/ A.pre[g] = fresh.pre[g]
        \/ \E c \in rest : g \in new[c] /\ A.pre[g] = c
    BY <1>10, <2>2 DEF AreAdded
  <2>4. ASSUME NEW c \in rest, g \in new[c], A.pre[g] = c
        PROVE  A.pre[g] = fresh.pre[g] \/ (g \in all /\ A.pre[g] = cs[g] /\ A.pre[g] \in rest)
    <3>1. g \in GlyphsOf(fresh.pre, c) \cup {h \in all : cs[h] = c}
      BY <2>4 DEF NewGrouping
    <3> QED BY <2>4, <3>1 DEF GlyphsOf
  <2> HIDE DEF A, rest, new
  <2> QED BY <2>1, <2>3, <2>4
<1>14. \A ss \in SUBSET Segment :
          A.or_groups[ss] = (G.or_groups[ss] \ all)
                               \cup {g \in all \ always : cs[g] = OrSegments(ss)}
  BY <1>3, <1>7, <1>12 DEF IsSorted, IsCleared
<1> HIDE DEF A
<1>15. unmapped = (G.unmapped \ all) \cup (always \cap NonInitFontGlyphs(i))
  BY <1>3 DEF IsCleared
<1>16. always \subseteq all
  BY DEF AlwaysTrue
<1>17. ASSUME NEW g \in all \ always, NEW ss \in SUBSET Segment, cs[g] = OrSegments(ss)
       PROVE  cs[g] \notin rest /\ ss \in sets
  <2>1. /\ TriggeringSegments(OrSegments(ss)) = ss
        /\ ~IsExclusive(OrSegments(ss)) /\ IsPurelyDisjunctive(OrSegments(ss))
    BY OrConditions
  <2>2. cs[g] \in conditions
    BY <1>17 DEF NewConditions
  <2>3. /\ IsPurelyDisjunctive(cs[g]) /\ ~IsExclusive(cs[g])
        /\ TriggeringSegments(cs[g]) = ss
    BY <1>17, <2>1
  <2> HIDE DEF always
  <2>4. cs[g] \in ors
    BY <2>2, <2>3 DEF NewOrs
  <2>5. ss \in sets
    BY <2>3, <2>4 DEF OrsToPlace
  <2> QED BY <2>4, <2>5
<1> HIDE DEF unmapped, always, rest, sets, ors, conditions
<1>18. A.unmapped \subseteq NonInitFontGlyphs(i)
  BY <1>12, <1>15 DEF CanBeGrouped
<1>19. GroupsFollow(A, cs)
  <2> SUFFICES ASSUME NEW g \in Glyph, A.pre[g] # NoCondition, g \notin A.found
               PROVE  A.pre[g] = cs[g]
    BY DEF GroupsFollow, Mapped
  <2>1. CASE g \notin all /\ A.pre[g] = G.pre[g]
    <3>1. g \notin glyphs
      BY <2>1
    <3>2. g \notin G.found
      BY <1>12, <2>1
    <3> QED BY <2>1, <3>1, <3>2 DEF CanBeGrouped, Mapped
  <2> QED BY <1>13, <2>1
<1>20. OrGroupsFollow(A, cs, sets)
  <2> SUFFICES ASSUME NEW ss \in SUBSET Segment, NEW g \in A.or_groups[ss]
               PROVE  \/ A.pre[g] = OrSegments(ss)
                      \/ ss \in sets /\ A.pre[g] = NoCondition /\ cs[g] = OrSegments(ss)
    BY DEF OrGroupsFollow
  <2>0. g \in Glyph
    BY <1>12 DEF Groupings
  <2>1. CASE g \in G.or_groups[ss] \ all
    <3>1. G.pre[g] = OrSegments(ss)
      BY <1>2, <2>1 DEF OrGroupsFollow
    <3>2. A.pre[g] = G.pre[g]
      BY <1>13, <2>0, <2>1
    <3> QED BY <3>1, <3>2
  <2>2. CASE g \in all \ always /\ cs[g] = OrSegments(ss)
    <3>1. cs[g] \notin rest /\ ss \in sets
      BY <1>17, <2>2
    <3>2. A.pre[g] = NoCondition
      BY <1>13, <2>0, <2>2, <3>1
    <3> QED BY <2>2, <3>1, <3>2
  <2>3. \/ g \in G.or_groups[ss] \ all
        \/ g \in all \ always /\ cs[g] = OrSegments(ss)
    BY <1>14
  <2> QED BY <2>1, <2>2, <2>3
<1>21. UnmappedApart(A)
  <2> SUFFICES ASSUME NEW ss \in SUBSET Segment, NEW g \in A.or_groups[ss], g \in A.unmapped
               PROVE  FALSE
    BY DEF UnmappedApart
  <2>1. \/ g \in G.or_groups[ss] /\ g \notin all
        \/ g \in all \ always
    BY <1>14
  <2>2. \/ g \in G.unmapped /\ g \notin all
        \/ g \in always
    BY <1>12, <1>15
  <2>3. G.or_groups[ss] \cap G.unmapped = {}
    BY <1>2 DEF UnmappedApart
  <2> QED BY <1>16, <2>1, <2>2, <2>3
<1>22. InGroups(i, cs, A, sets)
  BY <1>12, <1>18, <1>19, <1>20, <1>21 DEF InGroups
<1> QED BY <1>1, <1>22 DEF A, sets, added

LEMMA GlyphsGrouped ==
  ASSUME NEW i, InfoOK(i), NEW cs \in [Glyph -> GlyphCondition],
         NEW glyphs \in SUBSET Glyph, NEW modified, NEW G,
         CanBeGrouped(i, cs, G, glyphs)
  PROVE  /\ InGroups(i, cs, GroupGlyphs(G, i, cs, glyphs, modified), {})
         /\ NoneLeftOver(i, GroupGlyphs(G, i, cs, glyphs, modified))
<1> DEFINE all == Regrouped(G, glyphs, modified)
           F == Ungrouped(G, glyphs, modified)
           A == Placed(i, cs, F, all)
           sets == OrsToPlace(cs, all)
           grouped == AddOrGroups(i, A, sets)
           assigned == IF i.handling = "FIND_CONDITIONS"
                       THEN FindFallbackGlyphConditions(grouped, i, cs)
                       ELSE grouped
           X == RecomputeIfNeeded(assigned, all)
<1>1. GroupGlyphs(G, i, cs, glyphs, modified) = X
  BY GroupedInSteps
<1>2. all \in SUBSET Glyph /\ IsCleared(F, G, all)
  BY AreCleared DEF CanBeGrouped
<1>3. glyphs \subseteq all
  BY DEF Regrouped
<1> HIDE DEF all, F
<1>4. InGroups(i, cs, A, sets) /\ sets \in SUBSET SUBSET Segment
  BY <1>2, <1>3, GlyphsPlaced, NewConditionsType
<1> HIDE DEF A, sets
<1>5. InGroups(i, cs, grouped, {})
  BY <1>4, OrGroupsAdded
<1> HIDE DEF grouped
<1>6. InGroups(i, cs, assigned, {}) /\ NoneLeftOver(i, assigned)
  <2>1. \A g \in Glyph : UNION cs[g].groups \subseteq Segment
    BY DEF GlyphCondition, Condition, Group
  <2>2. /\ InGroups(i, cs, FindFallbackGlyphConditions(grouped, i, cs), {})
        /\ i.disjoint => FindFallbackGlyphConditions(grouped, i, cs).unmapped = {}
    BY <1>5, <2>1, FallbackConditionsFound
  <2> QED BY <1>5, <2>2 DEF NoneLeftOver
<1> HIDE DEF assigned
<1>7. InGroups(i, cs, X, {}) /\ NoneLeftOver(i, X)
  <2>1. X \in Groupings /\ SameGroups(X, assigned)
    BY <1>6, RecomputedIfNeeded DEF InGroups
  <2> HIDE DEF X
  <2>2. InGroups(i, cs, X, {})
    BY <1>6, <2>1
       DEF InGroups, SameGroups, GroupsFollow, OrGroupsFollow, UnmappedApart
  <2>3. NoneLeftOver(i, X)
    BY <1>6, <2>1 DEF SameGroups, NoneLeftOver
  <2> QED BY <2>2, <2>3
<1> HIDE DEF X
<1> QED BY <1>1, <1>7

-----------------------------------------------------------------------------
(***************************************************************************)
(* The two other operations of a merge: glyphs that become exclusive to a  *)
(* segment, and patches combined into one.                                 *)
(***************************************************************************)
IsMadeExclusive(X, G, s, gs) ==
    /\ X \in Groupings /\ X.found = G.found \ gs /\ X.unmapped = G.unmapped \ gs
    /\ \A ss \in SUBSET Segment : X.or_groups[ss] = G.or_groups[ss] \ gs
    /\ \A g \in Glyph : X.pre[g] = IF g \in gs THEN ExclusiveSegment(s) ELSE G.pre[g]

LEMMA MadeExclusive ==
  ASSUME NEW cs, NEW G \in Groupings, OrGroupsFollow(G, cs, {}),
         NEW s \in Segment, NEW gs \in SUBSET Glyph
  PROVE  IsMadeExclusive(AddGlyphsToExclusiveGroup(G, s, gs), G, s, gs)
<1> DEFINE H == Invalidate(G, gs)
           c == ExclusiveSegment(s)
           U == UnionConditionAndGlyphs(H, c, gs)
           ex == [U.exclusive_groups EXCEPT ![s] = @ \cup gs]
           E == [U EXCEPT !.exclusive_groups[s] = @ \cup gs]
           X == RecomputeIfNeeded(E, gs)
<1>1. IsCleared(H, G, gs)
  BY Cleared
<1>2. c \in GlyphCondition
  BY DEF ExclusiveSegment, GlyphCondition, Condition, Group, IsUnitary
<1> HIDE DEF H
<1>3. IsAssigned(U, H, c, gs)
  <2> HIDE DEF c
  <2> QED BY <1>1, <1>2, Assigned DEF IsCleared
<1> HIDE DEF U
<1>4. /\ E \in Groupings /\ E.pre = U.pre /\ E.found = U.found
      /\ E.unmapped = U.unmapped /\ E.or_groups = U.or_groups
  <2>1. ex \in [Segment -> SUBSET Glyph]
    BY <1>3 DEF IsAssigned, Groupings
  <2>2. E = [U EXCEPT !.exclusive_groups = ex]
    OBVIOUS
  <2> HIDE DEF ex, E
  <2> QED BY <1>3, <2>1, <2>2 DEF IsAssigned, Groupings
<1> HIDE DEF E
<1>5. X \in Groupings /\ SameGroups(X, E)
  BY <1>4, RecomputedIfNeeded
<1>6. AddGlyphsToExclusiveGroup(G, s, gs) = X
  BY DEF AddGlyphsToExclusiveGroup, H, U, E
<1> HIDE DEF X
<1>7. /\ X \in Groupings /\ X.found = G.found \ gs /\ X.unmapped = G.unmapped \ gs
      /\ \A ss \in SUBSET Segment : X.or_groups[ss] = G.or_groups[ss] \ gs
      /\ \A g \in Glyph : X.pre[g] = IF g \in gs THEN c ELSE G.pre[g]
  BY <1>1, <1>3, <1>4, <1>5 DEF IsCleared, IsAssigned, SameGroups, Assign, Unset
<1> QED BY <1>6, <1>7 DEF IsMadeExclusive

LEMMA ExclusiveAdded ==
  ASSUME NEW i, NEW j, NEW cs, NEW ds, NEW G, InGroups(i, cs, G, {}),
         NonInitFontGlyphs(i) = NonInitFontGlyphs(j),
         NEW s \in Segment, NEW gs \in SUBSET Glyph,
         \A g \in Glyph : ds[g] = IF g \in gs THEN ExclusiveSegment(s) ELSE cs[g]
  PROVE  InGroups(j, ds, AddGlyphsToExclusiveGroup(G, s, gs), {})
<1> DEFINE c == ExclusiveSegment(s)
           X == AddGlyphsToExclusiveGroup(G, s, gs)
<1>1. G \in Groupings /\ OrGroupsFollow(G, cs, {}) /\ UnmappedApart(G)
      /\ GroupsFollow(G, cs) /\ G.unmapped \subseteq NonInitFontGlyphs(i)
  BY DEF InGroups
<1>2. /\ X \in Groupings /\ X.found = G.found \ gs /\ X.unmapped = G.unmapped \ gs
      /\ \A ss \in SUBSET Segment : X.or_groups[ss] = G.or_groups[ss] \ gs
      /\ \A g \in Glyph : X.pre[g] = IF g \in gs THEN c ELSE G.pre[g]
  BY <1>1, MadeExclusive DEF IsMadeExclusive
<1> HIDE DEF c, X
<1>3. GroupsFollow(X, ds)
  <2> SUFFICES ASSUME NEW g \in Glyph, X.pre[g] # NoCondition, g \notin X.found
               PROVE  X.pre[g] = ds[g]
    BY DEF GroupsFollow, Mapped
  <2>1. CASE g \in gs
    BY <1>2, <2>1 DEF c
  <2>2. CASE g \notin gs
    BY <1>1, <1>2, <2>2 DEF GroupsFollow, Mapped
  <2> QED BY <2>1, <2>2
<1>4. OrGroupsFollow(X, ds, {})
  <2> SUFFICES ASSUME NEW ss \in SUBSET Segment, NEW g \in X.or_groups[ss]
               PROVE  X.pre[g] = OrSegments(ss)
    BY DEF OrGroupsFollow
  <2>1. g \in G.or_groups[ss] /\ g \notin gs /\ g \in Glyph
    BY <1>1, <1>2 DEF Groupings
  <2> QED BY <1>1, <1>2, <2>1 DEF OrGroupsFollow
<1>5. UnmappedApart(X) /\ X.unmapped \subseteq NonInitFontGlyphs(j)
  BY <1>1, <1>2 DEF UnmappedApart
<1> QED BY <1>2, <1>3, <1>4, <1>5 DEF InGroups, X

LEMMA PatchesCombined ==
  ASSUME NEW i, NEW cs, NEW G, InGroups(i, cs, G, {}), NEW gs \in SUBSET Glyph
  PROVE  InGroups(i, cs, CombinePatches(G, gs), {})
<1> DEFINE groups == NonIdentityGroups(Join(G.combined_patches, gs))
           C == [G EXCEPT !.combined_patches = groups]
           X == RemoveAllCombinedConditions(C)
<1>1. CombinePatches(G, gs) = X
  BY DEF CombinePatches
<1>2. G \in Groupings
  BY DEF InGroups
<1>3. groups \in SUBSET SUBSET Glyph
  <2>1. Join(G.combined_patches, gs) \in SUBSET SUBSET Glyph
    BY <1>2, JoinType DEF Groupings
  <2> QED BY <2>1 DEF NonIdentityGroups
<1> HIDE DEF groups
<1>4. /\ C \in Groupings /\ C.pre = G.pre /\ C.found = G.found
      /\ C.unmapped = G.unmapped /\ C.or_groups = G.or_groups
  BY <1>2, <1>3 DEF Groupings
<1> HIDE DEF C
<1>5. X \in Groupings /\ SameGroups(X, C)
  BY <1>4, CombinationsRemoved
<1> HIDE DEF X
<1>6. InGroups(i, cs, X, {})
  BY <1>4, <1>5 DEF InGroups, SameGroups, GroupsFollow, OrGroupsFollow, UnmappedApart
<1> QED BY <1>1, <1>6

LEMMA NothingGrouped ==
  ASSUME NEW i, NEW cs
  PROVE  CanBeGrouped(i, cs, NoGroupings, {})
<1>1. NoGroupings \in Groupings
  BY DEF NoGroupings, Groupings, Table
<1>2. /\ NoGroupings.unmapped = {}
      /\ NoGroupings.pre = [g \in Glyph |-> NoCondition]
      /\ NoGroupings.or_groups = [ss \in SUBSET Segment |-> {}]
  BY DEF NoGroupings
<1> QED BY <1>1, <1>2 DEF CanBeGrouped, Mapped, OrGroupsFollow, UnmappedApart

-----------------------------------------------------------------------------
(***************************************************************************)
(* How conditions change by one segment: conjunctions of single segments   *)
(* and disjunctions.                                                       *)
(***************************************************************************)
Each(A) == {{s} : s \in A}

LEMMA SingletonsAreMinimal ==
  ASSUME NEW A
  PROVE  Simplify(Each(A)) = Each(A)
BY DEF Simplify, Each

LEMMA RemoveFromConjunction ==
  ASSUME NEW c, NEW A \in SUBSET Segment, c.groups = Each(A), NEW ss
  PROVE  RemoveSegments(c, ss).groups = Each(A \ ss)
<1> DEFINE remaining == {g \in c.groups : ~(g \subseteq ss)}
           kept == {g \ ss : g \in remaining}
<1>1. remaining = Each(A \ ss)
  BY DEF Each
<1>2. kept = Each(A \ ss)
  <2>1. \A g \in remaining : g \ ss = g
    BY <1>1 DEF Each
  <2> HIDE DEF remaining
  <2>2. \A x : x \in kept <=> x \in remaining
    BY <2>1
  <2>3. kept = remaining
    BY <2>2
  <2> QED BY <1>1, <2>3
<1>3. UNION kept = A \ ss
  BY <1>2 DEF Each
<1>4. CASE kept = {}
  BY <1>2, <1>4 DEF RemoveSegments, True
<1>5. CASE kept # {} /\ IsPurelyDisjunctive(c)
  <2>1. RemoveSegments(c, ss) = OrSegments(UNION kept)
    BY <1>5 DEF RemoveSegments
  <2>2. PICK g \in c.groups : c.groups = {g}
    BY <1>5 DEF IsPurelyDisjunctive
  <2>3. PICK a \in A : g = {a}
    BY <2>2 DEF Each
  <2>4. A = {a}
    <3>1. \A b \in A : {b} = {a}
      BY <2>2, <2>3 DEF Each
    <3>2. \A b \in A : b = a
      BY <3>1
    <3> QED BY <3>2
  <2>5. A \ ss = {a}
    BY <1>2, <1>5, <2>4 DEF Each
  <2>6. {A \ ss} = Each(A \ ss)
    BY <2>5 DEF Each
  <2>7. OrSegments(A \ ss).groups = {A \ ss}
    BY DEF OrSegments
  <2> QED BY <2>1, <2>6, <2>7, <1>3
<1>6. CASE /\ kept # {} /\ ~IsPurelyDisjunctive(c)
           /\ Cardinality(remaining) = 1 /\ Cardinality(UNION kept) = 1
  <2>1. RemoveSegments(c, ss) = ExclusiveSegment(CHOOSE s \in UNION kept : TRUE)
    BY <1>6 DEF RemoveSegments
  <2>2. IsFiniteSet(A \ ss)
    BY SegmentAssumption, FS_Subset
  <2>3. PICK a : A \ ss = {a}
    BY <1>3, <1>6, <2>2, FS_Singleton
  <2>4. (CHOOSE s \in UNION kept : TRUE) = a
    BY <1>3, <2>3
  <2>5. ExclusiveSegment(a).groups = Each(A \ ss)
    BY <2>3 DEF ExclusiveSegment, Each
  <2> QED BY <2>1, <2>4, <2>5
<1>7. CASE /\ kept # {} /\ ~IsPurelyDisjunctive(c)
           /\ ~(Cardinality(remaining) = 1 /\ Cardinality(UNION kept) = 1)
  <2>1. RemoveSegments(c, ss) = CompositeCondition(kept)
    BY <1>7 DEF RemoveSegments
  <2>2. CompositeCondition(kept).groups = Simplify(kept)
    BY DEF CompositeCondition
  <2>3. Simplify(kept) = Each(A \ ss)
    BY <1>2, SingletonsAreMinimal
  <2> QED BY <2>1, <2>2, <2>3
<1> QED BY <1>4, <1>5, <1>6, <1>7

LEMMA RemoveFromDisjunction ==
  ASSUME NEW c, NEW O \in SUBSET Segment, c.groups = {O}, NEW ss
  PROVE  /\ O \subseteq ss => RemoveSegments(c, ss) = True
         /\ ~(O \subseteq ss) => RemoveSegments(c, ss) = OrSegments(O \ ss)
<1> DEFINE remaining == {g \in c.groups : ~(g \subseteq ss)}
           kept == {g \ ss : g \in remaining}
<1>1. O \subseteq ss => kept = {}
  OBVIOUS
<1>2. ~(O \subseteq ss) => kept = {O \ ss}
  OBVIOUS
<1>3. IsPurelyDisjunctive(c)
  BY DEF IsPurelyDisjunctive
<1>4. ~(O \subseteq ss) => UNION kept = O \ ss
  BY <1>2
<1> QED BY <1>1, <1>2, <1>3, <1>4 DEF RemoveSegments

LEMMA AndOneSegment ==
  ASSUME NEW c, NEW A \in SUBSET Segment, c.groups = Each(A), A # {},
         NEW s \in Segment \ A
  PROVE  And(c, ExclusiveSegment(s)) =
            [groups |-> Each(A \cup {s}), exclusive |-> FALSE]
<1> DEFINE e == ExclusiveSegment(s)
           d == CompositeCondition(c.groups \cup e.groups)
<1>1. c.groups \cup e.groups = Each(A \cup {s})
  BY DEF ExclusiveSegment, Each
<1>2. d = [groups |-> Each(A \cup {s}), exclusive |-> FALSE]
  BY <1>1, SingletonsAreMinimal DEF CompositeCondition
<1>3. PICK a \in A : TRUE
  OBVIOUS
<1>4. ~IsUnitary(d)
  <2>1. {a} \in Each(A \cup {s}) /\ {s} \in Each(A \cup {s}) /\ a # s
    BY <1>3 DEF Each
  <2> SUFFICES ASSUME NEW t, d.groups = {{t}} PROVE FALSE
    BY DEF IsUnitary
  <2>2. {a} = {t} /\ {s} = {t}
    BY <1>2, <2>1
  <2> QED BY <2>1, <2>2
<1>5. And(c, e) = [d EXCEPT !.exclusive = FALSE]
  BY <1>4 DEF And
<1>6. [d EXCEPT !.exclusive = FALSE] = d
  <2> HIDE DEF d
  <2> DEFINE S == {Each(A \cup {s})}
  <2>1. d \in [groups : S, exclusive : BOOLEAN] /\ d.exclusive = FALSE
    BY <1>2
  <2> HIDE DEF S
  <2> QED BY <2>1
<1> HIDE DEF d
<1> QED BY <1>5, <1>6, <1>2

LEMMA OrOneSegment ==
  ASSUME NEW c, NEW O \in SUBSET Segment, c.groups = {O}, O # {},
         NEW s \in Segment \ O
  PROVE  Or(c, OrSegments({s})) = OrSegments(O \cup {s})
<1> DEFINE as == {O}
           bs == {{s}}
<1>1. O # {s}
  OBVIOUS
<1>2. as \ bs = {O} /\ bs \ as = {{s}} /\ as \cap bs = {}
  BY <1>1
<1>3. CrossProduct({O}, {{s}}) = {O \cup {s}}
  <2>1. {O} \X {{s}} = {<<O, {s}>>}
    OBVIOUS
  <2>2. CrossProduct({O}, {{s}}) = {pair[1] \cup pair[2] : pair \in {<<O, {s}>>}}
    BY <2>1 DEF CrossProduct
  <2> QED BY <2>2
<1>4. OrGroups(as, bs) = Simplify({O \cup {s}})
  BY <1>2, <1>3 DEF OrGroups
<1>5. Simplify({O \cup {s}}) = {O \cup {s}}
  BY DEF Simplify
<1> QED BY <1>4, <1>5 DEF Or, OrSegments

-----------------------------------------------------------------------------
(***************************************************************************)
(* The condition of a glyph on some segments T: on all of those that it    *)
(* needs, or else on any one of those that give it.                        *)
(***************************************************************************)
Needing(i, g, T) == {s \in T : Needs(i, g, s)}
Giving(i, g, T) == {s \in T : Gives(i, g, s)}

ConditionOn(i, g, T) ==
    IF Needing(i, g, T) # {}
    THEN [groups |-> Each(Needing(i, g, T)),
          exclusive |-> \E s \in T : Needing(i, g, T) = {s}]
    ELSE IF Giving(i, g, T) # {} THEN OrSegments(Giving(i, g, T))
    ELSE True

(***************************************************************************)
(* A glyph that one of the segments gives needs no other.                  *)
(***************************************************************************)
LEMMA NeededByGiver ==
  ASSUME NEW i, InfoOK(i), NEW g, NEW T \in SUBSET Segment,
         NEW s \in T, Gives(i, g, s)
  PROVE  /\ Needing(i, g, T) \subseteq {s}
         /\ Needs(i, g, s) => Giving(i, g, T) = {s}
<1>1. \A t \in T : t # s => ~Needs(i, g, t)
  BY GivenIsNotNeeded
<1>2. \A t \in T : t # s /\ Gives(i, g, t) => ~Needs(i, g, s)
  BY GivenIsNotNeeded
<1> QED BY <1>1, <1>2 DEF Needing, Giving

LEMMA NeededGroups ==
  ASSUME NEW i, NEW g, NEW T, Needing(i, g, T) # {}
  PROVE  ConditionOn(i, g, T).groups = Each(Needing(i, g, T))
BY DEF ConditionOn

LEMMA GivenGroups ==
  ASSUME NEW i, NEW g, NEW T, Needing(i, g, T) = {}, Giving(i, g, T) # {}
  PROVE  /\ ConditionOn(i, g, T) = OrSegments(Giving(i, g, T))
         /\ ConditionOn(i, g, T).groups = {Giving(i, g, T)}
BY DEF ConditionOn, OrSegments

LEMMA NoGroups ==
  ASSUME NEW i, NEW g, NEW T, Needing(i, g, T) = {}, Giving(i, g, T) = {}
  PROVE  /\ ConditionOn(i, g, T) = True
         /\ ConditionOn(i, g, T).groups = {}
BY DEF ConditionOn, True

LEMMA ConditionOnSegments ==
  ASSUME NEW i, NEW g, NEW T \in SUBSET Segment
  PROVE  /\ ConditionOn(i, g, T) \in GlyphCondition
         /\ TriggeringSegments(ConditionOn(i, g, T)) =
               IF Needing(i, g, T) # {} THEN Needing(i, g, T) ELSE Giving(i, g, T)
         /\ {} \notin ConditionOn(i, g, T).groups
<1>1. Needing(i, g, T) \subseteq Segment /\ Giving(i, g, T) \subseteq Segment
  BY DEF Needing, Giving
<1>2. CASE Needing(i, g, T) # {}
  <2> DEFINE A == Needing(i, g, T)
             x == \E s \in T : A = {s}
  <2>1. ConditionOn(i, g, T) = [groups |-> Each(A), exclusive |-> x]
    BY <1>2 DEF ConditionOn
  <2>2. Each(A) \in SUBSET Group /\ UNION Each(A) = A /\ {} \notin Each(A)
    BY <1>1 DEF Each, Group
  <2>3. x \in BOOLEAN
    OBVIOUS
  <2>4. x => \E s \in UNION Each(A) : Each(A) = {{s}}
    BY <2>2 DEF Each
  <2> DEFINE c == [groups |-> Each(A), exclusive |-> x]
  <2>5. IsExclusive(c) => IsUnitary(c)
    BY <2>4 DEF IsExclusive, IsUnitary
  <2> HIDE DEF A, x
  <2> QED BY <2>1, <2>2, <2>3, <2>5, <1>2 DEF GlyphCondition, Condition, TriggeringSegments, A
<1>3. CASE Needing(i, g, T) = {} /\ Giving(i, g, T) # {}
  <2> DEFINE G == Giving(i, g, T)
  <2>1. ConditionOn(i, g, T) = [groups |-> {G}, exclusive |-> FALSE]
    BY <1>3, GivenGroups DEF OrSegments
  <2>2. {G} \in SUBSET Group /\ UNION {G} = G /\ {} \notin {G}
    BY <1>1, <1>3 DEF Group
  <2> HIDE DEF G
  <2> QED BY <2>1, <2>2, <1>3 DEF GlyphCondition, Condition, TriggeringSegments, IsExclusive, G
<1>4. CASE Needing(i, g, T) = {} /\ Giving(i, g, T) = {}
  <2>1. ConditionOn(i, g, T) = [groups |-> {}, exclusive |-> FALSE]
    BY <1>4, NoGroups DEF True
  <2> QED BY <2>1, <1>4 DEF GlyphCondition, Condition, TriggeringSegments, IsExclusive
<1> QED BY <1>2, <1>3, <1>4

(***************************************************************************)
(* Taking segments out of a condition leaves that on the other segments,   *)
(* as far as the groups go.                                                *)
(***************************************************************************)
LEMMA RemoveGroups ==
  ASSUME NEW i, InfoOK(i), NEW g, NEW T \in SUBSET Segment, NEW ss,
         NEW c, c.groups = ConditionOn(i, g, T).groups
  PROVE  RemoveSegments(c, ss).groups = ConditionOn(i, g, T \ ss).groups
<1> DEFINE N == Needing(i, g, T)
           G == Giving(i, g, T)
           U == T \ ss
<1>1. /\ Needing(i, g, U) = N \ ss
      /\ Giving(i, g, U) = G \ ss
      /\ N \in SUBSET Segment /\ G \in SUBSET Segment
  BY DEF Needing, Giving
<1>2. CASE N # {}
  <2>1. RemoveSegments(c, ss).groups = Each(N \ ss)
    BY <1>1, <1>2, NeededGroups, RemoveFromConjunction
  <2>2. CASE N \ ss # {}
    BY <1>1, <2>1, <2>2, NeededGroups
  <2>3. CASE N \ ss = {}
    <3>1. Giving(i, g, U) = {}
      <4> SUFFICES ASSUME NEW s \in Giving(i, g, U) PROVE FALSE
        OBVIOUS
      <4>1. s \in T /\ s \notin ss /\ Gives(i, g, s)
        BY DEF Giving
      <4>2. N \subseteq {s}
        BY <4>1, NeededByGiver
      <4> QED BY <1>2, <2>3, <4>1, <4>2
    <3>2. ConditionOn(i, g, U).groups = {}
      BY <1>1, <2>3, <3>1, NoGroups
    <3>3. Each(N \ ss) = {}
      BY <2>3 DEF Each
    <3> QED BY <2>1, <3>2, <3>3
  <2> QED BY <2>2, <2>3
<1>3. CASE N = {} /\ G # {}
  <2>1. c.groups = {G}
    BY <1>3, GivenGroups
  <2>2. Needing(i, g, U) = {}
    BY <1>1, <1>3
  <2>3. CASE G \subseteq ss
    <3>1. RemoveSegments(c, ss) = True
      BY <1>1, <2>1, <2>3, RemoveFromDisjunction
    <3>2. Giving(i, g, U) = {}
      BY <1>1, <2>3
    <3> QED BY <2>2, <3>1, <3>2, NoGroups DEF True
  <2>4. CASE ~(G \subseteq ss)
    <3>1. RemoveSegments(c, ss) = OrSegments(G \ ss)
      BY <1>1, <2>1, <2>4, RemoveFromDisjunction
    <3>2. Giving(i, g, U) # {}
      BY <1>1, <2>4
    <3>3. ConditionOn(i, g, U) = OrSegments(Giving(i, g, U))
      BY <2>2, <3>2, GivenGroups
    <3> QED BY <1>1, <3>1, <3>3
  <2> QED BY <2>3, <2>4
<1>4. CASE N = {} /\ G = {}
  <2>1. c.groups = {}
    BY <1>4, NoGroups
  <2>2. RemoveSegments(c, ss) = True
    BY <2>1 DEF RemoveSegments
  <2>3. Needing(i, g, U) = {} /\ Giving(i, g, U) = {}
    BY <1>1, <1>4
  <2> QED BY <2>2, <2>3, NoGroups DEF True
<1> QED BY <1>2, <1>3, <1>4

(***************************************************************************)
(* One more segment: what AddAndCondition and AddOrCondition make of a     *)
(* glyph's condition.                                                      *)
(***************************************************************************)
WithAnd(c, s) == IF IsAlwaysTrue(c) THEN ExclusiveSegment(s)
                 ELSE And(c, ExclusiveSegment(s))

WithOr(c, s) == IF IsAlwaysTrue(c) THEN OrSegments({s})
                ELSE Or(c, OrSegments({s}))

LEMMA AddNeeded ==
  ASSUME NEW i, InfoOK(i), NEW g, NEW T \in SUBSET Segment, NEW s \in Segment \ T,
         NEW c, c.groups = ConditionOn(i, g, T).groups, Needs(i, g, s)
  PROVE  WithAnd(c, s) = ConditionOn(i, g, T \cup {s})
<1> DEFINE N == Needing(i, g, T)
           U == T \cup {s}
           x == \E t \in U : N \cup {s} = {t}
<1>1. Giving(i, g, T) = {}
  BY GivenIsNotNeeded DEF Giving
<1>2. Needing(i, g, U) = N \cup {s}
  BY DEF Needing
<1>3. ConditionOn(i, g, U) = [groups |-> Each(N \cup {s}), exclusive |-> x]
  BY <1>2 DEF ConditionOn
<1>4. N \in SUBSET Segment /\ s \notin N
  BY DEF Needing
<1>5. CASE N = {}
  <2>1. IsAlwaysTrue(c)
    BY <1>1, <1>5, NoGroups DEF IsAlwaysTrue
  <2>2. WithAnd(c, s) = [groups |-> {{s}}, exclusive |-> TRUE]
    BY <2>1 DEF WithAnd, ExclusiveSegment
  <2>3. Each(N \cup {s}) = {{s}}
    BY <1>5 DEF Each
  <2>4. x = TRUE
    BY <1>5
  <2> HIDE DEF x
  <2> QED BY <1>3, <2>2, <2>3, <2>4
<1>6. CASE N # {}
  <2>1. c.groups = Each(N)
    BY <1>6, NeededGroups
  <2>2. ~IsAlwaysTrue(c)
    BY <1>6, <2>1 DEF IsAlwaysTrue, Each
  <2>3. And(c, ExclusiveSegment(s)) = [groups |-> Each(N \cup {s}), exclusive |-> FALSE]
    BY <1>4, <1>6, <2>1, AndOneSegment
  <2>4. x = FALSE
    BY <1>4, <1>6
  <2> HIDE DEF x
  <2> QED BY <1>3, <2>2, <2>3, <2>4 DEF WithAnd
<1> QED BY <1>5, <1>6

LEMMA AddGiven ==
  ASSUME NEW i, InfoOK(i), NEW g, NEW T \in SUBSET Segment, NEW s \in Segment \ T,
         NEW c, c.groups = ConditionOn(i, g, T).groups,
         Gives(i, g, s), ~Needs(i, g, s)
  PROVE  WithOr(c, s) = ConditionOn(i, g, T \cup {s})
<1> DEFINE G == Giving(i, g, T)
           U == T \cup {s}
<1>1. Needing(i, g, T) = {}
  BY GivenIsNotNeeded DEF Needing
<1>2. Needing(i, g, U) = {} /\ Giving(i, g, U) = G \cup {s}
  BY <1>1 DEF Needing, Giving
<1>3. ConditionOn(i, g, U) = OrSegments(G \cup {s})
  <2>1. Giving(i, g, U) # {}
    BY <1>2
  <2>2. ConditionOn(i, g, U) = OrSegments(Giving(i, g, U))
    BY <1>2, <2>1, GivenGroups
  <2> QED BY <1>2, <2>2
<1>4. G \in SUBSET Segment /\ s \notin G
  BY DEF Giving
<1>5. CASE G = {}
  <2>1. IsAlwaysTrue(c)
    BY <1>1, <1>5, NoGroups DEF IsAlwaysTrue
  <2>2. G \cup {s} = {s}
    BY <1>5
  <2> QED BY <1>3, <2>1, <2>2 DEF WithOr
<1>6. CASE G # {}
  <2>1. c.groups = {G}
    BY <1>1, <1>6, GivenGroups
  <2>2. ~IsAlwaysTrue(c)
    BY <2>1 DEF IsAlwaysTrue
  <2>3. Or(c, OrSegments({s})) = OrSegments(G \cup {s})
    BY <1>4, <1>6, <2>1, OrOneSegment
  <2> QED BY <1>3, <2>2, <2>3 DEF WithOr
<1> QED BY <1>5, <1>6

LEMMA AddNeither ==
  ASSUME NEW i, NEW g, NEW T, NEW U, T \subseteq U,
         \A s \in U \ T : ~Needs(i, g, s) /\ ~Gives(i, g, s)
  PROVE  ConditionOn(i, g, U) = ConditionOn(i, g, T)
<1> DEFINE N == Needing(i, g, T)
<1>1. Needing(i, g, U) = N /\ Giving(i, g, U) = Giving(i, g, T) /\ N \subseteq T
  BY DEF Needing, Giving
<1>2. (\E s \in U : N = {s}) = (\E s \in T : N = {s})
  BY <1>1
<1> HIDE DEF N
<1> QED BY <1>1, <1>2 DEF ConditionOn, N

-----------------------------------------------------------------------------
(***************************************************************************)
(* The conditions after the analysis of the segments of T, with their      *)
(* index, and the inert segments among them.                               *)
(***************************************************************************)
ConditionsOn(i, T) ==
    [condition |-> [g \in Glyph |-> ConditionOn(i, g, T)],
     glyphs    |-> [s \in Segment |->
                       {g \in Glyph : s \in TriggeringSegments(ConditionOn(i, g, T))}]]

InertOn(i, T) ==
    {s \in T : /\ i.segments[s] # {}
               /\ \A g \in Glyph : Needs(i, g, s) <=> Gives(i, g, s)}

LEMMA TouchedGlyphs ==
  ASSUME NEW i, InfoOK(i), NEW s \in Segment
  PROVE  TouchedBy(i, s) = {g \in Glyph : Needs(i, g, s) \/ Gives(i, g, s)}
<1> DEFINE a == AnalyzeSegment(i, {s})
<1>1. /\ a.and = {g \in Glyph : Needs(i, g, s) /\ ~Gives(i, g, s)}
      /\ a.or = {g \in Glyph : Gives(i, g, s) /\ ~Needs(i, g, s)}
      /\ a.exclusive = {g \in Glyph : Needs(i, g, s) /\ Gives(i, g, s)}
  BY AnalysisOfOne
<1>2. i.segments[s] = {} => \A g : ~Needs(i, g, s) /\ ~Gives(i, g, s)
  BY NothingFromEmpty
<1> HIDE DEF a
<1>3. TouchedBy(i, s) = IF i.segments[s] = {} THEN {}
                        ELSE a.and \cup a.or \cup a.exclusive
  BY DEF TouchedBy, a
<1> QED BY <1>1, <1>2, <1>3

LEMMA InertStep ==
  ASSUME NEW i, InfoOK(i), NEW s \in Segment, NEW T \in SUBSET Segment
  PROVE  InertOn(i, T \cup {s}) =
            IF i.segments[s] = {} THEN InertOn(i, T)
            ELSE IF AnalyzeSegment(i, {s}).and = {} /\ AnalyzeSegment(i, {s}).or = {}
            THEN InertOn(i, T) \cup {s} ELSE InertOn(i, T)
<1> DEFINE a == AnalyzeSegment(i, {s})
<1>1. /\ a.and = {g \in Glyph : Needs(i, g, s) /\ ~Gives(i, g, s)}
      /\ a.or = {g \in Glyph : Gives(i, g, s) /\ ~Needs(i, g, s)}
  BY AnalysisOfOne
<1> HIDE DEF a
<1>2. a.and = {} /\ a.or = {} <=> \A g \in Glyph : Needs(i, g, s) <=> Gives(i, g, s)
  BY <1>1
<1>3. InertOn(i, T \cup {s}) =
         InertOn(i, T) \cup (IF i.segments[s] # {} /\ a.and = {} /\ a.or = {}
                             THEN {s} ELSE {})
  BY <1>2 DEF InertOn
<1> QED BY <1>2, <1>3 DEF InertOn, a

(***************************************************************************)
(* One segment is analysed: some segments, mostly itself, leave the        *)
(* conditions of the glyphs it touches, and it comes back into them.       *)
(***************************************************************************)
Analysed(cs, ss, i, s) ==
    LET a  == AnalyzeSegment(i, {s})
        c0 == RemoveSegmentsFromGlyphs(cs, TouchedBy(i, s), ss)
        c1 == AddAndCondition(c0, a.exclusive, s)
        c2 == AddAndCondition(c1, a.and, s)
    IN  AddOrCondition(c2, a.or, s)

LEMMA RemoveKeepsTriggers ==
  ASSUME NEW c, NEW ss, UNION c.groups \subseteq Segment
  PROVE  TriggeringSegments(RemoveSegments(c, ss)) \subseteq TriggeringSegments(c)
<1> DEFINE remaining == {g \in c.groups : ~(g \subseteq ss)}
           kept == {g \ ss : g \in remaining}
<1>1. UNION kept \subseteq UNION c.groups
  OBVIOUS
<1>2. RemoveSegments(c, ss) = True => TriggeringSegments(RemoveSegments(c, ss)) = {}
  BY DEF True, TriggeringSegments
<1>3. TriggeringSegments(OrSegments(UNION kept)) = UNION kept
  BY DEF OrSegments, TriggeringSegments
<1>4. TriggeringSegments(CompositeCondition(kept)) \subseteq UNION kept
  BY DEF CompositeCondition, TriggeringSegments, Simplify
<1>5. Cardinality(UNION kept) = 1 =>
         TriggeringSegments(ExclusiveSegment(CHOOSE s \in UNION kept : TRUE))
            \subseteq UNION kept
  <2> SUFFICES ASSUME Cardinality(UNION kept) = 1
               PROVE  TriggeringSegments(ExclusiveSegment(CHOOSE s \in UNION kept : TRUE))
                         \subseteq UNION kept
    OBVIOUS
  <2>1. IsFiniteSet(UNION kept)
    BY <1>1, SegmentAssumption, FS_Subset
  <2> HIDE DEF kept
  <2>2. PICK a : UNION kept = {a}
    BY <2>1, FS_Singleton
  <2>3. (CHOOSE s \in UNION kept : TRUE) = a
    BY <2>2
  <2> QED BY <2>2, <2>3 DEF ExclusiveSegment, TriggeringSegments
<1>6. \/ RemoveSegments(c, ss) = True
      \/ RemoveSegments(c, ss) = OrSegments(UNION kept)
      \/ /\ Cardinality(UNION kept) = 1
         /\ RemoveSegments(c, ss) = ExclusiveSegment(CHOOSE s \in UNION kept : TRUE)
      \/ RemoveSegments(c, ss) = CompositeCondition(kept)
  BY DEF RemoveSegments
<1> HIDE DEF kept
<1> QED BY <1>1, <1>2, <1>3, <1>4, <1>5, <1>6 DEF TriggeringSegments

LEMMA TriggersWith ==
  ASSUME NEW i, InfoOK(i), NEW g, NEW T \in SUBSET Segment, NEW s \in Segment \ T,
         Needs(i, g, s) \/ Gives(i, g, s)
  PROVE  TriggeringSegments(ConditionOn(i, g, T \cup {s}))
            = TriggeringSegments(ConditionOn(i, g, T)) \cup {s}
<1> DEFINE U == T \cup {s}
<1>1. /\ TriggeringSegments(ConditionOn(i, g, T)) =
             IF Needing(i, g, T) # {} THEN Needing(i, g, T) ELSE Giving(i, g, T)
      /\ TriggeringSegments(ConditionOn(i, g, U)) =
             IF Needing(i, g, U) # {} THEN Needing(i, g, U) ELSE Giving(i, g, U)
  BY ConditionOnSegments
<1>2. CASE Needs(i, g, s)
  <2>1. Giving(i, g, T) = {}
    BY <1>2, GivenIsNotNeeded DEF Giving
  <2>2. Needing(i, g, U) = Needing(i, g, T) \cup {s}
    BY <1>2 DEF Needing
  <2> QED BY <1>1, <2>1, <2>2
<1>3. CASE Gives(i, g, s) /\ ~Needs(i, g, s)
  <2>1. Needing(i, g, T) = {} /\ Needing(i, g, U) = {}
    BY <1>3, GivenIsNotNeeded DEF Needing
  <2>2. Giving(i, g, U) = Giving(i, g, T) \cup {s}
    BY <1>3 DEF Giving
  <2> QED BY <1>1, <2>1, <2>2
<1> QED BY <1>2, <1>3

IsAnalysed(x, cs, ss, i, s) ==
    /\ x = [condition |-> x.condition, glyphs |-> x.glyphs]
    /\ x.condition = [g \in Glyph |->
          IF Needs(i, g, s) THEN WithAnd(RemoveSegments(cs.condition[g], ss), s)
          ELSE IF Gives(i, g, s) THEN WithOr(RemoveSegments(cs.condition[g], ss), s)
          ELSE cs.condition[g]]
    /\ x.glyphs = [t \in Segment |->
          (cs.glyphs[t] \ {g \in TouchedBy(i, s) :
               /\ t \in TriggeringSegments(cs.condition[g])
               /\ t \notin TriggeringSegments(RemoveSegments(cs.condition[g], ss))})
          \cup IF t = s THEN TouchedBy(i, s) ELSE {}]

LEMMA AnalysedFields ==
  ASSUME NEW i, InfoOK(i), NEW s \in Segment, NEW cs, NEW ss
  PROVE  IsAnalysed(Analysed(cs, ss, i, s), cs, ss, i, s)
<1> DEFINE a  == AnalyzeSegment(i, {s})
           gs == TouchedBy(i, s)
           c0 == RemoveSegmentsFromGlyphs(cs, gs, ss)
           c1 == AddAndCondition(c0, a.exclusive, s)
           c2 == AddAndCondition(c1, a.and, s)
           c3 == AddOrCondition(c2, a.or, s)
<1>1. /\ a.and = {g \in Glyph : Needs(i, g, s) /\ ~Gives(i, g, s)}
      /\ a.or = {g \in Glyph : Gives(i, g, s) /\ ~Needs(i, g, s)}
      /\ a.exclusive = {g \in Glyph : Needs(i, g, s) /\ Gives(i, g, s)}
  BY AnalysisOfOne
<1>2. gs = {g \in Glyph : Needs(i, g, s) \/ Gives(i, g, s)}
  BY TouchedGlyphs
<1> HIDE DEF gs, a
<1>3. /\ c0.condition = [g \in Glyph |-> IF g \in gs
                                         THEN RemoveSegments(cs.condition[g], ss)
                                         ELSE cs.condition[g]]
      /\ c0.glyphs = [t \in Segment |->
            cs.glyphs[t] \ {g \in gs :
                t \in TriggeringSegments(cs.condition[g])
                        \ TriggeringSegments(c0.condition[g])}]
  BY DEF RemoveSegmentsFromGlyphs
<1> HIDE DEF c0
<1>4. /\ c1.condition = [g \in Glyph |-> IF g \in a.exclusive
                                         THEN WithAnd(c0.condition[g], s)
                                         ELSE c0.condition[g]]
      /\ c1.glyphs = [c0.glyphs EXCEPT ![s] = @ \cup a.exclusive]
  BY DEF AddAndCondition, WithAnd
<1> HIDE DEF c1
<1>5. /\ c2.condition = [g \in Glyph |-> IF g \in a.and
                                         THEN WithAnd(c1.condition[g], s)
                                         ELSE c1.condition[g]]
      /\ c2.glyphs = [c1.glyphs EXCEPT ![s] = @ \cup a.and]
  BY DEF AddAndCondition, WithAnd
<1> HIDE DEF c2
<1>6. /\ c3.condition = [g \in Glyph |-> IF g \in a.or
                                         THEN WithOr(c2.condition[g], s)
                                         ELSE c2.condition[g]]
      /\ c3.glyphs = [c2.glyphs EXCEPT ![s] = @ \cup a.or]
      /\ c3 = [condition |-> c3.condition, glyphs |-> c3.glyphs]
  BY DEF AddOrCondition, WithOr
<1> HIDE DEF c3
<1>7. Analysed(cs, ss, i, s) = c3
  BY DEF Analysed, c3, c2, c1, c0, a, gs
<1>8. c3.condition = [g \in Glyph |->
         IF Needs(i, g, s) THEN WithAnd(RemoveSegments(cs.condition[g], ss), s)
         ELSE IF Gives(i, g, s) THEN WithOr(RemoveSegments(cs.condition[g], ss), s)
         ELSE cs.condition[g]]
  <2>1. ASSUME NEW g \in Glyph
        PROVE  c3.condition[g] =
                  IF Needs(i, g, s)
                  THEN WithAnd(RemoveSegments(cs.condition[g], ss), s)
                  ELSE IF Gives(i, g, s)
                  THEN WithOr(RemoveSegments(cs.condition[g], ss), s)
                  ELSE cs.condition[g]
    <3>1. /\ g \in gs <=> Needs(i, g, s) \/ Gives(i, g, s)
          /\ g \in a.exclusive <=> Needs(i, g, s) /\ Gives(i, g, s)
          /\ g \in a.and <=> Needs(i, g, s) /\ ~Gives(i, g, s)
          /\ g \in a.or <=> Gives(i, g, s) /\ ~Needs(i, g, s)
      BY <1>1, <1>2
    <3>2. c0.condition[g] = IF g \in gs THEN RemoveSegments(cs.condition[g], ss)
                            ELSE cs.condition[g]
      BY <1>3
    <3>3. c1.condition[g] = IF g \in a.exclusive THEN WithAnd(c0.condition[g], s)
                            ELSE c0.condition[g]
      BY <1>4
    <3>4. c2.condition[g] = IF g \in a.and THEN WithAnd(c1.condition[g], s)
                            ELSE c1.condition[g]
      BY <1>5
    <3>5. c3.condition[g] = IF g \in a.or THEN WithOr(c2.condition[g], s)
                            ELSE c2.condition[g]
      BY <1>6
    <3> QED BY <3>1, <3>2, <3>3, <3>4, <3>5
  <2> QED BY <1>6, <2>1
<1>9. c3.glyphs = [t \in Segment |->
         (cs.glyphs[t] \ {g \in gs :
              /\ t \in TriggeringSegments(cs.condition[g])
              /\ t \notin TriggeringSegments(RemoveSegments(cs.condition[g], ss))})
         \cup IF t = s THEN gs ELSE {}]
  <2> DEFINE lost(t) == {g \in gs :
              /\ t \in TriggeringSegments(cs.condition[g])
              /\ t \notin TriggeringSegments(RemoveSegments(cs.condition[g], ss))}
  <2>1. c0.glyphs = [t \in Segment |-> cs.glyphs[t] \ lost(t)]
    <3>1. \A g \in gs : c0.condition[g] = RemoveSegments(cs.condition[g], ss)
      BY <1>2, <1>3
    <3>2. \A t \in Segment :
             {g \in gs : t \in TriggeringSegments(cs.condition[g])
                                 \ TriggeringSegments(c0.condition[g])} = lost(t)
      BY <3>1
    <3> HIDE DEF lost
    <3> QED BY <1>3, <3>2
  <2> HIDE DEF lost
  <2>2. gs = a.exclusive \cup a.and \cup a.or
    BY <1>1, <1>2
  <2>3. c3.glyphs = [t \in Segment |-> (cs.glyphs[t] \ lost(t))
                                           \cup IF t = s THEN gs ELSE {}]
    <3> DEFINE out == [t \in Segment |-> cs.glyphs[t] \ lost(t)]
    <3>1. c3.glyphs = [[[out EXCEPT ![s] = @ \cup a.exclusive]
                             EXCEPT ![s] = @ \cup a.and]
                             EXCEPT ![s] = @ \cup a.or]
      BY <1>4, <1>5, <1>6, <2>1
    <3>2. ASSUME NEW t \in Segment, t # s
          PROVE  c3.glyphs[t] = cs.glyphs[t] \ lost(t)
      BY <3>1, <3>2
    <3>3. c3.glyphs[s] = (cs.glyphs[s] \ lost(s)) \cup gs
      BY <3>1, <2>2
    <3>4. c3.glyphs = [t \in Segment |-> c3.glyphs[t]]
      BY <3>1
    <3> HIDE DEF out
    <3> QED BY <3>2, <3>3, <3>4
  <2> QED BY <2>3 DEF lost
<1> QED BY <1>6, <1>7, <1>8, <1>9 DEF gs, IsAnalysed

IsReadyFor(cs, ss, i, V, s) ==
    /\ InSync(cs)
    /\ \A g \in Glyph : UNION cs.condition[g].groups \subseteq Segment
    /\ \A g \in TouchedBy(i, s) :
          RemoveSegments(cs.condition[g], ss).groups = ConditionOn(i, g, V).groups
    /\ \A g \in Glyph \ TouchedBy(i, s) : cs.condition[g] = ConditionOn(i, g, V)

LEMMA AnalysedIsExact ==
  ASSUME NEW i, InfoOK(i), NEW V \in SUBSET Segment, NEW s \in Segment \ V,
         NEW cs, NEW ss, IsReadyFor(cs, ss, i, V, s)
  PROVE  Analysed(cs, ss, i, s) = ConditionsOn(i, V \cup {s})
<1> DEFINE x == Analysed(cs, ss, i, s)
           U == V \cup {s}
           gs == TouchedBy(i, s)
           removed(g) == RemoveSegments(cs.condition[g], ss)
<1>1. gs = {g \in Glyph : Needs(i, g, s) \/ Gives(i, g, s)}
  BY TouchedGlyphs
<1>2. /\ x = [condition |-> x.condition, glyphs |-> x.glyphs]
      /\ x.condition = [g \in Glyph |->
            IF Needs(i, g, s) THEN WithAnd(removed(g), s)
            ELSE IF Gives(i, g, s) THEN WithOr(removed(g), s)
            ELSE cs.condition[g]]
      /\ x.glyphs = [t \in Segment |->
            (cs.glyphs[t] \ {g \in gs :
                 /\ t \in TriggeringSegments(cs.condition[g])
                 /\ t \notin TriggeringSegments(removed(g))})
            \cup IF t = s THEN gs ELSE {}]
  <2>1. IsAnalysed(Analysed(cs, ss, i, s), cs, ss, i, s)
    BY AnalysedFields
  <2> QED BY <2>1 DEF IsAnalysed
<1> HIDE DEF x, gs
<1>3. \A g \in gs : removed(g).groups = ConditionOn(i, g, V).groups
  BY DEF gs, IsReadyFor
<1>4. \A g \in Glyph \ gs : cs.condition[g] = ConditionOn(i, g, V)
  BY DEF gs, IsReadyFor
<1>5. \A g \in gs : TriggeringSegments(removed(g)) \subseteq TriggeringSegments(cs.condition[g])
  <2> SUFFICES ASSUME NEW g \in gs
               PROVE  TriggeringSegments(removed(g)) \subseteq TriggeringSegments(cs.condition[g])
    OBVIOUS
  <2>1. UNION cs.condition[g].groups \subseteq Segment
    BY <1>1 DEF IsReadyFor
  <2> QED BY <2>1, RemoveKeepsTriggers
<1> HIDE DEF removed
<1>6. ASSUME NEW g \in Glyph
      PROVE  x.condition[g] = ConditionOn(i, g, U)
  <2>1. CASE Needs(i, g, s)
    <3>1. WithAnd(removed(g), s) = ConditionOn(i, g, U)
      BY <1>1, <1>3, <2>1, AddNeeded
    <3> QED BY <1>2, <2>1, <3>1
  <2>2. CASE ~Needs(i, g, s) /\ Gives(i, g, s)
    <3>1. WithOr(removed(g), s) = ConditionOn(i, g, U)
      BY <1>1, <1>3, <2>2, AddGiven
    <3> QED BY <1>2, <2>2, <3>1
  <2>3. CASE ~Needs(i, g, s) /\ ~Gives(i, g, s)
    <3>1. \A t \in U \ V : t = s
      OBVIOUS
    <3>2. ConditionOn(i, g, U) = ConditionOn(i, g, V)
      BY <2>3, <3>1, AddNeither
    <3> QED BY <1>1, <1>2, <1>4, <2>3, <3>2
  <2> QED BY <2>1, <2>2, <2>3
<1>7. ASSUME NEW t \in Segment
      PROVE  x.glyphs[t] = {g \in Glyph : t \in TriggeringSegments(ConditionOn(i, g, U))}
  <2>1. cs.glyphs[t] = {g \in Glyph : t \in TriggeringSegments(cs.condition[g])}
    BY DEF InSync, IsReadyFor
  <2>2. ASSUME NEW g \in gs
        PROVE  /\ TriggeringSegments(removed(g)) = TriggeringSegments(ConditionOn(i, g, V))
               /\ TriggeringSegments(ConditionOn(i, g, U))
                     = TriggeringSegments(ConditionOn(i, g, V)) \cup {s}
    <3>1. Needs(i, g, s) \/ Gives(i, g, s)
      BY <1>1
    <3>2. removed(g).groups = ConditionOn(i, g, V).groups
      BY <1>3
    <3> QED BY <3>1, <3>2, TriggersWith DEF TriggeringSegments
  <2>3. ASSUME NEW g \in Glyph \ gs
        PROVE  ConditionOn(i, g, U) = cs.condition[g]
    <3>1. ~Needs(i, g, s) /\ ~Gives(i, g, s)
      BY <1>1
    <3>2. \A r \in U \ V : r = s
      OBVIOUS
    <3>3. ConditionOn(i, g, U) = ConditionOn(i, g, V)
      BY <3>1, <3>2, AddNeither
    <3> QED BY <1>4, <3>3
  <2>4. x.glyphs[t] = (cs.glyphs[t] \ {g \in gs :
                 /\ t \in TriggeringSegments(cs.condition[g])
                 /\ t \notin TriggeringSegments(removed(g))})
            \cup IF t = s THEN gs ELSE {}
    BY <1>2
  <2>5. gs \subseteq Glyph
    BY <1>1
  <2>6. ASSUME NEW g \in Glyph
        PROVE  g \in x.glyphs[t] <=> t \in TriggeringSegments(ConditionOn(i, g, U))
    <3>1. CASE g \in gs
      <4>1. g \in x.glyphs[t] <=> \/ t \in TriggeringSegments(removed(g))
                                  \/ t = s
        BY <1>5, <2>1, <2>4, <3>1
      <4>2. /\ TriggeringSegments(removed(g)) = TriggeringSegments(ConditionOn(i, g, V))
            /\ TriggeringSegments(ConditionOn(i, g, U))
                  = TriggeringSegments(ConditionOn(i, g, V)) \cup {s}
        BY <2>2, <3>1
      <4> QED BY <4>1, <4>2
    <3>2. CASE g \notin gs
      <4>1. g \in x.glyphs[t] <=> t \in TriggeringSegments(cs.condition[g])
        BY <2>1, <2>4, <3>2
      <4>2. ConditionOn(i, g, U) = cs.condition[g]
        BY <2>3, <3>2
      <4> QED BY <4>1, <4>2
    <3> QED BY <3>1, <3>2
  <2>7. x.glyphs[t] \subseteq Glyph
    BY <2>1, <2>4, <2>5
  <2> QED BY <2>6, <2>7
<1>8. x.condition = [g \in Glyph |-> ConditionOn(i, g, U)]
  BY <1>2, <1>6
<1>9. x.glyphs = [t \in Segment |->
                     {g \in Glyph : t \in TriggeringSegments(ConditionOn(i, g, U))}]
  BY <1>2, <1>7
<1>10. x = [condition |-> [g \in Glyph |-> ConditionOn(i, g, U)],
            glyphs |-> [t \in Segment |->
                     {g \in Glyph : t \in TriggeringSegments(ConditionOn(i, g, U))}]]
  BY <1>2, <1>8, <1>9
<1> QED BY <1>10 DEF ConditionsOn, x

(***************************************************************************)
(* Facts about these conditions: the index is right, they have a type.     *)
(***************************************************************************)
LEMMA ConditionsOnInSync ==
  ASSUME NEW i, NEW T \in SUBSET Segment
  PROVE  /\ InSync(ConditionsOn(i, T))
         /\ ConditionsOn(i, T) \in ConditionSet
         /\ \A g \in Glyph : /\ ConditionsOn(i, T).condition[g] = ConditionOn(i, g, T)
                             /\ UNION ConditionOn(i, g, T).groups \subseteq Segment
<1>1. \A g \in Glyph : ConditionOn(i, g, T) \in Condition
  BY ConditionOnSegments DEF GlyphCondition
<1>2. \A g \in Glyph : UNION ConditionOn(i, g, T).groups \subseteq Segment
  BY <1>1 DEF Condition, Group
<1> QED BY <1>1, <1>2 DEF ConditionsOn, InSync, ConditionSet

LEMMA SameConditions ==
  ASSUME NEW i, NEW T, NEW j, NEW U,
         \A g \in Glyph : ConditionOn(i, g, T) = ConditionOn(j, g, U)
  PROVE  ConditionsOn(i, T) = ConditionsOn(j, U)
<1>1. [g \in Glyph |-> ConditionOn(i, g, T)] = [g \in Glyph |-> ConditionOn(j, g, U)]
  OBVIOUS
<1>2. ASSUME NEW s
      PROVE  {g \in Glyph : s \in TriggeringSegments(ConditionOn(i, g, T))}
                = {g \in Glyph : s \in TriggeringSegments(ConditionOn(j, g, U))}
  OBVIOUS
<1> QED BY <1>1, <1>2 DEF ConditionsOn

LEMMA NothingAnalysed ==
  ASSUME NEW i
  PROVE  ConditionsOn(i, {}) = NoConditions /\ InertOn(i, {}) = {}
<1>1. \A g : ConditionOn(i, g, {}) = True
  BY NoGroups DEF Needing, Giving
<1>2. TriggeringSegments(True) = {}
  BY DEF True, TriggeringSegments
<1> QED BY <1>1, <1>2 DEF ConditionsOn, NoConditions, InertOn

-----------------------------------------------------------------------------
(***************************************************************************)
(* The analysis of all segments, one after the other.                      *)
(***************************************************************************)
AnalysedContext(i, G, T) ==
    [info |-> i, conditions |-> ConditionsOn(i, T), inert |-> InertOn(i, T),
     groupings |-> G]

LEMMA ReprocessFields ==
  ASSUME NEW i, NEW cs, NEW inert, NEW G, NEW s, i.segments[s] # {}
  PROVE  ReprocessSegment([info |-> i, conditions |-> cs, inert |-> inert,
                           groupings |-> G], s)
            = [info |-> i, conditions |-> Analysed(cs, {s}, i, s),
               inert |-> IF /\ AnalyzeSegment(i, {s}).and = {}
                            /\ AnalyzeSegment(i, {s}).or = {}
                         THEN inert \cup {s} ELSE inert,
               groupings |-> G]
<1> DEFINE ctx == [info |-> i, conditions |-> cs, inert |-> inert, groupings |-> G]
           a == AnalyzeSegment(i, {s})
           new_inert == IF a.and = {} /\ a.or = {} THEN inert \cup {s} ELSE inert
<1>1. ReprocessSegment(ctx, s) =
         [ctx EXCEPT !.conditions = Analysed(cs, {s}, i, s), !.inert = new_inert]
  BY DEF ReprocessSegment, Analysed, InvalidateSegmentsOfGlyphs
<1> HIDE DEF new_inert
<1>2. [ctx EXCEPT !.conditions = Analysed(cs, {s}, i, s), !.inert = new_inert]
         = [info |-> i, conditions |-> Analysed(cs, {s}, i, s), inert |-> new_inert,
            groupings |-> G]
  <2> DEFINE c == Analysed(cs, {s}, i, s)
             mid == [info |-> i, conditions |-> c, inert |-> inert, groupings |-> G]
  <2>1. [ctx EXCEPT !.conditions = c, !.inert = new_inert]
           = [[ctx EXCEPT !.conditions = c] EXCEPT !.inert = new_inert]
    OBVIOUS
  <2>2. [ctx EXCEPT !.conditions = c] = mid
    OBVIOUS
  <2>3. [mid EXCEPT !.inert = new_inert]
           = [info |-> i, conditions |-> c, inert |-> new_inert, groupings |-> G]
    OBVIOUS
  <2> HIDE DEF mid
  <2> QED BY <2>1, <2>2, <2>3
<1> QED BY <1>1, <1>2 DEF new_inert

LEMMA ReprocessOne ==
  ASSUME NEW i, InfoOK(i), NEW G, NEW T \in SUBSET Segment, NEW s \in Segment
  PROVE  ReprocessSegment(AnalysedContext(i, G, T), s) = AnalysedContext(i, G, T \cup {s})
<1> DEFINE U == T \cup {s}
           V == T \ {s}
           a == AnalyzeSegment(i, {s})
<1>1. InertOn(i, U) =
         IF i.segments[s] = {} THEN InertOn(i, T)
         ELSE IF a.and = {} /\ a.or = {} THEN InertOn(i, T) \cup {s} ELSE InertOn(i, T)
  BY InertStep
<1>2. CASE i.segments[s] = {}
  <2>1. ReprocessSegment(AnalysedContext(i, G, T), s) = AnalysedContext(i, G, T)
    BY <1>2 DEF ReprocessSegment, AnalysedContext
  <2>2. \A g : ConditionOn(i, g, U) = ConditionOn(i, g, T)
    <3> SUFFICES ASSUME NEW g PROVE ConditionOn(i, g, U) = ConditionOn(i, g, T)
      OBVIOUS
    <3>1. \A t \in U \ T : t = s
      OBVIOUS
    <3> QED BY <1>2, <3>1, AddNeither, NothingFromEmpty
  <2>3. ConditionsOn(i, U) = ConditionsOn(i, T)
    BY <2>2, SameConditions
  <2>4. InertOn(i, U) = InertOn(i, T)
    BY <1>1, <1>2
  <2> QED BY <2>1, <2>3, <2>4 DEF AnalysedContext
<1>3. CASE i.segments[s] # {}
  <2> DEFINE cs == ConditionsOn(i, T)
  <2>1. /\ InSync(cs)
        /\ \A g \in Glyph : cs.condition[g] = ConditionOn(i, g, T)
        /\ \A g \in Glyph : UNION cs.condition[g].groups \subseteq Segment
    BY ConditionsOnInSync
  <2>2. TouchedBy(i, s) = {g \in Glyph : Needs(i, g, s) \/ Gives(i, g, s)}
    BY TouchedGlyphs
  <2> HIDE DEF cs
  <2>3. \A g \in TouchedBy(i, s) :
           RemoveSegments(cs.condition[g], {s}).groups = ConditionOn(i, g, V).groups
    <3> SUFFICES ASSUME NEW g \in TouchedBy(i, s)
                 PROVE  RemoveSegments(cs.condition[g], {s}).groups
                           = ConditionOn(i, g, V).groups
      OBVIOUS
    <3>1. cs.condition[g] = ConditionOn(i, g, T)
      BY <2>1, <2>2
    <3> QED BY <3>1, RemoveGroups
  <2>4. \A g \in Glyph \ TouchedBy(i, s) : cs.condition[g] = ConditionOn(i, g, V)
    <3> SUFFICES ASSUME NEW g \in Glyph \ TouchedBy(i, s)
                 PROVE  cs.condition[g] = ConditionOn(i, g, V)
      OBVIOUS
    <3>1. ~Needs(i, g, s) /\ ~Gives(i, g, s)
      BY <2>2
    <3>2. V \subseteq T /\ \A t \in T \ V : t = s
      OBVIOUS
    <3>3. ConditionOn(i, g, T) = ConditionOn(i, g, V)
      BY <3>1, <3>2, AddNeither
    <3> QED BY <2>1, <3>3
  <2>5. s \in Segment \ V /\ V \in SUBSET Segment /\ V \cup {s} = U
    OBVIOUS
  <2> HIDE DEF V, U
  <2>6. Analysed(cs, {s}, i, s) = ConditionsOn(i, U)
    <3>1. IsReadyFor(cs, {s}, i, V, s)
      BY <2>1, <2>3, <2>4 DEF IsReadyFor
    <3>2. Analysed(cs, {s}, i, s) = ConditionsOn(i, V \cup {s})
      BY <2>5, <3>1, AnalysedIsExact
    <3> QED BY <2>5, <3>2
  <2>7. ReprocessSegment(AnalysedContext(i, G, T), s) =
           [info |-> i, conditions |-> Analysed(cs, {s}, i, s),
            inert |-> IF a.and = {} /\ a.or = {} THEN InertOn(i, T) \cup {s}
                      ELSE InertOn(i, T),
            groupings |-> G]
    BY <1>3, ReprocessFields DEF AnalysedContext, cs
  <2> HIDE DEF a
  <2> QED BY <1>1, <1>3, <2>6, <2>7 DEF AnalysedContext, U
<1> QED BY <1>2, <1>3

LEMMA ReprocessedSegments ==
  ASSUME NEW i, InfoOK(i), NEW G
  PROVE  ReprocessSegments(AnalysedContext(i, G, {}), Segment)
            = AnalysedContext(i, G, Segment)
<1> DEFINE ctx == AnalysedContext(i, G, {})
           after[done \in SUBSET Segment] ==
              IF done = {} THEN ctx
              ELSE ReprocessSegment(after[done \ {Max(done)}], Max(done))
           Sol(h) == h = [done \in SUBSET Segment |->
              IF done = {} THEN ctx
              ELSE ReprocessSegment(h[done \ {Max(done)}], Max(done))]
           f == [T \in SUBSET Segment |-> AnalysedContext(i, G, T)]
<1>1. after = CHOOSE h : Sol(h)
  OBVIOUS
<1>2. ReprocessSegments(ctx, Segment) = after[Segment]
  BY DEF ReprocessSegments
<1> HIDE DEF after, ctx
<1>3. Sol(f)
  <2>1. ASSUME NEW T \in SUBSET Segment
        PROVE  f[T] = IF T = {} THEN ctx
                      ELSE ReprocessSegment(f[T \ {Max(T)}], Max(T))
    <3>1. CASE T = {}
      BY <3>1 DEF ctx
    <3>2. CASE T # {}
      <4>1. Max(T) \in T
        BY <3>2, MaxIsElement
      <4> DEFINE s == Max(T)
                 U == T \ {s}
      <4> HIDE DEF s
      <4>2. s \in Segment /\ U \in SUBSET Segment /\ U \cup {s} = T
        BY <4>1 DEF s
      <4>3. f[U] = AnalysedContext(i, G, U) /\ f[T] = AnalysedContext(i, G, T)
        BY <4>2
      <4> HIDE DEF U, f
      <4>4. ReprocessSegment(f[U], s) = f[T]
        BY <4>2, <4>3, ReprocessOne
      <4> QED BY <3>2, <4>4 DEF s, U
    <3> QED BY <3>1, <3>2
  <2>2. f = [T \in SUBSET Segment |-> f[T]]
    OBVIOUS
  <2> HIDE DEF f
  <2> QED BY <2>1, <2>2
<1>4. Sol(after)
  BY <1>1, <1>3
<1>5. \A T \in SUBSET Segment : after[T] = f[T]
  <2> DEFINE bad == {T \in SUBSET Segment : after[T] # f[T]}
  <2> SUFFICES ASSUME bad # {} PROVE FALSE
    OBVIOUS
  <2>1. PICK T \in bad : \A U \in bad : U \subseteq T => U = T
    <3>1. bad \in SUBSET (SUBSET Segment)
      OBVIOUS
    <3> HIDE DEF bad
    <3>2. IsFiniteSet(Segment)
      BY SegmentAssumption
    <3>3. \E T \in bad : \A U \in bad : U \subseteq T => U = T
      BY <3>1, <3>2, SmallestSubset
    <3> QED BY <3>3
  <2> HIDE DEF f
  <2>2. /\ after[T] = IF T = {} THEN ctx
                      ELSE ReprocessSegment(after[T \ {Max(T)}], Max(T))
        /\ f[T] = IF T = {} THEN ctx ELSE ReprocessSegment(f[T \ {Max(T)}], Max(T))
    BY <1>3, <1>4
  <2>3. CASE T = {}
    BY <2>2, <2>3
  <2>4. CASE T # {}
    <3>1. Max(T) \in T
      BY <2>4, MaxIsElement
    <3> DEFINE U == T \ {Max(T)}
    <3>2. U \in SUBSET Segment /\ U \subseteq T /\ U # T
      BY <3>1
    <3>3. after[U] = f[U]
      BY <2>1, <3>2
    <3> QED BY <2>2, <2>4, <3>3
  <2> QED BY <2>3, <2>4
<1>6. after[Segment] = AnalysedContext(i, G, Segment)
  BY <1>5
<1> QED BY <1>2, <1>6 DEF ctx

-----------------------------------------------------------------------------
(***************************************************************************)
(* The first analysis, and that after a move into the initial font: it     *)
(* starts from no conditions at all.                                       *)
(***************************************************************************)
Grouping(i, G, glyphs, modified) ==
    GroupGlyphs(G, i, ConditionsOn(i, Segment).condition, glyphs, modified)

LEMMA GroupedContext ==
  ASSUME NEW i, NEW G, NEW glyphs, NEW modified
  PROVE  Grouped(AnalysedContext(i, G, Segment), glyphs, modified)
            = AnalysedContext(i, Grouping(i, G, glyphs, modified), Segment)
<1> DEFINE H == Grouping(i, G, glyphs, modified)
<1>1. Grouped(AnalysedContext(i, G, Segment), glyphs, modified)
         = [AnalysedContext(i, G, Segment) EXCEPT !.groupings = H]
  BY DEF Grouped, Grouping, AnalysedContext
<1> HIDE DEF H
<1>2. [AnalysedContext(i, G, Segment) EXCEPT !.groupings = H]
         = AnalysedContext(i, H, Segment)
  BY DEF AnalysedContext
<1> QED BY <1>1, <1>2 DEF H

LEMMA AnalysedFromScratch ==
  ASSUME NEW i, InfoOK(i), NEW G
  PROVE  ReprocessAll([info |-> i, conditions |-> NoConditions, inert |-> {},
                       groupings |-> G])
            = AnalysedContext(i, Grouping(i, G, NonInitFontGlyphs(i), {}), Segment)
<1>1. [info |-> i, conditions |-> NoConditions, inert |-> {}, groupings |-> G]
         = AnalysedContext(i, G, {})
  BY NothingAnalysed DEF AnalysedContext
<1>2. AnalysedContext(i, G, {}).info = i
  BY DEF AnalysedContext
<1>3. ReprocessSegments(AnalysedContext(i, G, {}), Segment)
         = AnalysedContext(i, G, Segment)
  BY ReprocessedSegments
<1> QED BY <1>1, <1>2, <1>3, GroupedContext DEF ReprocessAll

LEMMA RemoveAll ==
  ASSUME NEW c, UNION c.groups \subseteq Segment
  PROVE  RemoveSegments(c, Segment) = True
<1>1. {g \in c.groups : ~(g \subseteq Segment)} = {}
  OBVIOUS
<1> QED BY <1>1 DEF RemoveSegments

LEMMA NothingRemains ==
  ASSUME NEW cs, InSync(cs), NEW gs,
         \A g \in Glyph : /\ UNION cs.condition[g].groups \subseteq Segment
                          /\ TriggeringSegments(cs.condition[g]) = {}
                                => cs.condition[g] = True
  PROVE  InvalidateSegments(InvalidateGlyphs(cs, gs), Segment) = NoConditions
<1> DEFINE touched == UNION {TriggeringSegments(cs.condition[g]) : g \in gs}
           c1 == InvalidateGlyphs(cs, gs)
           named == GlyphsWithSegments(c1, Segment)
           cleared == [c1 EXCEPT !.glyphs =
                          [s \in Segment |-> IF s \in Segment THEN {} ELSE @[s]]]
<1>1. /\ c1.condition = [g \in Glyph |-> IF g \in gs THEN True ELSE cs.condition[g]]
      /\ c1.glyphs = [s \in Segment |-> IF s \in touched THEN cs.glyphs[s] \ gs
                                        ELSE cs.glyphs[s]]
      /\ DOMAIN c1 = {"condition", "glyphs"}
  BY DEF InvalidateGlyphs
<1> HIDE DEF c1, touched
<1>2. /\ cleared.condition = c1.condition
      /\ \A s \in Segment : cleared.glyphs[s] = {}
  BY <1>1
<1>3. InvalidateSegments(c1, Segment) = RemoveSegmentsFromGlyphs(cleared, named, Segment)
  BY DEF InvalidateSegments
<1> HIDE DEF cleared
<1>4. ASSUME NEW g \in Glyph
      PROVE  (IF g \in named THEN RemoveSegments(cleared.condition[g], Segment)
              ELSE cleared.condition[g]) = True
  <2>1. CASE g \in gs
    <3>1. cleared.condition[g] = True
      BY <1>1, <1>2, <2>1
    <3>2. RemoveSegments(True, Segment) = True
      BY RemoveAll DEF True
    <3> QED BY <3>1, <3>2
  <2>2. CASE g \notin gs
    <3>1. cleared.condition[g] = cs.condition[g]
      BY <1>1, <1>2, <2>2
    <3>2. CASE TriggeringSegments(cs.condition[g]) = {}
      <4>1. cs.condition[g] = True
        BY <3>2
      <4>2. RemoveSegments(True, Segment) = True
        BY RemoveAll DEF True
      <4> QED BY <3>1, <4>1, <4>2
    <3>3. CASE TriggeringSegments(cs.condition[g]) # {}
      <4>1. PICK s : s \in TriggeringSegments(cs.condition[g])
        BY <3>3
      <4>2. s \in Segment
        BY <4>1 DEF TriggeringSegments
      <4>3. g \in cs.glyphs[s]
        BY <4>1, <4>2 DEF InSync
      <4>4. g \in c1.glyphs[s]
        BY <1>1, <2>2, <4>2, <4>3
      <4>5. g \in named
        BY <4>2, <4>4 DEF GlyphsWithSegments
      <4>6. RemoveSegments(cs.condition[g], Segment) = True
        BY RemoveAll
      <4> QED BY <3>1, <4>5, <4>6
    <3> QED BY <3>2, <3>3
  <2> QED BY <2>1, <2>2
<1> HIDE DEF named
<1> DEFINE after == [g \in Glyph |->
              IF g \in named THEN RemoveSegments(cleared.condition[g], Segment)
              ELSE cleared.condition[g]]
           lost(g) == TriggeringSegments(cleared.condition[g])
                          \ TriggeringSegments(after[g])
<1>5. RemoveSegmentsFromGlyphs(cleared, named, Segment) =
         [condition |-> after,
          glyphs |-> [s \in Segment |-> cleared.glyphs[s] \ {g \in named : s \in lost(g)}]]
  BY DEF RemoveSegmentsFromGlyphs
<1>6. after = [g \in Glyph |-> True]
  BY <1>4
<1> HIDE DEF lost, after
<1>7. [s \in Segment |-> cleared.glyphs[s] \ {g \in named : s \in lost(g)}]
         = [s \in Segment |-> {}]
  BY <1>2
<1> QED BY <1>3, <1>5, <1>6, <1>7 DEF NoConditions, c1

LEMMA ReassignedIsEmpty ==
  ASSUME NEW i, NEW G, NEW gs
  PROVE  ReassignedConditions(AnalysedContext(i, G, Segment), gs) = NoConditions
<1> DEFINE cs == ConditionsOn(i, Segment)
<1>1. /\ InSync(cs)
      /\ \A g \in Glyph : /\ cs.condition[g] = ConditionOn(i, g, Segment)
                          /\ UNION ConditionOn(i, g, Segment).groups \subseteq Segment
  BY ConditionsOnInSync
<1>2. ASSUME NEW g \in Glyph, TriggeringSegments(ConditionOn(i, g, Segment)) = {}
      PROVE  ConditionOn(i, g, Segment) = True
  <2>1. Needing(i, g, Segment) = {} /\ Giving(i, g, Segment) = {}
    BY <1>2, ConditionOnSegments
  <2> QED BY <2>1, NoGroups
<1> HIDE DEF cs
<1>3. InvalidateSegments(InvalidateGlyphs(cs, gs), Segment) = NoConditions
  BY <1>1, <1>2, NothingRemains
<1> QED BY <1>3 DEF ReassignedConditions, AnalysedContext, cs

MovedInfo(i, def) == ReassignInit(i, ExpandClosure(i.font, def))
MovedGlyphs(i, def) == NonInitFontGlyphs(i) \cap ExpandClosure(i.font, def).gids
ChangedSegments(i, def) ==
    {s \in Segment : i.segments[s] \cap ExpandClosure(i.font, def).codepoints # {}}

ChangedGlyphs(i, j) ==
    {g \in NonInitFontGlyphs(j) : ConditionOn(i, g, Segment) # ConditionOn(j, g, Segment)}

LEMMA MovedIsOK ==
  ASSUME NEW i, InfoOK(i), NEW def \in Definition,
         i.init.codepoints = def.codepoints, i.init.gids \subseteq def.gids
  PROVE  /\ InfoOK(MovedInfo(i, def))
         /\ MovedInfo(i, def).font = i.font
         /\ MovedInfo(i, def).handling = i.handling
<1> DEFINE e == ExpandClosure(i.font, def)
<1>1. i \in Info /\ i.font \in Font
  BY DEF InfoOK, Info
<1>2. /\ e \in Definition
      /\ def.codepoints \subseteq e.codepoints /\ def.gids \subseteq e.gids
      /\ e.codepoints \cap Feature = def.codepoints \cap Feature
  BY <1>1, ExpandClosureEnds
<1> HIDE DEF e
<1>3. /\ i.init.codepoints \subseteq e.codepoints /\ i.init.gids \subseteq e.gids
      /\ e.codepoints \cap Feature \subseteq i.init.codepoints
  BY <1>2
<1>4. InfoOK(ReassignInit(i, e))
  BY <1>2, <1>3, MovedInfoOK
<1>5. ReassignInit(i, e).font = i.font /\ ReassignInit(i, e).handling = i.handling
  BY <1>1, <1>2, ReassignInitFields
<1> QED BY <1>4, <1>5 DEF MovedInfo, e

LEMMA MovedContext ==
  ASSUME NEW i, InfoOK(i), NEW G, NEW def \in Definition,
         i.init.codepoints = def.codepoints, i.init.gids \subseteq def.gids
  PROVE  ReassignInitSubset(AnalysedContext(i, G, Segment), def)
            = AnalysedContext(
                  MovedInfo(i, def),
                  Grouping(MovedInfo(i, def), G,
                           MovedGlyphs(i, def) \cup ChangedGlyphs(i, MovedInfo(i, def)),
                           ChangedSegments(i, def)),
                  Segment)
<1> DEFINE ctx == AnalysedContext(i, G, Segment)
           j == MovedInfo(i, def)
           removed == MovedGlyphs(i, def)
           fresh == [ctx EXCEPT !.info = j,
                                !.conditions = ReassignedConditions(ctx, removed),
                                !.inert = {}]
           after == ReprocessSegments(fresh, Segment)
           changed == {g \in NonInitFontGlyphs(after.info) :
                          ctx.conditions.condition[g] # after.conditions.condition[g]}
<1>1. InfoOK(j)
  BY MovedIsOK
<1>2. /\ ctx.info = i
      /\ ctx = [info |-> i, conditions |-> ConditionsOn(i, Segment),
                inert |-> InertOn(i, Segment), groupings |-> G]
  BY DEF AnalysedContext
<1>3. ReassignInitSubset(ctx, def)
         = Grouped(after, removed \cup changed, ChangedSegments(i, def))
  BY <1>2 DEF ReassignInitSubset, MovedInfo, MovedGlyphs, ChangedSegments
<1>4. ReassignedConditions(ctx, removed) = NoConditions
  BY ReassignedIsEmpty
<1> HIDE DEF j, removed
<1>5. fresh = [info |-> j, conditions |-> NoConditions, inert |-> {}, groupings |-> G]
  <2> DEFINE c1 == [info |-> j, conditions |-> ConditionsOn(i, Segment),
                    inert |-> InertOn(i, Segment), groupings |-> G]
             c2 == [info |-> j, conditions |-> NoConditions,
                    inert |-> InertOn(i, Segment), groupings |-> G]
  <2>1. fresh = [[[ctx EXCEPT !.info = j] EXCEPT !.conditions = NoConditions]
                     EXCEPT !.inert = {}]
    BY <1>4
  <2>2. [ctx EXCEPT !.info = j] = c1
    BY <1>2
  <2>3. [c1 EXCEPT !.conditions = NoConditions] = c2
    OBVIOUS
  <2>4. [c2 EXCEPT !.inert = {}]
           = [info |-> j, conditions |-> NoConditions, inert |-> {}, groupings |-> G]
    OBVIOUS
  <2> HIDE DEF c1, c2, fresh, ctx
  <2> QED BY <2>1, <2>2, <2>3, <2>4
<1> HIDE DEF fresh
<1>6. after = AnalysedContext(j, G, Segment)
  <2>1. fresh = AnalysedContext(j, G, {})
    BY <1>5, NothingAnalysed DEF AnalysedContext
  <2> QED BY <1>1, <2>1, ReprocessedSegments
<1> HIDE DEF after
<1>7. changed = ChangedGlyphs(i, j)
  <2>1. after.info = j /\ after.conditions = ConditionsOn(j, Segment)
    BY <1>6 DEF AnalysedContext
  <2>2. NonInitFontGlyphs(j) \subseteq Glyph
    BY <1>1 DEF InfoOK, Info, NonInitFontGlyphs
  <2>3. \A g \in Glyph :
           /\ ctx.conditions.condition[g] = ConditionOn(i, g, Segment)
           /\ after.conditions.condition[g] = ConditionOn(j, g, Segment)
    BY <1>2, <2>1, ConditionsOnInSync
  <2> HIDE DEF ctx
  <2> QED BY <2>1, <2>2, <2>3 DEF ChangedGlyphs
<1> HIDE DEF changed, ctx
<1>8. ReassignInitSubset(ctx, def)
         = AnalysedContext(j, Grouping(j, G, removed \cup ChangedGlyphs(i, j),
                                       ChangedSegments(i, def)), Segment)
  BY <1>3, <1>6, <1>7, GroupedContext
<1> QED BY <1>8 DEF ctx, j, removed

LEMMA CreatedContext ==
  ASSUME NEW f \in Font, NEW segments \in [Segment -> SUBSET Codepoint],
         NEW init \in Definition, NEW handling \in UnmappedGlyphHandling
  PROVE  LET i == CreateInfo(f, segments, init, handling)
         IN  /\ InfoOK(i)
             /\ InitializeSegmentationContext(f, segments, init, handling)
                   = AnalysedContext(i, Grouping(i, NoGroupings, NonInitFontGlyphs(i), {}),
                                     Segment)
<1> DEFINE i == CreateInfo(f, segments, init, handling)
<1>1. InfoOK(i)
  BY CreatedInfoOK
<1> HIDE DEF i
<1>2. ReprocessAll([info |-> i, conditions |-> NoConditions, inert |-> {},
                    groupings |-> NoGroupings])
         = AnalysedContext(i, Grouping(i, NoGroupings, NonInitFontGlyphs(i), {}), Segment)
  BY <1>1, AnalysedFromScratch
<1> QED BY <1>1, <1>2 DEF InitializeSegmentationContext, CreateContext, i

-----------------------------------------------------------------------------
(***************************************************************************)
(* A merge.  Glyphs which the new base does not touch were not conditioned *)
(* on a merged segment, and keep their condition.                          *)
(***************************************************************************)
LEMMA MergedOthers ==
  ASSUME NEW i, InfoOK(i), NEW base \in Segment, NEW to_merge \in SUBSET Segment,
         NEW T \in SUBSET (Segment \ (to_merge \cup {base})), NEW g
  PROVE  ConditionOn(MergeDefinitions(i, base, to_merge), g, T) = ConditionOn(i, g, T)
<1> DEFINE m == MergeDefinitions(i, base, to_merge)
<1> HIDE DEF m
<1>1. \A s \in T : /\ Needs(m, g, s) <=> Needs(i, g, s)
                   /\ Gives(m, g, s) <=> Gives(i, g, s)
  <2> SUFFICES ASSUME NEW s \in T
               PROVE  /\ Needs(m, g, s) <=> Needs(i, g, s)
                      /\ Gives(m, g, s) <=> Gives(i, g, s)
    OBVIOUS
  <2>1. s \in Segment \ (to_merge \cup {base})
    OBVIOUS
  <2> QED BY <2>1, MergeOfOthers DEF m
<1>2. Needing(m, g, T) = Needing(i, g, T) /\ Giving(m, g, T) = Giving(i, g, T)
  BY <1>1 DEF Needing, Giving
<1> QED BY <1>2 DEF ConditionOn, m

LEMMA MergedAll ==
  ASSUME NEW i, InfoOK(i), NEW base \in Segment, NEW to_merge \in SUBSET Segment, NEW g
  PROVE  ConditionOn(MergeDefinitions(i, base, to_merge), g,
                     (Segment \ (to_merge \cup {base})) \cup {base})
            = ConditionOn(MergeDefinitions(i, base, to_merge), g, Segment)
<1> DEFINE m == MergeDefinitions(i, base, to_merge)
           V == Segment \ (to_merge \cup {base})
<1>1. i \in Info
  BY DEF InfoOK
<1>2. InfoOK(m)
  BY MergedInfoOK
<1>3. \A s \in to_merge \ {base} : m.segments[s] = {}
  BY <1>1, MergedFields
<1> HIDE DEF m
<1>4. \A s \in Segment \ (V \cup {base}) : s \in to_merge \ {base} /\ s \in Segment
  OBVIOUS
<1>5. \A s \in Segment \ (V \cup {base}) : ~Needs(m, g, s) /\ ~Gives(m, g, s)
  BY <1>2, <1>3, <1>4, NothingFromEmpty
<1>6. V \cup {base} \subseteq Segment
  OBVIOUS
<1> HIDE DEF V
<1>7. ConditionOn(m, g, Segment) = ConditionOn(m, g, V \cup {base})
  BY <1>5, <1>6, AddNeither
<1> QED BY <1>7 DEF m, V

LEMMA UntouchedByMerge ==
  ASSUME NEW i, InfoOK(i), NEW base \in Segment, NEW to_merge \in SUBSET Segment,
         NEW g, ~Needs(MergeDefinitions(i, base, to_merge), g, base),
         ~Gives(MergeDefinitions(i, base, to_merge), g, base)
  PROVE  /\ ConditionOn(i, g, Segment) =
               ConditionOn(MergeDefinitions(i, base, to_merge), g,
                           Segment \ (to_merge \cup {base}))
         /\ TriggeringSegments(ConditionOn(i, g, Segment))
               \cap (to_merge \cup {base}) = {}
<1> DEFINE m == MergeDefinitions(i, base, to_merge)
           M == to_merge \cup {base}
           V == Segment \ M
<1>1. \A s \in M : ~Needs(i, g, s) /\ ~Gives(i, g, s)
  BY MergeOfBase
<1>2. V \subseteq Segment /\ \A s \in Segment \ V : ~Needs(i, g, s) /\ ~Gives(i, g, s)
  BY <1>1
<1>3. V \in SUBSET (Segment \ (to_merge \cup {base})) /\ V \in SUBSET Segment
  OBVIOUS
<1>4. Needing(i, g, Segment) \cap M = {} /\ Giving(i, g, Segment) \cap M = {}
  BY <1>1 DEF Needing, Giving
<1> HIDE DEF V, m
<1>5. ConditionOn(i, g, Segment) = ConditionOn(i, g, V)
  BY <1>2, AddNeither
<1>6. ConditionOn(m, g, V) = ConditionOn(i, g, V)
  BY <1>3, MergedOthers DEF m
<1>7. TriggeringSegments(ConditionOn(i, g, Segment)) \cap M = {}
  BY <1>4, ConditionOnSegments
<1> QED BY <1>5, <1>6, <1>7 DEF V, m

(***************************************************************************)
(* What leaves a condition depends only on the segments it names.          *)
(***************************************************************************)
LEMMA RemoveNamed ==
  ASSUME NEW c, NEW ss, NEW tt,
         TriggeringSegments(c) \cap ss = TriggeringSegments(c) \cap tt
  PROVE  RemoveSegments(c, ss) = RemoveSegments(c, tt)
<1>1. \A g \in c.groups : (g \subseteq ss <=> g \subseteq tt) /\ g \ ss = g \ tt
  BY DEF TriggeringSegments
<1> DEFINE R1 == {g \in c.groups : ~(g \subseteq ss)}
           R2 == {g \in c.groups : ~(g \subseteq tt)}
<1>2. R1 = R2
  BY <1>1
<1> DEFINE K1 == {g \ ss : g \in R1}
           K2 == {g \ tt : g \in R2}
           result(R, K) ==
              IF K = {} THEN True
              ELSE IF IsPurelyDisjunctive(c) THEN OrSegments(UNION K)
              ELSE IF Cardinality(R) = 1 /\ Cardinality(UNION K) = 1
              THEN ExclusiveSegment(CHOOSE s \in UNION K : TRUE)
              ELSE CompositeCondition(K)
<1>3. K1 = K2
  BY <1>1, <1>2
<1>4. RemoveSegments(c, ss) = result(R1, K1) /\ RemoveSegments(c, tt) = result(R2, K2)
  BY DEF RemoveSegments
<1> HIDE DEF R1, R2, K1, K2, result
<1> QED BY <1>2, <1>3, <1>4

IsRemoval(x, cs, gs, ss) ==
    \A g \in Glyph : /\ UNION x.condition[g].groups \subseteq Segment
                     /\ g \in gs => x.condition[g] = RemoveSegments(cs.condition[g], ss)
                     /\ g \notin gs => x.condition[g] = cs.condition[g]

LEMMA RemovalInSync ==
  ASSUME NEW cs, InSync(cs), NEW gs \in SUBSET Glyph, NEW ss,
         \A g \in Glyph : UNION cs.condition[g].groups \subseteq Segment,
         NEW x, x = RemoveSegmentsFromGlyphs(cs, gs, ss)
  PROVE  InSync(x) /\ IsRemoval(x, cs, gs, ss)
<1>1. /\ x.condition = [g \in Glyph |-> IF g \in gs
                                        THEN RemoveSegments(cs.condition[g], ss)
                                        ELSE cs.condition[g]]
      /\ x.glyphs = [s \in Segment |->
            cs.glyphs[s] \ {g \in gs : s \in TriggeringSegments(cs.condition[g])
                                               \ TriggeringSegments(x.condition[g])}]
  BY DEF RemoveSegmentsFromGlyphs
<1>2. ASSUME NEW g \in Glyph
      PROVE  /\ g \in gs => TriggeringSegments(x.condition[g])
                               \subseteq TriggeringSegments(cs.condition[g])
             /\ g \notin gs => x.condition[g] = cs.condition[g]
  BY <1>1, RemoveKeepsTriggers
<1>3. ASSUME NEW g \in Glyph PROVE UNION x.condition[g].groups \subseteq Segment
  BY <1>2 DEF TriggeringSegments
<1>4. ASSUME NEW s \in Segment
      PROVE  x.glyphs[s] = {g \in Glyph : s \in TriggeringSegments(x.condition[g])}
  <2>1. cs.glyphs[s] = {g \in Glyph : s \in TriggeringSegments(cs.condition[g])}
    BY DEF InSync
  <2> QED BY <1>1, <1>2, <2>1
<1> QED BY <1>1, <1>3, <1>4 DEF InSync, IsRemoval

LEMMA NamedGlyphs ==
  ASSUME NEW i, InfoOK(i), NEW base \in Segment, NEW to_merge \in SUBSET Segment
  PROVE  LET named == GlyphsWithSegments(ConditionsOn(i, Segment), to_merge)
         IN  /\ named = {g \in Glyph : TriggeringSegments(ConditionOn(i, g, Segment))
                                           \cap to_merge # {}}
             /\ named \subseteq TouchedBy(MergeDefinitions(i, base, to_merge), base)
<1> DEFINE cs == ConditionsOn(i, Segment)
           m == MergeDefinitions(i, base, to_merge)
           named == GlyphsWithSegments(cs, to_merge)
<1>1. named = {g \in Glyph : TriggeringSegments(ConditionOn(i, g, Segment))
                                           \cap to_merge # {}}
  <2>1. \A s \in to_merge : cs.glyphs[s] =
              {g \in Glyph : s \in TriggeringSegments(ConditionOn(i, g, Segment))}
    BY ConditionsOnInSync DEF InSync
  <2> HIDE DEF cs
  <2> QED BY <2>1 DEF GlyphsWithSegments
<1>2. InfoOK(m)
  BY MergedInfoOK
<1>3. TouchedBy(m, base) = {g \in Glyph : Needs(m, g, base) \/ Gives(m, g, base)}
  BY <1>2, TouchedGlyphs
<1> HIDE DEF named
<1>4. ASSUME NEW g \in named PROVE g \in TouchedBy(m, base)
  <2> SUFFICES ASSUME ~Needs(m, g, base), ~Gives(m, g, base) PROVE FALSE
    BY <1>1, <1>3
  <2>1. TriggeringSegments(ConditionOn(i, g, Segment)) \cap (to_merge \cup {base}) = {}
    BY UntouchedByMerge
  <2> QED BY <1>1, <2>1
<1> QED BY <1>1, <1>4 DEF named

LEMMA ReadyForMerge ==
  ASSUME NEW i, InfoOK(i), NEW base \in Segment, NEW to_merge \in SUBSET Segment
  PROVE  IsReadyFor(ConditionsOn(i, Segment), to_merge \cup {base},
                    MergeDefinitions(i, base, to_merge),
                    Segment \ (to_merge \cup {base}), base)
<1> DEFINE m == MergeDefinitions(i, base, to_merge)
           M == to_merge \cup {base}
           V == Segment \ M
           cs == ConditionsOn(i, Segment)
<1>1. /\ InSync(cs)
      /\ \A g \in Glyph : /\ cs.condition[g] = ConditionOn(i, g, Segment)
                          /\ UNION ConditionOn(i, g, Segment).groups \subseteq Segment
  BY ConditionsOnInSync
<1>2. InfoOK(m)
  BY MergedInfoOK
<1>3. TouchedBy(m, base) = {g \in Glyph : Needs(m, g, base) \/ Gives(m, g, base)}
  BY <1>2, TouchedGlyphs
<1> HIDE DEF cs
<1>4. ASSUME NEW g \in TouchedBy(m, base)
      PROVE  RemoveSegments(cs.condition[g], M).groups = ConditionOn(m, g, V).groups
  <2>1. cs.condition[g] = ConditionOn(i, g, Segment)
    BY <1>1, <1>3
  <2>2. Segment \in SUBSET Segment
    OBVIOUS
  <2>3. RemoveSegments(cs.condition[g], M).groups = ConditionOn(i, g, Segment \ M).groups
    BY <2>1, <2>2, RemoveGroups
  <2>4. V \in SUBSET (Segment \ (to_merge \cup {base}))
    OBVIOUS
  <2>5. ConditionOn(m, g, V) = ConditionOn(i, g, V)
    BY <2>4, MergedOthers
  <2> QED BY <2>3, <2>5
<1>5. ASSUME NEW g \in Glyph \ TouchedBy(m, base)
      PROVE  cs.condition[g] = ConditionOn(m, g, V)
  <2>1. ~Needs(m, g, base) /\ ~Gives(m, g, base)
    BY <1>3
  <2>2. ConditionOn(i, g, Segment) = ConditionOn(m, g, V)
    BY <2>1, UntouchedByMerge
  <2> QED BY <1>1, <2>2
<1> HIDE DEF m
<1>6. IsReadyFor(cs, M, m, V, base)
  BY <1>1, <1>4, <1>5 DEF IsReadyFor
<1> QED BY <1>6 DEF m, cs

LEMMA ReadyAfterRemoval ==
  ASSUME NEW i, InfoOK(i), NEW base \in Segment, NEW to_merge \in SUBSET Segment
  PROVE  IsReadyFor(RemoveSegmentsFromGlyphs(
                        ConditionsOn(i, Segment),
                        GlyphsWithSegments(ConditionsOn(i, Segment), to_merge),
                        to_merge \cup {base}),
                    {base}, MergeDefinitions(i, base, to_merge),
                    Segment \ (to_merge \cup {base}), base)
<1> DEFINE m == MergeDefinitions(i, base, to_merge)
           M == to_merge \cup {base}
           V == Segment \ M
           cs == ConditionsOn(i, Segment)
           named == GlyphsWithSegments(cs, to_merge)
           c1 == RemoveSegmentsFromGlyphs(cs, named, M)
<1>1. /\ InSync(cs)
      /\ \A g \in Glyph : /\ cs.condition[g] = ConditionOn(i, g, Segment)
                          /\ UNION ConditionOn(i, g, Segment).groups \subseteq Segment
  BY ConditionsOnInSync
<1>2. InfoOK(m)
  BY MergedInfoOK
<1>3. /\ named = {g \in Glyph : TriggeringSegments(ConditionOn(i, g, Segment))
                                           \cap to_merge # {}}
      /\ named \subseteq TouchedBy(m, base)
  BY NamedGlyphs
<1>4. IsReadyFor(cs, M, m, V, base)
  BY ReadyForMerge
<1>5. TouchedBy(m, base) \subseteq Glyph
  BY <1>2, TouchedGlyphs
<1> HIDE DEF cs, named, m
<1>6. /\ InSync(c1)
      /\ \A g \in Glyph : /\ UNION c1.condition[g].groups \subseteq Segment
                          /\ g \in named => c1.condition[g] =
                                                RemoveSegments(cs.condition[g], M)
                          /\ g \notin named => c1.condition[g] = cs.condition[g]
  <2>1. \A g \in Glyph : UNION cs.condition[g].groups \subseteq Segment
    BY <1>1
  <2>2. named \in SUBSET Glyph
    BY <1>3
  <2>3. c1 = RemoveSegmentsFromGlyphs(cs, named, M)
    OBVIOUS
  <2>4. InSync(cs)
    BY <1>1
  <2> HIDE DEF c1, M
  <2>5. InSync(c1)
    BY <2>1, <2>2, <2>3, <2>4, RemovalInSync
  <2>6. IsRemoval(c1, cs, named, M)
    BY <2>1, <2>2, <2>3, <2>4, RemovalInSync
  <2> QED BY <2>5, <2>6 DEF IsRemoval
<1> HIDE DEF c1
<1>7. ASSUME NEW g \in TouchedBy(m, base)
      PROVE  RemoveSegments(c1.condition[g], {base}).groups = ConditionOn(m, g, V).groups
  <2>1. RemoveSegments(cs.condition[g], M).groups = ConditionOn(m, g, V).groups
    BY <1>4 DEF IsReadyFor
  <2>2. CASE g \in named
    <3>1. c1.condition[g].groups = ConditionOn(m, g, V).groups
      BY <1>5, <1>6, <2>1, <2>2
    <3>2. V \in SUBSET Segment /\ V \ {base} = V
      OBVIOUS
    <3> HIDE DEF V
    <3>3. RemoveSegments(c1.condition[g], {base}).groups
             = ConditionOn(m, g, V \ {base}).groups
      BY <1>2, <3>1, <3>2, RemoveGroups
    <3> QED BY <3>2, <3>3
  <2>3. CASE g \notin named
    <3>1. c1.condition[g] = ConditionOn(i, g, Segment)
      BY <1>1, <1>5, <1>6, <2>3
    <3>2. TriggeringSegments(c1.condition[g]) \cap to_merge = {}
      BY <1>3, <1>5, <2>3, <3>1
    <3>3. TriggeringSegments(c1.condition[g]) \cap M
             = TriggeringSegments(c1.condition[g]) \cap {base}
      BY <3>2
    <3>4. RemoveSegments(c1.condition[g], {base}) = RemoveSegments(c1.condition[g], M)
      BY <3>3, RemoveNamed
    <3>5. c1.condition[g] = cs.condition[g]
      BY <1>5, <1>6, <2>3
    <3> QED BY <2>1, <3>4, <3>5
  <2> QED BY <2>2, <2>3
<1>8. ASSUME NEW g \in Glyph \ TouchedBy(m, base)
      PROVE  c1.condition[g] = ConditionOn(m, g, V)
  BY <1>3, <1>4, <1>6 DEF IsReadyFor
<1>9. IsReadyFor(c1, {base}, m, V, base)
  BY <1>6, <1>7, <1>8 DEF IsReadyFor
<1> QED BY <1>9 DEF c1, m, cs, named

(***************************************************************************)
(* The conditions after the merge, both ways.                              *)
(***************************************************************************)
LEMMA MergedConditionsReprocessed ==
  ASSUME NEW i, InfoOK(i), NEW base \in Segment, NEW to_merge \in SUBSET Segment
  PROVE  Analysed(RemoveSegmentsFromGlyphs(
                      ConditionsOn(i, Segment),
                      GlyphsWithSegments(ConditionsOn(i, Segment), to_merge),
                      to_merge \cup {base}),
                  {base}, MergeDefinitions(i, base, to_merge), base)
            = ConditionsOn(MergeDefinitions(i, base, to_merge), Segment)
<1> DEFINE m == MergeDefinitions(i, base, to_merge)
           V == Segment \ (to_merge \cup {base})
           c1 == RemoveSegmentsFromGlyphs(
                      ConditionsOn(i, Segment),
                      GlyphsWithSegments(ConditionsOn(i, Segment), to_merge),
                      to_merge \cup {base})
<1>1. InfoOK(m)
  BY MergedInfoOK
<1>2. IsReadyFor(c1, {base}, m, V, base)
  BY ReadyAfterRemoval
<1>3. \A g \in Glyph : ConditionOn(m, g, V \cup {base}) = ConditionOn(m, g, Segment)
  BY MergedAll
<1>4. V \in SUBSET Segment /\ base \in Segment \ V
  OBVIOUS
<1> HIDE DEF m, V, c1
<1>5. Analysed(c1, {base}, m, base) = ConditionsOn(m, V \cup {base})
  BY <1>1, <1>2, <1>4, AnalysedIsExact
<1>6. ConditionsOn(m, V \cup {base}) = ConditionsOn(m, Segment)
  BY <1>3, SameConditions
<1> QED BY <1>5, <1>6 DEF m, c1

LEMMA MergedConditionsWritten ==
  ASSUME NEW i, InfoOK(i), NEW base \in Segment, NEW to_merge \in SUBSET Segment
  PROVE  Analysed(ConditionsOn(i, Segment), to_merge \cup {base},
                  MergeDefinitions(i, base, to_merge), base)
            = ConditionsOn(MergeDefinitions(i, base, to_merge), Segment)
<1> DEFINE m == MergeDefinitions(i, base, to_merge)
           V == Segment \ (to_merge \cup {base})
           M == to_merge \cup {base}
<1>1. InfoOK(m)
  BY MergedInfoOK
<1>2. IsReadyFor(ConditionsOn(i, Segment), M, m, V, base)
  BY ReadyForMerge
<1>3. \A g \in Glyph : ConditionOn(m, g, V \cup {base}) = ConditionOn(m, g, Segment)
  BY MergedAll
<1>4. V \in SUBSET Segment /\ base \in Segment \ V
  OBVIOUS
<1> HIDE DEF m, V, M
<1>5. Analysed(ConditionsOn(i, Segment), M, m, base) = ConditionsOn(m, V \cup {base})
  BY <1>1, <1>2, <1>4, AnalysedIsExact
<1>6. ConditionsOn(m, V \cup {base}) = ConditionsOn(m, Segment)
  BY <1>3, SameConditions
<1> QED BY <1>5, <1>6 DEF m, M

(***************************************************************************)
(* The inert segments after a merge.                                       *)
(***************************************************************************)
LEMMA MergedInert ==
  ASSUME NEW i, InfoOK(i), NEW base \in Segment, NEW to_merge \in SUBSET Segment
  PROVE  InertOn(MergeDefinitions(i, base, to_merge), Segment) =
            (InertOn(i, Segment) \ (to_merge \cup {base}))
               \cup IF /\ MergeDefinitions(i, base, to_merge).segments[base] # {}
                       /\ AnalyzeSegment(i, to_merge \cup {base}).and = {}
                       /\ AnalyzeSegment(i, to_merge \cup {base}).or = {}
                    THEN {base} ELSE {}
<1> DEFINE m == MergeDefinitions(i, base, to_merge)
           M == to_merge \cup {base}
           V == Segment \ M
<1>1. i \in Info
  BY DEF InfoOK
<1>2. InfoOK(m)
  BY MergedInfoOK
<1>3. /\ \A s \in to_merge \ {base} : m.segments[s] = {}
      /\ \A s \in Segment \ M : m.segments[s] = i.segments[s]
  BY <1>1, MergedFields
<1>4. AnalyzeSegment(m, {base}) = AnalyzeSegment(i, M)
  BY AnalysisOfMerged
<1>5. \A s \in Segment \ M : \A g : /\ Needs(m, g, s) <=> Needs(i, g, s)
                                    /\ Gives(m, g, s) <=> Gives(i, g, s)
  BY MergeOfOthers
<1> HIDE DEF m
<1>6. InertOn(m, V) = InertOn(i, Segment) \ M
  BY <1>3, <1>5 DEF InertOn
<1>7. InertOn(m, Segment) = InertOn(m, V \cup {base})
  BY <1>3 DEF InertOn
<1>8. V \in SUBSET Segment
  OBVIOUS
<1> HIDE DEF V
<1>9. InertOn(m, V \cup {base}) =
         IF m.segments[base] = {} THEN InertOn(m, V)
         ELSE IF AnalyzeSegment(m, {base}).and = {} /\ AnalyzeSegment(m, {base}).or = {}
         THEN InertOn(m, V) \cup {base} ELSE InertOn(m, V)
  BY <1>2, <1>8, InertStep
<1>10. InertOn(m, Segment) =
          (InertOn(i, Segment) \ M)
             \cup IF /\ m.segments[base] # {}
                     /\ AnalyzeSegment(i, M).and = {} /\ AnalyzeSegment(i, M).or = {}
                  THEN {base} ELSE {}
  BY <1>4, <1>6, <1>7, <1>9
<1> QED BY <1>10 DEF m

MergesInertly(i, base, to_merge) ==
    /\ to_merge \cup {base} \subseteq InertOn(i, Segment)
    /\ AnalyzeSegment(i, to_merge \cup {base}).and = {}
    /\ AnalyzeSegment(i, to_merge \cup {base}).or = {}

LEMMA InertTouches ==
  ASSUME NEW i, InfoOK(i), NEW base \in Segment, NEW to_merge \in SUBSET Segment,
         MergesInertly(i, base, to_merge)
  PROVE  /\ TouchedBy(MergeDefinitions(i, base, to_merge), base)
               = AnalyzeSegment(i, to_merge \cup {base}).exclusive
         /\ MergeDefinitions(i, base, to_merge).segments[base] # {}
<1> DEFINE m == MergeDefinitions(i, base, to_merge)
           M == to_merge \cup {base}
           a == AnalyzeSegment(m, {base})
<1>1. i \in Info
  BY DEF InfoOK
<1>2. InfoOK(m)
  BY MergedInfoOK
<1>3. a = AnalyzeSegment(i, M)
  BY AnalysisOfMerged
<1>4. m.segments[base] = UNION {i.segments[t] : t \in M}
  BY <1>1, MergedFields
<1>5. i.segments[base] # {}
  BY DEF MergesInertly, InertOn
<1>6. m.segments[base] # {}
  BY <1>4, <1>5
<1> HIDE DEF m
<1>7. /\ a.and = {g \in Glyph : Needs(m, g, base) /\ ~Gives(m, g, base)}
      /\ a.or = {g \in Glyph : Gives(m, g, base) /\ ~Needs(m, g, base)}
      /\ a.exclusive = {g \in Glyph : Needs(m, g, base) /\ Gives(m, g, base)}
  BY <1>2, AnalysisOfOne
<1>8. TouchedBy(m, base) = {g \in Glyph : Needs(m, g, base) \/ Gives(m, g, base)}
  BY <1>2, TouchedGlyphs
<1>9. a.and = {} /\ a.or = {}
  BY <1>3 DEF MergesInertly
<1> HIDE DEF a
<1>10. TouchedBy(m, base) = a.exclusive
  BY <1>7, <1>8, <1>9
<1> QED BY <1>3, <1>6, <1>10 DEF m

(***************************************************************************)
(* The whole merge, when the new condition is written down directly.       *)
(***************************************************************************)
LEMMA AddingNothing ==
  ASSUME NEW cs, NEW s, cs = [condition |-> [g \in Glyph |-> cs.condition[g]],
                              glyphs |-> [t \in Segment |-> cs.glyphs[t]]]
  PROVE  AddAndCondition(cs, {}, s) = cs /\ AddOrCondition(cs, {}, s) = cs
<1>1. [cs.glyphs EXCEPT ![s] = @ \cup {}] = cs.glyphs
  <2>1. \A f : f = [t \in Segment |-> f[t]] => [f EXCEPT ![s] = f[s] \cup {}] = f
    OBVIOUS
  <2> DEFINE index == [t \in Segment |-> cs.glyphs[t]]
  <2>2. cs.glyphs = index
    OBVIOUS
  <2>3. cs.glyphs = [t \in Segment |-> cs.glyphs[t]]
    BY <2>2
  <2> QED BY <2>1, <2>3
<1>2. AddAndCondition(cs, {}, s) = [condition |-> [g \in Glyph |-> cs.condition[g]],
                                    glyphs |-> cs.glyphs]
  BY <1>1 DEF AddAndCondition
<1>3. AddOrCondition(cs, {}, s) = [condition |-> [g \in Glyph |-> cs.condition[g]],
                                   glyphs |-> cs.glyphs]
  BY <1>1 DEF AddOrCondition
<1> QED BY <1>2, <1>3

LEMMA WrittenDirectly ==
  ASSUME NEW i, InfoOK(i), NEW base \in Segment, NEW to_merge \in SUBSET Segment,
         MergesInertly(i, base, to_merge)
  PROVE  AddAndCondition(
             RemoveSegmentsFromGlyphs(
                 ConditionsOn(i, Segment),
                 TouchedBy(MergeDefinitions(i, base, to_merge), base),
                 to_merge \cup {base}),
             TouchedBy(MergeDefinitions(i, base, to_merge), base), base)
            = ConditionsOn(MergeDefinitions(i, base, to_merge), Segment)
<1> DEFINE m == MergeDefinitions(i, base, to_merge)
           M == to_merge \cup {base}
           gs == TouchedBy(m, base)
           cs == ConditionsOn(i, Segment)
           c0 == RemoveSegmentsFromGlyphs(cs, gs, M)
           c1 == AddAndCondition(c0, gs, base)
           a == AnalyzeSegment(m, {base})
<1>1. Analysed(cs, M, m, base) = ConditionsOn(m, Segment)
  BY MergedConditionsWritten
<1>2. gs = AnalyzeSegment(i, M).exclusive
  BY InertTouches
<1>3. a = AnalyzeSegment(i, M)
  BY AnalysisOfMerged
<1>4. a.exclusive = gs /\ a.and = {} /\ a.or = {}
  BY <1>2, <1>3 DEF MergesInertly
<1> HIDE DEF gs, cs, a
<1>5. /\ c0.condition = [g \in Glyph |-> c0.condition[g]]
      /\ c0.glyphs = [t \in Segment |-> c0.glyphs[t]]
  BY DEF RemoveSegmentsFromGlyphs
<1> HIDE DEF c0
<1>6. c1 = [condition |-> [g \in Glyph |-> c1.condition[g]],
            glyphs |-> [t \in Segment |-> c1.glyphs[t]]]
  <2> DEFINE added(c) == IF IsAlwaysTrue(c) THEN ExclusiveSegment(base)
                         ELSE And(c, ExclusiveSegment(base))
             f == [g \in Glyph |-> IF g \in gs THEN added(c0.condition[g])
                                   ELSE c0.condition[g]]
             h == [c0.glyphs EXCEPT ![base] = @ \cup gs]
  <2>1. c1 = [condition |-> f, glyphs |-> h]
    BY DEF AddAndCondition
  <2>2. f = [g \in Glyph |-> f[g]]
    OBVIOUS
  <2>3. h = [t \in Segment |-> h[t]]
    BY <1>5
  <2> HIDE DEF f, h, c1
  <2> QED BY <2>1, <2>2, <2>3
<1> HIDE DEF c1
<1>7. AddAndCondition(c1, {}, base) = c1 /\ AddOrCondition(c1, {}, base) = c1
  BY <1>6, AddingNothing
<1>8. Analysed(cs, M, m, base)
         = AddOrCondition(AddAndCondition(AddAndCondition(c0, a.exclusive, base),
                                          a.and, base), a.or, base)
  BY DEF Analysed, c0, gs, a
<1>9. Analysed(cs, M, m, base) = AddOrCondition(AddAndCondition(c1, {}, base), {}, base)
  BY <1>4, <1>8 DEF c1
<1>10. c1 = ConditionsOn(m, Segment)
  BY <1>1, <1>7, <1>9
<1> QED BY <1>10 DEF c1, c0, gs, cs

LEMMA MergedInertly ==
  ASSUME NEW i, InfoOK(i), NEW G, NEW base \in Segment, NEW to_merge \in SUBSET Segment,
         MergesInertly(i, base, to_merge)
  PROVE  MergeSegments(AnalysedContext(i, G, Segment), base, to_merge)
            = AnalysedContext(
                  MergeDefinitions(i, base, to_merge),
                  Grouping(MergeDefinitions(i, base, to_merge),
                           AddGlyphsToExclusiveGroup(G, base,
                               TouchedBy(MergeDefinitions(i, base, to_merge), base)),
                           {}, to_merge \cup {base}),
                  Segment)
<1> DEFINE m == MergeDefinitions(i, base, to_merge)
           M == to_merge \cup {base}
           gs == TouchedBy(m, base)
           ctx == AnalysedContext(i, G, Segment)
           cs == ConditionsOn(i, Segment)
           inert == (InertOn(i, Segment) \ to_merge) \cup {base}
           H == AddGlyphsToExclusiveGroup(G, base, gs)
<1>1. /\ ctx.info = i /\ ctx.conditions = cs /\ ctx.inert = InertOn(i, Segment)
      /\ ctx.groupings = G
      /\ ctx = [info |-> i, conditions |-> cs, inert |-> InertOn(i, Segment),
                groupings |-> G]
  BY DEF AnalysedContext
<1>2. gs = AnalyzeSegment(i, M).exclusive /\ m.segments[base] # {}
  BY InertTouches
<1>3. GlyphsWithSegments(cs, to_merge) \subseteq gs
  BY NamedGlyphs
<1>4. MergeIsInert(ctx, base, to_merge) = TRUE
  BY <1>1 DEF MergeIsInert, MergesInertly
<1>5. InvalidatedByMerge(ctx, base, to_merge) = gs
  BY <1>1, <1>2, <1>3, <1>4 DEF InvalidatedByMerge
<1>6. AddAndCondition(RemoveSegmentsFromGlyphs(cs, gs, M), gs, base)
         = ConditionsOn(m, Segment)
  BY WrittenDirectly
<1>7. InertOn(m, Segment) = inert
  <2>1. InertOn(m, Segment) =
            (InertOn(i, Segment) \ M)
               \cup IF m.segments[base] # {} /\ AnalyzeSegment(i, M).and = {}
                       /\ AnalyzeSegment(i, M).or = {}
                    THEN {base} ELSE {}
    BY MergedInert
  <2> HIDE DEF m
  <2>2. InertOn(m, Segment) = (InertOn(i, Segment) \ M) \cup {base}
    BY <1>2, <2>1 DEF MergesInertly
  <2> QED BY <2>2
<1> HIDE DEF m, gs, ctx, cs, inert
<1> DEFINE assigned == AssignMergedSegment(ctx, base, to_merge, TRUE)
           cleared == [assigned EXCEPT !.conditions =
                          InvalidateSegmentsOfGlyphs(@, gs, M)]
           merged == [cleared EXCEPT
                !.conditions = AddAndCondition(@, gs, base),
                !.groupings = AddGlyphsToExclusiveGroup(@, base, gs)]
<1>8. assigned = [info |-> m, conditions |-> cs, inert |-> inert, groupings |-> G]
  <2> DEFINE c1 == [info |-> m, conditions |-> cs, inert |-> InertOn(i, Segment),
                    groupings |-> G]
  <2>1. assigned = [[ctx EXCEPT !.info = m] EXCEPT !.inert = inert]
    BY <1>1 DEF AssignMergedSegment, m, inert
  <2>2. [ctx EXCEPT !.info = m] = c1
    BY <1>1
  <2>3. [c1 EXCEPT !.inert = inert]
           = [info |-> m, conditions |-> cs, inert |-> inert, groupings |-> G]
    OBVIOUS
  <2> HIDE DEF c1, assigned
  <2> QED BY <2>1, <2>2, <2>3
<1> HIDE DEF assigned
<1>9. cleared = [info |-> m, conditions |-> RemoveSegmentsFromGlyphs(cs, gs, M),
                 inert |-> inert, groupings |-> G]
  BY <1>8 DEF InvalidateSegmentsOfGlyphs
<1> HIDE DEF cleared
<1>10. merged = [info |-> m, conditions |-> ConditionsOn(m, Segment), inert |-> inert,
                 groupings |-> H]
  <2> DEFINE c1 == [info |-> m, conditions |-> ConditionsOn(m, Segment),
                    inert |-> inert, groupings |-> G]
  <2>1. merged = [[cleared EXCEPT !.conditions = ConditionsOn(m, Segment)]
                      EXCEPT !.groupings = H]
    BY <1>6, <1>9
  <2>2. [cleared EXCEPT !.conditions = ConditionsOn(m, Segment)] = c1
    BY <1>9
  <2> HIDE DEF H
  <2>3. [c1 EXCEPT !.groupings = H]
           = [info |-> m, conditions |-> ConditionsOn(m, Segment), inert |-> inert,
              groupings |-> H]
    OBVIOUS
  <2> HIDE DEF c1, merged
  <2> QED BY <2>1, <2>2, <2>3
<1>11. ApplySegmentMerge(ctx, base, to_merge) = merged
  BY <1>4, <1>5 DEF ApplySegmentMerge, cleared, assigned
<1> HIDE DEF merged, H
<1>12. merged = AnalysedContext(m, H, Segment)
  BY <1>7, <1>10 DEF AnalysedContext
<1>13. base \in merged.inert
  BY <1>10 DEF inert
<1>14. MergeSegments(ctx, base, to_merge) = Grouped(merged, {}, M)
  BY <1>4, <1>11, <1>13 DEF MergeSegments, ReprocessChanged
<1>15. MergeSegments(ctx, base, to_merge)
          = AnalysedContext(m, Grouping(m, H, {}, M), Segment)
  BY <1>12, <1>14, GroupedContext
<1> QED BY <1>15 DEF ctx, m, H, gs

(***************************************************************************)
(* The whole merge, when the new base is analysed again.                   *)
(***************************************************************************)
LEMMA NothingRemoved ==
  ASSUME NEW i, NEW T, NEW ss
  PROVE  RemoveSegmentsFromGlyphs(ConditionsOn(i, T), {}, ss) = ConditionsOn(i, T)
<1> DEFINE f == [g \in Glyph |-> ConditionOn(i, g, T)]
           h == [s \in Segment |->
                    {g \in Glyph : s \in TriggeringSegments(ConditionOn(i, g, T))}]
           x == [condition |-> f, glyphs |-> h]
           f2 == [g \in Glyph |-> IF g \in {} THEN RemoveSegments(f[g], ss) ELSE f[g]]
           h2 == [s \in Segment |->
                    h[s] \ {g \in {} : s \in TriggeringSegments(f[g])
                                                \ TriggeringSegments(f2[g])}]
<1>1. f2 = f
  OBVIOUS
<1>2. h2 = h
  OBVIOUS
<1>3. RemoveSegmentsFromGlyphs(x, {}, ss) = [condition |-> f2, glyphs |-> h2]
  BY DEF RemoveSegmentsFromGlyphs
<1> HIDE DEF f, h, f2, h2
<1> QED BY <1>1, <1>2, <1>3 DEF ConditionsOn, f, h

LEMMA MergedIntoNothing ==
  ASSUME NEW i, InfoOK(i), NEW base \in Segment, NEW to_merge \in SUBSET Segment,
         MergeDefinitions(i, base, to_merge).segments[base] = {}
  PROVE  /\ GlyphsWithSegments(ConditionsOn(i, Segment), to_merge) = {}
         /\ ConditionsOn(i, Segment)
               = ConditionsOn(MergeDefinitions(i, base, to_merge), Segment)
<1> DEFINE m == MergeDefinitions(i, base, to_merge)
           V == Segment \ (to_merge \cup {base})
<1>1. InfoOK(m)
  BY MergedInfoOK
<1>2. TouchedBy(m, base) = {}
  BY DEF TouchedBy
<1>3. GlyphsWithSegments(ConditionsOn(i, Segment), to_merge) \subseteq TouchedBy(m, base)
  BY NamedGlyphs
<1>4. ASSUME NEW g \in Glyph
      PROVE  ConditionOn(i, g, Segment) = ConditionOn(m, g, Segment)
  <2>1. ~Needs(m, g, base) /\ ~Gives(m, g, base)
    BY <1>1, NothingFromEmpty
  <2>2. ConditionOn(i, g, Segment) = ConditionOn(m, g, V)
    BY <2>1, UntouchedByMerge
  <2>3. ConditionOn(m, g, V \cup {base}) = ConditionOn(m, g, Segment)
    BY MergedAll
  <2> HIDE DEF m, V
  <2>4. ConditionOn(m, g, V \cup {base}) = ConditionOn(m, g, V)
    BY <2>1, AddNeither
  <2> QED BY <2>2, <2>3, <2>4
<1> HIDE DEF m
<1>5. ConditionsOn(i, Segment) = ConditionsOn(m, Segment)
  BY <1>4, SameConditions
<1> QED BY <1>2, <1>3, <1>5 DEF m

LEMMA MergedNotInertly ==
  ASSUME NEW i, InfoOK(i), NEW G, NEW base \in Segment, NEW to_merge \in SUBSET Segment,
         ~MergesInertly(i, base, to_merge)
  PROVE  MergeSegments(AnalysedContext(i, G, Segment), base, to_merge)
            = AnalysedContext(
                  MergeDefinitions(i, base, to_merge),
                  Grouping(MergeDefinitions(i, base, to_merge), G,
                           TouchedBy(MergeDefinitions(i, base, to_merge), base),
                           to_merge \cup {base}),
                  Segment)
<1> DEFINE m == MergeDefinitions(i, base, to_merge)
           M == to_merge \cup {base}
           ctx == AnalysedContext(i, G, Segment)
           cs == ConditionsOn(i, Segment)
           named == GlyphsWithSegments(cs, to_merge)
           gs == TouchedBy(m, base)
           inert == InertOn(i, Segment) \ M
           c0 == RemoveSegmentsFromGlyphs(cs, named, M)
<1>1. /\ ctx.info = i /\ ctx.conditions = cs /\ ctx.inert = InertOn(i, Segment)
      /\ ctx.groupings = G
      /\ ctx = [info |-> i, conditions |-> cs, inert |-> InertOn(i, Segment),
                groupings |-> G]
  BY DEF AnalysedContext
<1>2. named \subseteq gs
  BY NamedGlyphs
<1>3. MergeIsInert(ctx, base, to_merge) = FALSE
  BY <1>1 DEF MergeIsInert, MergesInertly
<1>4. InvalidatedByMerge(ctx, base, to_merge) = named
  BY <1>1, <1>3 DEF InvalidatedByMerge
<1>5. Analysed(c0, {base}, m, base) = ConditionsOn(m, Segment)
  BY MergedConditionsReprocessed
<1>6. InertOn(m, Segment) =
            inert \cup IF m.segments[base] # {} /\ AnalyzeSegment(i, M).and = {}
                          /\ AnalyzeSegment(i, M).or = {}
                       THEN {base} ELSE {}
  BY MergedInert
<1>7. AnalyzeSegment(m, {base}) = AnalyzeSegment(i, M)
  BY AnalysisOfMerged
<1>8. m.segments[base] = {} => c0 = cs /\ cs = ConditionsOn(m, Segment)
  BY MergedIntoNothing, NothingRemoved
<1>9. base \notin inert
  OBVIOUS
<1> HIDE DEF m, gs, ctx, cs, inert, named
<1> DEFINE assigned == AssignMergedSegment(ctx, base, to_merge, FALSE)
           cleared == [assigned EXCEPT !.conditions =
                          InvalidateSegmentsOfGlyphs(@, named, M)]
<1>10. assigned = [info |-> m, conditions |-> cs, inert |-> inert, groupings |-> G]
  <2> DEFINE c1 == [info |-> m, conditions |-> cs, inert |-> InertOn(i, Segment),
                    groupings |-> G]
  <2>1. assigned = [[ctx EXCEPT !.info = m] EXCEPT !.inert = inert]
    BY <1>1 DEF AssignMergedSegment, m, inert
  <2>2. [ctx EXCEPT !.info = m] = c1
    BY <1>1
  <2>3. [c1 EXCEPT !.inert = inert]
           = [info |-> m, conditions |-> cs, inert |-> inert, groupings |-> G]
    OBVIOUS
  <2> HIDE DEF c1, assigned
  <2> QED BY <2>1, <2>2, <2>3
<1> HIDE DEF assigned, c0
<1>11. cleared = [info |-> m, conditions |-> c0, inert |-> inert, groupings |-> G]
  BY <1>10 DEF InvalidateSegmentsOfGlyphs, c0
<1> HIDE DEF cleared
<1>12. ApplySegmentMerge(ctx, base, to_merge) = cleared
  BY <1>3, <1>4 DEF ApplySegmentMerge, cleared, assigned
<1>13. base \notin cleared.inert /\ cleared.info = m
  BY <1>9, <1>11
<1>14. MergeSegments(ctx, base, to_merge)
          = Grouped(ReprocessSegment(cleared, base), named \cup gs, M)
  BY <1>3, <1>4, <1>12, <1>13 DEF MergeSegments, ReprocessChanged, gs
<1>15. ReprocessSegment(cleared, base) = AnalysedContext(m, G, Segment)
  <2>1. CASE m.segments[base] = {}
    <3>1. ReprocessSegment(cleared, base) = cleared
      BY <1>13, <2>1 DEF ReprocessSegment
    <3>2. InertOn(m, Segment) = inert
      BY <1>6, <2>1
    <3> QED BY <1>8, <1>11, <2>1, <3>1, <3>2 DEF AnalysedContext
  <2>2. CASE m.segments[base] # {}
    <3> DEFINE c == [info |-> m, conditions |-> c0, inert |-> inert, groupings |-> G]
               r == [info |-> m, conditions |-> Analysed(c0, {base}, m, base),
                     inert |-> IF /\ AnalyzeSegment(m, {base}).and = {}
                                  /\ AnalyzeSegment(m, {base}).or = {}
                               THEN inert \cup {base} ELSE inert,
                     groupings |-> G]
    <3>0. ReprocessSegment(c, base) = r
      BY <2>2, ReprocessFields
    <3>1. ReprocessSegment(cleared, base) = r
      <4> HIDE DEF c, r
      <4> QED BY <1>11, <3>0 DEF c
    <3>2. InertOn(m, Segment) = IF /\ AnalyzeSegment(m, {base}).and = {}
                                   /\ AnalyzeSegment(m, {base}).or = {}
                                THEN inert \cup {base} ELSE inert
      BY <1>6, <1>7, <2>2
    <3> QED BY <1>5, <3>1, <3>2 DEF AnalysedContext
  <2> QED BY <2>1, <2>2
<1>16. named \cup gs = gs
  BY <1>2
<1>17. MergeSegments(ctx, base, to_merge) = AnalysedContext(m, Grouping(m, G, gs, M), Segment)
  BY <1>14, <1>15, <1>16, GroupedContext
<1> QED BY <1>17 DEF ctx, m, gs

-----------------------------------------------------------------------------
(***************************************************************************)
(* What every step keeps of the context: the conditions and the inert      *)
(* segments are those of an analysis from scratch, the groups follow the   *)
(* conditions, and none is unmapped that a condition can be found for.     *)
(***************************************************************************)
ConditionOf(i) == ConditionsOn(i, Segment).condition

ContextOK(ctx) ==
    /\ InfoOK(ctx.info)
    /\ ctx = AnalysedContext(ctx.info, ctx.groupings, Segment)
    /\ InGroups(ctx.info, ConditionOf(ctx.info), ctx.groupings, {})
    /\ NoneLeftOver(ctx.info, ctx.groupings)

LEMMA ConditionOfGlyphs ==
  ASSUME NEW i
  PROVE  /\ ConditionOf(i) \in [Glyph -> GlyphCondition]
         /\ \A g \in Glyph : ConditionOf(i)[g] = ConditionOn(i, g, Segment)
<1>1. \A g : ConditionOn(i, g, Segment) \in GlyphCondition
  BY ConditionOnSegments
<1> QED BY <1>1 DEF ConditionOf, ConditionsOn

LEMMA ContextIsOK ==
  ASSUME NEW i, InfoOK(i), NEW G, InGroups(i, ConditionOf(i), G, {}), NoneLeftOver(i, G)
  PROVE  ContextOK(AnalysedContext(i, G, Segment))
<1> DEFINE ctx == AnalysedContext(i, G, Segment)
<1>1. ctx.info = i /\ ctx.groupings = G
  BY DEF AnalysedContext
<1> HIDE DEF ctx
<1>2. ContextOK(ctx)
  BY <1>1 DEF ContextOK, ctx
<1> QED BY <1>2 DEF ctx

LEMMA RegroupedIsOK ==
  ASSUME NEW i, InfoOK(i), NEW G, NEW glyphs \in SUBSET Glyph, NEW modified,
         CanBeGrouped(i, ConditionOf(i), G, glyphs)
  PROVE  ContextOK(AnalysedContext(i, Grouping(i, G, glyphs, modified), Segment))
<1>1. /\ InGroups(i, ConditionOf(i), GroupGlyphs(G, i, ConditionOf(i), glyphs, modified), {})
      /\ NoneLeftOver(i, GroupGlyphs(G, i, ConditionOf(i), glyphs, modified))
  BY ConditionOfGlyphs, GlyphsGrouped
<1>2. Grouping(i, G, glyphs, modified) = GroupGlyphs(G, i, ConditionOf(i), glyphs, modified)
  BY DEF Grouping, ConditionOf
<1> QED BY <1>1, <1>2, ContextIsOK

LEMMA InGroupsCanBeGrouped ==
  ASSUME NEW i, NEW cs, NEW G, InGroups(i, cs, G, {}), NEW glyphs
  PROVE  CanBeGrouped(i, cs, G, glyphs)
BY DEF InGroups, CanBeGrouped, GroupsFollow, Mapped

LEMMA InitialContextOK ==
  ASSUME NEW f \in Font, NEW segments \in [Segment -> SUBSET Codepoint],
         NEW init \in Definition, NEW handling \in UnmappedGlyphHandling
  PROVE  ContextOK(InitializeSegmentationContext(f, segments, init, handling))
<1> DEFINE i == CreateInfo(f, segments, init, handling)
<1>1. /\ InfoOK(i)
      /\ InitializeSegmentationContext(f, segments, init, handling)
            = AnalysedContext(i, Grouping(i, NoGroupings, NonInitFontGlyphs(i), {}), Segment)
  BY CreatedContext
<1> HIDE DEF i
<1>2. NonInitFontGlyphs(i) \in SUBSET Glyph
  BY <1>1 DEF InfoOK, Info, NonInitFontGlyphs
<1>3. CanBeGrouped(i, ConditionOf(i), NoGroupings, NonInitFontGlyphs(i))
  <2>1. CanBeGrouped(i, ConditionOf(i), NoGroupings, {})
    BY NothingGrouped
  <2> QED BY <2>1 DEF CanBeGrouped, Mapped
<1> QED BY <1>1, <1>2, <1>3, RegroupedIsOK

(***************************************************************************)
(* A glyph of the initial font, or one that nothing needs, has the         *)
(* condition that always holds.                                            *)
(***************************************************************************)
LEMMA ConditionOfOthers ==
  ASSUME NEW i, InfoOK(i), NEW g, g \notin NonInitFontGlyphs(i)
  PROVE  ConditionOn(i, g, Segment) = True
<1>1. ASSUME NEW s \in Segment PROVE ~Gives(i, g, s) /\ ~Needs(i, g, s)
  <2>1. /\ Closure(i.font, CombinedDefinition(i, {s})) \subseteq i.full_closure
        /\ i.init.gids \subseteq Closure(i.font, CombinedDefinition(i, Segment \ {s}))
    BY ClosureOfSegments
  <2> QED BY <2>1 DEF Gives, Needs, NonInitFontGlyphs
<1>2. Needing(i, g, Segment) = {} /\ Giving(i, g, Segment) = {}
  BY <1>1 DEF Needing, Giving
<1> QED BY <1>2, NoGroups

LEMMA MovedGroups ==
  ASSUME NEW i, InfoOK(i), NEW G, InGroups(i, ConditionOf(i), G, {}),
         NEW def \in Definition,
         i.init.codepoints = def.codepoints, i.init.gids \subseteq def.gids
  PROVE  CanBeGrouped(MovedInfo(i, def), ConditionOf(MovedInfo(i, def)), G,
                      MovedGlyphs(i, def) \cup ChangedGlyphs(i, MovedInfo(i, def)))
<1> DEFINE e == ExpandClosure(i.font, def)
           j == MovedInfo(i, def)
           moved == MovedGlyphs(i, def)
           changed == ChangedGlyphs(i, j)
<1>1. i \in Info /\ i.font \in Font
  BY DEF InfoOK, Info
<1>2. InfoOK(j)
  BY MovedIsOK
<1>3. e \in Definition /\ ExpandClosure(i.font, e) = e
  BY <1>1, ExpandClosureEnds, ExpandedAlready
<1>4. /\ j.init = e
      /\ j.full_definition = Plus(i.full_definition, e)
      /\ j.full_closure = Closure(i.font, j.full_definition)
  <2> HIDE DEF e
  <2>1. MovedInfo(i, def) = ReassignInit(i, e)
    BY DEF MovedInfo, e
  <2> DEFINE r == ReassignInit(i, e)
             x == ExpandClosure(i.font, e)
  <2>2. /\ r.init = x
        /\ r.full_definition = Plus(i.full_definition, x)
        /\ r.full_closure = Closure(i.font, r.full_definition)
    BY <1>1, <1>3, ReassignInitFields
  <2> HIDE DEF r, x
  <2>3. x = e /\ j = r
    BY <1>3, <2>1 DEF x, r
  <2> QED BY <2>2, <2>3
<1>5. i.full_closure \subseteq j.full_closure
  <2>1. i.full_definition \in Definition /\ j.full_definition \in Definition
    BY <1>1, <1>2 DEF InfoOK, Info
  <2>2. /\ i.full_definition.codepoints \subseteq j.full_definition.codepoints
        /\ i.full_definition.gids \subseteq j.full_definition.gids
    <3> HIDE DEF e, j
    <3> QED BY <1>4 DEF Plus
  <2>3. i.full_closure = Closure(i.font, i.full_definition)
    BY DEF InfoOK
  <2> HIDE DEF e, j
  <2> QED BY <1>1, <1>4, <2>1, <2>2, <2>3, ClosureGrows
<1>6. moved = NonInitFontGlyphs(i) \cap e.gids
  BY DEF MovedGlyphs
<1>7. changed = {g \in NonInitFontGlyphs(j) :
                    ConditionOn(i, g, Segment) # ConditionOn(j, g, Segment)}
  BY DEF ChangedGlyphs
<1> HIDE DEF e, j, moved, changed
<1>8. NonInitFontGlyphs(i) \ moved \subseteq NonInitFontGlyphs(j)
  BY <1>4, <1>5, <1>6 DEF NonInitFontGlyphs
<1>9. ASSUME NEW g \in Glyph, g \notin moved, g \notin changed
      PROVE  ConditionOn(i, g, Segment) = ConditionOn(j, g, Segment)
  <2>1. CASE g \in NonInitFontGlyphs(j)
    BY <1>7, <1>9, <2>1
  <2>2. CASE g \notin NonInitFontGlyphs(j)
    <3>1. g \notin NonInitFontGlyphs(i)
      BY <1>8, <1>9, <2>2
    <3> QED BY <1>2, <2>2, <3>1, ConditionOfOthers
  <2> QED BY <2>1, <2>2
<1>10. CanBeGrouped(j, ConditionOf(j), G, moved \cup changed)
  <2>1. G.unmapped \ (moved \cup changed) \subseteq NonInitFontGlyphs(j)
    BY <1>8 DEF InGroups
  <2>2. \A g \in Mapped(G.pre) \ (G.found \cup moved \cup changed) :
            G.pre[g] = ConditionOf(j)[g]
    BY <1>9, ConditionOfGlyphs DEF InGroups, GroupsFollow, Mapped
  <2>3. OrGroupsFollow(G, ConditionOf(j), {})
    BY DEF InGroups, OrGroupsFollow
  <2> QED BY <2>1, <2>2, <2>3 DEF CanBeGrouped, InGroups
<1> QED BY <1>10 DEF j, moved, changed

LEMMA MovedContextOK ==
  ASSUME NEW ctx, ContextOK(ctx), NEW def \in Definition,
         ctx.info.init.codepoints = def.codepoints,
         ctx.info.init.gids \subseteq def.gids
  PROVE  ContextOK(ReassignInitSubset(ctx, def))
<1> DEFINE i == ctx.info
           G == ctx.groupings
           j == MovedInfo(i, def)
           glyphs == MovedGlyphs(i, def) \cup ChangedGlyphs(i, j)
<1>1. /\ InfoOK(i) /\ InGroups(i, ConditionOf(i), G, {})
      /\ ctx = AnalysedContext(i, G, Segment)
  BY DEF ContextOK
<1> HIDE DEF i, G
<1>2. i.init.codepoints = def.codepoints /\ i.init.gids \subseteq def.gids
  BY DEF i
<1>3. ReassignInitSubset(ctx, def)
         = AnalysedContext(j, Grouping(j, G, glyphs, ChangedSegments(i, def)), Segment)
  BY <1>1, <1>2, MovedContext
<1>4. InfoOK(j)
  BY <1>1, <1>2, MovedIsOK
<1>5. CanBeGrouped(j, ConditionOf(j), G, glyphs)
  BY <1>1, <1>2, MovedGroups
<1>6. glyphs \in SUBSET Glyph
  <2> HIDE DEF j
  <2> QED BY <1>1, <1>4 DEF InfoOK, Info, NonInitFontGlyphs, MovedGlyphs, ChangedGlyphs
<1> HIDE DEF j, glyphs
<1> QED BY <1>3, <1>4, <1>5, <1>6, RegroupedIsOK

LEMMA MergeLeavesOthers ==
  ASSUME NEW i, InfoOK(i), NEW base \in Segment, NEW to_merge \in SUBSET Segment,
         NEW g \in Glyph, g \notin TouchedBy(MergeDefinitions(i, base, to_merge), base)
  PROVE  ConditionOn(MergeDefinitions(i, base, to_merge), g, Segment)
            = ConditionOn(i, g, Segment)
<1> DEFINE m == MergeDefinitions(i, base, to_merge)
           V == Segment \ (to_merge \cup {base})
<1>1. InfoOK(m)
  BY MergedInfoOK
<1>2. ~Needs(m, g, base) /\ ~Gives(m, g, base)
  BY <1>1, TouchedGlyphs
<1>3. ConditionOn(i, g, Segment) = ConditionOn(m, g, V)
  BY <1>2, UntouchedByMerge
<1>4. ConditionOn(m, g, V \cup {base}) = ConditionOn(m, g, Segment)
  BY MergedAll
<1> HIDE DEF m, V
<1>5. ConditionOn(m, g, V \cup {base}) = ConditionOn(m, g, V)
  BY <1>2, AddNeither
<1>6. ConditionOn(m, g, Segment) = ConditionOn(i, g, Segment)
  BY <1>3, <1>4, <1>5
<1> QED BY <1>6 DEF m

LEMMA InertMergeIsExclusive ==
  ASSUME NEW i, InfoOK(i), NEW base \in Segment, NEW to_merge \in SUBSET Segment,
         MergesInertly(i, base, to_merge),
         NEW g \in TouchedBy(MergeDefinitions(i, base, to_merge), base)
  PROVE  ConditionOn(MergeDefinitions(i, base, to_merge), g, Segment)
            = ExclusiveSegment(base)
<1> DEFINE m == MergeDefinitions(i, base, to_merge)
<1>1. InfoOK(m)
  BY MergedInfoOK
<1>2. g \in AnalyzeSegment(m, {base}).exclusive
  <2>1. TouchedBy(m, base) = AnalyzeSegment(i, to_merge \cup {base}).exclusive
    BY InertTouches
  <2>2. AnalyzeSegment(m, {base}) = AnalyzeSegment(i, to_merge \cup {base})
    BY AnalysisOfMerged
  <2>3. g \in TouchedBy(m, base)
    OBVIOUS
  <2> HIDE DEF m
  <2> QED BY <2>1, <2>2, <2>3
<1> HIDE DEF m
<1>3. Needs(m, g, base) /\ Gives(m, g, base)
  <2> DEFINE a == AnalyzeSegment(m, {base})
  <2>1. a.exclusive = {h \in Glyph : Needs(m, h, base) /\ Gives(m, h, base)}
    BY <1>1, AnalysisOfOne
  <2> QED BY <1>2, <2>1
<1>4. Needing(m, g, Segment) = {base}
  <2>1. Segment \in SUBSET Segment
    OBVIOUS
  <2>2. Needing(m, g, Segment) \subseteq {base}
    BY <1>1, <1>3, <2>1, NeededByGiver
  <2>3. base \in Needing(m, g, Segment)
    BY <1>3 DEF Needing
  <2> QED BY <2>2, <2>3
<1>5. Each({base}) = {{base}}
  BY DEF Each
<1>6. ConditionOn(m, g, Segment) = ExclusiveSegment(base)
  BY <1>4, <1>5 DEF ConditionOn, ExclusiveSegment
<1> QED BY <1>6 DEF m

LEMMA MergedGroups ==
  ASSUME NEW i, InfoOK(i), NEW G, InGroups(i, ConditionOf(i), G, {}),
         NEW base \in Segment, NEW to_merge \in SUBSET Segment
  PROVE  LET m == MergeDefinitions(i, base, to_merge)
             gs == TouchedBy(m, base)
         IN  /\ InfoOK(m)
             /\ NonInitFontGlyphs(i) = NonInitFontGlyphs(m)
             /\ gs \in SUBSET Glyph
             /\ CanBeGrouped(m, ConditionOf(m), G, gs)
             /\ MergesInertly(i, base, to_merge) =>
                   InGroups(m, ConditionOf(m), AddGlyphsToExclusiveGroup(G, base, gs), {})
<1> DEFINE m == MergeDefinitions(i, base, to_merge)
           gs == TouchedBy(m, base)
<1>1. InfoOK(m)
  BY MergedInfoOK
<1>2. NonInitFontGlyphs(i) = NonInitFontGlyphs(m)
  <2>1. i \in Info
    BY DEF InfoOK
  <2>2. m.init = i.init /\ m.full_closure = i.full_closure
    BY <2>1, MergedFields
  <2> QED BY <2>2 DEF NonInitFontGlyphs
<1>3. gs \in SUBSET Glyph
  <2> HIDE DEF m
  <2>1. TouchedBy(m, base) = {g \in Glyph : Needs(m, g, base) \/ Gives(m, g, base)}
    BY <1>1, TouchedGlyphs
  <2> QED BY <2>1
<1>4. \A g \in Glyph \ gs : ConditionOn(m, g, Segment) = ConditionOn(i, g, Segment)
  BY MergeLeavesOthers
<1>5. MergesInertly(i, base, to_merge) =>
         \A g \in gs : ConditionOn(m, g, Segment) = ExclusiveSegment(base)
  BY InertMergeIsExclusive
<1> HIDE DEF m, gs
<1>6. CanBeGrouped(m, ConditionOf(m), G, gs)
  <2>1. G.unmapped \ gs \subseteq NonInitFontGlyphs(m)
    BY <1>2 DEF InGroups
  <2>2. \A g \in Mapped(G.pre) \ (G.found \cup gs) : G.pre[g] = ConditionOf(m)[g]
    BY <1>4, ConditionOfGlyphs DEF InGroups, GroupsFollow, Mapped
  <2>3. OrGroupsFollow(G, ConditionOf(m), {})
    BY DEF InGroups, OrGroupsFollow
  <2> QED BY <2>1, <2>2, <2>3 DEF CanBeGrouped, InGroups
<1>7. ASSUME MergesInertly(i, base, to_merge)
      PROVE  InGroups(m, ConditionOf(m), AddGlyphsToExclusiveGroup(G, base, gs), {})
  <2>1. \A g \in Glyph : ConditionOf(m)[g] = IF g \in gs THEN ExclusiveSegment(base)
                                             ELSE ConditionOf(i)[g]
    BY <1>4, <1>5, <1>7, ConditionOfGlyphs
  <2> QED BY <1>2, <1>3, <2>1, ExclusiveAdded
<1> QED BY <1>1, <1>2, <1>3, <1>6, <1>7 DEF m, gs

LEMMA MergedContextOK ==
  ASSUME NEW ctx, ContextOK(ctx), NEW base \in Segment, NEW to_merge \in SUBSET Segment
  PROVE  ContextOK(MergeSegments(ctx, base, to_merge))
<1> DEFINE i == ctx.info
           G == ctx.groupings
           m == MergeDefinitions(i, base, to_merge)
           gs == TouchedBy(m, base)
           E == AddGlyphsToExclusiveGroup(G, base, gs)
           X == MergeSegments(ctx, base, to_merge)
<1>1. /\ InfoOK(i) /\ InGroups(i, ConditionOf(i), G, {})
      /\ ctx = AnalysedContext(i, G, Segment)
  BY DEF ContextOK
<1> HIDE DEF i, G
<1>2. /\ InfoOK(m) /\ gs \in SUBSET Glyph
      /\ CanBeGrouped(m, ConditionOf(m), G, gs)
      /\ MergesInertly(i, base, to_merge) => InGroups(m, ConditionOf(m), E, {})
  BY <1>1, MergedGroups
<1>3. CASE ~MergesInertly(i, base, to_merge)
  <2>1. X = AnalysedContext(m, Grouping(m, G, gs, to_merge \cup {base}), Segment)
    BY <1>1, <1>3, MergedNotInertly
  <2> HIDE DEF m, gs, X
  <2>2. ContextOK(X)
    BY <1>2, <2>1, RegroupedIsOK
  <2> QED BY <2>2 DEF X
<1>4. CASE MergesInertly(i, base, to_merge)
  <2>1. X = AnalysedContext(m, Grouping(m, E, {}, to_merge \cup {base}), Segment)
    BY <1>1, <1>4, MergedInertly
  <2> HIDE DEF m, E, X
  <2>2. CanBeGrouped(m, ConditionOf(m), E, {}) /\ {} \in SUBSET Glyph
    BY <1>2, <1>4, InGroupsCanBeGrouped
  <2>3. ContextOK(X)
    BY <1>2, <2>1, <2>2, RegroupedIsOK
  <2> QED BY <2>3 DEF X
<1> QED BY <1>3, <1>4

\* a merge changes the segments, whichever way it updates the groups
LEMMA MergedInfo ==
  ASSUME NEW ctx, ContextOK(ctx), NEW base \in Segment, NEW to_merge \in SUBSET Segment
  PROVE  MergeSegments(ctx, base, to_merge).info = MergeDefinitions(ctx.info, base, to_merge)
<1> DEFINE i == ctx.info
           G == ctx.groupings
           m == MergeDefinitions(i, base, to_merge)
           gs == TouchedBy(m, base)
           M == to_merge \cup {base}
           E == AddGlyphsToExclusiveGroup(G, base, gs)
           X == MergeSegments(ctx, base, to_merge)
<1>1. InfoOK(i) /\ ctx = AnalysedContext(i, G, Segment)
  BY DEF ContextOK
<1> HIDE DEF i, G
<1>2. \E H : X = AnalysedContext(m, H, Segment)
  <2>1. CASE MergesInertly(i, base, to_merge)
    <3>1. X = AnalysedContext(m, Grouping(m, E, {}, M), Segment)
      BY <1>1, <2>1, MergedInertly
    <3> HIDE DEF X, m, E, M
    <3> QED BY <3>1
  <2>2. CASE ~MergesInertly(i, base, to_merge)
    <3>1. X = AnalysedContext(m, Grouping(m, G, gs, M), Segment)
      BY <1>1, <2>2, MergedNotInertly
    <3> HIDE DEF X, m, gs, M
    <3> QED BY <3>1
  <2> QED BY <2>1, <2>2
<1> HIDE DEF X, m
<1>3. X.info = m
  BY <1>2 DEF AnalysedContext
<1> QED BY <1>3 DEF X, m, i

LEMMA PatchesMergedContextOK ==
  ASSUME NEW ctx, ContextOK(ctx), NEW a, NEW b, Segment # {}
  PROVE  ContextOK(MergePatches(ctx, a, b))
<1> DEFINE i == ctx.info
           G == ctx.groupings
           gs == GlyphsOf(G.post, a) \cup GlyphsOf(G.post, b)
           C == CombinePatches(G, gs)
           c1 == [ctx EXCEPT !.groupings = C]
           X == MergePatches(ctx, a, b)
<1>1. /\ InfoOK(i) /\ InGroups(i, ConditionOf(i), G, {})
      /\ ctx = AnalysedContext(i, G, Segment)
  BY DEF ContextOK
<1>2. gs \in SUBSET Glyph
  BY DEF GlyphsOf
<1>3. 0 \in Segment
  BY NumberingAssumption
<1>4. X = ReprocessChanged(c1, {}, {0}, 0)
  BY DEF MergePatches
<1> HIDE DEF i, G, gs
<1>5. InGroups(i, ConditionOf(i), C, {})
  BY <1>1, <1>2, PatchesCombined
<1> HIDE DEF C
<1>6. c1 = AnalysedContext(i, C, Segment)
  <2> DEFINE d == [info |-> i, conditions |-> ConditionsOn(i, Segment),
                   inert |-> InertOn(i, Segment), groupings |-> G]
  <2>1. ctx = d
    BY <1>1 DEF AnalysedContext
  <2>2. [d EXCEPT !.groupings = C] = AnalysedContext(i, C, Segment)
    BY DEF AnalysedContext
  <2>3. c1 = [d EXCEPT !.groupings = C]
    BY <2>1
  <2> QED BY <2>2, <2>3
<1> HIDE DEF c1, X
<1>7. ReprocessSegment(c1, 0) = c1
  <2>1. Segment \cup {0} = Segment
    BY <1>3
  <2>2. ReprocessSegment(AnalysedContext(i, C, Segment), 0)
           = AnalysedContext(i, C, Segment \cup {0})
    BY <1>1, <1>3, ReprocessOne
  <2> QED BY <1>6, <2>1, <2>2
<1>8. \E glyphs \in SUBSET Glyph : X = Grouped(c1, glyphs, {0})
  <2> DEFINE touched == {} \cup TouchedBy(c1.info, 0)
  <2>1. c1.info = i
    BY <1>6 DEF AnalysedContext
  <2>2. touched \in SUBSET Glyph
    BY <1>1, <1>3, <2>1, TouchedGlyphs
  <2>3. X = IF 0 \in c1.inert THEN Grouped(c1, {}, {0})
            ELSE Grouped(c1, touched, {0})
    BY <1>4, <1>7 DEF ReprocessChanged
  <2> HIDE DEF touched
  <2>4. {} \in SUBSET Glyph
    OBVIOUS
  <2> QED BY <2>2, <2>3, <2>4
<1>9. PICK glyphs \in SUBSET Glyph : X = Grouped(c1, glyphs, {0})
  BY <1>8
<1>10. X = AnalysedContext(i, Grouping(i, C, glyphs, {0}), Segment)
  BY <1>6, <1>9, GroupedContext
<1>11. ContextOK(X)
  BY <1>1, <1>5, <1>10, InGroupsCanBeGrouped, RegroupedIsOK
<1> QED BY <1>11 DEF X

-----------------------------------------------------------------------------
(***************************************************************************)
(* The inductive invariant of the segmenter.                               *)
(***************************************************************************)
MergersOK == /\ mergers \in Seq(Merger)
             /\ \A k \in DOMAIN mergers :
                   mergers[k].patch_glyphs # {} => Segment # {}

IInv == /\ ContextOK(context)
        /\ MergersOK
        /\ merger_index \in 1 .. Len(mergers) + 1
        /\ phase \in {"init_moves", "fallback", "merging", "done"}
        /\ batch_mode \in BOOLEAN

LEMMA NewMergerType ==
  ASSUME NEW ctx, NEW strategy \in Strategy
  PROVE  /\ NewMerger(ctx, strategy) \in Merger
         /\ NewMerger(ctx, strategy).patch_glyphs # {} => Segment # {}
<1> DEFINE cs == CandidateSegments(ctx, strategy)
           gs == CandidatePatchMergeGlyphs(ctx, strategy)
<1>1. cs \in SUBSET Segment
  BY DEF CandidateSegments, NonEmptySegments
<1>2. gs \in SUBSET Glyph
  BY DEF CandidatePatchMergeGlyphs, Mapped
<1>3. gs # {} => cs # {}
  BY DEF CandidatePatchMergeGlyphs
<1>4. NewMerger(ctx, strategy) =
         [strategy |-> strategy, candidates |-> cs, patch_glyphs |-> gs]
  BY DEF NewMerger
<1> HIDE DEF cs, gs
<1> QED BY <1>1, <1>2, <1>3, <1>4 DEF Merger

LEMMA RecomputedType ==
  ASSUME NEW ctx, NEW m \in Merger
  PROVE  /\ Recomputed(m, ctx) \in Merger
         /\ Recomputed(m, ctx).patch_glyphs = m.patch_glyphs
<1>1. CandidateSegments(ctx, m.strategy) \in SUBSET Segment
  BY DEF CandidateSegments, NonEmptySegments
<1> QED BY <1>1 DEF Recomputed, Merger

LEMMA OneMergerChanged ==
  ASSUME MergersOK, NEW k \in DOMAIN mergers, NEW m \in Merger,
         m.patch_glyphs \subseteq mergers[k].patch_glyphs,
         mergers' = [mergers EXCEPT ![k] = m]
  PROVE  MergersOK' /\ Len(mergers') = Len(mergers)
<1>1. mergers \in Seq(Merger)
  BY DEF MergersOK
<1>2. /\ mergers' \in Seq(Merger) /\ Len(mergers') = Len(mergers)
      /\ DOMAIN mergers' = DOMAIN mergers
  BY <1>1
<1>3. \A l \in DOMAIN mergers : mergers'[l] = IF l = k THEN m ELSE mergers[l]
  BY <1>1
<1>4. \A l \in DOMAIN mergers' : mergers'[l].patch_glyphs # {} => Segment # {}
  BY <1>2, <1>3 DEF MergersOK
<1> QED BY <1>2, <1>4 DEF MergersOK

LEMMA InitIInv == ASSUME Init PROVE IInv
<1>1. PICK f \in Font, r \in Input :
         /\ context = InitializeSegmentationContext(f, r.segments, r.init, r.handling)
         /\ mergers = [k \in DOMAIN r.strategies |->
                          NewMerger(context, r.strategies[k])]
  BY DEF Init
<1>2. RequestOK(r)
  BY InputAssumption
<1>3. ContextOK(context)
  BY <1>1, <1>2, InitialContextOK DEF RequestOK
<1>4. r.strategies \in Seq(Strategy)
  BY <1>2 DEF RequestOK
<1>5. \A k \in DOMAIN r.strategies : r.strategies[k] \in Strategy
  BY <1>4
<1>6. \A k \in DOMAIN r.strategies :
         /\ mergers[k] \in Merger
         /\ mergers[k].patch_glyphs # {} => Segment # {}
  BY <1>1, <1>5, NewMergerType
<1>7. /\ mergers \in Seq(Merger) /\ DOMAIN mergers = DOMAIN r.strategies
  <2>1. DOMAIN r.strategies = 1 .. Len(r.strategies) /\ Len(r.strategies) \in Nat
    BY <1>4
  <2>2. mergers = [k \in 1 .. Len(r.strategies) |-> mergers[k]]
    BY <1>1, <2>1
  <2>3. \A k \in 1 .. Len(r.strategies) : mergers[k] \in Merger
    BY <1>6, <2>1
  <2>4. mergers \in [1 .. Len(r.strategies) -> Merger]
    BY <2>2, <2>3
  <2> QED BY <2>1, <2>4
<1>8. MergersOK
  BY <1>6, <1>7 DEF MergersOK
<1>9. /\ merger_index = 1 /\ phase = "init_moves" /\ batch_mode = TRUE
  BY DEF Init
<1>10. Len(mergers) \in Nat
  BY <1>7
<1> QED BY <1>3, <1>8, <1>9, <1>10 DEF IInv

LEMMA CurrentMerger ==
  ASSUME MergersOK, merger_index \in DOMAIN mergers
  PROVE  /\ merger \in Merger
         /\ merger = mergers[merger_index]
         /\ merger.patch_glyphs # {} => Segment # {}
<1>1. mergers \in Seq(Merger)
  BY DEF MergersOK
<1>2. mergers[merger_index] \in Merger
  BY <1>1
<1> QED BY <1>2 DEF MergersOK, merger

LEMMA InitFontMoved ==
  ASSUME IInv, merger_index \in DOMAIN mergers, NEW glyphs \in SUBSET Glyph,
         ApplyInitFontMove(glyphs)
  PROVE  ContextOK(context') /\ MergersOK' /\ Len(mergers') = Len(mergers)
<1> DEFINE d == info.init
           def == [d EXCEPT !.gids = @ \cup glyphs]
<1>1. ContextOK(context)
  BY DEF IInv
<1>2. d \in Definition /\ d = context.info.init
  BY <1>1 DEF ContextOK, InfoOK, Info, info
<1>3. context' = ReassignInitSubset(context, def)
  BY DEF ApplyInitFontMove
<1>4. mergers' = [mergers EXCEPT ![merger_index] = Recomputed(@, context')]
  BY DEF ApplyInitFontMove
<1> HIDE DEF d
<1>5. def \in Definition /\ d.codepoints = def.codepoints /\ d.gids \subseteq def.gids
  BY <1>2 DEF Definition
<1> HIDE DEF def
<1>6. ContextOK(context')
  BY <1>1, <1>2, <1>3, <1>5, MovedContextOK
<1> DEFINE r == Recomputed(merger, context')
<1>7. merger \in Merger /\ merger = mergers[merger_index]
  BY CurrentMerger DEF IInv
<1>8. r \in Merger /\ r.patch_glyphs = mergers[merger_index].patch_glyphs
  BY <1>7, RecomputedType
<1>9. mergers' = [mergers EXCEPT ![merger_index] = r]
  BY <1>4, <1>7
<1> HIDE DEF r
<1>10. MergersOK' /\ Len(mergers') = Len(mergers)
  BY <1>8, <1>9, OneMergerChanged DEF IInv
<1> QED BY <1>6, <1>10

LEMMA MergesAreOfSegments ==
  ASSUME IInv, InMergeLoop, merger.candidates # {},
         NEW to_merge \in ExclusivePartners \cup CompositePartners
  PROVE  Base \in Segment /\ to_merge \in SUBSET Segment
<1>1. merger \in Merger
  BY CurrentMerger DEF IInv, InMergeLoop
<1>2. /\ merger.candidates \in SUBSET Segment
      /\ merger.strategy.inscope \in SUBSET Segment
  BY <1>1 DEF Merger, Strategy
<1>3. Base \in Segment
  BY <1>2, LeastIsElement DEF Base
<1>4. to_merge \in SUBSET Segment
  BY <1>2 DEF ExclusivePartners, CompositePartners
<1> QED BY <1>3, <1>4

LEMMA NextIInv == ASSUME IInv, [Next]_vars PROVE IInv'
<1>0. /\ ContextOK(context) /\ MergersOK
      /\ mergers \in Seq(Merger) /\ Len(mergers) \in Nat
      /\ DOMAIN mergers = 1 .. Len(mergers)
      /\ merger_index \in 1 .. Len(mergers) + 1
      /\ phase \in {"init_moves", "fallback", "merging", "done"}
      /\ batch_mode \in BOOLEAN
  BY DEF IInv, MergersOK
<1>1. CASE UNCHANGED vars
  BY <1>0, <1>1 DEF vars, IInv, MergersOK
<1>2. CASE MoveBatch
  <2>1. PICK cs \in SUBSET InitFontConditions(TRUE) \ {{}} :
           ApplyInitFontMove(UNION {GlyphsOf(groupings.post, c) : c \in cs})
    BY <1>2 DEF MoveBatch
  <2>2. UNION {GlyphsOf(groupings.post, c) : c \in cs} \in SUBSET Glyph
    BY DEF GlyphsOf
  <2>3. merger_index \in DOMAIN mergers
    BY <1>2 DEF MoveBatch, Moving
  <2>4. ContextOK(context') /\ MergersOK' /\ Len(mergers') = Len(mergers)
    BY <2>1, <2>2, <2>3, InitFontMoved
  <2>5. UNCHANGED <<merger_index, phase, batch_mode>>
    BY <1>2 DEF MoveBatch
  <2> QED BY <1>0, <2>4, <2>5 DEF IInv
<1>3. CASE EndBatch
  BY <1>0, <1>3 DEF EndBatch, IInv, MergersOK
<1>4. CASE MoveOne
  <2>1. PICK c \in InitFontConditions(FALSE) :
           ApplyInitFontMove(GlyphsOf(groupings.post, c))
    BY <1>4 DEF MoveOne
  <2>2. GlyphsOf(groupings.post, c) \in SUBSET Glyph
    BY DEF GlyphsOf
  <2>3. merger_index \in DOMAIN mergers
    BY <1>4 DEF MoveOne, Moving
  <2>4. ContextOK(context') /\ MergersOK' /\ Len(mergers') = Len(mergers)
    BY <2>1, <2>2, <2>3, InitFontMoved
  <2>5. UNCHANGED <<merger_index, phase, batch_mode>>
    BY <1>4 DEF MoveOne
  <2> QED BY <1>0, <2>4, <2>5 DEF IInv
<1>5. CASE NextInitMover
  <2>1. merger_index \in DOMAIN mergers
    BY <1>5 DEF NextInitMover, Moving
  <2>2. merger_index + 1 \in 1 .. Len(mergers) + 1
    BY <1>0, <2>1
  <2> QED BY <1>0, <1>5, <2>2 DEF NextInitMover, IInv, MergersOK
<1>6. CASE EndInitMoves
  <2> DEFINE new == [k \in DOMAIN mergers |-> Recomputed(mergers[k], context)]
  <2>1. \A k \in DOMAIN mergers : mergers[k] \in Merger
    BY <1>0
  <2>2. \A k \in DOMAIN mergers : /\ new[k] \in Merger
                                  /\ new[k].patch_glyphs = mergers[k].patch_glyphs
    BY <2>1, RecomputedType
  <2>3. new \in [1 .. Len(mergers) -> Merger] /\ DOMAIN new = DOMAIN mergers
    BY <1>0, <2>2
  <2> HIDE DEF new
  <2>4. new \in Seq(Merger) /\ Len(new) = Len(mergers)
    BY <1>0, <2>3
  <2>5. \A k \in DOMAIN new : new[k].patch_glyphs # {} => Segment # {}
    BY <1>0, <2>2, <2>3 DEF MergersOK
  <2>6. mergers' = new \/ mergers' = mergers
    BY <1>6 DEF EndInitMoves, new
  <2>7. MergersOK' /\ Len(mergers') = Len(mergers)
    BY <1>0, <2>4, <2>5, <2>6 DEF MergersOK
  <2>8. context' = context /\ merger_index' = merger_index
        /\ batch_mode' = batch_mode /\ phase' = "fallback"
    BY <1>6 DEF EndInitMoves
  <2> QED BY <1>0, <2>7, <2>8 DEF IInv
<1>7. CASE MoveFallbackGlyphs
  <2> DEFINE d == context.info.init
             def == [d EXCEPT !.gids = @ \cup context.groupings.unmapped]
  <2>1. d \in Definition /\ context.groupings.unmapped \in SUBSET Glyph
    BY <1>0 DEF ContextOK, InfoOK, Info, InGroups, Groupings
  <2>2. context' = ReassignInitSubset(context, def) \/ context' = context
    BY <1>7 DEF MoveFallbackGlyphs, MoveFallback
  <2>3. def \in Definition /\ d.codepoints = def.codepoints
        /\ d.gids \subseteq def.gids
    <3> HIDE DEF d
    <3> QED BY <2>1 DEF Definition
  <2> HIDE DEF def
  <2>4. ContextOK(context')
    BY <1>0, <2>2, <2>3, MovedContextOK
  <2>5. /\ UNCHANGED <<mergers, batch_mode>> /\ merger_index' = 1
        /\ phase' \in {"done", "merging"}
    BY <1>7 DEF MoveFallbackGlyphs
  <2>6. 1 \in 1 .. Len(mergers) + 1
    BY <1>0
  <2> QED BY <1>0, <2>4, <2>5, <2>6 DEF IInv, MergersOK
<1>8. CASE MergeSegment
  <2>1. PICK to_merge \in ExclusivePartners \cup CompositePartners :
           /\ context' = MergeSegments(context, Base, to_merge)
           /\ mergers' = [mergers EXCEPT ![merger_index].candidates =
                             (@ \ to_merge) \cup {Base}]
    BY <1>8 DEF MergeSegment
  <2>2. Base \in Segment /\ to_merge \in SUBSET Segment
    BY <1>8, MergesAreOfSegments DEF MergeSegment
  <2>3. ContextOK(context')
    BY <1>0, <2>1, <2>2, MergedContextOK
  <2>4. merger_index \in DOMAIN mergers
    BY <1>8 DEF MergeSegment, InMergeLoop
  <2>5. merger \in Merger /\ merger = mergers[merger_index]
    BY <1>0, <2>4, CurrentMerger
  <2> DEFINE cs == (merger.candidates \ to_merge) \cup {Base}
             m == [merger EXCEPT !.candidates = cs]
  <2>6. cs \in SUBSET Segment
    BY <2>2, <2>5 DEF Merger
  <2>7. mergers' = [mergers EXCEPT ![merger_index] = m]
    BY <2>1, <2>5
  <2> HIDE DEF cs
  <2>8. m \in Merger /\ m.patch_glyphs = mergers[merger_index].patch_glyphs
    BY <2>5, <2>6 DEF Merger
  <2> HIDE DEF m
  <2>9. MergersOK' /\ Len(mergers') = Len(mergers)
    BY <1>0, <2>4, <2>7, <2>8, OneMergerChanged
  <2>10. UNCHANGED <<merger_index, phase, batch_mode>>
    BY <1>8 DEF MergeSegment
  <2> QED BY <1>0, <2>3, <2>9, <2>10 DEF IInv
<1>9. CASE MarkFinished
  <2>1. merger_index \in DOMAIN mergers
    BY <1>9 DEF MarkFinished, InMergeLoop
  <2>2. merger \in Merger /\ merger = mergers[merger_index]
    BY <1>0, <2>1, CurrentMerger
  <2> DEFINE cs == merger.candidates \ {Base}
             m == [merger EXCEPT !.candidates = cs]
  <2>3. cs \in SUBSET Segment
    BY <2>2 DEF Merger
  <2>4. mergers' = [mergers EXCEPT ![merger_index] = m]
    BY <1>9, <2>2 DEF MarkFinished
  <2> HIDE DEF cs
  <2>5. m \in Merger /\ m.patch_glyphs = mergers[merger_index].patch_glyphs
    BY <2>2, <2>3 DEF Merger
  <2> HIDE DEF m
  <2>6. MergersOK' /\ Len(mergers') = Len(mergers)
    BY <1>0, <2>1, <2>4, <2>5, OneMergerChanged
  <2>7. UNCHANGED <<context, merger_index, phase, batch_mode>>
    BY <1>9 DEF MarkFinished
  <2> QED BY <1>0, <2>6, <2>7 DEF IInv
<1>10. CASE MergePatch
  <2>1. PICK a \in PatchCandidates, b \in PatchCandidates :
           context' = MergePatches(context, a, b)
    BY <1>10 DEF MergePatch
  <2>2. merger_index \in DOMAIN mergers
    BY <1>10 DEF MergePatch, PatchMerging, InMergeLoop
  <2>3. Segment # {}
    <3>1. merger.patch_glyphs # {}
      BY <2>1 DEF PatchCandidates
    <3> QED BY <1>0, <2>2, <3>1, CurrentMerger
  <2>4. ContextOK(context')
    BY <1>0, <2>1, <2>3, PatchesMergedContextOK
  <2>5. UNCHANGED <<mergers, merger_index, phase, batch_mode>>
    BY <1>10 DEF MergePatch
  <2> QED BY <1>0, <2>4, <2>5 DEF IInv, MergersOK
<1>11. CASE EndPatchBase
  <2>1. PICK c \in PatchCandidates :
           mergers' = [mergers EXCEPT ![merger_index].patch_glyphs =
                          @ \ GlyphsOf(groupings.post, c)]
    BY <1>11 DEF EndPatchBase
  <2>2. merger_index \in DOMAIN mergers
    BY <1>11 DEF EndPatchBase, PatchMerging, InMergeLoop
  <2>3. merger \in Merger /\ merger = mergers[merger_index]
    BY <1>0, <2>2, CurrentMerger
  <2> DEFINE gs == merger.patch_glyphs \ GlyphsOf(groupings.post, c)
             m == [merger EXCEPT !.patch_glyphs = gs]
  <2>4. gs \in SUBSET Glyph /\ gs \subseteq mergers[merger_index].patch_glyphs
    BY <2>3 DEF Merger
  <2>5. mergers' = [mergers EXCEPT ![merger_index] = m]
    BY <2>1, <2>3
  <2> HIDE DEF gs
  <2>6. m \in Merger /\ m.patch_glyphs = gs
    BY <2>3, <2>4 DEF Merger
  <2> HIDE DEF m
  <2>7. MergersOK' /\ Len(mergers') = Len(mergers)
    BY <1>0, <2>2, <2>4, <2>5, <2>6, OneMergerChanged
  <2>8. UNCHANGED <<context, merger_index, phase, batch_mode>>
    BY <1>11 DEF EndPatchBase
  <2> QED BY <1>0, <2>7, <2>8 DEF IInv
<1>12. CASE NextMerger
  <2>1. merger_index \in DOMAIN mergers
    BY <1>12 DEF NextMerger, InMergeLoop
  <2>2. merger_index + 1 \in 1 .. Len(mergers) + 1
    BY <1>0, <2>1
  <2>3. /\ merger_index' = merger_index + 1 /\ phase' \in {phase, "done"}
        /\ UNCHANGED <<context, mergers, batch_mode>>
    BY <1>12 DEF NextMerger
  <2> QED BY <1>0, <2>2, <2>3 DEF IInv, MergersOK
<1>13. CASE Finished
  BY <1>1, <1>13 DEF Finished
<1> QED
  BY <1>1, <1>2, <1>3, <1>4, <1>5, <1>6, <1>7, <1>8, <1>9, <1>10, <1>11, <1>12, <1>13
     DEF Next, Step, InitMoves, Merges

-----------------------------------------------------------------------------
(***************************************************************************)
(* The inductive invariant holds throughout: whatever the mergers choose,  *)
(* the incrementally maintained analysis stays in agreement with the       *)
(* present segments and initial font (segmentation_context.cc).            *)
(***************************************************************************)
THEOREM SegmentationStaysInOrder == Spec => []IInv
<1>1. Init => IInv
  BY InitIInv
<1>2. IInv /\ [Next]_vars => IInv'
  BY NextIInv
<1> QED BY <1>1, <1>2, PTL DEF Spec

(***************************************************************************)
(* Type correctness of the segmenter.                                      *)
(***************************************************************************)
THEOREM TypeCorrect == Spec => []TypeOK
<1>1. IInv => TypeOK
  <2> SUFFICES ASSUME IInv PROVE TypeOK
    OBVIOUS
  <2>1. ContextOK(context)
    BY DEF IInv
  <2> DEFINE i == context.info
             G == context.groupings
             cs == ConditionsOn(i, Segment)
             inert == InertOn(i, Segment)
  <2>2. i \in Info /\ G \in Groupings
    BY <2>1 DEF ContextOK, InfoOK, InGroups
  <2>3. context = [info |-> i, conditions |-> cs, inert |-> inert, groupings |-> G]
    BY <2>1 DEF ContextOK, AnalysedContext
  <2>4. cs \in ConditionSet
    BY ConditionsOnInSync
  <2>5. inert \in SUBSET Segment
    BY DEF InertOn
  <2> HIDE DEF i, G, cs, inert
  <2>6. context \in Context
    BY <2>2, <2>3, <2>4, <2>5 DEF Context
  <2> QED BY <2>6 DEF IInv, MergersOK, TypeOK
<1> QED BY <1>1, SegmentationStaysInOrder, PTL

(***************************************************************************)
(* The reverse index of the condition set and the conditions name the same *)
(* pairs after every step (glyph_condition_set.h): no merge overlooks a    *)
(* glyph that has a segment in its condition.                              *)
(***************************************************************************)
THEOREM IndexStaysInSync == Spec => []ConditionsInSync
<1>1. IInv => ConditionsInSync
  <2> SUFFICES ASSUME IInv PROVE ConditionsInSync
    OBVIOUS
  <2>1. context = AnalysedContext(context.info, context.groupings, Segment)
    BY DEF IInv, ContextOK
  <2>2. context.conditions = ConditionsOn(context.info, Segment)
    BY <2>1 DEF AnalysedContext
  <2> QED BY <2>2, ConditionsOnInSync DEF ConditionsInSync
<1> QED BY <1>1, SegmentationStaysInOrder, PTL

(***************************************************************************)
(* A glyph with a disjunctive condition of its own, neither combined nor   *)
(* found by the search, is in the closure of each of its segments          *)
(* (glyph_groupings.cc): no client loads it without need.                  *)
(***************************************************************************)
THEOREM DisjunctionsStayNeeded == Spec => []DisjunctionsAreNeeded
<1>1. IInv => DisjunctionsAreNeeded
  <2> SUFFICES ASSUME IInv,
                      NEW g \in Mapped(groupings.pre) \ groupings.found,
                      IsPurelyDisjunctive(groupings.pre[g]),
                      ~IsExclusive(groupings.pre[g]),
                      NEW s \in TriggeringSegments(groupings.pre[g])
               PROVE  g \in Closure(info.font, CombinedDefinition(info, {s}))
    BY DEF DisjunctionsAreNeeded
  <2> DEFINE i == context.info
             c == ConditionOn(i, g, Segment)
  <2>1. InGroups(i, ConditionOf(i), context.groupings, {})
    BY DEF IInv, ContextOK
  <2>2. g \in Glyph
    BY DEF Mapped
  <2>3. groupings.pre[g] = c
    BY <2>1, <2>2, ConditionOfGlyphs DEF InGroups, GroupsFollow, groupings
  <2>4. TriggeringSegments(c) = IF Needing(i, g, Segment) # {}
                                THEN Needing(i, g, Segment)
                                ELSE Giving(i, g, Segment)
    BY ConditionOnSegments
  <2>5. Needing(i, g, Segment) = {}
    <3> SUFFICES ASSUME Needing(i, g, Segment) # {} PROVE FALSE
      OBVIOUS
    <3> DEFINE N == Needing(i, g, Segment)
    <3>1. /\ c.groups = Each(N)
          /\ c.exclusive = \E t \in Segment : N = {t}
      BY DEF ConditionOn
    <3>2. N \subseteq Segment
      BY DEF Needing
    <3>3. PICK h \in Each(N) : Each(N) = {h}
      BY <2>3, <3>1 DEF IsPurelyDisjunctive
    <3> HIDE DEF N
    <3>4. PICK t \in N : h = {t}
      BY <3>3 DEF Each
    <3>5. \A u \in N : {u} \in Each(N)
      BY DEF Each
    <3>6. \A u \in N : u = t
      <4> TAKE u \in N
      <4>1. {u} = {t}
        BY <3>3, <3>4, <3>5
      <4> QED BY <4>1
    <3>7. N = {t}
      BY <3>4, <3>6
    <3> QED BY <2>3, <3>1, <3>2, <3>4, <3>7 DEF IsExclusive
  <2>6. Gives(i, g, s)
    BY <2>3, <2>4, <2>5 DEF Giving
  <2> QED BY <2>6 DEF Gives, info
<1> QED BY <1>1, SegmentationStaysInOrder, PTL

(***************************************************************************)
(* "FIND_CONDITIONS" leaves nothing to the fallback patch (config/         *)
(* common.proto), through all moves and merges: GroupGlyphs finds a        *)
(* condition for each unmapped glyph, as long as the segments do not       *)
(* overlap, without which FindFallbackGlyphConditions refuses to search.   *)
(***************************************************************************)
THEOREM FindingLeavesNoFallback ==
  Spec => [](info.handling = "FIND_CONDITIONS" /\ info.disjoint
             => groupings.unmapped = {})
<1>1. IInv => (info.handling = "FIND_CONDITIONS" /\ info.disjoint
               => groupings.unmapped = {})
  BY DEF IInv, ContextOK, NoneLeftOver, info, groupings
<1> QED BY <1>1, SegmentationStaysInOrder, PTL

-----------------------------------------------------------------------------
(***************************************************************************)
(* The analysis from scratch.  Its information on the segments is the      *)
(* present one, but for the flag that they are disjoint, which may have    *)
(* become true by a merge.                                                 *)
(***************************************************************************)
LEMMA InfoFromScratch ==
  ASSUME NEW i, InfoOK(i)
  PROVE  LET j == CreateInfo(i.font, i.segments, i.init, i.handling)
         IN  /\ InfoOK(j)
             /\ j.font = i.font /\ j.init = i.init
             /\ j.full_closure = i.full_closure
             /\ \A s \in Segment : j.segments[s] = i.segments[s]
<1> DEFINE j == CreateInfo(i.font, i.segments, i.init, i.handling)
           e == ExpandClosure(i.font, i.init)
<1>1. /\ i \in Info /\ i.font \in Font /\ i.init \in Definition
      /\ i.segments \in [Segment -> SUBSET Codepoint]
      /\ i.handling \in UnmappedGlyphHandling
  BY DEF InfoOK, Info
<1>2. e = i.init
  BY <1>1, ExpandedAlready DEF InfoOK
<1>3. /\ InfoOK(j) /\ j.font = i.font /\ j.init = e
      /\ \A s \in Segment : j.segments[s] = i.segments[s] \ (e.codepoints \ Feature)
  BY <1>1, CreatedInfoOK
<1> HIDE DEF j, e
<1>4. \A s \in Segment : j.segments[s] = i.segments[s]
  BY <1>2, <1>3 DEF InfoOK
<1>5. j \in Info
  BY <1>3 DEF InfoOK
<1>6. j.full_definition = i.full_definition
  <2> DEFINE d == CombinedDefinition(i, Segment)
             f == CombinedDefinition(j, Segment)
  <2>1. /\ d \in Definition
        /\ d.codepoints = (UNION {i.segments[s] : s \in Segment}) \cup i.init.codepoints
        /\ d.gids = i.init.gids
    BY <1>1, CombinedType
  <2>2. /\ f \in Definition
        /\ f.codepoints = (UNION {j.segments[s] : s \in Segment}) \cup j.init.codepoints
        /\ f.gids = j.init.gids
    BY <1>5, CombinedType
  <2>3. UNION {j.segments[s] : s \in Segment} = UNION {i.segments[s] : s \in Segment}
    BY <1>4
  <2> HIDE DEF d, f
  <2>4. d.codepoints = f.codepoints /\ d.gids = f.gids
    BY <1>2, <1>3, <2>1, <2>2, <2>3
  <2>5. d = f
    BY <2>1, <2>2, <2>4, SameDefinition
  <2> QED BY <1>3, <2>5 DEF InfoOK, d, f
<1>7. j.full_closure = i.full_closure
  BY <1>3, <1>6 DEF InfoOK
<1> QED BY <1>2, <1>3, <1>4, <1>7 DEF j

LEMMA SameInfoSameAnalysis ==
  ASSUME NEW i, NEW j, InfoOK(i), InfoOK(j), j.font = i.font, j.init = i.init,
         j.full_closure = i.full_closure,
         \A s \in Segment : j.segments[s] = i.segments[s]
  PROVE  /\ ConditionsOn(j, Segment) = ConditionsOn(i, Segment)
         /\ InertOn(j, Segment) = InertOn(i, Segment)
<1>1. i \in Info /\ j \in Info
  BY DEF InfoOK
<1>2. ASSUME NEW T \in SUBSET Segment
      PROVE  CombinedDefinition(j, T) = CombinedDefinition(i, T)
  <2> DEFINE d == CombinedDefinition(i, T)
             f == CombinedDefinition(j, T)
  <2>1. /\ d \in Definition
        /\ d.codepoints = (UNION {i.segments[s] : s \in T}) \cup i.init.codepoints
        /\ d.gids = i.init.gids
    BY <1>1, CombinedType
  <2>2. /\ f \in Definition
        /\ f.codepoints = (UNION {j.segments[s] : s \in T}) \cup j.init.codepoints
        /\ f.gids = j.init.gids
    BY <1>1, CombinedType
  <2>3. UNION {j.segments[s] : s \in T} = UNION {i.segments[s] : s \in T}
    OBVIOUS
  <2>4. d.codepoints = f.codepoints /\ d.gids = f.gids
    BY <2>1, <2>2, <2>3
  <2> HIDE DEF d, f
  <2>5. f = d
    BY <2>1, <2>2, <2>4, SameDefinition
  <2> QED BY <2>5 DEF d, f
<1>3. \A g : \A s \in Segment : /\ Needs(j, g, s) <=> Needs(i, g, s)
                                /\ Gives(j, g, s) <=> Gives(i, g, s)
  <2> TAKE g
  <2> TAKE s \in Segment
  <2>1. /\ CombinedDefinition(j, {s}) = CombinedDefinition(i, {s})
        /\ CombinedDefinition(j, Segment \ {s}) = CombinedDefinition(i, Segment \ {s})
    BY <1>2
  <2> QED BY <2>1 DEF Needs, Gives
<1>4. ASSUME NEW g \in Glyph
      PROVE  ConditionOn(j, g, Segment) = ConditionOn(i, g, Segment)
  <2>1. /\ Needing(j, g, Segment) = Needing(i, g, Segment)
        /\ Giving(j, g, Segment) = Giving(i, g, Segment)
    BY <1>3 DEF Needing, Giving
  <2> QED BY <2>1 DEF ConditionOn
<1>5. ConditionsOn(j, Segment) = ConditionsOn(i, Segment)
  BY <1>4, SameConditions
<1>6. InertOn(j, Segment) = InertOn(i, Segment)
  BY <1>3 DEF InertOn
<1> QED BY <1>5, <1>6

CombinedAgain(fresh, ctx) ==
    FoldSet(LAMBDA gs, G : CombinePatches(G, gs),
            fresh.groupings, ctx.groupings.combined_patches)

(***************************************************************************)
(* After every step the conditions and the inert segments are those of an  *)
(* analysis from scratch of the present segments and initial font (what    *)
(* ValidateIncrementalGroupings checks at the end): moves and merges redo  *)
(* exactly what they must.                                                 *)
(***************************************************************************)
THEOREM AnalysisStaysExact == Spec => []AnalysisIsExact
<1>1. IInv => AnalysisIsExact
  <2> SUFFICES ASSUME IInv PROVE AnalysisIsExact
    OBVIOUS
  <2> DEFINE i == context.info
             j == CreateInfo(i.font, i.segments, i.init, i.handling)
             G == CombinedAgain(WithSameSettings(context), context)
             S == NonIncremental(context)
  <2>1. InfoOK(i) /\ context = AnalysedContext(i, context.groupings, Segment)
    BY DEF IInv, ContextOK
  <2>2. /\ InfoOK(j) /\ j.font = i.font /\ j.init = i.init
        /\ j.full_closure = i.full_closure
        /\ \A s \in Segment : j.segments[s] = i.segments[s]
    BY <2>1, InfoFromScratch
  <2>3. S = ReprocessAll([info |-> j, conditions |-> NoConditions, inert |-> {},
                          groupings |-> G])
    <3> DEFINE fresh == WithSameSettings(context)
    <3>1. S = ReprocessAll([fresh EXCEPT !.groupings = G])
      BY DEF NonIncremental, CombinedAgain
    <3>2. fresh = [info |-> j, conditions |-> NoConditions, inert |-> {},
                   groupings |-> NoGroupings]
      BY DEF WithSameSettings, CreateContext
    <3> HIDE DEF S, G, j, fresh
    <3>3. [fresh EXCEPT !.groupings = G]
             = [info |-> j, conditions |-> NoConditions, inert |-> {}, groupings |-> G]
      BY <3>2
    <3> QED BY <3>1, <3>3
  <2> HIDE DEF S, G, j, i
  <2>4. S = AnalysedContext(j, Grouping(j, G, NonInitFontGlyphs(j), {}), Segment)
    BY <2>2, <2>3, AnalysedFromScratch
  <2>5. /\ ConditionsOn(j, Segment) = ConditionsOn(i, Segment)
        /\ InertOn(j, Segment) = InertOn(i, Segment)
    BY <2>1, <2>2, SameInfoSameAnalysis
  <2>6. /\ S.conditions = context.conditions
        /\ S.inert = context.inert
    <3> DEFINE D == Grouping(j, G, NonInitFontGlyphs(j), {})
               A(x, y) == AnalysedContext(x, y, Segment)
    <3>1. \A x, y : A(x, y).conditions = ConditionsOn(x, Segment)
                    /\ A(x, y).inert = InertOn(x, Segment)
      BY DEF AnalysedContext
    <3> HIDE DEF D, A
    <3> QED BY <2>1, <2>4, <2>5, <3>1 DEF D, A
  <2> QED BY <2>6 DEF AnalysisIsExact, SameAnalysis, S
<1> QED BY <1>1, SegmentationStaysInOrder, PTL

-----------------------------------------------------------------------------
(***************************************************************************)
(* The glyph closure requirement (glyph_segmentation.h).  First for any    *)
(* segmentation: it follows from the checks which the code makes of its    *)
(* result.  Then for the segmenter itself: where it moves nothing into the *)
(* initial font and combines no patches, every one of its segmentations    *)
(* passes these checks, whatever segments it merges.  (With either of the  *)
(* two it need not: they leave stale groups behind.)                       *)
(***************************************************************************)
\* nothing brings g without the segments of h
BroughtByNoOther(i, g, h) ==
    g \notin Closure(i.font, CombinedDefinition(i, Segment \ h))

\* the glyphs which the segmentation puts with condition c
PlacedBy(i, G, c) ==
    GlyphsOf(G.post, c)
        \cup IF c = OrSegments(NonEmptySegments(i)) THEN G.unmapped ELSE {}

\* the entries come from the conditions that have glyphs, one from each
IsPlacement(entry, i, G) ==
    /\ ToGlyphSegmentation(i, G).entries = {entry[c] : c \in DOMAIN entry}
    /\ DOMAIN entry = {c \in GlyphCondition : PlacedBy(i, G, c) # {}}
    /\ \A c \in DOMAIN entry : /\ entry[c].gids = PlacedBy(i, G, c)
                               /\ entry[c].condition.groups \subseteq c.groups

-----------------------------------------------------------------------------
(***************************************************************************)
(* The entries of a segmentation.                                          *)
(***************************************************************************)
LEMMA EntriesOfConditions ==
  ASSUME NEW i \in Info, NEW G \in Groupings
  PROVE  \E entry : IsPlacement(entry, i, G)
<1> DEFINE all == NonEmptySegments(i)
           D == {c \in GlyphCondition : PlacedBy(i, G, c) # {}}
           fb == IF G.unmapped = {} THEN {} ELSE all
           is_fallback(c) == /\ fb # {}
                             /\ IsPurelyDisjunctive(c)
                             /\ TriggeringSegments(c) = fb
           activation(c) == IF IsExclusive(c)
                            THEN Entry(ExclusiveSegment(Least(TriggeringSegments(c))), FALSE, {})
                            ELSE Entry(CompositeCondition(c.groups), is_fallback(c), {})
           entry == [c \in D |-> [activation(c) EXCEPT !.gids = PlacedBy(i, G, c)]]
           cs == ConditionsWithFallback(i, G)
           nonempty == {d \in cs : d.gids # {}}
<1>1. all \in SUBSET Segment
  BY DEF NonEmptySegments
<1>2. OrSegments(all) \in GlyphCondition
  BY <1>1, OrConditions
<1>3. \A g \in Glyph : G.post[g] # NoCondition => G.post[g] \in GlyphCondition
  BY DEF Groupings, Table
<1>4. \A c : GlyphsOf(G.post, c) # {} /\ c # NoCondition =>
             c \in GlyphCondition /\ c \in ConditionsOf(G.post)
  BY <1>3 DEF GlyphsOf, ConditionsOf, Mapped
<1>5. \A c \in ConditionsOf(G.post) :
            c \in GlyphCondition /\ c # NoCondition /\ GlyphsOf(G.post, c) # {}
  BY <1>3 DEF GlyphsOf, ConditionsOf, Mapped
<1>6. \A c \in GlyphCondition : c # NoCondition
  BY NoConditionAssumption DEF GlyphCondition
<1>7. \A d \in nonempty : d.condition \in D /\ d.gids = PlacedBy(i, G, d.condition)
  <2> SUFFICES ASSUME NEW d \in cs, d.gids # {}
               PROVE  d.condition \in D /\ d.gids = PlacedBy(i, G, d.condition)
    OBVIOUS
  <2>1. CASE G.unmapped = {}
    <3>1. PICK c \in ConditionsOf(G.post) : d = Entry(c, FALSE, GlyphsOf(G.post, c))
      BY <2>1 DEF ConditionsWithFallback
    <3>2. d.condition = c /\ d.gids = GlyphsOf(G.post, c)
      BY <3>1 DEF Entry
    <3>3. PlacedBy(i, G, c) = GlyphsOf(G.post, c)
      BY <2>1 DEF PlacedBy
    <3> QED BY <1>5, <3>2, <3>3
  <2>2. CASE G.unmapped # {}
    <3>1. d \in WithFallback(G.post, G.unmapped, all)
      BY <2>2 DEF ConditionsWithFallback
    <3>2. CASE \E c \in ConditionsOf(G.post) \ {OrSegments(all)} :
                  d = Entry(c, FALSE, GlyphsOf(G.post, c))
      <4>1. PICK c \in ConditionsOf(G.post) \ {OrSegments(all)} :
                  d = Entry(c, FALSE, GlyphsOf(G.post, c))
        BY <3>2
      <4>2. d.condition = c /\ d.gids = GlyphsOf(G.post, c)
        BY <4>1 DEF Entry
      <4>3. PlacedBy(i, G, c) = GlyphsOf(G.post, c)
        BY <4>1 DEF PlacedBy
      <4> QED BY <1>5, <4>2, <4>3
    <3>3. CASE d = Entry(OrSegments(all), TRUE,
                         G.unmapped \cup GlyphsOf(G.post, OrSegments(all)))
      <4>1. /\ d.condition = OrSegments(all)
            /\ d.gids = G.unmapped \cup GlyphsOf(G.post, OrSegments(all))
        BY <3>3 DEF Entry
      <4>2. PlacedBy(i, G, OrSegments(all)) = d.gids
        BY <4>1 DEF PlacedBy
      <4>3. PlacedBy(i, G, OrSegments(all)) # {}
        BY <2>2, <4>1, <4>2
      <4> QED BY <1>2, <4>1, <4>2, <4>3
    <3> QED BY <3>1, <3>2, <3>3 DEF WithFallback
  <2> QED BY <2>1, <2>2
<1>8. \A c \in D : \E d \in nonempty : d.condition = c /\ d.gids = PlacedBy(i, G, c)
  <2> SUFFICES ASSUME NEW c \in D
               PROVE  \E d \in cs : d.condition = c /\ d.gids = PlacedBy(i, G, c)
    OBVIOUS
  <2>0. c # NoCondition
    BY <1>6
  <2>1. CASE G.unmapped = {}
    <3>1. PlacedBy(i, G, c) = GlyphsOf(G.post, c)
      BY <2>1 DEF PlacedBy
    <3>2. c \in ConditionsOf(G.post)
      BY <1>4, <2>0, <3>1
    <3>3. Entry(c, FALSE, GlyphsOf(G.post, c)) \in cs
      BY <2>1, <3>2 DEF ConditionsWithFallback
    <3> QED BY <3>1, <3>3 DEF Entry
  <2>2. CASE G.unmapped # {} /\ c # OrSegments(all)
    <3>1. PlacedBy(i, G, c) = GlyphsOf(G.post, c)
      BY <2>2 DEF PlacedBy
    <3>2. c \in ConditionsOf(G.post)
      BY <1>4, <2>0, <3>1
    <3>3. Entry(c, FALSE, GlyphsOf(G.post, c)) \in cs
      BY <2>2, <3>2 DEF ConditionsWithFallback, WithFallback
    <3> QED BY <3>1, <3>3 DEF Entry
  <2>3. CASE G.unmapped # {} /\ c = OrSegments(all)
    <3>1. PlacedBy(i, G, c) = G.unmapped \cup GlyphsOf(G.post, OrSegments(all))
      BY <2>3 DEF PlacedBy
    <3>2. Entry(OrSegments(all), TRUE, G.unmapped \cup GlyphsOf(G.post, OrSegments(all))) \in cs
      BY <2>3 DEF ConditionsWithFallback, WithFallback
    <3> QED BY <2>3, <3>1, <3>2 DEF Entry
  <2> QED BY <2>1, <2>2, <2>3
<1>9. ToGlyphSegmentation(i, G).entries
         = {[activation(d.condition) EXCEPT !.gids = d.gids] : d \in nonempty}
  BY DEF ToGlyphSegmentation, ConditionsToSegmentation
<1> HIDE DEF cs, D, activation, nonempty
<1>10. ToGlyphSegmentation(i, G).entries = {entry[c] : c \in D}
  <2>1. \A d \in nonempty : [activation(d.condition) EXCEPT !.gids = d.gids]
                               = entry[d.condition]
    BY <1>7
  <2>2. {[activation(d.condition) EXCEPT !.gids = d.gids] : d \in nonempty}
           \subseteq {entry[c] : c \in D}
    BY <1>7, <2>1
  <2>3. {entry[c] : c \in D}
           \subseteq {[activation(d.condition) EXCEPT !.gids = d.gids] : d \in nonempty}
    <3> SUFFICES ASSUME NEW c \in D
                 PROVE  \E d \in nonempty :
                           entry[c] = [activation(d.condition) EXCEPT !.gids = d.gids]
      OBVIOUS
    <3>1. PICK d \in nonempty : d.condition = c
      BY <1>8
    <3> QED BY <2>1, <3>1
  <2> HIDE DEF entry
  <2> QED BY <1>9, <2>2, <2>3
<1>11. \A c \in D : /\ entry[c].gids = PlacedBy(i, G, c)
                    /\ entry[c].condition.groups \subseteq c.groups
  <2> SUFFICES ASSUME NEW c \in D
               PROVE  /\ entry[c].gids = PlacedBy(i, G, c)
                      /\ entry[c].condition.groups \subseteq c.groups
    OBVIOUS
  <2>0. c \in GlyphCondition
    BY DEF D
  <2>1. CASE IsExclusive(c)
    <3>1. PICK s \in UNION c.groups : c.groups = {{s}}
      BY <2>0, <2>1 DEF GlyphCondition, IsUnitary
    <3>2. TriggeringSegments(c) = {s} /\ s \in Segment
      BY <2>0, <3>1 DEF TriggeringSegments, GlyphCondition, Condition, Group
    <3>3. Least({s}) = s
      BY <3>2, LeastIsElement
    <3>4. entry[c] = [condition |-> ExclusiveSegment(s), fallback |-> FALSE,
                      gids |-> PlacedBy(i, G, c)]
      BY <2>1, <3>2, <3>3 DEF activation, Entry
    <3> QED BY <3>1, <3>4 DEF ExclusiveSegment
  <2>2. CASE ~IsExclusive(c)
    <3>1. entry[c] = [condition |-> CompositeCondition(c.groups),
                      fallback |-> is_fallback(c), gids |-> PlacedBy(i, G, c)]
      BY <2>2 DEF activation, Entry
    <3> QED BY <3>1 DEF CompositeCondition, Simplify
  <2> QED BY <2>1, <2>2
<1>12. DOMAIN entry = D
  OBVIOUS
<1> HIDE DEF entry
<1>13. IsPlacement(entry, i, G)
  BY <1>10, <1>11, <1>12 DEF IsPlacement, D
<1> QED BY <1>13

-----------------------------------------------------------------------------
(***************************************************************************)
(* The checks are enough: where a patch is not loaded its condition has a  *)
(* group without a loaded segment, and the others bring no glyph of it.    *)
(***************************************************************************)
LEMMA ValidIsEnough ==
  ASSUME NEW i, InfoOK(i), NEW G \in Groupings,
         ValidateSegmentation(i, ToGlyphSegmentation(i, G)),
         NEW ss \in SUBSET NonEmptySegments(i)
  PROVE  Closure(i.font, CombinedDefinition(i, ss))
            \subseteq LoadedGlyphs(ToGlyphSegmentation(i, G), ss)
<1> DEFINE sg == ToGlyphSegmentation(i, G)
           needed == Closure(i.font, CombinedDefinition(i, ss))
<1>1. i \in Info /\ ss \in SUBSET Segment
  BY DEF InfoOK, NonEmptySegments
<1>2. sg.init = i.init.gids
  BY DEF ToGlyphSegmentation
<1>3. needed \subseteq i.full_closure
  BY <1>1, ClosureOfSegments
<1> HIDE DEF sg, needed
<1> SUFFICES ASSUME NEW g \in needed, g \notin sg.init
             PROVE  \E e \in sg.entries : Holds(e.condition, ss) /\ g \in e.gids
  BY DEF LoadedGlyphs, sg, needed
<1>4. UNION {e.gids : e \in sg.entries} = i.full_closure \ sg.init
  BY DEF ValidateSegmentation, sg
<1>5. PICK e \in sg.entries : g \in e.gids
  BY <1>3, <1>4
<1>6. SUFFICES ASSUME NEW h \in e.condition.groups, h \cap ss = {} PROVE FALSE
  BY <1>5 DEF Holds, HoldsFor
<1>7. g \notin Closure(i.font, ExceptSegments(i, h))
  BY <1>5 DEF ValidateSegmentation, HasAdditionalConditions, sg
<1>8. ExceptSegments(i, h) = CombinedDefinition(i, Segment \ h)
  <2>1. PICK entry : IsPlacement(entry, i, G)
    BY <1>1, EntriesOfConditions
  <2>2. PICK c \in DOMAIN entry : e = entry[c]
    BY <2>1 DEF IsPlacement, sg
  <2>3. c \in GlyphCondition /\ e.condition.groups \subseteq c.groups
    BY <2>1, <2>2 DEF IsPlacement
  <2>4. h \in SUBSET Segment
    BY <2>3 DEF GlyphCondition, Condition, Group
  <2> QED BY <2>4, ExceptIsOthers
<1>9. g \in Closure(i.font, CombinedDefinition(i, Segment \ h))
  <2>1. ss \cap NonEmptySegments(i) \subseteq Segment \ h /\ Segment \ h \in SUBSET Segment
    BY <1>1, <1>6
  <2> QED BY <1>1, <2>1, BringsMonotone DEF needed
<1> QED BY <1>7, <1>8, <1>9

(***************************************************************************)
(* Whatever was moved, merged or combined: when the segmentation passes    *)
(* the checks which the code makes of it at the end (ValidateSegmentation  *)
(* in segmentation_context.cc), it meets the glyph closure requirement.    *)
(***************************************************************************)
THEOREM ChecksAreEnough == Spec => [](SegmentationIsValid => ClosureRequirement)
<1>1. IInv => (SegmentationIsValid => ClosureRequirement)
  <2> SUFFICES ASSUME IInv, SegmentationIsValid,
                      NEW ss \in SUBSET NonEmptySegments(info)
               PROVE  Closure(info.font, CombinedDefinition(info, ss))
                         \subseteq LoadedGlyphs(segmentation, ss)
    BY DEF ClosureRequirement
  <2>1. InfoOK(info) /\ groupings \in Groupings
    BY DEF IInv, ContextOK, InGroups, info, groupings
  <2>2. ValidateSegmentation(info, ToGlyphSegmentation(info, groupings))
    BY DEF SegmentationIsValid, segmentation
  <2>3. segmentation = ToGlyphSegmentation(info, groupings)
    BY DEF segmentation
  <2> QED BY <2>1, <2>2, <2>3, ValidIsEnough
<1> QED BY <1>1, SegmentationStaysInOrder, PTL

-----------------------------------------------------------------------------
(***************************************************************************)
(* The groups where no patches are combined.                               *)
(***************************************************************************)
Plain(G) == /\ G.post = G.pre
            /\ G.combined_patches = {}
            /\ G.combined_conditions = {}
            /\ ~G.dirty

LEMMA PlainForgotten ==
  ASSUME NEW G \in Groupings, Plain(G), NEW gs
  PROVE  Plain(Invalidate(G, gs)) /\ Invalidate(G, gs).ok = G.ok
<1> DEFINE gone(ss) == {g \in gs : /\ G.pre[g] # NoCondition
                                   /\ TriggeringSegments(G.pre[g]) = ss}
           exclusive == [s \in Segment |->
              G.exclusive_groups[s] \ {g \in gone({s}) : IsExclusive(G.pre[g])}]
           ors == [ss \in SUBSET Segment |->
              G.or_groups[ss] \ {g \in gone(ss) : /\ ~IsExclusive(G.pre[g])
                                                  /\ IsPurelyDisjunctive(G.pre[g])}]
           post == Unset(G.post, gs)
           pre == Unset(G.pre, gs)
           H == [G EXCEPT !.unmapped = @ \ gs, !.found = @ \ gs, !.post = post,
                          !.pre = pre, !.exclusive_groups = exclusive,
                          !.or_groups = ors]
<1>1. Invalidate(G, gs) = Forget(G, gs)
  BY DEF Plain, Invalidate
<1>2. Forget(G, gs) = H
  BY DEF Forget
<1>3. post = pre
  BY DEF Plain
<1> HIDE DEF post, pre, exclusive, ors
<1>4. /\ H.post = post /\ H.pre = pre /\ H.combined_patches = G.combined_patches
      /\ H.combined_conditions = G.combined_conditions /\ H.dirty = G.dirty
      /\ H.ok = G.ok
  BY DEF Groupings
<1> HIDE DEF H
<1> QED BY <1>1, <1>2, <1>3, <1>4 DEF Plain

LEMMA PlainNotRecomputed ==
  ASSUME NEW G, Plain(G), NEW gs
  PROVE  RecomputeIfNeeded(G, gs) = G
BY DEF Plain, RecomputeIfNeeded

LEMMA PlainAssigned ==
  ASSUME NEW G \in Groupings, Plain(G), NEW c, NEW gs
  PROVE  /\ Plain(AddConditionAndGlyphs(G, c, gs))
         /\ Plain(UnionConditionAndGlyphs(G, c, gs))
         /\ G.ok /\ CanAdd(G.pre, c, gs) => AddConditionAndGlyphs(G, c, gs).ok
         /\ G.ok /\ CanUnion(G.pre, c, gs) => UnionConditionAndGlyphs(G, c, gs).ok
<1> DEFINE post == Assign(G.post, c, gs)
           pre == Assign(G.pre, c, gs)
           ok1 == G.ok /\ CanAdd(G.post, c, gs) /\ CanAdd(G.pre, c, gs)
           ok2 == G.ok /\ CanUnion(G.post, c, gs) /\ CanUnion(G.pre, c, gs)
           H(ok) == [G EXCEPT !.post = post, !.pre = pre, !.ok = ok]
<1>1. AddConditionAndGlyphs(G, c, gs) = H(ok1) /\ UnionConditionAndGlyphs(G, c, gs) = H(ok2)
  BY DEF AddConditionAndGlyphs, UnionConditionAndGlyphs
<1>2. post = pre
  BY DEF Plain
<1>3. /\ G.ok /\ CanAdd(G.pre, c, gs) => ok1
      /\ G.ok /\ CanUnion(G.pre, c, gs) => ok2
  BY DEF Plain
<1> HIDE DEF post, pre, ok1, ok2
<1>4. \A ok : /\ H(ok).post = post /\ H(ok).pre = pre
              /\ H(ok).combined_patches = G.combined_patches
              /\ H(ok).combined_conditions = G.combined_conditions
              /\ H(ok).dirty = G.dirty /\ H(ok).ok = ok
  BY DEF Groupings
<1> HIDE DEF H
<1> QED BY <1>1, <1>2, <1>3, <1>4 DEF Plain

LEMMA PlainSorted ==
  ASSUME NEW G \in Groupings, Plain(G), NEW unmapped, NEW gs, NEW cs
  PROVE  /\ Plain(Sorted([G EXCEPT !.unmapped = unmapped], gs, cs))
         /\ Sorted([G EXCEPT !.unmapped = unmapped], gs, cs).ok = G.ok
<1> DEFINE U == [G EXCEPT !.unmapped = unmapped]
           ex == [s \in Segment |->
                     U.exclusive_groups[s] \cup {g \in gs : cs[g] = ExclusiveSegment(s)}]
           ors == [ss \in SUBSET Segment |->
                     U.or_groups[ss] \cup {g \in gs : cs[g] = OrSegments(ss)}]
           S == [G EXCEPT !.unmapped = unmapped, !.exclusive_groups = ex, !.or_groups = ors]
<1>1. Sorted(U, gs, cs) = S
  BY DEF Sorted, Groupings
<1> HIDE DEF ex, ors
<1>2. /\ S.post = G.post /\ S.pre = G.pre /\ S.combined_patches = G.combined_patches
      /\ S.combined_conditions = G.combined_conditions /\ S.dirty = G.dirty
      /\ S.ok = G.ok
  BY DEF Groupings
<1> HIDE DEF S, U
<1> QED BY <1>1, <1>2 DEF Plain, U

(***************************************************************************)
(* The exclusive and conjunctive conditions take their glyphs: each of     *)
(* them gets the condition that f has for it, and no error occurs.         *)
(***************************************************************************)
LEMMA AllAddedPlainly ==
  ASSUME NEW G \in Groupings, Plain(G),
         NEW rest \in SUBSET GlyphCondition, IsFiniteSet(rest), NEW f,
         NEW new, DOMAIN new = rest, \A c \in rest : new[c] = {g \in Glyph : f[g] = c},
         \A g \in Glyph : G.pre[g] \in {NoCondition, f[g]}
  PROVE  LET A == AddAll(G, new)
         IN  /\ Plain(A)
             /\ G.ok => A.ok
             /\ \A g \in Glyph : A.pre[g] = IF f[g] \in rest THEN f[g] ELSE G.pre[g]
<1> DEFINE Added(H, T) ==
              /\ H \in Groupings /\ Plain(H) /\ (G.ok => H.ok)
              /\ \A g \in Glyph : H.pre[g] = IF f[g] \in T THEN f[g] ELSE G.pre[g]
           good == [T \in SUBSET rest |-> {H \in Groupings : Added(H, T)}]
<1>1. PICK h : AddAll(G, new) = h[rest] /\ AddsInTurn(h, G, new, rest)
  BY AddedInTurn
<1>2. ASSUME NEW T \in SUBSET rest, NEW c \in T, NEW H, Added(H, T \ {c})
      PROVE  Added(AddConditionAndGlyphs(H, c, new[c]), T)
  <2> DEFINE X == AddConditionAndGlyphs(H, c, new[c])
  <2>1. c \in GlyphCondition /\ c # NoCondition
    BY NoConditionAssumption DEF GlyphCondition
  <2>2. new[c] = {g \in Glyph : f[g] = c}
    OBVIOUS
  <2>3. \A g \in Glyph : H.pre[g] = IF f[g] \in T \ {c} THEN f[g] ELSE G.pre[g]
    BY <1>2
  <2>4. CanAdd(H.pre, c, new[c])
    <3>1. \A g \in new[c] : H.pre[g] \in {NoCondition, c}
      BY <2>2, <2>3
    <3>2. GlyphsOf(H.pre, c) \subseteq new[c]
      BY <2>1, <2>2, <2>3 DEF GlyphsOf
    <3> QED BY <3>1, <3>2 DEF CanAdd, CanUnion
  <2>5. Plain(X) /\ (H.ok => X.ok)
    BY <1>2, <2>4, PlainAssigned
  <2>6. IsAssigned(X, H, c, new[c])
    BY <1>2, <2>1, Assigned
  <2> HIDE DEF X
  <2>7. \A g \in Glyph : X.pre[g] = IF f[g] = c THEN c ELSE H.pre[g]
    BY <2>2, <2>6 DEF IsAssigned, Assign
  <2>8. \A g \in Glyph : X.pre[g] = IF f[g] \in T THEN f[g] ELSE G.pre[g]
    BY <2>3, <2>7
  <2>9. Added(X, T)
    BY <1>2, <2>5, <2>6, <2>8 DEF IsAssigned
  <2> QED BY <2>9 DEF X
<1>3. Added(G, {})
  OBVIOUS
<1>4. h[{}] \in good[{}]
  <2>1. h[{}] = G
    BY <1>1 DEF AddsInTurn
  <2> HIDE DEF Added
  <2> QED BY <1>3, <2>1
<1> HIDE DEF Added
<1>5. ASSUME NEW T \in (SUBSET rest) \ {{}}
      PROVE  \E x \in T : h[T \ {x}] \in good[T \ {x}] => h[T] \in good[T]
  <2>1. PICK x \in T : h[T] = AddConditionAndGlyphs(h[T \ {x}], x, new[x])
    BY <1>1 DEF AddsInTurn
  <2>2. ASSUME h[T \ {x}] \in good[T \ {x}] PROVE h[T] \in good[T]
    <3>1. Added(h[T \ {x}], T \ {x})
      BY <2>2
    <3>2. Added(h[T], T)
      BY <1>2, <2>1, <3>1
    <3> QED BY <3>2 DEF Added
  <2> HIDE DEF good
  <2> QED BY <2>2
<1>6. Added(h[rest], rest)
  <2>1. \A T \in SUBSET rest : h[T] \in good[T]
    <3> HIDE DEF good
    <3> QED BY <1>4, <1>5, RecursionKeeps
  <2> QED BY <2>1
<1> DEFINE A == AddAll(G, new)
<1>7. Added(A, rest)
  BY <1>1, <1>6
<1> HIDE DEF A
<1>8. /\ Plain(A) /\ (G.ok => A.ok)
      /\ \A g \in Glyph : A.pre[g] = IF f[g] \in rest THEN f[g] ELSE G.pre[g]
  BY <1>7 DEF Added
<1> QED BY <1>8 DEF A

-----------------------------------------------------------------------------
(***************************************************************************)
(* A condition is enough for a glyph when it asks for something, and       *)
(* without the segments of one of its groups nothing brings the glyph.  Of *)
(* the conditions of the analysis those which are not disjunctive are.     *)
(***************************************************************************)
Enough(i, c, g) == /\ ~IsAlwaysTrue(c)
                   /\ \A h \in c.groups : BroughtByNoOther(i, g, h)

LEMMA NeededIsEnough ==
  ASSUME NEW i, NEW g, Needing(i, g, Segment) # {}
  PROVE  Enough(i, ConditionOn(i, g, Segment), g)
<1>0. ConditionOn(i, g, Segment).groups # {}
  <2>1. \A A : A # {} => Each(A) # {}
    BY DEF Each
  <2> QED BY <2>1, NeededGroups
<1> SUFFICES ASSUME NEW h \in ConditionOn(i, g, Segment).groups
             PROVE  BroughtByNoOther(i, g, h)
  BY <1>0 DEF Enough, IsAlwaysTrue
<1>1. PICK s \in Needing(i, g, Segment) : h = {s}
  BY NeededGroups DEF Each
<1> QED BY <1>1 DEF Needing, Needs, BroughtByNoOther

LEMMA NeededOrGiven ==
  ASSUME NEW i, InfoOK(i), NEW g, ~IsAlwaysTrue(ConditionOn(i, g, Segment))
  PROVE  /\ g \in NonInitFontGlyphs(i)
         /\ \/ Needing(i, g, Segment) # {}
            \/ \E ss \in SUBSET Segment : /\ ss # {} /\ ss = Giving(i, g, Segment)
                                          /\ ConditionOn(i, g, Segment) = OrSegments(ss)
<1>1. g \in NonInitFontGlyphs(i)
  BY ConditionOfOthers DEF IsAlwaysTrue, True
<1>2. ASSUME Needing(i, g, Segment) = {}
      PROVE  \E ss \in SUBSET Segment : /\ ss # {} /\ ss = Giving(i, g, Segment)
                                        /\ ConditionOn(i, g, Segment) = OrSegments(ss)
  <2>1. Giving(i, g, Segment) # {}
    BY <1>2, NoGroups DEF IsAlwaysTrue
  <2>2. Giving(i, g, Segment) \in SUBSET Segment
    BY DEF Giving
  <2> QED BY <1>2, <2>1, <2>2, GivenGroups
<1> QED BY <1>1, <1>2

(***************************************************************************)
(* A glyph whose condition is the disjunction of ss is given by each of    *)
(* these segments.  When no other brings it the disjunction is enough.     *)
(***************************************************************************)
LEMMA GivenIsEnough ==
  ASSUME NEW i, InfoOK(i), NEW g, NEW ss \in SUBSET Segment,
         ConditionOn(i, g, Segment) = OrSegments(ss),
         g \notin AnalyzeSegment(i, Segment \ ss).or
  PROVE  g \in NonInitFontGlyphs(i) /\ Enough(i, OrSegments(ss), g)
<1>1. OrSegments(ss).groups = {ss} /\ ~IsAlwaysTrue(OrSegments(ss))
  BY OrConditions
<1>2. g \in NonInitFontGlyphs(i)
  BY <1>1, NeededOrGiven
<1>3. CASE Needing(i, g, Segment) # {}
  BY <1>2, <1>3, NeededIsEnough
<1>4. CASE Needing(i, g, Segment) = {}
  <2>1. PICK tt \in SUBSET Segment : /\ tt # {} /\ tt = Giving(i, g, Segment)
                                     /\ ConditionOn(i, g, Segment) = OrSegments(tt)
    BY <1>1, <1>4, NeededOrGiven
  <2>2. tt = ss
    <3>1. OrSegments(tt) = OrSegments(ss)
      BY <2>1
    <3> QED BY <3>1, OrConditions
  <2>3. PICK s \in ss : Gives(i, g, s) /\ s \in Segment
    BY <2>1, <2>2 DEF Giving
  <2>4. i \in Info
    BY DEF InfoOK
  <2>5. g \in Closure(i.font, CombinedDefinition(i, ss))
    <3>1. Closure(i.font, CombinedDefinition(i, {s}))
             \subseteq Closure(i.font, CombinedDefinition(i, ss))
      BY <2>3, <2>4, BringsMonotone
    <3> QED BY <2>3, <3>1 DEF Gives
  <2> DEFINE others == Segment \ ss
  <2>6. BroughtByNoOther(i, g, ss)
    <3>1. CASE others = {}
      <4>1. ~BroughtBy(i, g, {})
        BY <1>2, NothingBringsNothing DEF NonInitFontGlyphs
      <4> QED BY <3>1, <4>1 DEF BroughtBy, BroughtByNoOther
    <3>2. CASE others # {}
      <4>1. others \in SUBSET Segment /\ Segment \ others = ss
        OBVIOUS
      <4>2. g \notin AnalyzeSegment(i, others).or
        OBVIOUS
      <4> DEFINE a == AnalyzeSegment(i, others)
                 without == Closure(i.font, CombinedDefinition(i, Segment \ others))
                 alone == Closure(i.font, CombinedDefinition(i, others))
      <4> HIDE DEF others
      <4>3. a.or = (alone \ i.init.gids) \ (i.full_closure \ without)
        BY <3>2, <4>1, AnalysisOfMany
      <4>4. g \in without
        BY <2>5, <4>1
      <4>5. g \notin alone
        BY <1>2, <4>2, <4>3, <4>4 DEF NonInitFontGlyphs
      <4> QED BY <4>5 DEF BroughtByNoOther, others
    <3> QED BY <3>1, <3>2
  <2> QED BY <1>1, <1>2, <2>6 DEF Enough
<1> QED BY <1>3, <1>4

\* and a glyph for which the disjunction is enough is not brought by others
LEMMA EnoughIsKept ==
  ASSUME NEW i, InfoOK(i), NEW g, NEW ss \in SUBSET Segment,
         Enough(i, OrSegments(ss), g)
  PROVE  g \notin AnalyzeSegment(i, Segment \ ss).or
<1> DEFINE others == Segment \ ss
<1>1. OrSegments(ss).groups = {ss}
  BY OrConditions
<1>2. g \notin Closure(i.font, CombinedDefinition(i, others))
  BY <1>1 DEF Enough, BroughtByNoOther
<1>3. CASE others = {}
  BY <1>3 DEF AnalyzeSegment
<1>4. CASE others # {}
  <2>1. AnalyzeSegment(i, others).or
           \subseteq Closure(i.font, CombinedDefinition(i, others)) \ i.init.gids
    BY <1>4 DEF AnalyzeSegment
  <2> QED BY <1>2, <2>1
<1> QED BY <1>3, <1>4

(***************************************************************************)
(* A glyph is left over when no segment is needed for it and the segments  *)
(* that give it are not enough.  A disjunction that is used for a glyph    *)
(* which needs no segment brings it.                                       *)
(***************************************************************************)
IsLeftOver(i, g) == /\ Needing(i, g, Segment) = {}
                    /\ ~BroughtByNoOther(i, g, Giving(i, g, Segment))

IsDisjunctionFor(i, c, g) ==
    /\ Needing(i, g, Segment) = {}
    /\ \E h \in SUBSET Segment : c.groups = {h} /\ BroughtBy(i, g, h)

LEMMA AlwaysLeftOver ==
  ASSUME NEW i, InfoOK(i), NEW g \in NonInitFontGlyphs(i),
         IsAlwaysTrue(ConditionOn(i, g, Segment))
  PROVE  IsLeftOver(i, g)
<1>1. Needing(i, g, Segment) = {}
  <2> SUFFICES ASSUME Needing(i, g, Segment) # {} PROVE FALSE
    OBVIOUS
  <2>1. Each(Needing(i, g, Segment)) = {}
    BY NeededGroups DEF IsAlwaysTrue
  <2> QED BY <2>1 DEF Each
<1>2. Giving(i, g, Segment) = {}
  BY <1>1, GivenGroups DEF IsAlwaysTrue
<1>3. i.full_closure = Closure(i.font, CombinedDefinition(i, Segment)) /\ g \in i.full_closure
  BY DEF InfoOK, NonInitFontGlyphs
<1>4. Segment \ {} = Segment
  OBVIOUS
<1> QED BY <1>1, <1>2, <1>3, <1>4 DEF IsLeftOver, BroughtByNoOther

\* an analysed disjunction is that of the segments which give the glyph
LEMMA DisjunctionGives ==
  ASSUME NEW i, InfoOK(i), NEW g, NEW ss \in SUBSET Segment,
         ConditionOn(i, g, Segment) = OrSegments(ss)
  PROVE  /\ Needing(i, g, Segment) = {}
         /\ ss = Giving(i, g, Segment) /\ ss # {}
         /\ IsDisjunctionFor(i, OrSegments(ss), g)
<1>1. OrSegments(ss).groups = {ss} /\ OrSegments(ss).exclusive = FALSE
      /\ ~IsAlwaysTrue(OrSegments(ss))
  BY OrConditions DEF OrSegments
<1> DEFINE A == Needing(i, g, Segment)
<1>2. A = {}
  <2> SUFFICES ASSUME A # {} PROVE FALSE
    OBVIOUS
  <2>1. Each(A) = {ss} /\ ~(\E s \in Segment : A = {s})
    <3> DEFINE x == \E s \in Segment : A = {s}
    <3>1. ConditionOn(i, g, Segment) = [groups |-> Each(A), exclusive |-> x]
      BY DEF ConditionOn
    <3>2. x \in BOOLEAN
      OBVIOUS
    <3> HIDE DEF A, x
    <3>3. Each(A) = {ss} /\ x = FALSE
      BY <1>1, <3>1
    <3> QED BY <3>3 DEF x
  <2>2. PICK s \in A : TRUE
    OBVIOUS
  <2>3. \A t \in A : {t} = ss
    BY <2>1 DEF Each
  <2>4. A = {s} /\ s \in Segment
    BY <2>2, <2>3 DEF Needing
  <2> QED BY <2>1, <2>4
<1>3. PICK tt \in SUBSET Segment : /\ tt # {} /\ tt = Giving(i, g, Segment)
                                   /\ ConditionOn(i, g, Segment) = OrSegments(tt)
  BY <1>1, <1>2, NeededOrGiven
<1>4. tt = ss
  BY <1>3, OrConditions
<1>5. PICK s \in ss : Gives(i, g, s) /\ s \in Segment
  BY <1>3, <1>4 DEF Giving
<1>6. i \in Info
  BY DEF InfoOK
<1>7. Closure(i.font, CombinedDefinition(i, {s})) \subseteq Closure(i.font, CombinedDefinition(i, ss))
  BY <1>5, <1>6, BringsMonotone
<1>8. BroughtBy(i, g, ss)
  BY <1>5, <1>7 DEF Gives, BroughtBy
<1> QED BY <1>1, <1>2, <1>3, <1>4, <1>8 DEF IsDisjunctionFor

LEMMA OthersLeftOver ==
  ASSUME NEW i, InfoOK(i), NEW g, NEW ss \in SUBSET Segment,
         ConditionOn(i, g, Segment) = OrSegments(ss),
         g \in AnalyzeSegment(i, Segment \ ss).or
  PROVE  IsLeftOver(i, g)
<1> DEFINE others == Segment \ ss
<1>1. others # {}
  <2> SUFFICES ASSUME others = {} PROVE FALSE
    OBVIOUS
  <2> QED BY DEF AnalyzeSegment
<1>2. AnalyzeSegment(i, others).or
         \subseteq Closure(i.font, CombinedDefinition(i, others)) \ i.init.gids
  BY <1>1 DEF AnalyzeSegment
<1>3. ~BroughtByNoOther(i, g, ss)
  BY <1>2 DEF BroughtByNoOther
<1> QED BY <1>3, DisjunctionGives DEF IsLeftOver

(***************************************************************************)
(* The segments that are found for a glyph bring it.                       *)
(***************************************************************************)
LEMMA FoundBrings ==
  ASSUME NEW i, InfoOK(i), NEW g \in NonInitFontGlyphs(i), IsLeftOver(i, g),
         NEW conditions, conditions[g] = ConditionOn(i, g, Segment), NEW gs
  PROVE  BroughtBy(i, g, FoundSegments(i, conditions, Segment, gs, g))
<1> DEFINE existing == ExistingSegments(conditions[g])
           found == FoundSegments(i, conditions, Segment, gs, g)
           A == Giving(i, g, Segment)
<1>1. g \notin i.init.gids /\ Needing(i, g, Segment) = {} /\ i \in Info
  BY DEF NonInitFontGlyphs, IsLeftOver, InfoOK
<1>2. A \in SUBSET Segment
  BY DEF Giving
<1>3. existing = A
  <2>1. CASE A # {}
    <3>1. conditions[g] = OrSegments(A)
      BY <1>1, <2>1, GivenGroups
    <3> HIDE DEF A
    <3> QED BY <1>2, <3>1, OrConditions DEF ExistingSegments
  <2>2. CASE A = {}
    <3>1. conditions[g].groups = {}
      BY <1>1, <2>2, NoGroups
    <3> QED BY <2>2, <3>1 DEF ExistingSegments, IsPurelyDisjunctive
  <2> QED BY <2>1, <2>2
<1>4. \E full \in {{}, existing} : found = existing \cup Completed(i, Segment, g, full)
  BY DEF FoundSegments
<1> HIDE DEF existing, found
<1>5. PICK full \in SUBSET Segment : /\ found = A \cup Completed(i, Segment, g, full)
                                     /\ A = {} => full = {}
  BY <1>2, <1>3, <1>4
<1>6. /\ Completed(i, Segment, g, full) \in SUBSET Segment
      /\ BroughtWithout(i, g, full) => BroughtBy(i, g, Completed(i, Segment, g, full))
  BY <1>1, CompletedIsEnough
<1>7. \E ss \in SUBSET Segment : ss \subseteq found /\ BroughtBy(i, g, ss)
  <2>1. CASE A # {}
    <3>1. PICK s \in A : Gives(i, g, s) /\ {s} \in SUBSET Segment
      BY <2>1 DEF Giving
    <3>2. {s} \subseteq found /\ BroughtBy(i, g, {s})
      BY <1>5, <3>1 DEF Gives, BroughtBy
    <3> QED BY <3>1, <3>2
  <2>2. CASE A = {}
    <3>1. g \in Closure(i.font, CombinedDefinition(i, Segment))
      BY DEF InfoOK, NonInitFontGlyphs
    <3>2. Closure(i.font, CombinedDefinition(i, Segment))
             \subseteq Closure(i.font, CombinedDefinition(i, NonEmptySegments(i)))
      <4>1. /\ Segment \in SUBSET Segment /\ NonEmptySegments(i) \in SUBSET Segment
            /\ Segment \cap NonEmptySegments(i) \subseteq NonEmptySegments(i)
        BY DEF NonEmptySegments
      <4> QED BY <1>1, <4>1, BringsMonotone
    <3>3. NonEmptySegments(i) \ {} = NonEmptySegments(i)
      OBVIOUS
    <3>4. BroughtWithout(i, g, full)
      BY <1>5, <2>2, <3>1, <3>2, <3>3 DEF BroughtWithout, BroughtBy
    <3> QED BY <1>5, <1>6, <3>4
  <2> QED BY <2>1, <2>2
<1>8. PICK ss \in SUBSET Segment : ss \subseteq found /\ BroughtBy(i, g, ss)
  BY <1>7
<1>9. found \in SUBSET Segment
  BY <1>2, <1>5, <1>6
<1>10. Closure(i.font, CombinedDefinition(i, ss)) \subseteq Closure(i.font, CombinedDefinition(i, found))
  BY <1>1, <1>8, <1>9, BringsMonotone
<1> QED BY <1>8, <1>10 DEF BroughtBy, found

-----------------------------------------------------------------------------
(***************************************************************************)
(* Where nothing is combined every glyph outside of the initial font is    *)
(* unmapped, or has a condition that is enough for it, but for those that  *)
(* are still pending in the middle of GroupGlyphs.  No error has occurred, *)
(* except that conditions cannot be searched for overlapping segments.     *)
(* What is unmapped is left over, and a condition that was found is a      *)
(* disjunction which brings the glyph.                                     *)
(***************************************************************************)
Searchable(i) == i.handling = "FIND_CONDITIONS" => i.disjoint

OrGroupsComplete(G) ==
    \A ss \in SUBSET Segment : GlyphsOf(G.pre, OrSegments(ss)) \subseteq G.or_groups[ss]

RestIsLeftOver(i, G) ==
    /\ \A g \in G.unmapped : IsLeftOver(i, g)
    /\ \A g \in G.found \cap Mapped(G.pre) : IsDisjunctionFor(i, G.pre[g], g)
    /\ G.found # {} => i.handling = "FIND_CONDITIONS" /\ i.disjoint

IsFilled(i, G, pending) ==
    /\ Plain(G)
    /\ Searchable(i) => G.ok
    /\ NonInitFontGlyphs(i) \subseteq Mapped(G.pre) \cup G.unmapped \cup pending
    /\ \A g \in Mapped(G.pre) : /\ g \in NonInitFontGlyphs(i) \ G.unmapped
                                /\ Enough(i, G.pre[g], g)
    /\ OrGroupsComplete(G)
    /\ RestIsLeftOver(i, G)

PendingOrs(G, left) == UNION {G.or_groups[ss] : ss \in left}

LEMMA PlainUnset ==
  ASSUME NEW G \in Groupings, Plain(G), NEW c
  PROVE  LET U == [G EXCEPT !.post = Unset(@, GlyphsOf(@, c)),
                            !.pre = Unset(@, GlyphsOf(@, c))]
         IN  Plain(U) /\ U.ok = G.ok
<1> DEFINE post == Unset(G.post, GlyphsOf(G.post, c))
           pre == Unset(G.pre, GlyphsOf(G.pre, c))
           U == [G EXCEPT !.post = post, !.pre = pre]
<1>1. post = pre
  BY DEF Plain
<1> HIDE DEF post, pre
<1>2. /\ U.post = post /\ U.pre = pre /\ U.combined_patches = G.combined_patches
      /\ U.combined_conditions = G.combined_conditions /\ U.dirty = G.dirty
      /\ U.ok = G.ok
  BY DEF Groupings
<1> HIDE DEF U
<1>3. Plain(U) /\ U.ok = G.ok
  BY <1>1, <1>2 DEF Plain
<1> QED BY <1>3 DEF U, post, pre

LEMMA OrGroupFilled ==
  ASSUME NEW i, InfoOK(i), NEW left, NEW G, InGroups(i, ConditionOf(i), G, left),
         NEW ss \in SUBSET Segment, left \in SUBSET SUBSET Segment,
         IsFilled(i, G, PendingOrs(G, left))
  PROVE  LET X == AddOrGroup(G, i, ss)
         IN  IsFilled(i, X, PendingOrs(X, left \ {ss}))
<1> DEFINE others == AnalyzeSegment(i, Segment \ ss).or
           kept == G.or_groups[ss] \ others
           c == OrSegments(ss)
           unmapped == G.unmapped \cup (G.or_groups[ss] \cap others)
           ors == [G.or_groups EXCEPT ![ss] = kept]
           H == [G EXCEPT !.unmapped = unmapped, !.or_groups[ss] = kept]
           U == [H EXCEPT !.post = Unset(@, GlyphsOf(@, c)),
                          !.pre = Unset(@, GlyphsOf(@, c))]
           A == AddConditionAndGlyphs(H, c, kept)
           X == AddOrGroup(G, i, ss)
<1>1. X = IF kept = {} THEN U ELSE A
  BY DEF AddOrGroup
<1>2. /\ G \in Groupings /\ Plain(G) /\ (Searchable(i) => G.ok)
      /\ \A g \in Mapped(G.pre) : /\ g \in NonInitFontGlyphs(i) \ G.unmapped
                                  /\ Enough(i, G.pre[g], g)
      /\ NonInitFontGlyphs(i) \subseteq Mapped(G.pre) \cup G.unmapped \cup PendingOrs(G, left)
      /\ OrGroupsComplete(G) /\ RestIsLeftOver(i, G)
  BY DEF InGroups, IsFilled
<1>3. /\ c \in GlyphCondition /\ c # NoCondition
      /\ \A tt : OrSegments(tt) = c => tt = ss
  BY OrConditions
<1>4. G.or_groups[ss] \in SUBSET Glyph
  BY <1>2 DEF Groupings
<1>5. \A g \in Glyph : G.pre[g] = c => Enough(i, c, g) /\ g \in NonInitFontGlyphs(i)
  BY <1>2, <1>3 DEF Mapped
<1>6. \A g \in Glyph : G.pre[g] = c => g \in kept
  <2> TAKE g \in Glyph
  <2> HAVE G.pre[g] = c
  <2>1. g \in G.or_groups[ss]
    BY <1>2 DEF OrGroupsComplete, GlyphsOf
  <2>2. g \notin others
    BY <1>5, EnoughIsKept
  <2> QED BY <2>1, <2>2
<1>7. ASSUME NEW g \in G.or_groups[ss]
      PROVE  \/ G.pre[g] = c
             \/ G.pre[g] = NoCondition /\ ConditionOn(i, g, Segment) = c
  <2>1. \/ G.pre[g] = c
        \/ G.pre[g] = NoCondition /\ ConditionOf(i)[g] = c
    BY DEF InGroups, OrGroupsFollow
  <2> QED BY <1>4, <2>1, ConditionOfGlyphs
<1>8. \A g \in kept : Enough(i, c, g) /\ g \in NonInitFontGlyphs(i)
  <2> TAKE g \in kept
  <2>1. g \in Glyph /\ g \notin others
    BY <1>4
  <2>2. CASE G.pre[g] = c
    BY <1>5, <2>1, <2>2
  <2>3. CASE ConditionOn(i, g, Segment) = c
    BY <2>1, <2>3, GivenIsEnough
  <2> QED BY <1>7, <2>2, <2>3
<1>81. ASSUME NEW g \in G.or_groups[ss] \cap others PROVE IsLeftOver(i, g)
  <2>1. g \in Glyph /\ g \notin kept
    BY <1>4
  <2>2. ConditionOn(i, g, Segment) = c
    BY <1>6, <1>7, <2>1
  <2> QED BY <2>2, OthersLeftOver
<1>82. ASSUME NEW g \in kept PROVE G.pre[g] = c \/ IsDisjunctionFor(i, c, g)
  <2>1. \/ G.pre[g] = c
        \/ ConditionOn(i, g, Segment) = c
    BY <1>7
  <2> QED BY <2>1, DisjunctionGives
<1> HIDE DEF others, c
<1>9. /\ kept \in SUBSET Glyph /\ unmapped \in SUBSET Glyph
      /\ ors \in [SUBSET Segment -> SUBSET Glyph]
      /\ ors[ss] = kept
      /\ \A tt \in SUBSET Segment : tt # ss => ors[tt] = G.or_groups[tt]
  BY <1>2, <1>4 DEF Groupings
<1>10. \A g \in G.or_groups[ss] : g \in kept \/ g \in unmapped
  OBVIOUS
<1>11. G.unmapped \subseteq unmapped
  OBVIOUS
<1>12. ASSUME NEW g \in unmapped PROVE g \notin kept /\ (g \in G.unmapped \/ G.pre[g] = NoCondition)
  <2>1. CASE g \in G.unmapped
    <3>1. g \notin G.or_groups[ss]
      BY <2>1 DEF InGroups, UnmappedApart
    <3> QED BY <2>1, <3>1
  <2>2. CASE g \in G.or_groups[ss] \cap others
    <3>1. g \notin kept /\ g \in Glyph
      BY <1>4, <2>2
    <3> QED BY <1>6, <1>7, <2>2, <3>1
  <2> QED BY <2>1, <2>2
<1> HIDE DEF kept, unmapped, ors
<1>13. /\ H \in Groupings /\ Plain(H) /\ H.or_groups = ors /\ H.unmapped = unmapped
       /\ H.pre = G.pre /\ H.ok = G.ok /\ H.found = G.found
  <2>1. H = [G EXCEPT !.unmapped = unmapped, !.or_groups = ors]
    BY DEF ors
  <2> HIDE DEF H
  <2> QED BY <1>2, <1>9, <2>1 DEF Groupings, Plain
<1> HIDE DEF H
<1>14. CanAdd(H.pre, c, kept)
  <2>1. \A g \in kept : G.pre[g] \in {NoCondition, c}
    BY <1>7 DEF kept
  <2>2. GlyphsOf(G.pre, c) \subseteq kept
    BY <1>6 DEF GlyphsOf
  <2> QED BY <1>13, <2>1, <2>2 DEF CanAdd, CanUnion
<1>15. /\ Plain(A) /\ (H.ok => A.ok)
       /\ A.or_groups = ors /\ A.unmapped = unmapped /\ A.pre = Assign(G.pre, c, kept)
       /\ A.found = G.found
  <2>1. IsAssigned(A, H, c, kept)
    BY <1>3, <1>13, Assigned
  <2> QED BY <1>13, <1>14, <2>1, PlainAssigned DEF IsAssigned
<1>16. /\ Plain(U) /\ U.ok = H.ok
       /\ U.or_groups = ors /\ U.unmapped = unmapped
       /\ U.pre = Unset(G.pre, GlyphsOf(G.pre, c)) /\ U.found = G.found
  <2>1. Plain(U) /\ U.ok = H.ok
    BY <1>13, PlainUnset
  <2>2. /\ U.or_groups = H.or_groups /\ U.unmapped = H.unmapped
        /\ U.pre = Unset(H.pre, GlyphsOf(H.pre, c)) /\ U.found = H.found
    BY <1>13 DEF Groupings
  <2> QED BY <1>13, <2>1, <2>2
<1> HIDE DEF A, U, X
<1>17. /\ Plain(X) /\ (Searchable(i) => X.ok) /\ X.or_groups = ors /\ X.unmapped = unmapped
       /\ X.found = G.found
  BY <1>1, <1>2, <1>13, <1>15, <1>16
<1>18. \A g \in Glyph : X.pre[g] = IF g \in kept THEN c ELSE G.pre[g]
  <2>1. CASE kept = {}
    <3>1. GlyphsOf(G.pre, c) = {}
      BY <1>6, <2>1 DEF GlyphsOf
    <3> QED BY <1>1, <1>16, <2>1, <3>1 DEF Unset
  <2>2. CASE kept # {}
    BY <1>1, <1>15, <2>2 DEF Assign
  <2> QED BY <2>1, <2>2
<1>19. NonInitFontGlyphs(i)
          \subseteq Mapped(X.pre) \cup X.unmapped \cup PendingOrs(X, left \ {ss})
  <2> SUFFICES ASSUME NEW g \in NonInitFontGlyphs(i), g \notin Mapped(X.pre), g \notin unmapped
               PROVE  g \in PendingOrs(X, left \ {ss})
    BY <1>17
  <2>1. g \in Glyph
    BY DEF InfoOK, Info, NonInitFontGlyphs
  <2>2. g \notin kept /\ G.pre[g] = NoCondition
    BY <1>3, <1>18, <2>1 DEF Mapped
  <2>3. g \in PendingOrs(G, left)
    BY <1>2, <1>11, <2>2 DEF Mapped
  <2>4. PICK tt \in left : g \in G.or_groups[tt]
    BY <2>3 DEF PendingOrs
  <2>5. tt # ss
    BY <1>10, <2>2, <2>4
  <2>6. g \in X.or_groups[tt]
    BY <1>9, <1>17, <2>4, <2>5
  <2> QED BY <2>4, <2>5, <2>6 DEF PendingOrs
<1>20. \A g \in Mapped(X.pre) : /\ g \in NonInitFontGlyphs(i) \ X.unmapped
                                /\ Enough(i, X.pre[g], g)
  <2> TAKE g \in Mapped(X.pre)
  <2>1. g \in Glyph /\ X.pre[g] # NoCondition
    BY DEF Mapped
  <2>2. CASE g \in kept
    BY <1>8, <1>12, <1>17, <1>18, <2>1, <2>2
  <2>3. CASE g \notin kept
    <3>1. X.pre[g] = G.pre[g] /\ g \in Mapped(G.pre)
      BY <1>18, <2>1, <2>3 DEF Mapped
    <3> QED BY <1>2, <1>12, <1>17, <2>1, <3>1
  <2> QED BY <2>2, <2>3
<1>21. OrGroupsComplete(X)
  <2> SUFFICES ASSUME NEW tt \in SUBSET Segment, NEW g \in Glyph, X.pre[g] = OrSegments(tt)
               PROVE  g \in ors[tt]
    BY <1>17 DEF OrGroupsComplete, GlyphsOf
  <2>1. CASE g \in kept
    <3>1. tt = ss
      BY <1>3, <1>18, <2>1
    <3> QED BY <1>9, <2>1, <3>1
  <2>2. CASE g \notin kept
    <3>1. G.pre[g] = OrSegments(tt)
      BY <1>18, <2>2
    <3>2. tt # ss
      BY <1>6, <2>2, <3>1 DEF c
    <3>3. g \in G.or_groups[tt]
      BY <1>2, <3>1 DEF OrGroupsComplete, GlyphsOf
    <3> QED BY <1>9, <3>2, <3>3
  <2> QED BY <2>1, <2>2
<1>22. RestIsLeftOver(i, X)
  <2>1. \A g \in unmapped : IsLeftOver(i, g)
    BY <1>2, <1>81 DEF unmapped, RestIsLeftOver
  <2>2. ASSUME NEW g \in G.found, g \in Mapped(X.pre)
        PROVE  IsDisjunctionFor(i, X.pre[g], g)
    <3>1. g \in Glyph /\ X.pre[g] # NoCondition
      BY <2>2 DEF Mapped
    <3>2. g \notin kept \/ G.pre[g] = c => g \in Mapped(G.pre) /\ X.pre[g] = G.pre[g]
      BY <1>18, <3>1 DEF Mapped
    <3>3. CASE g \notin kept \/ G.pre[g] = c
      BY <1>2, <3>2, <3>3 DEF RestIsLeftOver
    <3>4. CASE g \in kept /\ G.pre[g] # c
      BY <1>18, <1>82, <3>1, <3>4
    <3> QED BY <3>3, <3>4
  <2> QED BY <1>2, <1>17, <2>1, <2>2 DEF RestIsLeftOver
<1>23. IsFilled(i, X, PendingOrs(X, left \ {ss}))
  BY <1>17, <1>19, <1>20, <1>21, <1>22 DEF IsFilled
<1> QED BY <1>23 DEF X

LEMMA OrGroupsFilled ==
  ASSUME NEW i, InfoOK(i), NEW ors \in SUBSET SUBSET Segment, NEW G,
         InGroups(i, ConditionOf(i), G, ors), IsFilled(i, G, PendingOrs(G, ors))
  PROVE  IsFilled(i, AddOrGroups(i, G, ors), {})
<1> DEFINE cs == ConditionOf(i)
           Filled(H, T) == IsFilled(i, H, PendingOrs(H, ors \ T))
           good == [T \in SUBSET ors |-> {H \in Groupings : Filled(H, T)}]
<1>1. PICK h : /\ AddOrGroups(i, G, ors) = h[ors]
               /\ AddsOrGroupsInTurn(h, i, cs, G, ors)
  BY OrGroupsInTurn
<1> HIDE DEF cs
<1>2. \A T \in SUBSET ors : InGroups(i, cs, h[T], ors \ T)
  BY <1>1 DEF AddsOrGroupsInTurn
<1>3. ASSUME NEW T \in SUBSET ors, NEW x \in T, Filled(h[T \ {x}], T \ {x}),
             h[T] = AddOrGroup(h[T \ {x}], i, x)
      PROVE  Filled(h[T], T)
  <2> DEFINE U == T \ {x}
             left == ors \ U
             H == h[U]
             X == AddOrGroup(H, i, x)
  <2>1. U \in SUBSET ors /\ x \in SUBSET Segment /\ left \in SUBSET SUBSET Segment
    OBVIOUS
  <2>2. left \ {x} = ors \ T
    OBVIOUS
  <2>3. InGroups(i, cs, H, left)
    BY <1>2, <2>1
  <2>4. IsFilled(i, H, PendingOrs(H, left))
    BY <1>3
  <2>5. h[T] = X
    BY <1>3
  <2> HIDE DEF U, left, H
  <2>6. IsFilled(i, X, PendingOrs(X, left \ {x}))
    BY <2>1, <2>3, <2>4, OrGroupFilled DEF cs
  <2> HIDE DEF X
  <2> QED BY <2>2, <2>5, <2>6
<1>4. h[{}] \in good[{}]
  <2>1. h[{}] = G
    BY <1>1 DEF AddsOrGroupsInTurn
  <2>2. G \in Groupings /\ ors \ {} = ors
    BY DEF InGroups
  <2>3. Filled(G, {})
    BY <2>2
  <2> HIDE DEF Filled
  <2> QED BY <2>1, <2>2, <2>3
<1> HIDE DEF Filled
<1>5. ASSUME NEW T \in (SUBSET ors) \ {{}}
      PROVE  \E x \in T : h[T \ {x}] \in good[T \ {x}] => h[T] \in good[T]
  <2>1. PICK x \in T : h[T] = AddOrGroup(h[T \ {x}], i, x)
    BY <1>1 DEF AddsOrGroupsInTurn
  <2>2. ASSUME h[T \ {x}] \in good[T \ {x}] PROVE h[T] \in good[T]
    <3>1. Filled(h[T \ {x}], T \ {x})
      BY <2>2
    <3>2. Filled(h[T], T)
      BY <1>3, <2>1, <3>1
    <3>3. h[T] \in Groupings
      BY <1>2 DEF InGroups
    <3> QED BY <3>2, <3>3
  <2> HIDE DEF good
  <2> QED BY <2>2
<1>6. Filled(h[ors], ors)
  <2>1. IsFiniteSet(ors)
    BY SegmentAssumption, FS_SUBSET, FS_Subset
  <2>2. \A T \in SUBSET ors : h[T] \in good[T]
    <3> HIDE DEF good
    <3> QED BY <1>4, <1>5, <2>1, RecursionKeeps
  <2> QED BY <2>2
<1>7. PendingOrs(h[ors], ors \ ors) = {}
  BY DEF PendingOrs
<1> QED BY <1>1, <1>6, <1>7 DEF Filled

-----------------------------------------------------------------------------
(***************************************************************************)
(* The conditions found for unmapped glyphs are enough for them.           *)
(***************************************************************************)
LEMMA FoundIsEnough ==
  ASSUME NEW i, InfoOK(i), NEW g, g \notin i.init.gids, NEW conditions, NEW gs,
         UNION conditions[g].groups \subseteq Segment
  PROVE  BroughtByNoOther(i, g, FoundSegments(i, conditions, Segment, gs, g))
<1> DEFINE existing == ExistingSegments(conditions[g])
           found == FoundSegments(i, conditions, Segment, gs, g)
<1>1. existing \in SUBSET Segment
  BY DEF ExistingSegments, TriggeringSegments
<1>2. \E full \in SUBSET Segment : found = existing \cup Completed(i, Segment, g, full)
  <2>1. {} \in SUBSET Segment
    OBVIOUS
  <2>2. \E full \in {{}, existing} : found = existing \cup Completed(i, Segment, g, full)
    BY DEF FoundSegments
  <2> HIDE DEF existing, found
  <2> QED BY <1>1, <2>1, <2>2
<1> HIDE DEF existing, found
<1>3. PICK full \in SUBSET Segment : found = existing \cup Completed(i, Segment, g, full)
  BY <1>2
<1> DEFINE completed == Completed(i, Segment, g, full)
<1>4. completed \in SUBSET Segment /\ ~BroughtWithout(i, g, completed)
  BY CompletedIsEnough
<1>5. found = existing \cup completed
  BY <1>3
<1> HIDE DEF completed
<1>6. g \notin Closure(i.font, CombinedDefinition(i, NonEmptySegments(i) \ completed))
  BY <1>4 DEF BroughtWithout, BroughtBy
<1>7. /\ Segment \ found \in SUBSET Segment
      /\ NonEmptySegments(i) \ completed \in SUBSET Segment
      /\ (Segment \ found) \cap NonEmptySegments(i)
            \subseteq NonEmptySegments(i) \ completed
  BY <1>5 DEF NonEmptySegments
<1>8. i \in Info
  BY DEF InfoOK
<1>9. g \notin Closure(i.font, CombinedDefinition(i, Segment \ found))
  BY <1>6, <1>7, <1>8, BringsMonotone
<1> QED BY <1>9 DEF BroughtByNoOther, found
\* what the search finds for a glyph that needs no segment
IsAnswer(i, g, ss) == /\ BroughtByNoOther(i, g, ss) /\ BroughtBy(i, g, ss)
                      /\ Needing(i, g, Segment) = {}

\* while they are assigned: the glyphs that wait have no condition yet
StillToFind(found, done) == {g \in DOMAIN found : found[g] \notin done}

FilledWhileAssigning(i, H, found, done) ==
    /\ IsFilled(i, H, StillToFind(found, done))
    /\ \A g \in StillToFind(found, done) : H.pre[g] = NoCondition

LEMMA FoundFilled ==
  ASSUME NEW i, NEW found, DOMAIN found \in SUBSET NonInitFontGlyphs(i),
         DOMAIN found \in SUBSET Glyph,
         \A g \in DOMAIN found : IsAnswer(i, g, found[g]),
         NEW done, NEW H \in Groupings, H.unmapped = {},
         FilledWhileAssigning(i, H, found, done),
         NEW ss \in SUBSET Segment, ss \notin done
  PROVE  FilledWhileAssigning(i, AssignFound(H, ss, {g \in DOMAIN found : found[g] = ss}),
                              found, done \cup {ss})
<1> DEFINE gs == {g \in DOMAIN found : found[g] = ss}
           X == AssignFound(H, ss, gs)
           least == Least(ss)
           E == [H EXCEPT !.exclusive_groups[least] = @ \cup gs]
           O == [H EXCEPT !.or_groups[ss] = @ \cup gs]
           ors == [H.or_groups EXCEPT ![ss] = @ \cup gs]
<1>1. /\ Plain(H) /\ (Searchable(i) => H.ok) /\ OrGroupsComplete(H) /\ RestIsLeftOver(i, H)
      /\ NonInitFontGlyphs(i) \subseteq Mapped(H.pre) \cup StillToFind(found, done)
      /\ \A g \in Mapped(H.pre) : /\ g \in NonInitFontGlyphs(i)
                                  /\ Enough(i, H.pre[g], g)
      /\ \A g \in StillToFind(found, done) : H.pre[g] = NoCondition
  BY DEF FilledWhileAssigning, IsFilled
<1>2. gs \in SUBSET Glyph /\ gs \subseteq NonInitFontGlyphs(i)
  OBVIOUS
<1>3. gs \subseteq StillToFind(found, done)
      /\ StillToFind(found, done) = gs \cup StillToFind(found, done \cup {ss})
      /\ gs \cap StillToFind(found, done \cup {ss}) = {}
  BY DEF StillToFind
<1>4. \A g \in gs : IsAnswer(i, g, ss)
  OBVIOUS
<1>5. /\ ors \in [SUBSET Segment -> SUBSET Glyph]
      /\ ors[ss] = H.or_groups[ss] \cup gs
      /\ \A tt \in SUBSET Segment : tt # ss => ors[tt] = H.or_groups[tt]
  BY <1>2 DEF Groupings
<1>6. X = IF Cardinality(ss) = 1 THEN UnionConditionAndGlyphs(E, ExclusiveSegment(least), gs)
          ELSE UnionConditionAndGlyphs(O, OrSegments(ss), gs)
  BY DEF AssignFound
<1> HIDE DEF gs, ors
<1>7. ASSUME NEW Y \in Groupings, Plain(Y), Y.ok = H.ok, Y.pre = H.pre, Y.unmapped = {},
             Y.found = H.found,
             NEW c \in GlyphCondition, c.groups = {ss},
             Y.or_groups = H.or_groups \/ Y.or_groups = ors,
             \A tt \in SUBSET Segment : OrSegments(tt) = c => tt = ss /\ Y.or_groups = ors,
             NEW Z, Z = UnionConditionAndGlyphs(Y, c, gs)
      PROVE  FilledWhileAssigning(i, Z, found, done \cup {ss})
  <2>1. IsAssigned(Z, Y, c, gs)
    BY <1>7, Assigned
  <2>2. c # NoCondition
    BY NoConditionAssumption DEF GlyphCondition
  <2>3. CanUnion(Y.pre, c, gs)
    BY <1>1, <1>3, <1>7 DEF CanUnion
  <2>4. Plain(Z) /\ (Searchable(i) => Z.ok)
    BY <1>1, <1>7, <2>3, PlainAssigned
  <2>5. /\ \A g \in Glyph : Z.pre[g] = IF g \in gs THEN c ELSE H.pre[g]
        /\ Z.unmapped = {} /\ Z.or_groups = Y.or_groups /\ Z.found = H.found
    BY <1>7, <2>1 DEF IsAssigned, Assign
  <2>6. NonInitFontGlyphs(i)
           \subseteq Mapped(Z.pre) \cup Z.unmapped \cup StillToFind(found, done \cup {ss})
    BY <1>1, <1>2, <1>3, <2>2, <2>5 DEF Mapped
  <2>7. \A g \in Mapped(Z.pre) : /\ g \in NonInitFontGlyphs(i) \ Z.unmapped
                                 /\ Enough(i, Z.pre[g], g)
    <3> TAKE g \in Mapped(Z.pre)
    <3>1. CASE g \in gs
      <4>1. Z.pre[g] = c
        BY <1>2, <2>5, <3>1
      <4>2. Enough(i, c, g)
        BY <1>4, <1>7, <3>1 DEF Enough, IsAnswer, IsAlwaysTrue
      <4> QED BY <1>2, <2>5, <3>1, <4>1, <4>2
    <3>2. CASE g \notin gs
      <4>1. Z.pre[g] = H.pre[g] /\ g \in Mapped(H.pre)
        BY <2>5, <3>2 DEF Mapped
      <4> QED BY <1>1, <2>5, <4>1
    <3> QED BY <3>1, <3>2
  <2>8. OrGroupsComplete(Z)
    <3> SUFFICES ASSUME NEW tt \in SUBSET Segment, NEW g \in Glyph, Z.pre[g] = OrSegments(tt)
                 PROVE  g \in Y.or_groups[tt]
      BY <2>5 DEF OrGroupsComplete, GlyphsOf
    <3>1. CASE g \in gs
      <4>1. tt = ss /\ Y.or_groups = ors
        BY <1>7, <2>5, <3>1
      <4> QED BY <1>5, <3>1, <4>1
    <3>2. CASE g \notin gs
      <4>1. g \in H.or_groups[tt]
        BY <1>1, <2>5, <3>2 DEF OrGroupsComplete, GlyphsOf
      <4>2. H.or_groups[tt] \subseteq Y.or_groups[tt]
        BY <1>5, <1>7
      <4> QED BY <4>1, <4>2
    <3> QED BY <3>1, <3>2
  <2>9. \A g \in StillToFind(found, done \cup {ss}) : Z.pre[g] = NoCondition
    <3> TAKE g \in StillToFind(found, done \cup {ss})
    <3>1. g \in Glyph /\ g \notin gs /\ g \in StillToFind(found, done)
      BY <1>3 DEF StillToFind
    <3> QED BY <1>1, <2>5, <3>1
  <2>10. RestIsLeftOver(i, Z)
    <3>1. ASSUME NEW g \in H.found, g \in Mapped(Z.pre)
          PROVE  IsDisjunctionFor(i, Z.pre[g], g)
      <4>1. CASE g \in gs
        <5>1. Z.pre[g] = c
          BY <1>2, <2>5, <4>1
        <5> QED BY <1>4, <1>7, <4>1, <5>1 DEF IsDisjunctionFor, IsAnswer
      <4>2. CASE g \notin gs
        <5>1. Z.pre[g] = H.pre[g] /\ g \in Mapped(H.pre)
          BY <2>5, <3>1, <4>2 DEF Mapped
        <5> QED BY <1>1, <5>1 DEF RestIsLeftOver
      <4> QED BY <4>1, <4>2
    <3> QED BY <1>1, <2>5, <3>1 DEF RestIsLeftOver
  <2> QED BY <2>4, <2>6, <2>7, <2>8, <2>9, <2>10 DEF FilledWhileAssigning, IsFilled
<1>8. CASE Cardinality(ss) = 1
  <2>1. \E s \in Segment : ss = {s}
    <3>1. IsFiniteSet(ss)
      BY SegmentAssumption, FS_Subset
    <3>2. \E s : ss = {s}
      BY <1>8, <3>1, FS_Singleton
    <3> QED BY <3>2
  <2>2. PICK s \in Segment : ss = {s}
    BY <2>1
  <2>3. least = s /\ least \in Segment
    BY <2>2, LeastIsElement
  <2> DEFINE c == ExclusiveSegment(least)
  <2>4. /\ c \in GlyphCondition /\ c.groups = {ss}
        /\ \A tt : OrSegments(tt) # c
    BY <2>2, <2>3 DEF ExclusiveSegment, GlyphCondition, Condition, Group, IsUnitary, OrSegments
  <2> HIDE DEF least
  <2>5. /\ E \in Groupings /\ Plain(E) /\ E.ok = H.ok /\ E.pre = H.pre
        /\ E.or_groups = H.or_groups /\ E.unmapped = {} /\ E.found = H.found
    <3> DEFINE ex == [H.exclusive_groups EXCEPT ![least] = @ \cup gs]
    <3>1. ex \in [Segment -> SUBSET Glyph]
      BY <1>2 DEF Groupings
    <3>2. E = [H EXCEPT !.exclusive_groups = ex]
      OBVIOUS
    <3> HIDE DEF ex, E
    <3> QED BY <1>1, <3>1, <3>2 DEF Groupings, Plain
  <2>6. X = UnionConditionAndGlyphs(E, c, gs)
    BY <1>6, <1>8
  <2> HIDE DEF c, E, X
  <2>7. FilledWhileAssigning(i, X, found, done \cup {ss})
    BY <1>7, <2>4, <2>5, <2>6
  <2> QED BY <2>7 DEF X, gs
<1>9. CASE Cardinality(ss) # 1
  <2> DEFINE c == OrSegments(ss)
  <2>1. /\ c \in GlyphCondition /\ c.groups = {ss}
        /\ \A tt : OrSegments(tt) = c => tt = ss
    BY OrConditions
  <2>2. /\ O \in Groupings /\ Plain(O) /\ O.ok = H.ok /\ O.pre = H.pre
        /\ O.or_groups = ors /\ O.unmapped = {} /\ O.found = H.found
    <3>1. O = [H EXCEPT !.or_groups = ors]
      BY DEF ors
    <3> HIDE DEF O
    <3> QED BY <1>1, <1>5, <3>1 DEF Groupings, Plain
  <2>3. X = UnionConditionAndGlyphs(O, c, gs)
    BY <1>6, <1>9
  <2> HIDE DEF c, O, X
  <2>4. FilledWhileAssigning(i, X, found, done \cup {ss})
    BY <1>7, <2>1, <2>2, <2>3
  <2> QED BY <2>4 DEF X, gs
<1> QED BY <1>8, <1>9
LEMMA AllFoundFilled ==
  ASSUME NEW i, NEW cs, NEW found, DOMAIN found \in SUBSET NonInitFontGlyphs(i),
         DOMAIN found \in SUBSET Glyph,
         \A g \in DOMAIN found : IsAnswer(i, g, found[g]),
         NEW S \in SUBSET SUBSET Segment, \A g \in DOMAIN found : found[g] \in S,
         NEW G, WhileAssigning(i, cs, G, found, {}), FilledWhileAssigning(i, G, found, {})
  PROVE  IsFilled(i, AssignAll(found, G, S), {})
<1> DEFINE good == [T \in SUBSET S |->
                       {H \in Groupings : FilledWhileAssigning(i, H, found, T)}]
<1>1. PICK h : /\ AssignAll(found, G, S) = h[S]
               /\ AssignsInTurn(h, i, cs, found, G, S)
  BY FoundInTurn
<1>2. \A T \in SUBSET S : h[T] \in Groupings /\ h[T].unmapped = {}
  BY <1>1 DEF AssignsInTurn, WhileAssigning, InGroups
<1>3. h[{}] \in good[{}]
  BY <1>1, <1>2 DEF AssignsInTurn
<1>4. ASSUME NEW T \in (SUBSET S) \ {{}}
      PROVE  \E x \in T : h[T \ {x}] \in good[T \ {x}] => h[T] \in good[T]
  <2>1. PICK x \in T : h[T] = AssignFound(h[T \ {x}], x, {g \in DOMAIN found : found[g] = x})
    BY <1>1 DEF AssignsInTurn
  <2>2. ASSUME h[T \ {x}] \in good[T \ {x}] PROVE h[T] \in good[T]
    <3> DEFINE U == T \ {x}
               H == h[U]
    <3>1. U \in SUBSET S /\ x \in SUBSET Segment /\ x \notin U /\ U \cup {x} = T
      OBVIOUS
    <3>2. FilledWhileAssigning(i, H, found, U)
      BY <2>2
    <3>3. H \in Groupings /\ H.unmapped = {}
      BY <1>2, <3>1
    <3>4. h[T] = AssignFound(H, x, {g \in DOMAIN found : found[g] = x})
      BY <2>1
    <3> HIDE DEF U, H
    <3>5. FilledWhileAssigning(i, h[T], found, U \cup {x})
      BY <3>1, <3>2, <3>3, <3>4, FoundFilled
    <3>6. FilledWhileAssigning(i, h[T], found, T) /\ h[T] \in Groupings
      BY <1>2, <3>1, <3>5
    <3> QED BY <3>6
  <2> HIDE DEF good
  <2> QED BY <2>2
<1>5. FilledWhileAssigning(i, h[S], found, S)
  <2>1. IsFiniteSet(S)
    BY SegmentAssumption, FS_SUBSET, FS_Subset
  <2>2. \A T \in SUBSET S : h[T] \in good[T]
    <3> HIDE DEF good
    <3> QED BY <1>3, <1>4, <2>1, RecursionKeeps
  <2> QED BY <2>2
<1>6. StillToFind(found, S) = {}
  BY DEF StillToFind
<1> QED BY <1>1, <1>5, <1>6 DEF FilledWhileAssigning

LEMMA FallbackFilled ==
  ASSUME NEW i, InfoOK(i), NEW G, InGroups(i, ConditionOf(i), G, {}), IsFilled(i, G, {}),
         i.handling = "FIND_CONDITIONS"
  PROVE  IsFilled(i, FindFallbackGlyphConditions(G, i, ConditionOf(i)), {})
<1> DEFINE cs == ConditionOf(i)
           found == [g \in G.unmapped |->
                        FoundSegments(i, cs, Segment, G.unmapped, g)]
           S == {found[g] : g \in G.unmapped}
           f == G.found \cup G.unmapped
           B == [G EXCEPT !.found = f, !.unmapped = {}]
           N == [G EXCEPT !.ok = FALSE]
           F == AssignAll(found, B, S)
           X == FindFallbackGlyphConditions(G, i, cs)
<1>0. \A g \in Glyph : UNION cs[g].groups \subseteq Segment
  BY ConditionOfGlyphs DEF GlyphCondition, Condition, Group
<1> HIDE DEF cs
<1>1. G \in Groupings /\ InGroups(i, cs, G, {})
  BY DEF InGroups, cs
<1>2. G.unmapped \in SUBSET Glyph /\ G.found \in SUBSET Glyph
  BY <1>1 DEF Groupings
<1>3. X = IF G.unmapped = {} THEN G ELSE IF ~i.disjoint THEN N ELSE F
  <2>1. DOMAIN found = G.unmapped
    OBVIOUS
  <2> QED BY <2>1 DEF FindFallbackGlyphConditions, AssignAll
<1>4. ASSUME NEW g \in G.unmapped
      PROVE  found[g] \in SUBSET Segment /\ IsAnswer(i, g, found[g])
  <2>1. g \notin i.init.gids /\ g \in Glyph /\ g \in NonInitFontGlyphs(i)
    BY <1>2 DEF InGroups, NonInitFontGlyphs
  <2>2. found[g] = FoundSegments(i, cs, Segment, G.unmapped, g)
    OBVIOUS
  <2>3. FoundSegments(i, cs, Segment, G.unmapped, g) \in SUBSET Segment
    BY <1>0, <2>1, FoundType
  <2>4. BroughtByNoOther(i, g, FoundSegments(i, cs, Segment, G.unmapped, g))
    BY <1>0, <2>1, FoundIsEnough
  <2>5. IsLeftOver(i, g)
    BY DEF IsFilled, RestIsLeftOver
  <2>6. cs[g] = ConditionOn(i, g, Segment)
    BY <2>1, ConditionOfGlyphs DEF cs
  <2>7. BroughtBy(i, g, FoundSegments(i, cs, Segment, G.unmapped, g))
    BY <2>1, <2>5, <2>6, FoundBrings
  <2> HIDE DEF found
  <2> QED BY <2>2, <2>3, <2>4, <2>5, <2>7 DEF IsAnswer, IsLeftOver
<1>5. /\ S \in SUBSET SUBSET Segment /\ DOMAIN found = G.unmapped
      /\ \A g \in DOMAIN found : found[g] \in S
  BY <1>4
<1> HIDE DEF found, S, X
<1>6. f \in SUBSET Glyph
  BY <1>2
<1>7. /\ B \in Groupings /\ B.found = f /\ B.unmapped = {}
      /\ B.pre = G.pre /\ B.or_groups = G.or_groups
      /\ B.post = G.post /\ B.combined_patches = G.combined_patches
      /\ B.combined_conditions = G.combined_conditions
      /\ B.dirty = G.dirty /\ B.ok = G.ok
  <2> HIDE DEF f
  <2> QED BY <1>1, <1>6 DEF Groupings
<1> HIDE DEF B
<1>8. WhileAssigning(i, cs, B, found, {})
  <2>1. GroupsFollow(B, cs)
    BY <1>1, <1>7 DEF InGroups, GroupsFollow, f
  <2>2. OrGroupsFollow(B, cs, {})
    BY <1>1, <1>7 DEF InGroups, OrGroupsFollow
  <2>3. UnmappedApart(B) /\ B.unmapped \subseteq NonInitFontGlyphs(i)
    BY <1>7 DEF UnmappedApart
  <2>4. \A ss \in SUBSET Segment : B.or_groups[ss] \cap DOMAIN found = {}
    BY <1>1, <1>5, <1>7 DEF InGroups, UnmappedApart
  <2> QED BY <1>5, <1>7, <2>1, <2>2, <2>3, <2>4 DEF WhileAssigning, InGroups, f
<1>9. ASSUME i.disjoint PROVE FilledWhileAssigning(i, B, found, {})
  <2>1. StillToFind(found, {}) = G.unmapped
    BY <1>5 DEF StillToFind
  <2>2. \A g \in G.unmapped : B.pre[g] = NoCondition
    BY <1>2, <1>7 DEF IsFilled, Mapped
  <2>3. IsFilled(i, B, G.unmapped)
    <3>1. RestIsLeftOver(i, G)
      BY DEF IsFilled
    <3>2. \A g \in B.found \cap Mapped(B.pre) : g \in G.found \cap Mapped(G.pre)
      BY <1>7, <2>2 DEF Mapped, f
    <3>3. RestIsLeftOver(i, B)
      BY <1>7, <1>9, <3>1, <3>2 DEF RestIsLeftOver
    <3> QED BY <1>7, <3>3 DEF IsFilled, Plain, OrGroupsComplete, Mapped
  <2> QED BY <2>1, <2>2, <2>3 DEF FilledWhileAssigning
<1>10. ASSUME i.disjoint PROVE IsFilled(i, F, {})
  <2>1. DOMAIN found \in SUBSET NonInitFontGlyphs(i)
    BY <1>1, <1>5 DEF InGroups
  <2>2. \A g \in DOMAIN found : IsAnswer(i, g, found[g])
    BY <1>4, <1>5
  <2> QED BY <1>2, <1>5, <1>8, <1>9, <1>10, <2>1, <2>2, AllFoundFilled
<1>11. ASSUME ~i.disjoint PROVE IsFilled(i, N, {})
  <2>1. /\ N.unmapped = G.unmapped /\ N.pre = G.pre /\ N.or_groups = G.or_groups
        /\ N.post = G.post /\ N.combined_patches = G.combined_patches
        /\ N.combined_conditions = G.combined_conditions /\ N.dirty = G.dirty
        /\ N.found = G.found
    BY <1>1 DEF Groupings
  <2>2. ~Searchable(i)
    BY <1>11 DEF Searchable
  <2> HIDE DEF N
  <2> QED BY <2>1, <2>2 DEF IsFilled, Plain, OrGroupsComplete, RestIsLeftOver
<1> HIDE DEF F, N
<1>12. IsFilled(i, X, {})
  BY <1>3, <1>10, <1>11
<1> QED BY <1>12 DEF X, cs
-----------------------------------------------------------------------------
(***************************************************************************)
(* GroupGlyphs fills the groups, whatever was modified: the other glyphs   *)
(* keep conditions that are enough for them, unless one is modified.       *)
(***************************************************************************)
OthersLeft(i, G, glyphs, modified) ==
    /\ \A g \in G.unmapped \ glyphs : IsLeftOver(i, g)
    /\ \A g \in (G.found \cap Mapped(G.pre)) \ glyphs :
          TriggeringSegments(G.pre[g]) \cap modified = {} => IsDisjunctionFor(i, G.pre[g], g)
    /\ G.found # {} => i.handling = "FIND_CONDITIONS" /\ i.disjoint

Regroupable(i, G, glyphs, modified) ==
    /\ CanBeGrouped(i, ConditionOf(i), G, glyphs)
    /\ Plain(G)
    /\ Searchable(i) => G.ok
    /\ NonInitFontGlyphs(i) \ glyphs \subseteq Mapped(G.pre) \cup G.unmapped
    /\ \A g \in Mapped(G.pre) \ glyphs :
          /\ g \in NonInitFontGlyphs(i) \ G.unmapped
          /\ TriggeringSegments(G.pre[g]) \cap modified = {} => Enough(i, G.pre[g], g)
    /\ OrGroupsComplete(G)
    /\ OthersLeft(i, G, glyphs, modified)

LEMMA DisjunctionsAreOrs ==
  ASSUME NEW c \in GlyphCondition, IsPurelyDisjunctive(c), ~IsExclusive(c)
  PROVE  c = OrSegments(TriggeringSegments(c))
<1>1. PICK h \in c.groups : c.groups = {h}
  BY DEF IsPurelyDisjunctive
<1>2. TriggeringSegments(c) = h
  BY <1>1 DEF TriggeringSegments
<1>3. c \in Condition /\ c.exclusive = FALSE
  BY DEF GlyphCondition, Condition, IsExclusive
<1>4. c = [groups |-> {h}, exclusive |-> FALSE]
  BY <1>1, <1>3 DEF Condition
<1> QED BY <1>2, <1>4 DEF OrSegments

\* the other glyphs, when those of modified segments are ungrouped too
LEMMA OthersAreKept ==
  ASSUME NEW i, NEW glyphs \in SUBSET Glyph, NEW modified, NEW G,
         Regroupable(i, G, glyphs, modified)
  PROVE  LET all == Regrouped(G, glyphs, modified)
             F == Ungrouped(G, glyphs, modified)
         IN  /\ IsCleared(F, G, all) /\ Plain(F) /\ F.ok = G.ok /\ OrGroupsComplete(F)
             /\ glyphs \subseteq all /\ all \in SUBSET Glyph
             /\ \A g \in Mapped(G.pre) \ all : /\ g \in NonInitFontGlyphs(i) \ G.unmapped
                                               /\ Enough(i, G.pre[g], g)
             /\ RestIsLeftOver(i, F)
<1> DEFINE first == Invalidate(G, glyphs)
           more == ModifiedGlyphs(first, modified)
           all == Regrouped(G, glyphs, modified)
           F == Ungrouped(G, glyphs, modified)
<1>1. G \in Groupings /\ OrGroupsFollow(G, ConditionOf(i), {}) /\ Plain(G)
  BY DEF Regroupable, CanBeGrouped
<1>2. IsCleared(F, G, all) /\ all \in SUBSET Glyph
  BY <1>1, AreCleared
<1>3. IsCleared(first, G, glyphs)
  BY <1>1, Cleared
<1>4. Plain(first) /\ first.ok = G.ok
  BY <1>1, PlainForgotten
<1>5. all = glyphs \cup more /\ F = Invalidate(first, more)
  BY DEF Regrouped, Ungrouped
<1> HIDE DEF first, all, F
<1>6. Plain(F) /\ F.ok = G.ok
  <2> HIDE DEF more
  <2> QED BY <1>3, <1>4, <1>5, PlainForgotten DEF IsCleared
<1>7. OrGroupsComplete(F)
  <2> SUFFICES ASSUME NEW ss \in SUBSET Segment, NEW g \in Glyph, F.pre[g] = OrSegments(ss)
               PROVE  g \in F.or_groups[ss]
    BY DEF OrGroupsComplete, GlyphsOf
  <2>1. OrSegments(ss) # NoCondition
    BY OrConditions
  <2>2. g \notin all /\ G.pre[g] = OrSegments(ss)
    BY <1>2, <2>1 DEF IsCleared, Unset
  <2>3. g \in G.or_groups[ss]
    BY <2>2 DEF Regroupable, OrGroupsComplete, GlyphsOf
  <2> QED BY <1>2, <2>2, <2>3 DEF IsCleared
<1>8. ASSUME NEW g \in Mapped(G.pre), g \notin all
      PROVE  g \in NonInitFontGlyphs(i) \ G.unmapped /\ Enough(i, G.pre[g], g)
  <2>1. g \in Glyph /\ g \notin glyphs /\ g \notin more
    BY <1>5, <1>8 DEF Mapped
  <2>2. first.post[g] = G.pre[g]
    BY <1>3, <1>4, <2>1 DEF IsCleared, Plain, Unset
  <2>3. TriggeringSegments(G.pre[g]) \cap modified = {}
    BY <2>1, <2>2 DEF ModifiedGlyphs, Mapped
  <2> QED BY <2>1, <2>3 DEF Regroupable
<1>9. glyphs \subseteq all
  BY <1>5
<1>10. OthersLeft(i, G, glyphs, modified)
  BY DEF Regroupable
<1>11. ASSUME NEW g \in F.found, g \in Mapped(F.pre)
       PROVE  IsDisjunctionFor(i, F.pre[g], g)
  <2>1. /\ g \in Glyph /\ F.pre[g] # NoCondition /\ g \in G.found /\ g \notin all
        /\ F.pre[g] = G.pre[g] /\ g \in Mapped(G.pre)
    BY <1>2, <1>11 DEF IsCleared, Mapped, Unset
  <2>2. g \notin glyphs /\ g \notin more
    BY <1>5, <2>1
  <2>3. first.post[g] = G.pre[g]
    BY <1>3, <1>4, <2>1, <2>2 DEF IsCleared, Plain, Unset
  <2>4. TriggeringSegments(G.pre[g]) \cap modified = {}
    BY <2>1, <2>2, <2>3 DEF ModifiedGlyphs, Mapped
  <2> QED BY <1>10, <2>1, <2>2, <2>4 DEF OthersLeft
<1>12. RestIsLeftOver(i, F)
  <2>1. F.unmapped \subseteq G.unmapped \ glyphs /\ F.found \subseteq G.found
    BY <1>2, <1>9 DEF IsCleared
  <2> QED BY <1>10, <1>11, <2>1 DEF OthersLeft, RestIsLeftOver
<1> QED BY <1>2, <1>6, <1>7, <1>8, <1>9, <1>12 DEF all, F
(***************************************************************************)
(* The groups when all but the disjunctions have been placed.              *)
(***************************************************************************)
IsPlaced(i, A, F, all) ==
    LET cs == ConditionOf(i)
    IN  /\ A \in Groupings /\ Plain(A) /\ (F.ok => A.ok)
        /\ A.found = F.found
        /\ A.unmapped = F.unmapped \cup (AlwaysTrue(cs, all) \cap NonInitFontGlyphs(i))
        /\ \A g \in Glyph : A.pre[g] =
              IF g \notin all THEN F.pre[g]
              ELSE IF cs[g] \in NewConditions(cs, all) \ NewOrs(cs, all) THEN cs[g]
              ELSE NoCondition
        /\ \A ss \in SUBSET Segment :
              A.or_groups[ss] = F.or_groups[ss]
                 \cup {g \in all \ AlwaysTrue(cs, all) : cs[g] = OrSegments(ss)}

LEMMA PlacedPlainly ==
  ASSUME NEW i, NEW G, NEW all \in SUBSET Glyph, NEW F, IsCleared(F, G, all), Plain(F)
  PROVE  IsPlaced(i, Placed(i, ConditionOf(i), F, all), F, all)
<1> DEFINE cs == ConditionOf(i)
           always == AlwaysTrue(cs, all)
           unmapped == F.unmapped \cup (always \cap NonInitFontGlyphs(i))
           S == Sorted([F EXCEPT !.unmapped = unmapped], all \ always, cs)
           rest == NewConditions(cs, all) \ NewOrs(cs, all)
           new == [c \in rest |-> NewGrouping(F.pre, cs, all, c)]
           A == AddAll(S, new)
           f == [g \in Glyph |-> IF g \in all THEN cs[g] ELSE F.pre[g]]
<1>1. cs \in [Glyph -> GlyphCondition]
  BY ConditionOfGlyphs
<1> HIDE DEF cs
<1>2. F \in Groupings /\ always \in SUBSET Glyph
  BY DEF IsCleared, AlwaysTrue
<1>3. unmapped \in SUBSET Glyph
  BY <1>2 DEF Groupings
<1>4. /\ rest \in SUBSET GlyphCondition /\ IsFiniteSet(rest)
  <2>1. /\ NewConditions(cs, all) \in SUBSET GlyphCondition
        /\ IsFiniteSet(NewConditions(cs, all))
    BY <1>1, NewConditionsType
  <2>2. rest \subseteq NewConditions(cs, all)
    OBVIOUS
  <2> HIDE DEF rest
  <2> QED BY <2>1, <2>2, FS_Subset
<1>5. \A g \in Glyph : F.pre[g] = IF g \in all THEN NoCondition ELSE G.pre[g]
  BY DEF IsCleared, Unset
<1>6. \A c \in rest : c # NoCondition /\ c \in GlyphCondition
  BY <1>4, NoConditionAssumption DEF GlyphCondition
<1>7. IsSorted(S, F, all \ always, cs, unmapped) /\ Plain(S) /\ S.ok = F.ok
  <2>1. all \ always \in SUBSET Glyph
    OBVIOUS
  <2> HIDE DEF unmapped, always
  <2> QED BY <1>2, <1>3, <2>1, AreSorted, PlainSorted
<1>8. Placed(i, cs, F, all) = A
  BY DEF Placed
<1> HIDE DEF rest, S, unmapped, always
<1>9. \A c \in rest : new[c] = {g \in Glyph : f[g] = c}
  <2> TAKE c \in rest
  <2>1. new[c] = GlyphsOf(F.pre, c) \cup {g \in all : cs[g] = c}
    BY DEF NewGrouping
  <2>2. \A g \in Glyph : g \in GlyphsOf(F.pre, c) <=> g \notin all /\ F.pre[g] = c
    BY <1>5, <1>6 DEF GlyphsOf
  <2>3. \A g \in Glyph : g \in new[c] <=> f[g] = c
    BY <2>1, <2>2
  <2>4. new[c] \subseteq Glyph
    BY <2>1 DEF GlyphsOf
  <2> QED BY <2>3, <2>4
<1>10. S \in Groupings /\ S.pre = F.pre
  BY <1>7 DEF IsSorted
<1>11. \A g \in Glyph : S.pre[g] \in {NoCondition, f[g]}
  BY <1>5, <1>10
<1>12. DOMAIN new = rest
  OBVIOUS
<1>13. AreAdded(A, S, new)
  <2> HIDE DEF new
  <2> QED BY <1>4, <1>10, <1>12, AllAdded
<1>14. /\ Plain(A) /\ (S.ok => A.ok)
       /\ \A g \in Glyph : A.pre[g] = IF f[g] \in rest THEN f[g] ELSE S.pre[g]
  <2> HIDE DEF new, f
  <2> QED BY <1>4, <1>7, <1>9, <1>10, <1>11, <1>12, AllAddedPlainly
<1> HIDE DEF A, new
<1>15. \A g \in Glyph : A.pre[g] = IF g \notin all THEN F.pre[g]
                                   ELSE IF cs[g] \in rest THEN cs[g] ELSE NoCondition
  BY <1>5, <1>10, <1>14
<1>16. /\ A \in Groupings /\ A.unmapped = unmapped /\ A.found = F.found
       /\ \A ss \in SUBSET Segment :
             A.or_groups[ss] = F.or_groups[ss]
                \cup {g \in all \ always : cs[g] = OrSegments(ss)}
  BY <1>7, <1>13 DEF AreAdded, IsSorted
<1> QED BY <1>7, <1>8, <1>14, <1>15, <1>16 DEF IsPlaced, rest, unmapped, always, cs
LEMMA PlacedFilled ==
  ASSUME NEW i, InfoOK(i), NEW glyphs \in SUBSET Glyph, NEW modified, NEW G,
         Regroupable(i, G, glyphs, modified),
         NEW all, all = Regrouped(G, glyphs, modified),
         NEW F, F = Ungrouped(G, glyphs, modified),
         NEW A, IsPlaced(i, A, F, all)
  PROVE  IsFilled(i, A, PendingOrs(A, OrsToPlace(ConditionOf(i), all)))
<1> DEFINE cs == ConditionOf(i)
           always == AlwaysTrue(cs, all)
           sets == OrsToPlace(cs, all)
<1>1. /\ IsCleared(F, G, all) /\ Plain(F) /\ F.ok = G.ok /\ OrGroupsComplete(F)
      /\ glyphs \subseteq all /\ all \in SUBSET Glyph
      /\ \A g \in Mapped(G.pre) \ all : /\ g \in NonInitFontGlyphs(i) \ G.unmapped
                                        /\ Enough(i, G.pre[g], g)
      /\ RestIsLeftOver(i, F)
  BY OthersAreKept
<1>2. \A g \in Glyph : cs[g] = ConditionOn(i, g, Segment) /\ cs[g] \in GlyphCondition
  BY ConditionOfGlyphs
<1>3. /\ A \in Groupings /\ Plain(A) /\ (F.ok => A.ok)
      /\ A.unmapped = (G.unmapped \ all) \cup (always \cap NonInitFontGlyphs(i))
      /\ \A g \in Glyph : A.pre[g] =
            IF g \notin all THEN G.pre[g]
            ELSE IF cs[g] \in NewConditions(cs, all) \ NewOrs(cs, all) THEN cs[g]
            ELSE NoCondition
      /\ \A ss \in SUBSET Segment :
            A.or_groups[ss] = (G.or_groups[ss] \ all)
               \cup {g \in all \ always : cs[g] = OrSegments(ss)}
  BY <1>1 DEF IsPlaced, IsCleared, Unset
<1>31. RestIsLeftOver(i, A)
  <2>1. A.found = F.found /\ A.unmapped = F.unmapped \cup (always \cap NonInitFontGlyphs(i))
    BY DEF IsPlaced
  <2>2. ASSUME NEW g \in always \cap NonInitFontGlyphs(i) PROVE IsLeftOver(i, g)
    <3>1. g \in Glyph /\ IsAlwaysTrue(cs[g])
      BY <1>1 DEF AlwaysTrue
    <3>2. IsAlwaysTrue(ConditionOn(i, g, Segment))
      BY <1>2, <3>1
    <3> QED BY <3>2, AlwaysLeftOver
  <2>3. ASSUME NEW g \in F.found, g \in Mapped(A.pre)
        PROVE  IsDisjunctionFor(i, A.pre[g], g)
    <3>1. g \in Glyph /\ g \notin all
      BY <1>1, <2>3 DEF IsCleared, Mapped
    <3>2. A.pre[g] = F.pre[g] /\ g \in Mapped(F.pre)
      BY <2>3, <3>1 DEF IsPlaced, Mapped
    <3> QED BY <1>1, <3>2 DEF RestIsLeftOver
  <2> HIDE DEF always
  <2> QED BY <1>1, <2>1, <2>2, <2>3 DEF RestIsLeftOver
<1> HIDE DEF cs
<1>4. \A g \in always : g \in all /\ IsAlwaysTrue(cs[g])
  BY DEF AlwaysTrue
<1>5. ASSUME NEW g \in all
      PROVE  \/ g \in always
             \/ cs[g] \in NewConditions(cs, all) \ NewOrs(cs, all)
             \/ \E ss \in sets : ss \in SUBSET Segment /\ g \in A.or_groups[ss]
  <2> SUFFICES ASSUME g \notin always, cs[g] \in NewOrs(cs, all)
               PROVE  \E ss \in sets : ss \in SUBSET Segment /\ g \in A.or_groups[ss]
    BY DEF NewConditions
  <2> DEFINE ss == TriggeringSegments(cs[g])
  <2>1. ss \in sets
    BY DEF OrsToPlace
  <2>2. cs[g] = OrSegments(ss)
    BY <1>1, <1>2, DisjunctionsAreOrs DEF NewOrs
  <2>3. ss \in SUBSET Segment
    BY <1>1, <1>2 DEF TriggeringSegments, GlyphCondition, Condition, Group
  <2> HIDE DEF ss
  <2> QED BY <1>3, <2>1, <2>2, <2>3
<1>6. ASSUME NEW g \in all, cs[g] \in NewConditions(cs, all) \ NewOrs(cs, all)
      PROVE  /\ g \in NonInitFontGlyphs(i) /\ g \notin always /\ Enough(i, cs[g], g)
             /\ \A ss \in SUBSET Segment : cs[g] # OrSegments(ss)
  <2>0. g \in Glyph
    BY <1>1
  <2>1. ~IsAlwaysTrue(cs[g])
    BY <1>6 DEF NewConditions, AlwaysTrue
  <2>2. \A ss \in SUBSET Segment : cs[g] # OrSegments(ss)
    BY <1>6, OrConditions DEF NewOrs
  <2>3. cs[g] = ConditionOn(i, g, Segment)
    BY <1>2, <2>0
  <2>4. /\ g \in NonInitFontGlyphs(i)
        /\ \/ Needing(i, g, Segment) # {}
           \/ \E ss \in SUBSET Segment : ConditionOn(i, g, Segment) = OrSegments(ss)
    BY <2>1, <2>3, NeededOrGiven
  <2>5. Needing(i, g, Segment) # {}
    BY <2>2, <2>3, <2>4
  <2> QED BY <1>4, <2>1, <2>2, <2>3, <2>4, <2>5, NeededIsEnough
<1>7. NonInitFontGlyphs(i) \subseteq Mapped(A.pre) \cup A.unmapped \cup PendingOrs(A, sets)
  <2> SUFFICES ASSUME NEW g \in NonInitFontGlyphs(i)
               PROVE  g \in Mapped(A.pre) \cup A.unmapped \cup PendingOrs(A, sets)
    OBVIOUS
  <2>0. g \in Glyph
    BY DEF InfoOK, Info, NonInitFontGlyphs
  <2>1. CASE g \notin all
    <3>1. g \in Mapped(G.pre) \cup G.unmapped
      BY <1>1, <2>1 DEF Regroupable
    <3>2. A.pre[g] = G.pre[g]
      BY <1>3, <2>0, <2>1
    <3> QED BY <1>3, <2>0, <2>1, <3>1, <3>2 DEF Mapped
  <2>2. CASE g \in all
    <3>1. CASE g \in always
      BY <1>3, <3>1
    <3>2. CASE cs[g] \in NewConditions(cs, all) \ NewOrs(cs, all)
      <4>1. A.pre[g] = cs[g] /\ cs[g] # NoCondition
        BY <1>2, <1>3, <2>0, <2>2, <3>2, NoConditionAssumption DEF GlyphCondition
      <4> QED BY <2>0, <4>1 DEF Mapped
    <3>3. CASE \E ss \in sets : ss \in SUBSET Segment /\ g \in A.or_groups[ss]
      BY <3>3 DEF PendingOrs
    <3> QED BY <1>5, <2>2, <3>1, <3>2, <3>3
  <2> QED BY <2>1, <2>2
<1>8. \A g \in Mapped(A.pre) : /\ g \in NonInitFontGlyphs(i) \ A.unmapped
                               /\ Enough(i, A.pre[g], g)
  <2> TAKE g \in Mapped(A.pre)
  <2>0. g \in Glyph /\ A.pre[g] # NoCondition
    BY DEF Mapped
  <2>1. CASE g \notin all
    <3>1. A.pre[g] = G.pre[g] /\ g \in Mapped(G.pre) \ all
      BY <1>3, <2>0, <2>1 DEF Mapped
    <3> QED BY <1>1, <1>3, <1>4, <2>1, <3>1
  <2>2. CASE g \in all
    <3>1. /\ A.pre[g] = cs[g]
          /\ cs[g] \in NewConditions(cs, all) \ NewOrs(cs, all)
      BY <1>3, <2>0, <2>2
    <3> QED BY <1>3, <1>6, <2>2, <3>1
  <2> QED BY <2>1, <2>2
<1>9. OrGroupsComplete(A)
  <2> SUFFICES ASSUME NEW ss \in SUBSET Segment, NEW g \in Glyph, A.pre[g] = OrSegments(ss)
               PROVE  g \in A.or_groups[ss]
    BY DEF OrGroupsComplete, GlyphsOf
  <2>1. OrSegments(ss) # NoCondition
    BY OrConditions
  <2>2. g \notin all
    <3> SUFFICES ASSUME g \in all PROVE FALSE
      OBVIOUS
    <3>1. /\ A.pre[g] = cs[g]
          /\ cs[g] \in NewConditions(cs, all) \ NewOrs(cs, all)
      BY <1>3, <2>1
    <3> QED BY <1>6, <3>1
  <2>3. G.pre[g] = OrSegments(ss)
    BY <1>3, <2>2
  <2>4. g \in G.or_groups[ss]
    BY <2>3 DEF Regroupable, OrGroupsComplete, GlyphsOf
  <2> QED BY <1>3, <2>2, <2>4
<1>10. Searchable(i) => A.ok
  BY <1>1, <1>3 DEF Regroupable
<1> QED BY <1>3, <1>31, <1>7, <1>8, <1>9, <1>10 DEF IsFilled, cs

LEMMA GlyphsFilled ==
  ASSUME NEW i, InfoOK(i), NEW glyphs \in SUBSET Glyph, NEW modified, NEW G,
         Regroupable(i, G, glyphs, modified)
  PROVE  IsFilled(i, Grouping(i, G, glyphs, modified), {})
<1> DEFINE cs == ConditionOf(i)
           all == Regrouped(G, glyphs, modified)
           F == Ungrouped(G, glyphs, modified)
           A == Placed(i, cs, F, all)
           sets == OrsToPlace(cs, all)
           grouped == AddOrGroups(i, A, sets)
           assigned == IF i.handling = "FIND_CONDITIONS"
                       THEN FindFallbackGlyphConditions(grouped, i, cs)
                       ELSE grouped
<1>1. Grouping(i, G, glyphs, modified) = RecomputeIfNeeded(assigned, all)
  BY GroupedInSteps DEF Grouping, ConditionOf
<1>2. /\ IsCleared(F, G, all) /\ Plain(F) /\ glyphs \subseteq all /\ all \in SUBSET Glyph
  BY OthersAreKept
<1>3. cs \in [Glyph -> GlyphCondition]
  BY ConditionOfGlyphs
<1>4. IsPlaced(i, A, F, all)
  <2> HIDE DEF all, F
  <2> QED BY <1>2, PlacedPlainly
<1>5. IsFilled(i, A, PendingOrs(A, sets))
  <2> HIDE DEF A
  <2> QED BY <1>4, PlacedFilled
<1> HIDE DEF all, F
<1>6. InGroups(i, cs, A, sets) /\ sets \in SUBSET SUBSET Segment
  <2> HIDE DEF cs
  <2>1. CanBeGrouped(i, cs, G, glyphs)
    BY DEF Regroupable, cs
  <2> QED BY <1>2, <1>3, <2>1, GlyphsPlaced, NewConditionsType
<1> HIDE DEF A, sets
<1>7. IsFilled(i, grouped, {})
  BY <1>5, <1>6, OrGroupsFilled
<1>8. InGroups(i, cs, grouped, {})
  <2> HIDE DEF cs
  <2> QED BY <1>6, OrGroupsAdded
<1> HIDE DEF grouped
<1>9. IsFilled(i, assigned, {})
  BY <1>7, <1>8, FallbackFilled
<1>10. RecomputeIfNeeded(assigned, all) = assigned
  <2> HIDE DEF assigned
  <2> QED BY <1>9, PlainNotRecomputed DEF IsFilled
<1> QED BY <1>1, <1>9, <1>10
-----------------------------------------------------------------------------
(***************************************************************************)
(* The initial groups, and a merge.                                        *)
(***************************************************************************)
LEMMA InitialFilled ==
  ASSUME NEW i, InfoOK(i)
  PROVE  IsFilled(i, Grouping(i, NoGroupings, NonInitFontGlyphs(i), {}), {})
<1>1. NonInitFontGlyphs(i) \in SUBSET Glyph
  BY DEF InfoOK, Info, NonInitFontGlyphs
<1>2. /\ NoGroupings.pre = [g \in Glyph |-> NoCondition]
      /\ NoGroupings.post = NoGroupings.pre /\ NoGroupings.combined_patches = {}
      /\ NoGroupings.combined_conditions = {} /\ ~NoGroupings.dirty
      /\ NoGroupings.ok /\ NoGroupings.unmapped = {} /\ NoGroupings.found = {}
  BY DEF NoGroupings
<1>3. CanBeGrouped(i, ConditionOf(i), NoGroupings, NonInitFontGlyphs(i))
  <2>1. CanBeGrouped(i, ConditionOf(i), NoGroupings, {})
    BY NothingGrouped
  <2> QED BY <2>1 DEF CanBeGrouped, Mapped
<1>4. Mapped(NoGroupings.pre) = {}
  BY <1>2 DEF Mapped
<1>5. OrGroupsComplete(NoGroupings)
  BY <1>2, OrConditions DEF OrGroupsComplete, GlyphsOf
<1>6. Regroupable(i, NoGroupings, NonInitFontGlyphs(i), {})
  BY <1>2, <1>3, <1>4, <1>5 DEF Regroupable, Plain, OthersLeft
<1> QED BY <1>1, <1>6, GlyphsFilled

LEMMA PlainMadeExclusive ==
  ASSUME NEW cs, NEW G \in Groupings, OrGroupsFollow(G, cs, {}), Plain(G),
         NEW s \in Segment, NEW gs \in SUBSET Glyph
  PROVE  /\ Plain(AddGlyphsToExclusiveGroup(G, s, gs))
         /\ G.ok => AddGlyphsToExclusiveGroup(G, s, gs).ok
<1> DEFINE H == Invalidate(G, gs)
           c == ExclusiveSegment(s)
           U == UnionConditionAndGlyphs(H, c, gs)
           ex == [U.exclusive_groups EXCEPT ![s] = @ \cup gs]
           E == [U EXCEPT !.exclusive_groups[s] = @ \cup gs]
<1>1. IsCleared(H, G, gs)
  BY Cleared
<1>2. Plain(H) /\ H.ok = G.ok
  BY PlainForgotten
<1>3. c \in GlyphCondition
  BY DEF ExclusiveSegment, GlyphCondition, Condition, Group, IsUnitary
<1> HIDE DEF H, c
<1>4. CanUnion(H.pre, c, gs)
  BY <1>1 DEF IsCleared, Unset, CanUnion
<1>5. Plain(U) /\ (G.ok => U.ok) /\ U \in Groupings
  BY <1>1, <1>2, <1>3, <1>4, PlainAssigned, Assigned DEF IsCleared, IsAssigned
<1> HIDE DEF U
<1>6. E = [U EXCEPT !.exclusive_groups = ex]
  OBVIOUS
<1> HIDE DEF ex
<1>7. Plain(E) /\ E.ok = U.ok
  BY <1>5, <1>6 DEF Plain, Groupings
<1>8. AddGlyphsToExclusiveGroup(G, s, gs) = RecomputeIfNeeded(E, gs)
  BY DEF AddGlyphsToExclusiveGroup, H, c, U
<1> HIDE DEF E
<1> QED BY <1>5, <1>7, <1>8, PlainNotRecomputed

\* a merge within a set of segments leaves what they define together
LEMMA MergedWithinRest ==
  ASSUME NEW i \in Info, NEW base \in Segment, NEW to_merge \in SUBSET Segment,
         NEW T \in SUBSET Segment, base \in T, T \cup to_merge = T
  PROVE  CombinedDefinition(MergeDefinitions(i, base, to_merge), T) = CombinedDefinition(i, T)
<1> DEFINE V == IF base \in T THEN T \cup to_merge ELSE T \ to_merge
           m == MergeDefinitions(i, base, to_merge)
<1>1. CombinedDefinition(m, T) = CombinedDefinition(i, V)
  BY MergedDefinition
<1>2. V = T
  OBVIOUS
<1> HIDE DEF V, m
<1>3. CombinedDefinition(m, T) = CombinedDefinition(i, T)
  BY <1>1, <1>2
<1> QED BY <1>3 DEF m

\* what was enough without the merged segments still is
LEMMA EnoughAfterMerge ==
  ASSUME NEW i, InfoOK(i), NEW base \in Segment, NEW to_merge \in SUBSET Segment,
         NEW c \in GlyphCondition, NEW g, Enough(i, c, g),
         TriggeringSegments(c) \cap (to_merge \cup {base}) = {}
  PROVE  Enough(MergeDefinitions(i, base, to_merge), c, g)
<1> DEFINE m == MergeDefinitions(i, base, to_merge)
<1>1. i \in Info
  BY DEF InfoOK
<1>2. m.font = i.font
  BY <1>1, MergedFields
<1> SUFFICES ASSUME NEW h \in c.groups PROVE BroughtByNoOther(m, g, h)
  BY DEF Enough
<1> DEFINE T == Segment \ h
<1>3. T \in SUBSET Segment /\ base \in T /\ T \cup to_merge = T
  BY DEF TriggeringSegments
<1> HIDE DEF T
<1>4. CombinedDefinition(m, T) = CombinedDefinition(i, T)
  BY <1>1, <1>3, MergedWithinRest
<1>5. g \notin Closure(i.font, CombinedDefinition(i, T))
  BY DEF Enough, BroughtByNoOther, T
<1> HIDE DEF m
<1>6. BroughtByNoOther(m, g, h)
  BY <1>2, <1>4, <1>5 DEF BroughtByNoOther, T
<1> QED BY <1>6 DEF m

\* what the segments do for a glyph before and after a merge
LEMMA NeededAfterMerge ==
  ASSUME NEW i, InfoOK(i), NEW base \in Segment, NEW to_merge \in SUBSET Segment, NEW g
  PROVE  LET m == MergeDefinitions(i, base, to_merge)
             M == to_merge \cup {base}
         IN  /\ Needing(m, g, Segment) \ {base} = Needing(i, g, Segment) \ M
             /\ Giving(m, g, Segment) \ {base} = Giving(i, g, Segment) \ M
             /\ base \in Needing(m, g, Segment) \/ Needing(i, g, Segment) \cap M = {}
             /\ base \in Giving(m, g, Segment) \/ Giving(i, g, Segment) \cap M = {}
<1> DEFINE m == MergeDefinitions(i, base, to_merge)
           M == to_merge \cup {base}
<1>1. InfoOK(m) /\ i \in Info
  BY MergedInfoOK DEF InfoOK
<1>2. \A s \in to_merge \ {base} : m.segments[s] = {}
  BY <1>1, MergedFields
<1>3. \A s \in Segment \ M : /\ Needs(m, g, s) <=> Needs(i, g, s)
                             /\ Gives(m, g, s) <=> Gives(i, g, s)
  BY MergeOfOthers
<1>4. \A s \in M : /\ Needs(i, g, s) => Needs(m, g, base)
                   /\ Gives(i, g, s) => Gives(m, g, base)
  BY MergeOfBase
<1> HIDE DEF m
<1>5. \A s \in to_merge \ {base} : ~Needs(m, g, s) /\ ~Gives(m, g, s)
  BY <1>1, <1>2, NothingFromEmpty
<1>6. /\ Needing(m, g, Segment) \ {base} = Needing(i, g, Segment) \ M
      /\ Giving(m, g, Segment) \ {base} = Giving(i, g, Segment) \ M
      /\ base \in Needing(m, g, Segment) \/ Needing(i, g, Segment) \cap M = {}
      /\ base \in Giving(m, g, Segment) \/ Giving(i, g, Segment) \cap M = {}
  BY <1>3, <1>4, <1>5 DEF Needing, Giving
<1> QED BY <1>6 DEF m

\* the merge does not change what is known of a glyph it does not touch
LEMMA LeftOverAfterMerge ==
  ASSUME NEW i, InfoOK(i), NEW base \in Segment, NEW to_merge \in SUBSET Segment,
         NEW g \in Glyph, g \notin TouchedBy(MergeDefinitions(i, base, to_merge), base)
  PROVE  LET m == MergeDefinitions(i, base, to_merge)
             M == to_merge \cup {base}
         IN  /\ IsLeftOver(i, g) => IsLeftOver(m, g)
             /\ \A c : IsDisjunctionFor(i, c, g) /\ TriggeringSegments(c) \cap M = {}
                          => IsDisjunctionFor(m, c, g)
<1> DEFINE m == MergeDefinitions(i, base, to_merge)
           M == to_merge \cup {base}
           A == Giving(i, g, Segment)
<1>1. InfoOK(m) /\ i \in Info /\ m.font = i.font
  BY MergedInfoOK, MergedFields DEF InfoOK
<1>2. /\ Needing(m, g, Segment) \ {base} = Needing(i, g, Segment) \ M
      /\ Giving(m, g, Segment) \ {base} = A \ M
      /\ base \in Needing(m, g, Segment) \/ Needing(i, g, Segment) \cap M = {}
      /\ base \in Giving(m, g, Segment) \/ A \cap M = {}
  BY NeededAfterMerge
<1>3. \A T \in SUBSET Segment : base \in T /\ T \cup to_merge = T =>
         CombinedDefinition(m, T) = CombinedDefinition(i, T)
  BY <1>1, MergedWithinRest
<1>4. ASSUME NEW h \in SUBSET Segment, h \cap M = {}
      PROVE  CombinedDefinition(m, h) = CombinedDefinition(i, h)
  <2>0. i \in Info
    BY DEF InfoOK
  <2>1. CombinedDefinition(m, h)
           = CombinedDefinition(i, IF base \in h THEN h \cup to_merge ELSE h \ to_merge)
    BY <2>0, MergedDefinition
  <2>2. base \notin h /\ h \ to_merge = h
    BY <1>4
  <2> HIDE DEF m
  <2> QED BY <2>1, <2>2
<1>5. g \notin TouchedBy(m, base)
  OBVIOUS
<1> HIDE DEF m
<1>6. base \notin Needing(m, g, Segment) /\ base \notin Giving(m, g, Segment)
  <2>1. ~Needs(m, g, base) /\ ~Gives(m, g, base)
    BY <1>1, <1>5, TouchedGlyphs
  <2> QED BY <2>1 DEF Needing, Giving
<1>7. /\ Needing(m, g, Segment) = Needing(i, g, Segment)
      /\ Giving(m, g, Segment) = A /\ A \cap M = {} /\ A \in SUBSET Segment
  BY <1>2, <1>6 DEF Giving
<1> HIDE DEF A
<1>8. ASSUME IsLeftOver(i, g) PROVE IsLeftOver(m, g)
  <2>1. /\ Segment \ A \in SUBSET Segment
        /\ base \in Segment \ A /\ (Segment \ A) \cup to_merge = Segment \ A
    BY <1>7
  <2>2. CombinedDefinition(m, Segment \ A) = CombinedDefinition(i, Segment \ A)
    BY <1>3, <2>1
  <2>3. Needing(i, g, Segment) = {} /\ ~BroughtByNoOther(i, g, A)
    BY <1>8 DEF IsLeftOver, A
  <2>4. ~BroughtByNoOther(m, g, A)
    BY <1>1, <2>2, <2>3 DEF BroughtByNoOther
  <2> QED BY <1>7, <2>3, <2>4 DEF IsLeftOver
<1>9. ASSUME NEW c, IsDisjunctionFor(i, c, g), TriggeringSegments(c) \cap M = {}
      PROVE  IsDisjunctionFor(m, c, g)
  <2>1. PICK h \in SUBSET Segment : c.groups = {h} /\ BroughtBy(i, g, h)
    BY <1>9 DEF IsDisjunctionFor
  <2>2. h \cap M = {}
    BY <1>9, <2>1 DEF TriggeringSegments
  <2>3. BroughtBy(m, g, h)
    BY <1>1, <1>4, <2>1, <2>2 DEF BroughtBy
  <2> QED BY <1>7, <1>9, <2>1, <2>3 DEF IsDisjunctionFor
<1> QED BY <1>8, <1>9 DEF m

LEMMA MergeRegroupable ==
  ASSUME NEW i, InfoOK(i), NEW G, InGroups(i, ConditionOf(i), G, {}), IsFilled(i, G, {}),
         NEW base \in Segment, NEW to_merge \in SUBSET Segment
  PROVE  LET m == MergeDefinitions(i, base, to_merge)
             gs == TouchedBy(m, base)
             M == to_merge \cup {base}
         IN  /\ Regroupable(m, G, gs, M)
             /\ MergesInertly(i, base, to_merge) =>
                   Regroupable(m, AddGlyphsToExclusiveGroup(G, base, gs), {}, M)
<1> DEFINE m == MergeDefinitions(i, base, to_merge)
           gs == TouchedBy(m, base)
           M == to_merge \cup {base}
           E == AddGlyphsToExclusiveGroup(G, base, gs)
<1>1. /\ InfoOK(m) /\ NonInitFontGlyphs(i) = NonInitFontGlyphs(m)
      /\ gs \in SUBSET Glyph
      /\ CanBeGrouped(m, ConditionOf(m), G, gs)
      /\ MergesInertly(i, base, to_merge) => InGroups(m, ConditionOf(m), E, {})
  BY MergedGroups
<1>2. Searchable(m) <=> Searchable(i)
  <2>1. m.handling = i.handling /\ m.disjoint = i.disjoint
    BY MergedFields DEF InfoOK
  <2> QED BY <2>1 DEF Searchable
<1>3. /\ G \in Groupings /\ Plain(G) /\ (Searchable(i) => G.ok) /\ OrGroupsComplete(G)
      /\ NonInitFontGlyphs(i) \subseteq Mapped(G.pre) \cup G.unmapped
      /\ \A g \in Mapped(G.pre) : /\ g \in NonInitFontGlyphs(i) \ G.unmapped
                                  /\ Enough(i, G.pre[g], g)
      /\ RestIsLeftOver(i, G)
  BY DEF InGroups, IsFilled
<1>4. \A g \in Mapped(G.pre) : TriggeringSegments(G.pre[g]) \cap M = {} =>
                                   Enough(m, G.pre[g], g)
  <2> TAKE g \in Mapped(G.pre)
  <2>1. G.pre[g] \in GlyphCondition
    BY <1>3 DEF Groupings, Table, Mapped
  <2> QED BY <1>3, <2>1, EnoughAfterMerge
<1>5. MergesInertly(i, base, to_merge) =>
         \A g \in gs : ConditionOn(m, g, Segment) = ExclusiveSegment(base)
  BY InertMergeIsExclusive
<1>51. OthersLeft(m, G, gs, M)
  <2>1. G.unmapped \subseteq Glyph /\ Mapped(G.pre) \subseteq Glyph
    BY <1>3 DEF Groupings, Mapped
  <2>2. m.handling = i.handling /\ m.disjoint = i.disjoint
    BY MergedFields DEF InfoOK
  <2>3. \A g \in Glyph \ gs :
           /\ IsLeftOver(i, g) => IsLeftOver(m, g)
           /\ \A c : IsDisjunctionFor(i, c, g) /\ TriggeringSegments(c) \cap M = {}
                        => IsDisjunctionFor(m, c, g)
    BY LeftOverAfterMerge
  <2> HIDE DEF m, gs, M
  <2> QED BY <1>3, <2>1, <2>2, <2>3 DEF RestIsLeftOver, OthersLeft
<1> HIDE DEF m, gs
<1>6. Regroupable(m, G, gs, M)
  BY <1>1, <1>2, <1>3, <1>4, <1>51 DEF Regroupable
<1>7. ASSUME MergesInertly(i, base, to_merge)
      PROVE  Regroupable(m, E, {}, M)
  <2>1. IsMadeExclusive(E, G, base, gs)
    BY <1>1, <1>3, MadeExclusive DEF InGroups
  <2>2. Plain(E) /\ (G.ok => E.ok)
    BY <1>1, <1>3, PlainMadeExclusive DEF InGroups
  <2>3. CanBeGrouped(m, ConditionOf(m), E, {})
    BY <1>1, <1>7, InGroupsCanBeGrouped
  <2> HIDE DEF E
  <2>4. /\ ExclusiveSegment(base) # NoCondition
        /\ base \in TriggeringSegments(ExclusiveSegment(base)) \cap M
        /\ \A ss : ExclusiveSegment(base) # OrSegments(ss)
        /\ ExclusiveSegment(base) # True
    <3>1. /\ ExclusiveSegment(base).groups = {{base}}
          /\ ExclusiveSegment(base).exclusive = TRUE
      BY DEF ExclusiveSegment
    <3>2. \A ss : OrSegments(ss).exclusive = FALSE
      BY DEF OrSegments
    <3>3. True.exclusive = FALSE
      BY DEF True
    <3>4. ExclusiveSegment(base) \in Condition
      BY DEF ExclusiveSegment, Condition, Group
    <3>5. ExclusiveSegment(base) # NoCondition
      BY <3>4, NoConditionAssumption
    <3>6. base \in TriggeringSegments(ExclusiveSegment(base)) \cap M
      BY <3>1 DEF TriggeringSegments
    <3> QED BY <3>1, <3>2, <3>3, <3>5, <3>6
  <2>5. \A g \in gs : g \in NonInitFontGlyphs(m)
    BY <1>1, <1>5, <1>7, <2>4, ConditionOfOthers
  <2>6. /\ E.unmapped = G.unmapped \ gs /\ E.found = G.found \ gs
        /\ \A ss \in SUBSET Segment : E.or_groups[ss] = G.or_groups[ss] \ gs
        /\ \A g \in Glyph : E.pre[g] = IF g \in gs THEN ExclusiveSegment(base) ELSE G.pre[g]
    BY <2>1 DEF IsMadeExclusive
  <2>7. NonInitFontGlyphs(m) \subseteq Mapped(E.pre) \cup E.unmapped
    BY <1>1, <1>3, <2>4, <2>6 DEF Mapped
  <2>8. \A g \in Mapped(E.pre) :
           /\ g \in NonInitFontGlyphs(m) \ E.unmapped
           /\ TriggeringSegments(E.pre[g]) \cap M = {} => Enough(m, E.pre[g], g)
    <3> TAKE g \in Mapped(E.pre)
    <3>0. g \in Glyph /\ E.pre[g] # NoCondition
      BY DEF Mapped
    <3>1. CASE g \in gs
      BY <2>4, <2>5, <2>6, <3>0, <3>1
    <3>2. CASE g \notin gs
      <4>1. E.pre[g] = G.pre[g] /\ g \in Mapped(G.pre)
        BY <2>6, <3>0, <3>2 DEF Mapped
      <4> QED BY <1>1, <1>3, <1>4, <2>6, <4>1
    <3> QED BY <3>1, <3>2
  <2>9. OrGroupsComplete(E)
    BY <1>3, <2>4, <2>6 DEF OrGroupsComplete, GlyphsOf
  <2>10. OthersLeft(m, E, {}, M)
    <3>1. \A g \in E.found \cap Mapped(E.pre) :
             /\ g \in (G.found \cap Mapped(G.pre)) \ gs
             /\ E.pre[g] = G.pre[g]
      BY <2>6 DEF Mapped
    <3> QED BY <1>51, <2>6, <3>1 DEF OthersLeft
  <2> QED BY <1>2, <1>3, <2>2, <2>3, <2>7, <2>8, <2>9, <2>10 DEF Regroupable
<1> QED BY <1>6, <1>7 DEF m, gs

LEMMA MergeFilled ==
  ASSUME NEW ctx, ContextOK(ctx), IsFilled(ctx.info, ctx.groupings, {}),
         NEW base \in Segment, NEW to_merge \in SUBSET Segment
  PROVE  LET after == MergeSegments(ctx, base, to_merge)
         IN  /\ IsFilled(after.info, after.groupings, {})
             /\ after.info.handling = ctx.info.handling
             /\ Searchable(after.info) <=> Searchable(ctx.info)
<1> DEFINE i == ctx.info
           G == ctx.groupings
           m == MergeDefinitions(i, base, to_merge)
           gs == TouchedBy(m, base)
           M == to_merge \cup {base}
           E == AddGlyphsToExclusiveGroup(G, base, gs)
           X == MergeSegments(ctx, base, to_merge)
<1>1. /\ InfoOK(i) /\ InGroups(i, ConditionOf(i), G, {}) /\ IsFilled(i, G, {})
      /\ ctx = AnalysedContext(i, G, Segment)
  BY DEF ContextOK
<1> HIDE DEF i, G
<1>2. /\ InfoOK(m) /\ gs \in SUBSET Glyph /\ Regroupable(m, G, gs, M)
      /\ MergesInertly(i, base, to_merge) => Regroupable(m, E, {}, M)
  BY <1>1, MergedGroups, MergeRegroupable
<1>3. m.handling = i.handling /\ m.disjoint = i.disjoint
  BY <1>1, MergedFields DEF InfoOK
<1>4. \E H : X = AnalysedContext(m, H, Segment) /\ IsFilled(m, H, {})
  <2>1. CASE ~MergesInertly(i, base, to_merge)
    <3>1. X = AnalysedContext(m, Grouping(m, G, gs, M), Segment)
      BY <1>1, <2>1, MergedNotInertly
    <3> HIDE DEF m, gs, M, X
    <3>2. IsFilled(m, Grouping(m, G, gs, M), {})
      BY <1>2, GlyphsFilled
    <3> QED BY <3>1, <3>2
  <2>2. CASE MergesInertly(i, base, to_merge)
    <3>1. X = AnalysedContext(m, Grouping(m, E, {}, M), Segment)
      BY <1>1, <2>2, MergedInertly
    <3> HIDE DEF m, gs, M, E, X
    <3>2. IsFilled(m, Grouping(m, E, {}, M), {})
      <4>1. {} \in SUBSET Glyph
        OBVIOUS
      <4> QED BY <1>2, <2>2, <4>1, GlyphsFilled
    <3> QED BY <3>1, <3>2
  <2> QED BY <2>1, <2>2
<1> HIDE DEF X, m
<1>5. PICK H : X = AnalysedContext(m, H, Segment) /\ IsFilled(m, H, {})
  BY <1>4
<1>6. X.info = m /\ X.groupings = H
  BY <1>5 DEF AnalysedContext
<1> QED BY <1>3, <1>5, <1>6 DEF X, i, Searchable
-----------------------------------------------------------------------------
(***************************************************************************)
(* A segmentation of filled groups passes the checks of the code.          *)
(***************************************************************************)
LEMMA FilledIsValid ==
  ASSUME NEW i, InfoOK(i), NEW G \in Groupings, G.unmapped \subseteq NonInitFontGlyphs(i),
         IsFilled(i, G, {})
  PROVE  ValidateSegmentation(i, ToGlyphSegmentation(i, G))
<1> DEFINE sg == ToGlyphSegmentation(i, G)
           all == NonEmptySegments(i)
<1>1. i \in Info /\ all \in SUBSET Segment
  BY DEF InfoOK, NonEmptySegments
<1>2. PICK entry : IsPlacement(entry, i, G)
  BY <1>1, EntriesOfConditions
<1> DEFINE D == DOMAIN entry
<1>3. /\ sg.entries = {entry[c] : c \in D}
      /\ D = {c \in GlyphCondition : PlacedBy(i, G, c) # {}}
      /\ \A c \in D : /\ entry[c].gids = PlacedBy(i, G, c)
                      /\ entry[c].condition.groups \subseteq c.groups
  BY <1>2 DEF IsPlacement
<1>4. sg.init = i.init.gids
  BY DEF ToGlyphSegmentation
<1> HIDE DEF sg, D
<1>5. \A c \in D : c \in GlyphCondition /\ c # NoCondition
  BY <1>3, NoConditionAssumption DEF GlyphCondition
<1>6. /\ G.post = G.pre
      /\ NonInitFontGlyphs(i) \subseteq Mapped(G.pre) \cup G.unmapped
      /\ \A g \in Mapped(G.pre) : /\ g \in NonInitFontGlyphs(i) \ G.unmapped
                                  /\ Enough(i, G.pre[g], g)
  BY DEF IsFilled, Plain
<1>7. OrSegments(all) \in GlyphCondition /\ OrSegments(all).groups = {all}
  BY <1>1, OrConditions
<1>8. ASSUME NEW c \in D, NEW g \in PlacedBy(i, G, c)
      PROVE  \/ g \in Mapped(G.pre) /\ G.pre[g] = c
             \/ g \in G.unmapped /\ c = OrSegments(all)
  BY <1>5, <1>6, <1>8 DEF PlacedBy, GlyphsOf, Mapped
<1> HIDE DEF all
<1>9. \A g \in NonInitFontGlyphs(i) : \E c \in D : g \in PlacedBy(i, G, c)
  <2> TAKE g \in NonInitFontGlyphs(i)
  <2>1. CASE g \in Mapped(G.pre)
    <3>1. G.pre[g] \in GlyphCondition
      BY <2>1 DEF Groupings, Table, Mapped
    <3>2. g \in PlacedBy(i, G, G.pre[g])
      BY <1>6, <2>1 DEF PlacedBy, GlyphsOf, Mapped
    <3> QED BY <1>3, <3>1, <3>2
  <2>2. CASE g \in G.unmapped
    <3>1. g \in PlacedBy(i, G, OrSegments(all))
      BY <2>2 DEF PlacedBy, all
    <3> QED BY <1>3, <1>7, <3>1
  <2> QED BY <1>6, <2>1, <2>2
<1>10. \A c \in D : PlacedBy(i, G, c) \subseteq NonInitFontGlyphs(i)
  BY <1>6, <1>8
<1>11. UNION {e.gids : e \in sg.entries} = NonInitFontGlyphs(i)
  BY <1>3, <1>9, <1>10
<1>12. \A e, f \in sg.entries : e # f => e.gids \cap f.gids = {}
  <2> SUFFICES ASSUME NEW c \in D, NEW d \in D, c # d
               PROVE  PlacedBy(i, G, c) \cap PlacedBy(i, G, d) = {}
    BY <1>3
  <2> QED BY <1>6, <1>8
<1>13. \A e \in sg.entries : \A h \in e.condition.groups :
          ~HasAdditionalConditions(i, h, e.gids)
  <2> SUFFICES ASSUME NEW c \in D, NEW h \in c.groups, NEW g \in PlacedBy(i, G, c)
               PROVE  g \notin Closure(i.font, ExceptSegments(i, h))
    BY <1>3 DEF HasAdditionalConditions
  <2>1. h \in SUBSET Segment
    BY <1>5 DEF GlyphCondition, Condition, Group
  <2>2. ExceptSegments(i, h) = CombinedDefinition(i, Segment \ h)
    BY <2>1, ExceptIsOthers
  <2>3. CASE g \in Mapped(G.pre) /\ G.pre[g] = c
    BY <1>6, <2>2, <2>3 DEF Enough, BroughtByNoOther
  <2>4. CASE g \in G.unmapped /\ c = OrSegments(all)
    <3>1. h = all
      BY <1>7, <2>4
    <3>2. ~BroughtBy(i, g, {})
      BY <2>4, NothingBringsNothing DEF NonInitFontGlyphs
    <3>3. /\ Segment \ h \in SUBSET Segment /\ {} \in SUBSET Segment
          /\ (Segment \ h) \cap NonEmptySegments(i) \subseteq {}
      BY <3>1 DEF all
    <3>4. Closure(i.font, CombinedDefinition(i, Segment \ h))
             \subseteq Closure(i.font, CombinedDefinition(i, {}))
      BY <1>1, <3>3, BringsMonotone
    <3> QED BY <2>2, <3>2, <3>4 DEF BroughtBy
  <2> QED BY <1>8, <2>3, <2>4
<1> QED BY <1>4, <1>11, <1>12, <1>13 DEF ValidateSegmentation, NonInitFontGlyphs, sg

-----------------------------------------------------------------------------
(***************************************************************************)
(* A request where segments are merged but nothing is moved into the       *)
(* initial font and no patches are combined.  The settings do not change   *)
(* while the segmentation is made.                                         *)
(***************************************************************************)
PlainRequest ==
    /\ info.handling # "MOVE_TO_INIT_FONT"
    /\ \A k \in DOMAIN mergers : /\ ~mergers[k].strategy.init_moves
                                 /\ ~mergers[k].strategy.patch_merges

PlainInv == PlainRequest => IsFilled(info, groupings, {})

(***************************************************************************)
(* The first grouping of a plain request is filled.                        *)
(***************************************************************************)
LEMMA InitPlain == ASSUME Init PROVE PlainInv
<1>1. PICK f \in Font, r \in Input :
         context = InitializeSegmentationContext(f, r.segments, r.init, r.handling)
  BY DEF Init
<1>2. RequestOK(r)
  BY InputAssumption
<1> DEFINE i == CreateInfo(f, r.segments, r.init, r.handling)
           H == Grouping(i, NoGroupings, NonInitFontGlyphs(i), {})
<1>3. InfoOK(i) /\ context = AnalysedContext(i, H, Segment)
  BY <1>1, <1>2, CreatedContext DEF RequestOK
<1> HIDE DEF i
<1>4. IsFilled(i, H, {})
  BY <1>3, InitialFilled
<1> HIDE DEF H
<1>5. info = i /\ groupings = H
  BY <1>3 DEF AnalysedContext, info, groupings
<1> QED BY <1>4, <1>5 DEF PlainInv

(***************************************************************************)
(* No step changes the strategy of a merger.                               *)
(***************************************************************************)
LEMMA StrategiesKept ==
  ASSUME IInv, Step
  PROVE  /\ DOMAIN mergers' = DOMAIN mergers
         /\ \A k \in DOMAIN mergers : mergers'[k].strategy = mergers[k].strategy
<1>1. mergers \in Seq(Merger) /\ \A k \in DOMAIN mergers : mergers[k] \in Merger
  BY DEF IInv, MergersOK
<1>2. ASSUME NEW k \in DOMAIN mergers, NEW m, mergers' = [mergers EXCEPT ![k] = m],
             m.strategy = mergers[k].strategy
      PROVE  /\ DOMAIN mergers' = DOMAIN mergers
             /\ \A l \in DOMAIN mergers : mergers'[l].strategy = mergers[l].strategy
  BY <1>1, <1>2
<1>3. \A m \in Merger : \A ctx : Recomputed(m, ctx).strategy = m.strategy
  BY DEF Recomputed, Merger
<1>4. \A m \in Merger : \A cs : [m EXCEPT !.candidates = cs].strategy = m.strategy
  BY DEF Merger
<1>5. \A m \in Merger : \A gs : [m EXCEPT !.patch_glyphs = gs].strategy = m.strategy
  BY DEF Merger
<1>6. CASE MoveBatch \/ MoveOne
  <2>1. /\ merger_index \in DOMAIN mergers
        /\ mergers' = [mergers EXCEPT ![merger_index] =
                          Recomputed(mergers[merger_index], context')]
    BY <1>6 DEF MoveBatch, MoveOne, Moving, ApplyInitFontMove
  <2> QED BY <1>1, <1>2, <1>3, <2>1
<1>7. CASE EndInitMoves
  BY <1>1, <1>3, <1>7 DEF EndInitMoves
<1>8. CASE MergeSegment
  <2>1. PICK cs : /\ merger_index \in DOMAIN mergers
                  /\ mergers' = [mergers EXCEPT ![merger_index] =
                                    [mergers[merger_index] EXCEPT !.candidates = cs]]
    BY <1>8 DEF MergeSegment, InMergeLoop
  <2> QED BY <1>1, <1>2, <1>4, <2>1
<1>9. CASE MarkFinished
  <2>1. PICK cs : /\ merger_index \in DOMAIN mergers
                  /\ mergers' = [mergers EXCEPT ![merger_index] =
                                    [mergers[merger_index] EXCEPT !.candidates = cs]]
    BY <1>9 DEF MarkFinished, InMergeLoop
  <2> QED BY <1>1, <1>2, <1>4, <2>1
<1>10. CASE EndPatchBase
  <2>1. PICK gs : /\ merger_index \in DOMAIN mergers
                  /\ mergers' = [mergers EXCEPT ![merger_index] =
                                    [mergers[merger_index] EXCEPT !.patch_glyphs = gs]]
    BY <1>10 DEF EndPatchBase, PatchMerging, InMergeLoop
  <2> QED BY <1>1, <1>2, <1>5, <2>1
<1>11. CASE EndBatch \/ NextInitMover \/ MoveFallbackGlyphs \/ MergePatch \/ NextMerger
  BY <1>11 DEF EndBatch, NextInitMover, MoveFallbackGlyphs, MergePatch, NextMerger
<1> QED BY <1>6, <1>7, <1>8, <1>9, <1>10, <1>11 DEF Step, InitMoves, Merges

(***************************************************************************)
(* Each step of a plain request keeps its groups filled.                   *)
(***************************************************************************)
LEMMA NextPlain == ASSUME IInv, PlainInv, [Next]_vars PROVE PlainInv'
<1>1. CASE UNCHANGED vars
  BY <1>1 DEF vars, PlainInv, PlainRequest, info, groupings
<1>2. CASE Finished
  BY <1>1, <1>2 DEF Finished
<1>3. CASE Step
  <2> SUFFICES ASSUME PlainRequest' PROVE IsFilled(info, groupings, {})'
    BY DEF PlainInv
  <2>1. \A k \in DOMAIN mergers : /\ ~mergers[k].strategy.init_moves
                                  /\ ~mergers[k].strategy.patch_merges
    BY <1>3, StrategiesKept DEF PlainRequest
  <2>2. ASSUME info'.handling = info.handling PROVE IsFilled(info, groupings, {})
    BY <2>1, <2>2 DEF PlainRequest, PlainInv
  <2>3. CASE context' = context
    BY <2>2, <2>3 DEF info, groupings
  <2>4. CASE MoveBatch \/ MoveOne \/ MergePatch
    <3>1. merger_index \in DOMAIN mergers
      BY <2>4 DEF MoveBatch, MoveOne, Moving, MergePatch, PatchMerging, InMergeLoop
    <3>2. merger.strategy.init_moves \/ merger.strategy.patch_merges
      BY <2>4 DEF MoveBatch, MoveOne, MergePatch, PatchMerging
    <3> QED BY <2>1, <3>1, <3>2 DEF merger
  <2>5. CASE MergeSegment
    <3>1. PICK to_merge \in ExclusivePartners \cup CompositePartners :
             context' = MergeSegments(context, Base, to_merge)
      BY <2>5 DEF MergeSegment
    <3>2. Base \in Segment /\ to_merge \in SUBSET Segment
      BY <2>5, MergesAreOfSegments DEF MergeSegment
    <3> DEFINE after == MergeSegments(context, Base, to_merge)
    <3>3. ContextOK(context)
      BY DEF IInv
    <3>4. after.info.handling = context.info.handling
      <4>1. /\ InfoOK(context.info)
            /\ context = AnalysedContext(context.info, context.groupings, Segment)
        BY <3>3 DEF ContextOK
      <4>2. after.info = MergeDefinitions(context.info, Base, to_merge)
        BY <3>2, <3>3, MergedInfo
      <4> QED BY <3>2, <4>1, <4>2, MergedFields DEF InfoOK
    <3>5. IsFilled(context.info, context.groupings, {})
      BY <2>2, <3>1, <3>4 DEF info, groupings
    <3>6. IsFilled(after.info, after.groupings, {})
      BY <3>2, <3>3, <3>5, MergeFilled
    <3> HIDE DEF after
    <3>7. context' = after
      BY <3>1 DEF after
    <3> QED BY <3>6, <3>7 DEF info, groupings
  <2>6. CASE MoveFallbackGlyphs
    <3>1. context' = MoveFallback(context)
      BY <2>6 DEF MoveFallbackGlyphs
    <3>2. CASE context.info.handling = "MOVE_TO_INIT_FONT" /\ context.groupings.unmapped # {}
      <4> DEFINE i == context.info
                 d == i.init
                 def == [d EXCEPT !.gids = @ \cup context.groupings.unmapped]
      <4>1. InfoOK(i) /\ context = AnalysedContext(i, context.groupings, Segment)
            /\ context.groupings.unmapped \in SUBSET Glyph
        BY DEF IInv, ContextOK, InGroups, Groupings
      <4>2. d \in Definition
        BY <4>1 DEF InfoOK, Info
      <4>3. context' = ReassignInitSubset(context, def)
        BY <3>1, <3>2 DEF MoveFallback
      <4> HIDE DEF d, i
      <4>4. def \in Definition /\ d.codepoints = def.codepoints
            /\ d.gids \subseteq def.gids
        BY <4>1, <4>2 DEF Definition
      <4> HIDE DEF def
      <4>5. \E H : context' = AnalysedContext(MovedInfo(i, def), H, Segment)
        BY <4>1, <4>3, <4>4, MovedContext DEF d
      <4>6. context'.info = MovedInfo(i, def)
        BY <4>5 DEF AnalysedContext
      <4>7. MovedInfo(i, def).handling = i.handling
        BY <4>1, <4>4, MovedIsOK DEF d
      <4> QED BY <3>2, <4>6, <4>7 DEF PlainRequest, info, i
    <3> QED BY <2>3, <3>1, <3>2 DEF MoveFallback
  <2> QED BY <1>3, <2>3, <2>4, <2>5, <2>6
       DEF Step, InitMoves, Merges, EndBatch, NextInitMover, EndInitMoves,
           MarkFinished, EndPatchBase, NextMerger
<1> QED BY <1>1, <1>2, <1>3 DEF Next

(***************************************************************************)
(* The groups of a plain request are filled at any time.                   *)
(***************************************************************************)
LEMMA PlainStaysFilled == Spec => []PlainInv
<1>1. Init => PlainInv
  BY InitPlain
<1>2. IInv /\ PlainInv /\ [Next]_vars => PlainInv'
  BY NextPlain
<1> QED BY <1>1, <1>2, SegmentationStaysInOrder, PTL DEF Spec

(***************************************************************************)
(* Without moves into the initial font and without combined patches the    *)
(* segmentation passes the checks of the code at any time, whichever       *)
(* segments the mergers (merger.cc, candidate_merge.cc) choose to merge.   *)
(***************************************************************************)
THEOREM PlainIsValid == Spec => [](PlainRequest => SegmentationIsValid)
<1>1. IInv /\ PlainInv => (PlainRequest => SegmentationIsValid)
  <2> SUFFICES ASSUME IInv, IsFilled(info, groupings, {})
               PROVE  ValidateSegmentation(info, ToGlyphSegmentation(info, groupings))
    BY DEF PlainInv, SegmentationIsValid, segmentation
  <2>1. /\ InfoOK(info) /\ groupings \in Groupings
        /\ groupings.unmapped \subseteq NonInitFontGlyphs(info)
    BY DEF IInv, ContextOK, InGroups, info, groupings
  <2> QED BY <2>1, FilledIsValid
<1> QED BY <1>1, PlainStaysFilled, SegmentationStaysInOrder, PTL

(***************************************************************************)
(* And so it meets the glyph closure requirement (glyph_segmentation.h).   *)
(***************************************************************************)
THEOREM PlainMeetsRequirement == Spec => [](PlainRequest => ClosureRequirement)
<1> QED BY PlainIsValid, ChecksAreEnough, PTL

(***************************************************************************)
(* Nor does any step of it end in an internal error of the condition       *)
(* indices, as long as conditions are only searched for segments that do   *)
(* not overlap (glyph_groupings.cc, FindFallbackGlyphConditions).          *)
(***************************************************************************)
THEOREM PlainHasNoError ==
  Spec => [](PlainRequest /\ Searchable(info) => NoInternalError)
<1>1. PlainInv => (PlainRequest /\ Searchable(info) => NoInternalError)
  BY DEF PlainInv, IsFilled, NoInternalError
<1> QED BY <1>1, PlainStaysFilled, PTL
-----------------------------------------------------------------------------
(***************************************************************************)
(* What a merge of the segments M into base comes to.  Any segments        *)
(* define afterwards what the segments defined that they stand for; and    *)
(* the segments that were needed for a glyph, or gave it, still do, with   *)
(* the base in place of those of M.                                        *)
(***************************************************************************)
StandsFor(T, base, M) == IF base \in T THEN T \cup M ELSE T \ M

DefinesForMerged(i, m, base, M) ==
    \A T \in SUBSET Segment :
        CombinedDefinition(m, T) = CombinedDefinition(i, StandsFor(T, base, M))

BaseTakesPart(A, B, base, M) == /\ B \ {base} = A \ M
                                /\ base \in B \/ A \cap M = {}

IsMergeOf(i, m, base, M) ==
    /\ InfoOK(i) /\ InfoOK(m) /\ m.font = i.font /\ m.init = i.init
    /\ base \in M /\ M \in SUBSET Segment
    /\ \A s \in M : i.segments[s] \subseteq m.segments[base]
    /\ \A s \in Segment \ M : m.segments[s] = i.segments[s]
    /\ DefinesForMerged(i, m, base, M)
    /\ \A g : /\ BaseTakesPart(Needing(i, g, Segment), Needing(m, g, Segment), base, M)
              /\ BaseTakesPart(Giving(i, g, Segment), Giving(m, g, Segment), base, M)

LEMMA MergeIsMerge ==
  ASSUME NEW i, InfoOK(i), NEW base \in Segment, NEW to_merge \in SUBSET Segment
  PROVE  IsMergeOf(i, MergeDefinitions(i, base, to_merge), base, to_merge \cup {base})
<1> DEFINE m == MergeDefinitions(i, base, to_merge)
           M == to_merge \cup {base}
<1>1. i \in Info
  BY DEF InfoOK
<1>2. DefinesForMerged(i, m, base, M)
  <2> SUFFICES ASSUME NEW T \in SUBSET Segment
               PROVE  CombinedDefinition(m, T) = CombinedDefinition(i, StandsFor(T, base, M))
    BY DEF DefinesForMerged
  <2>1. CombinedDefinition(m, T)
           = CombinedDefinition(i, IF base \in T THEN T \cup to_merge ELSE T \ to_merge)
    BY <1>1, MergedDefinition
  <2>2. StandsFor(T, base, M) = IF base \in T THEN T \cup to_merge ELSE T \ to_merge
    BY DEF StandsFor
  <2> HIDE DEF m, M
  <2> QED BY <2>1, <2>2
<1>3. InfoOK(m)
  BY MergedInfoOK
<1>4. /\ m.font = i.font /\ m.init = i.init
      /\ m.segments[base] = UNION {i.segments[t] : t \in M}
      /\ \A s \in Segment \ M : m.segments[s] = i.segments[s]
  BY <1>1, MergedFields
<1>5. \A g : /\ Needing(m, g, Segment) \ {base} = Needing(i, g, Segment) \ M
             /\ Giving(m, g, Segment) \ {base} = Giving(i, g, Segment) \ M
             /\ base \in Needing(m, g, Segment) \/ Needing(i, g, Segment) \cap M = {}
             /\ base \in Giving(m, g, Segment) \/ Giving(i, g, Segment) \cap M = {}
  BY NeededAfterMerge
<1>6. base \in M /\ M \in SUBSET Segment
  OBVIOUS
<1> HIDE DEF m, M
<1>7. \A s \in M : i.segments[s] \subseteq m.segments[base]
  BY <1>4
<1>8. IsMergeOf(i, m, base, M)
  BY <1>2, <1>3, <1>4, <1>5, <1>6, <1>7 DEF IsMergeOf, BaseTakesPart
<1> QED BY <1>8 DEF m, M

(***************************************************************************)
(* The segments of i that a client has asked for with the segments ss of   *)
(* m: those that it stands for are among them.                             *)
(***************************************************************************)
Former(i, m, ss) ==
    {s \in NonEmptySegments(i) : i.segments[s] \subseteq UNION {m.segments[t] : t \in ss}}

LEMMA StandsForFormer ==
  ASSUME NEW i, NEW m, NEW base, NEW M, IsMergeOf(i, m, base, M),
         NEW ss \in SUBSET Segment
  PROVE  /\ (ss \ M) \cap NonEmptySegments(i) \subseteq Former(i, m, ss)
         /\ base \in ss => M \cap NonEmptySegments(i) \subseteq Former(i, m, ss)
<1>1. ASSUME NEW s \in (ss \ M) \cap NonEmptySegments(i) PROVE s \in Former(i, m, ss)
  <2>1. m.segments[s] = i.segments[s]
    BY <1>1 DEF IsMergeOf
  <2> QED BY <1>1, <2>1 DEF Former
<1>2. ASSUME base \in ss, NEW s \in M \cap NonEmptySegments(i)
      PROVE  s \in Former(i, m, ss)
  <2>1. i.segments[s] \subseteq m.segments[base]
    BY <1>2 DEF IsMergeOf
  <2> QED BY <1>2, <2>1 DEF Former
<1> QED BY <1>1, <1>2

\* a segment that is needed, or that gives something, is not empty
LEMMA NeededNotEmpty ==
  ASSUME NEW i, InfoOK(i), NEW g
  PROVE  /\ Needing(i, g, Segment) \subseteq NonEmptySegments(i)
         /\ Giving(i, g, Segment) \subseteq NonEmptySegments(i)
BY NothingFromEmpty DEF Needing, Giving, NonEmptySegments
(***************************************************************************)
(* The condition that a glyph is grouped by when nothing is combined: all  *)
(* of the segments that it needs, or a disjunction that brings it.         *)
(***************************************************************************)
IsOwnCondition(i, c, g) ==
    \/ Needing(i, g, Segment) # {} /\ c.groups = Each(Needing(i, g, Segment))
    \/ IsDisjunctionFor(i, c, g)

LEMMA AnalysedIsOwn ==
  ASSUME NEW i, InfoOK(i), NEW g, ~IsAlwaysTrue(ConditionOn(i, g, Segment))
  PROVE  IsOwnCondition(i, ConditionOn(i, g, Segment), g)
<1>1. CASE Needing(i, g, Segment) # {}
  BY <1>1, NeededGroups DEF IsOwnCondition
<1>2. CASE Needing(i, g, Segment) = {}
  <2>1. PICK ss \in SUBSET Segment : ConditionOn(i, g, Segment) = OrSegments(ss)
    BY <1>2, NeededOrGiven
  <2>2. IsDisjunctionFor(i, OrSegments(ss), g)
    BY <2>1, DisjunctionGives
  <2> QED BY <2>1, <2>2 DEF IsOwnCondition
<1> QED BY <1>1, <1>2

(***************************************************************************)
(* A glyph that needs segments after the merge: all of those that it       *)
(* needed were asked for, or one that brought it was.                      *)
(***************************************************************************)
LEMMA NeededWasAskedFor ==
  ASSUME NEW i, NEW m, NEW base, NEW M, IsMergeOf(i, m, base, M), NEW g, NEW c,
         IsOwnCondition(i, c, g), NEW ss \in SUBSET Segment,
         Needing(m, g, Segment) # {}, Needing(m, g, Segment) \subseteq ss
  PROVE  Holds(c, Former(i, m, ss))
<1> DEFINE A == Needing(i, g, Segment)
           B == Needing(m, g, Segment)
<1>1. /\ InfoOK(i) /\ i \in Info /\ M \in SUBSET Segment /\ base \in M
      /\ B \ {base} = A \ M /\ (base \in B \/ A \cap M = {})
  BY DEF IsMergeOf, BaseTakesPart, InfoOK
<1>2. /\ (ss \ M) \cap NonEmptySegments(i) \subseteq Former(i, m, ss)
      /\ base \in ss => M \cap NonEmptySegments(i) \subseteq Former(i, m, ss)
  BY StandsForFormer
<1>3. CASE A # {} /\ c.groups = Each(A)
  <2>1. A \subseteq NonEmptySegments(i)
    BY <1>1, NeededNotEmpty
  <2> HIDE DEF A, B
  <2>2. A \subseteq Former(i, m, ss)
    <3>1. B \subseteq ss
      BY DEF B
    <3> QED BY <1>1, <1>2, <2>1, <3>1
  <2> QED BY <1>3, <2>2 DEF Holds, HoldsFor, Each
<1>4. CASE IsDisjunctionFor(i, c, g)
  <2>1. A = {} /\ B = {base} /\ base \in ss
    BY <1>1, <1>4 DEF IsDisjunctionFor
  <2>2. PICK h \in SUBSET Segment : c.groups = {h} /\ BroughtBy(i, g, h)
    BY <1>4 DEF IsDisjunctionFor
  <2>3. h \cap Former(i, m, ss) # {}
    <3> SUFFICES ASSUME h \cap Former(i, m, ss) = {} PROVE FALSE
      OBVIOUS
    <3>1. h \cap NonEmptySegments(i) \subseteq Segment \ M
      BY <1>2, <2>1
    <3>2. Closure(i.font, CombinedDefinition(i, h))
             \subseteq Closure(i.font, CombinedDefinition(i, Segment \ M))
      BY <1>1, <3>1, BringsMonotone
    <3>3. CombinedDefinition(m, Segment \ {base}) = CombinedDefinition(i, Segment \ M)
      <4>1. /\ Segment \ {base} \in SUBSET Segment
            /\ StandsFor(Segment \ {base}, base, M) = Segment \ M
        BY <1>1 DEF StandsFor
      <4> QED BY <4>1 DEF IsMergeOf, DefinesForMerged
    <3>4. g \notin Closure(m.font, CombinedDefinition(m, Segment \ {base}))
      BY <2>1 DEF Needing, Needs
    <3>5. m.font = i.font
      BY DEF IsMergeOf
    <3> QED BY <2>2, <3>2, <3>3, <3>4, <3>5 DEF BroughtBy
  <2> QED BY <2>2, <2>3 DEF Holds, HoldsFor
<1> QED BY <1>3, <1>4 DEF IsOwnCondition

(***************************************************************************)
(* A glyph that a segment gives after the merge: one of those that its     *)
(* disjunction was enough with was asked for.                              *)
(***************************************************************************)
LEMMA GivenWasAskedFor ==
  ASSUME NEW i, NEW m, NEW base, NEW M, IsMergeOf(i, m, base, M), NEW g, NEW c,
         IsOwnCondition(i, c, g), Enough(i, c, g), NEW ss \in SUBSET Segment,
         Needing(m, g, Segment) = {}, NEW t \in ss, Gives(m, g, t)
  PROVE  Holds(c, Former(i, m, ss))
<1>1. /\ InfoOK(i) /\ i \in Info /\ M \in SUBSET Segment /\ base \in M /\ m.font = i.font
  BY DEF IsMergeOf, InfoOK
<1>2. Needing(i, g, Segment) = {}
  <2> DEFINE A == Needing(i, g, Segment)
             B == Needing(m, g, Segment)
  <2>1. B \ {base} = A \ M /\ (base \in B \/ A \cap M = {}) /\ B = {}
    BY DEF IsMergeOf, BaseTakesPart
  <2> HIDE DEF A, B
  <2>2. A = {}
    BY <2>1
  <2> QED BY <2>2 DEF A
<1>3. PICK h \in SUBSET Segment : c.groups = {h}
  BY <1>2 DEF IsOwnCondition, IsDisjunctionFor
<1>4. /\ (ss \ M) \cap NonEmptySegments(i) \subseteq Former(i, m, ss)
      /\ base \in ss => M \cap NonEmptySegments(i) \subseteq Former(i, m, ss)
  BY StandsForFormer
<1> DEFINE V == StandsFor({t}, base, M)
<1>5. V = IF base = t THEN {t} \cup M ELSE {t} \ M
  BY DEF StandsFor
<1>6. V \in SUBSET Segment /\ V \cap NonEmptySegments(i) \subseteq Former(i, m, ss)
  <2> HIDE DEF V
  <2> QED BY <1>1, <1>4, <1>5
<1>7. h \cap Former(i, m, ss) # {}
  <2> SUFFICES ASSUME h \cap Former(i, m, ss) = {} PROVE FALSE
    OBVIOUS
  <2>1. CombinedDefinition(m, {t}) = CombinedDefinition(i, V)
    <3>1. {t} \in SUBSET Segment
      OBVIOUS
    <3> QED BY <3>1 DEF IsMergeOf, DefinesForMerged
  <2> HIDE DEF V
  <2>2. V \cap NonEmptySegments(i) \subseteq Segment \ h
    BY <1>6
  <2>3. Closure(i.font, CombinedDefinition(i, V))
           \subseteq Closure(i.font, CombinedDefinition(i, Segment \ h))
    BY <1>1, <1>6, <2>2, BringsMonotone
  <2>4. g \in Closure(i.font, CombinedDefinition(i, V))
    BY <1>1, <2>1 DEF Gives
  <2> QED BY <1>3, <2>3, <2>4 DEF Enough, BroughtByNoOther
<1> QED BY <1>3, <1>7 DEF Holds, HoldsFor

(***************************************************************************)
(* A glyph whose analysed condition was enough is not left over by the     *)
(* merge.                                                                  *)
(***************************************************************************)
LEMMA NotLeftOverByMerge ==
  ASSUME NEW i, NEW m, NEW base, NEW M, IsMergeOf(i, m, base, M), NEW g,
         Enough(i, ConditionOn(i, g, Segment), g)
  PROVE  ~IsLeftOver(m, g)
<1> SUFFICES ASSUME IsLeftOver(m, g) PROVE FALSE
  OBVIOUS
<1> DEFINE A == Needing(i, g, Segment)
           B == Needing(m, g, Segment)
           D == Giving(i, g, Segment)
           E == Giving(m, g, Segment)
           T == Segment \ E
           V == StandsFor(T, base, M)
<1>1. /\ InfoOK(i) /\ i \in Info /\ M \in SUBSET Segment /\ base \in M /\ m.font = i.font
      /\ B \ {base} = A \ M /\ (base \in B \/ A \cap M = {})
      /\ E \ {base} = D \ M /\ (base \in E \/ D \cap M = {})
      /\ D \subseteq Segment
  BY DEF IsMergeOf, BaseTakesPart, InfoOK, Giving
<1>2. B = {}
  BY DEF IsLeftOver
<1>3. V = IF base \in T THEN T \cup M ELSE T \ M
  BY DEF StandsFor
<1>4. V \in SUBSET Segment
  <2> HIDE DEF V
  <2> QED BY <1>1, <1>3
<1>5. V \cap D = {}
  <2> HIDE DEF V, D, E, A, B
  <2> QED BY <1>1, <1>3
<1>6. A = {}
  <2> HIDE DEF A, B
  <2> QED BY <1>1, <1>2
<1>7. ConditionOn(i, g, Segment).groups = {D}
  <2>1. D # {}
    BY <1>6, NoGroups DEF Enough, IsAlwaysTrue
  <2> QED BY <1>6, <2>1, GivenGroups
<1>8. g \notin Closure(i.font, CombinedDefinition(i, Segment \ D))
  BY <1>7 DEF Enough, BroughtByNoOther
<1>9. CombinedDefinition(m, T) = CombinedDefinition(i, V)
  <2>1. T \in SUBSET Segment
    OBVIOUS
  <2> QED BY <2>1 DEF IsMergeOf, DefinesForMerged
<1>10. g \in Closure(m.font, CombinedDefinition(m, T))
  BY DEF IsLeftOver, BroughtByNoOther
<1> HIDE DEF V, D, T
<1>11. V \cap NonEmptySegments(i) \subseteq Segment \ D
  BY <1>4, <1>5
<1>12. Closure(i.font, CombinedDefinition(i, V))
          \subseteq Closure(i.font, CombinedDefinition(i, Segment \ D))
  BY <1>1, <1>4, <1>11, BringsMonotone
<1> QED BY <1>1, <1>8, <1>9, <1>10, <1>12
(***************************************************************************)
(* The groups before and after a merge.  A glyph that is grouped by its    *)
(* analysed condition is loaded only where it was loaded before, or was    *)
(* left over before; and none is left over that was not.                   *)
(***************************************************************************)
CoarsensOnly(i, G, m, H) ==
    /\ H.unmapped \subseteq G.unmapped
    /\ \A ss \in SUBSET Segment :
          OwnPatches(H, ss) \ H.found \subseteq
              G.unmapped \cup OwnPatches(G, Former(i, m, ss))

LEMMA GroupsCoarsened ==
  ASSUME NEW i, NEW m, NEW base, NEW M, IsMergeOf(i, m, base, M),
         NonInitFontGlyphs(i) = NonInitFontGlyphs(m),
         m.handling = i.handling, m.disjoint = i.disjoint,
         NEW G, InGroups(i, ConditionOf(i), G, {}), IsFilled(i, G, {}),
         NEW H, InGroups(m, ConditionOf(m), H, {}), IsFilled(m, H, {}), NoneLeftOver(m, H)
  PROVE  CoarsensOnly(i, G, m, H)
<1>0. InfoOK(i) /\ InfoOK(m)
  BY DEF IsMergeOf
<1>1. /\ NonInitFontGlyphs(i) \subseteq Mapped(G.pre) \cup G.unmapped
      /\ \A g \in Mapped(G.pre) : Enough(i, G.pre[g], g)
      /\ \A g \in G.found \cap Mapped(G.pre) : IsDisjunctionFor(i, G.pre[g], g)
      /\ G.found # {} => i.handling = "FIND_CONDITIONS" /\ i.disjoint
      /\ \A g \in Mapped(G.pre) \ G.found : G.pre[g] = ConditionOn(i, g, Segment)
  BY ConditionOfGlyphs DEF IsFilled, RestIsLeftOver, InGroups, GroupsFollow, Mapped
<1>2. /\ \A g \in Mapped(H.pre) : g \in NonInitFontGlyphs(m) /\ Enough(m, H.pre[g], g)
      /\ \A g \in H.unmapped : IsLeftOver(m, g) /\ g \in NonInitFontGlyphs(m)
      /\ \A g \in Mapped(H.pre) \ H.found : H.pre[g] = ConditionOn(m, g, Segment)
  BY ConditionOfGlyphs DEF IsFilled, RestIsLeftOver, InGroups, GroupsFollow, Mapped
<1>3. \A g \in Mapped(G.pre) : IsOwnCondition(i, G.pre[g], g)
  <2> TAKE g \in Mapped(G.pre)
  <2>1. CASE g \in G.found
    BY <1>1, <2>1 DEF IsOwnCondition
  <2>2. CASE g \notin G.found
    <3>1. /\ G.pre[g] = ConditionOn(i, g, Segment)
          /\ ~IsAlwaysTrue(ConditionOn(i, g, Segment))
      BY <1>1, <2>2 DEF Enough
    <3> QED BY <1>0, <3>1, AnalysedIsOwn
  <2> QED BY <2>1, <2>2
<1>4. H.unmapped \subseteq G.unmapped
  <2> SUFFICES ASSUME NEW g \in H.unmapped, g \notin G.unmapped PROVE FALSE
    OBVIOUS
  <2>1. g \in Mapped(G.pre) \ G.found
    BY <1>1, <1>2 DEF NoneLeftOver
  <2>2. Enough(i, ConditionOn(i, g, Segment), g)
    BY <1>1, <2>1
  <2>3. ~IsLeftOver(m, g)
    BY <2>2, NotLeftOverByMerge
  <2> QED BY <1>2, <2>3
<1>5. ASSUME NEW ss \in SUBSET Segment, NEW g \in OwnPatches(H, ss) \ H.found,
             g \notin G.unmapped
      PROVE  g \in OwnPatches(G, Former(i, m, ss))
  <2>1. /\ g \in Mapped(H.pre) \ H.found /\ g \in NonInitFontGlyphs(m)
        /\ Holds(ConditionOn(m, g, Segment), ss)
        /\ ~IsAlwaysTrue(ConditionOn(m, g, Segment))
    BY <1>2, <1>5 DEF OwnPatches, Enough
  <2>2. g \in Mapped(G.pre) /\ Enough(i, G.pre[g], g) /\ IsOwnCondition(i, G.pre[g], g)
    BY <1>1, <1>3, <1>5, <2>1
  <2>3. CASE Needing(m, g, Segment) # {}
    <3>1. ConditionOn(m, g, Segment).groups = Each(Needing(m, g, Segment))
      BY <2>3, NeededGroups
    <3>2. Needing(m, g, Segment) \subseteq ss
      <4>1. \A s \in Needing(m, g, Segment) : {s} \in Each(Needing(m, g, Segment))
        BY DEF Each
      <4>2. \A h \in Each(Needing(m, g, Segment)) : h \cap ss # {}
        BY <2>1, <3>1 DEF Holds, HoldsFor
      <4> QED BY <4>1, <4>2
    <3>3. Holds(G.pre[g], Former(i, m, ss))
      BY <2>2, <2>3, <3>2, NeededWasAskedFor
    <3> QED BY <2>2, <3>3 DEF OwnPatches
  <2>4. CASE Needing(m, g, Segment) = {}
    <3>1. ConditionOn(m, g, Segment).groups = {Giving(m, g, Segment)}
      <4>1. Giving(m, g, Segment) # {}
        BY <2>1, <2>4, NoGroups DEF IsAlwaysTrue
      <4> QED BY <2>4, <4>1, GivenGroups
    <3>2. PICK t \in ss : Gives(m, g, t)
      BY <2>1, <3>1 DEF Holds, HoldsFor, Giving
    <3>3. Holds(G.pre[g], Former(i, m, ss))
      BY <2>2, <2>4, <3>2, GivenWasAskedFor
    <3> QED BY <2>2, <3>3 DEF OwnPatches
  <2> QED BY <2>3, <2>4
<1> QED BY <1>4, <1>5 DEF CoarsensOnly

LEMMA MergeCoarsens ==
  ASSUME NEW ctx, ContextOK(ctx), IsFilled(ctx.info, ctx.groupings, {}),
         NEW base \in Segment, NEW to_merge \in SUBSET Segment
  PROVE  LET after == MergeSegments(ctx, base, to_merge)
         IN  CoarsensOnly(ctx.info, ctx.groupings, after.info, after.groupings)
<1> DEFINE after == MergeSegments(ctx, base, to_merge)
           i == ctx.info
           m == MergeDefinitions(i, base, to_merge)
<1>1. after.info = m
  BY MergedInfo
<1>2. IsFilled(after.info, after.groupings, {})
  BY MergeFilled
<1>3. ContextOK(after)
  BY MergedContextOK
<1>4. InfoOK(i) /\ i \in Info /\ InGroups(i, ConditionOf(i), ctx.groupings, {})
  BY DEF ContextOK, InfoOK
<1>5. IsMergeOf(i, m, base, to_merge \cup {base})
  BY <1>4, MergeIsMerge
<1>6. /\ m.handling = i.handling /\ m.disjoint = i.disjoint
      /\ m.init = i.init /\ m.full_closure = i.full_closure
  BY <1>4, MergedFields
<1> HIDE DEF m, after
<1>7. NonInitFontGlyphs(i) = NonInitFontGlyphs(m)
  BY <1>6 DEF NonInitFontGlyphs
<1>8. InGroups(m, ConditionOf(m), after.groupings, {}) /\ NoneLeftOver(m, after.groupings)
  BY <1>1, <1>3 DEF ContextOK
<1> HIDE DEF i
<1>9. IsFilled(i, ctx.groupings, {})
  BY DEF i
<1>10. CoarsensOnly(i, ctx.groupings, m, after.groupings)
  BY <1>1, <1>2, <1>4, <1>5, <1>6, <1>7, <1>8, <1>9, GroupsCoarsened
<1> QED BY <1>1, <1>10 DEF i, after

(***************************************************************************)
(* Each step of the merge loop of a plain request only coarsens.           *)
(***************************************************************************)
LEMMA NextCoarsens ==
  ASSUME IInv, PlainInv, PlainRequest, [Next]_vars, phase = "merging"
  PROVE  MergeOnlyCoarsens
<1>1. IsFilled(info, groupings, {})
  BY DEF PlainInv
<1>2. ASSUME context' = context PROVE MergeOnlyCoarsens
  <2>1. info' = info /\ groupings' = groupings
    BY <1>2 DEF info, groupings
  <2>2. ASSUME NEW ss \in SUBSET NonEmptySegments(info')
        PROVE  OwnPatches(groupings', ss) \subseteq OwnPatches(groupings, FormerSegments(ss))
    <3>1. ss \subseteq FormerSegments(ss)
      BY <2>1 DEF FormerSegments
    <3>2. \A c : Holds(c, ss) => Holds(c, FormerSegments(ss))
      BY <3>1 DEF Holds, HoldsFor
    <3> QED BY <2>1, <3>2 DEF OwnPatches
  <2> QED BY <2>1, <2>2 DEF MergeOnlyCoarsens
<1>3. CASE MergeSegment
  <2>1. PICK to_merge \in ExclusivePartners \cup CompositePartners :
           context' = MergeSegments(context, Base, to_merge)
    BY <1>3 DEF MergeSegment
  <2>2. Base \in Segment /\ to_merge \in SUBSET Segment
    BY <1>3, MergesAreOfSegments DEF MergeSegment
  <2>3. ContextOK(context)
    BY DEF IInv
  <2>4. CoarsensOnly(info, groupings, info', groupings')
    BY <1>1, <2>1, <2>2, <2>3, MergeCoarsens DEF info, groupings
  <2>5. \A ss : FormerSegments(ss) = Former(info, info', ss)
    BY DEF FormerSegments, Former
  <2>6. NonEmptySegments(info') \subseteq Segment
    BY DEF NonEmptySegments
  <2> QED BY <2>4, <2>5, <2>6 DEF CoarsensOnly, MergeOnlyCoarsens
<1>4. CASE MergePatch
  <2>1. merger_index \in DOMAIN mergers /\ merger.strategy.patch_merges
    BY <1>4 DEF MergePatch, PatchMerging, InMergeLoop
  <2> QED BY <2>1 DEF PlainRequest, merger
<1>5. CASE UNCHANGED vars
  BY <1>2, <1>5 DEF vars
<1>6. CASE MarkFinished \/ EndPatchBase \/ NextMerger \/ Finished
  BY <1>2, <1>6 DEF MarkFinished, EndPatchBase, NextMerger, Finished, vars
<1>7. CASE InitMoves \/ MoveFallbackGlyphs
  BY <1>7 DEF InitMoves, MoveBatch, MoveOne, EndBatch, NextInitMover, EndInitMoves,
              Moving, MoveFallbackGlyphs
<1> QED BY <1>3, <1>4, <1>5, <1>6, <1>7 DEF Next, Step, Merges
(***************************************************************************)
(* A request that is plain stays so: no step changes a strategy, and only  *)
(* the moves into the initial font and the combined patches change more of *)
(* the settings than the segments.                                         *)
(***************************************************************************)
LEMMA PlainIsKept ==
  ASSUME IInv, PlainRequest, [Next]_vars
  PROVE  PlainRequest'
<1>1. ASSUME info'.handling = info.handling, UNCHANGED mergers \/ Step
      PROVE  PlainRequest'
  <2>1. /\ DOMAIN mergers' = DOMAIN mergers
        /\ \A k \in DOMAIN mergers : mergers'[k].strategy = mergers[k].strategy
    BY <1>1, StrategiesKept
  <2> QED BY <1>1, <2>1 DEF PlainRequest
<1>2. CASE UNCHANGED vars \/ Finished
  BY <1>1, <1>2 DEF Finished, vars, info
<1>3. CASE Step
  <2>1. CASE context' = context
    BY <1>1, <1>3, <2>1 DEF info
  <2>2. CASE MoveBatch \/ MoveOne \/ MergePatch
    <3>1. /\ merger_index \in DOMAIN mergers
          /\ merger.strategy.init_moves \/ merger.strategy.patch_merges
      BY <2>2 DEF MoveBatch, MoveOne, Moving, MergePatch, PatchMerging, InMergeLoop
    <3> QED BY <3>1 DEF PlainRequest, merger
  <2>3. CASE MergeSegment
    <3>1. PICK to_merge \in ExclusivePartners \cup CompositePartners :
             context' = MergeSegments(context, Base, to_merge)
      BY <2>3 DEF MergeSegment
    <3>2. Base \in Segment /\ to_merge \in SUBSET Segment
      BY <2>3, MergesAreOfSegments DEF MergeSegment
    <3>3. ContextOK(context) /\ context.info \in Info
      BY DEF IInv, ContextOK, InfoOK
    <3>4. info' = MergeDefinitions(info, Base, to_merge)
      BY <3>1, <3>2, <3>3, MergedInfo DEF info
    <3>5. MergeDefinitions(info, Base, to_merge).handling = info.handling
      BY <3>2, <3>3, MergedFields DEF info
    <3> QED BY <1>1, <1>3, <3>4, <3>5
  <2>4. CASE MoveFallbackGlyphs
    <3>1. context' = context
      BY <2>4 DEF MoveFallbackGlyphs, MoveFallback, PlainRequest, info
    <3> QED BY <2>1, <3>1
  <2> QED BY <1>3, <2>1, <2>2, <2>3, <2>4
       DEF Step, InitMoves, Merges, EndBatch, NextInitMover, EndInitMoves,
           MarkFinished, EndPatchBase, NextMerger
<1> QED BY <1>2, <1>3 DEF Next

(***************************************************************************)
(* The merges of a plain request only coarsen what was found before: they  *)
(* add no glyph to what a client loads for a merged segment, beyond what   *)
(* it would have loaded for all of the former segments, and leave none     *)
(* over (candidate_merge.cc, AssessSegmentMerge; segmentation_context.cc,  *)
(* ReprocessChanged).                                                      *)
(***************************************************************************)
THEOREM PlainMergesOnlyCoarsen == Spec /\ PlainRequest => MergesOnlyCoarsen
<1>1. IInv /\ PlainInv /\ PlainRequest /\ [Next]_vars
         => [phase = "merging" => MergeOnlyCoarsens]_vars
  BY NextCoarsens
<1>2. IInv /\ PlainRequest /\ [Next]_vars => PlainRequest'
  BY PlainIsKept
<1> QED BY <1>1, <1>2, PlainStaysFilled, SegmentationStaysInOrder, PTL
           DEF Spec, MergesOnlyCoarsen

=============================================================================
