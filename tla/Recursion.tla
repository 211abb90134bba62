----------------------------- MODULE Recursion -----------------------------
(***************************************************************************)
(* Why the recursive functions of the models exist.  A recursive           *)
(* definition stands for a function that satisfies its equation, if there  *)
(* is one.  Here the parts of the equation are functions, so the lemmas    *)
(* can be applied to any definition of the same form.                      *)
(***************************************************************************)
EXTENDS Naturals, FiniteSetTheorems, WellFoundedInduction, NaturalsInduction, TLAPS

(***************************************************************************)
(* A loop: go on with next until a state of stop is reached.  The equation *)
(* has a solution, also where the loop does not end: states which follow   *)
(* each other have the same final states.                                  *)
(***************************************************************************)
IsIteration(f, S, stop, next, out) ==
    \A x \in S : f[x] = IF x \in stop THEN out[x] ELSE f[next[x]]

(***************************************************************************)
(* A loop, ending or not, defines a function: what ExpandClosure and       *)
(* Completed rest on.                                                      *)
(***************************************************************************)
LEMMA IterationExists ==
  ASSUME NEW S, NEW V, NEW stop \in SUBSET S, NEW next \in [S -> S], NEW out \in [S -> V]
  PROVE  \E f \in [S -> V] : IsIteration(f, S, stop, next, out)
<1> DEFINE closed(C) == \A z \in C : z \notin stop => next[z] \in C
           orbit(x) == {y \in S : \A C \in SUBSET S : x \in C /\ closed(C) => y \in C}
           ends(x) == orbit(x) \cap stop
           f == [x \in S |-> IF ends(x) = {} THEN CHOOSE v \in V : TRUE
                             ELSE out[CHOOSE y \in ends(x) : TRUE]]
<1>1. ASSUME NEW x \in stop PROVE ends(x) = {x}
  <2>1. closed({x}) /\ {x} \in SUBSET S
    OBVIOUS
  <2>2. orbit(x) = {x}
    BY <2>1
  <2> QED BY <2>2
<1>2. ASSUME NEW x \in S, x \notin stop PROVE ends(x) = ends(next[x])
  <2>1. ASSUME NEW y \in orbit(next[x]) PROVE y \in orbit(x)
    <3> SUFFICES ASSUME NEW C \in SUBSET S, x \in C, closed(C) PROVE y \in C
      OBVIOUS
    <3>1. next[x] \in C
      BY <1>2
    <3> QED BY <2>1, <3>1
  <2>2. ASSUME NEW y \in orbit(x), y # x PROVE y \in orbit(next[x])
    <3> SUFFICES ASSUME NEW C \in SUBSET S, next[x] \in C, closed(C) PROVE y \in C
      OBVIOUS
    <3>1. closed(C \cup {x}) /\ C \cup {x} \in SUBSET S
      OBVIOUS
    <3>2. y \in C \cup {x}
      BY <2>2, <3>1
    <3> QED BY <2>2, <3>2
  <2> QED BY <1>2, <2>1, <2>2
<1>3. ASSUME NEW x \in S PROVE f[x] \in V
  <2>1. out[x] \in V
    OBVIOUS
  <2>2. CASE ends(x) = {}
    <3> HIDE DEF ends
    <3> QED BY <2>1, <2>2
  <2>3. CASE ends(x) # {}
    <3>1. ends(x) \subseteq S
      OBVIOUS
    <3> HIDE DEF ends
    <3>2. (CHOOSE y \in ends(x) : TRUE) \in S
      BY <2>3, <3>1
    <3> QED BY <2>3, <3>2
  <2> QED BY <2>2, <2>3
<1>4. ASSUME NEW x \in S PROVE f[x] = IF x \in stop THEN out[x] ELSE f[next[x]]
  <2>1. CASE x \in stop
    <3>1. ends(x) = {x}
      BY <1>1, <2>1
    <3> HIDE DEF ends
    <3>2. (CHOOSE y \in ends(x) : TRUE) = x
      BY <3>1
    <3> QED BY <2>1, <3>1, <3>2
  <2>2. CASE x \notin stop
    <3>1. ends(x) = ends(next[x]) /\ next[x] \in S
      BY <1>2, <2>2
    <3> HIDE DEF ends
    <3> QED BY <2>2, <3>1
  <2> QED BY <2>1, <2>2
<1>5. f \in [S -> V]
  <2> HIDE DEF ends
  <2> QED BY <1>3
<1> QED BY <1>4, <1>5 DEF IsIteration

(***************************************************************************)
(* One element of a finite set after the other: the value for a set comes  *)
(* from the value for the set without the element that is picked last, and *)
(* from the set itself.                                                    *)
(* The pairs that have to be in any graph closed under the equation are    *)
(* the graph of a function.                                                *)
(***************************************************************************)
IsSetRecursion(f, S, base, pick, step) ==
    \A T \in SUBSET S :
        f[T] = IF T = {} THEN base ELSE step[<<f[T \ {pick[T]}], T>>]

(***************************************************************************)
(* A recursion that takes one element after the other out of a finite set  *)
(* defines a function: the loops over segments, glyphs and patches.        *)
(***************************************************************************)
LEMMA SetRecursionExists ==
  ASSUME NEW S, IsFiniteSet(S), NEW V, NEW base \in V,
         NEW pick \in [(SUBSET S) \ {{}} -> S],
         \A T \in (SUBSET S) \ {{}} : pick[T] \in T,
         NEW step \in [V \X (SUBSET S) -> V]
  PROVE  \E f \in [SUBSET S -> V] : IsSetRecursion(f, S, base, pick, step)
<1> DEFINE Pairs == (SUBSET S) \X V
           closed(Q) == /\ <<{}, base>> \in Q
                        /\ \A T \in (SUBSET S) \ {{}} : \A v \in V :
                              <<T \ {pick[T]}, v>> \in Q
                                 => <<T, step[<<v, T>>]>> \in Q
           L == {p \in Pairs : \A Q \in SUBSET Pairs : closed(Q) => p \in Q}
           unique(T) == \E v \in V : \A w \in V : <<T, w>> \in L <=> w = v
           bad == {T \in SUBSET S : ~unique(T)}
           R == StrictSubsetOrdering(S)
<1>0. ASSUME NEW T \in (SUBSET S) \ {{}}, NEW v \in V
      PROVE  step[<<v, T>>] \in V /\ T \ {pick[T]} \in SUBSET S
  <2>1. pick[T] \in S
    OBVIOUS
  <2> QED BY <2>1
<1>1. L \in SUBSET Pairs
  OBVIOUS
<1>2. closed(L)
  <2>1. <<{}, base>> \in L
    OBVIOUS
  <2>2. ASSUME NEW T \in (SUBSET S) \ {{}}, NEW v \in V, <<T \ {pick[T]}, v>> \in L
        PROVE  <<T, step[<<v, T>>]>> \in L
    <3>1. <<T, step[<<v, T>>]>> \in Pairs
      BY <1>0
    <3>2. ASSUME NEW Q \in SUBSET Pairs, closed(Q)
          PROVE  <<T, step[<<v, T>>]>> \in Q
      BY <2>2, <3>2
    <3> QED BY <3>1, <3>2
  <2> QED BY <2>1, <2>2
<1>3. ASSUME NEW p \in L PROVE ~closed(L \ {p})
  <2>1. L \ {p} \in SUBSET Pairs
    BY <1>1
  <2>2. \A Q \in SUBSET Pairs : closed(Q) => p \in Q
    OBVIOUS
  <2> HIDE DEF closed, L
  <2> QED BY <2>1, <2>2
<1> HIDE DEF L
<1>4. unique({})
  <2>1. ASSUME NEW w \in V, <<{}, w>> \in L, w # base PROVE FALSE
    <3>1. <<{}, base>> \in L \ {<<{}, w>>}
      BY <1>2, <2>1
    <3>2. closed(L \ {<<{}, w>>})
      BY <1>2, <3>1
    <3> QED BY <1>3, <2>1, <3>2
  <2> QED BY <1>2, <2>1
<1>5. ASSUME NEW T \in (SUBSET S) \ {{}}, unique(T \ {pick[T]}) PROVE unique(T)
  <2>1. PICK v \in V : \A w \in V : <<T \ {pick[T]}, w>> \in L <=> w = v
    BY <1>5
  <2>2. <<T, step[<<v, T>>]>> \in L /\ step[<<v, T>>] \in V
    BY <1>0, <1>2, <2>1
  <2>3. ASSUME NEW w \in V, <<T, w>> \in L, w # step[<<v, T>>] PROVE FALSE
    <3>1. <<{}, base>> \in L \ {<<T, w>>}
      BY <1>2
    <3>2. ASSUME NEW U \in (SUBSET S) \ {{}}, NEW u \in V,
                 <<U \ {pick[U]}, u>> \in L \ {<<T, w>>}
          PROVE  <<U, step[<<u, U>>]>> \in L \ {<<T, w>>}
      <4>1. <<U, step[<<u, U>>]>> \in L
        BY <1>2, <3>2
      <4>2. U = T => u = v
        BY <2>1, <3>2
      <4> QED BY <2>3, <4>1, <4>2
    <3>3. closed(L \ {<<T, w>>})
      BY <3>1, <3>2
    <3> QED BY <1>3, <2>3, <3>3
  <2> QED BY <2>2, <2>3
<1>6. \A T \in SUBSET S : unique(T)
  <2> HIDE DEF unique
  <2> SUFFICES ASSUME bad # {} PROVE FALSE
    OBVIOUS
  <2>1. IsWellFoundedOn(R, SUBSET S)
    <3>1. FiniteSubsetsOf(S) = SUBSET S
      BY FS_FiniteSubsetsOfFinite
    <3>2. IsWellFoundedOn(R, FiniteSubsetsOf(S))
      BY FS_StrictSubsetOrderingWellFounded
    <3> HIDE DEF R, bad
    <3> QED BY <3>1, <3>2
  <2>2. bad \subseteq SUBSET S
    OBVIOUS
  <2>3. PICK T \in bad : \A U \in bad : ~(<<U, T>> \in R)
    <3> HIDE DEF bad, R
    <3> QED BY <2>1, <2>2, WFMin
  <2>4. T \in (SUBSET S) \ {{}}
    BY <1>4, <2>3
  <2>5. <<T \ {pick[T]}, T>> \in R /\ T \ {pick[T]} \in SUBSET S
    <3>1. pick[T] \in T
      BY <2>4
    <3> QED BY <2>4, <3>1 DEF StrictSubsetOrdering
  <2>6. unique(T \ {pick[T]})
    BY <2>3, <2>5
  <2> QED BY <1>5, <2>3, <2>4, <2>6
<1> DEFINE f == [T \in SUBSET S |-> CHOOSE v \in V : <<T, v>> \in L]
<1>7. ASSUME NEW T \in SUBSET S, NEW v \in V
      PROVE  f[T] \in V /\ (<<T, v>> \in L <=> v = f[T])
  <2>1. PICK u \in V : \A w \in V : <<T, w>> \in L <=> w = u
    BY <1>6
  <2>2. f[T] = u
    BY <2>1
  <2> QED BY <2>1, <2>2
<1>8. f \in [SUBSET S -> V]
  BY <1>7
<1>9. ASSUME NEW T \in SUBSET S
      PROVE  f[T] = IF T = {} THEN base ELSE step[<<f[T \ {pick[T]}], T>>]
  <2>1. CASE T = {}
    BY <1>2, <1>7, <2>1
  <2>2. CASE T # {}
    <3> DEFINE U == T \ {pick[T]}
    <3>1. U \in SUBSET S
      BY <2>2
    <3> HIDE DEF f
    <3>0. f[U] \in V
      BY <1>8, <3>1
    <3> HIDE DEF U
    <3>2. <<U, f[U]>> \in L
      BY <1>7, <3>0, <3>1
    <3>3. /\ <<T, step[<<f[U], T>>]>> \in L
          /\ step[<<f[U], T>>] \in V
      <4>1. T \in (SUBSET S) \ {{}}
        BY <2>2
      <4>2. \A v \in V : <<T \ {pick[T]}, v>> \in L => <<T, step[<<v, T>>]>> \in L
        BY <1>2, <4>1
      <4>3. \A v \in V : step[<<v, T>>] \in V
        BY <1>0, <4>1
      <4> QED BY <3>0, <3>2, <4>2, <4>3 DEF U
    <3>4. step[<<f[U], T>>] = f[T]
      BY <1>7, <3>3
    <3> QED BY <2>2, <3>4 DEF U
  <2> QED BY <2>1, <2>2
<1> HIDE DEF f
<1> QED BY <1>8, <1>9 DEF IsSetRecursion

(***************************************************************************)
(* A minimal counterexample about the subsets of a finite set.             *)
(***************************************************************************)
LEMMA SmallestSubset ==
  ASSUME NEW S, IsFiniteSet(S), NEW bad \in SUBSET (SUBSET S), bad # {}
  PROVE  \E T \in bad : \A U \in bad : U \subseteq T => U = T
<1> DEFINE R == StrictSubsetOrdering(S)
<1>1. FiniteSubsetsOf(S) = SUBSET S
  BY FS_FiniteSubsetsOfFinite
<1>2. IsWellFoundedOn(R, FiniteSubsetsOf(S))
  BY FS_StrictSubsetOrderingWellFounded
<1> HIDE DEF R
<1>3. PICK T \in bad : \A U \in bad : ~(<<U, T>> \in R)
  BY <1>1, <1>2, WFMin
<1>4. ASSUME NEW U \in bad, U \subseteq T PROVE U = T
  <2>1. U \in SUBSET S /\ T \in SUBSET S
    OBVIOUS
  <2>2. ~(<<U, T>> \in R)
    BY <1>3
  <2> QED BY <1>4, <2>1, <2>2 DEF R, StrictSubsetOrdering
<1> QED BY <1>3, <1>4

(***************************************************************************)
(* What a recursion over the subsets of a finite set keeps: P says, for    *)
(* each subset, which values are good.                                     *)
(***************************************************************************)
LEMMA RecursionKeeps ==
  ASSUME NEW S, IsFiniteSet(S), NEW P, NEW f, f[{}] \in P[{}],
         \A T \in (SUBSET S) \ {{}} : \E x \in T :
            f[T \ {x}] \in P[T \ {x}] => f[T] \in P[T]
  PROVE  \A T \in SUBSET S : f[T] \in P[T]
<1> DEFINE bad == {T \in SUBSET S : f[T] \notin P[T]}
<1> SUFFICES ASSUME bad # {} PROVE FALSE
  OBVIOUS
<1>1. PICK T \in bad : \A U \in bad : U \subseteq T => U = T
  <2>1. bad \in SUBSET (SUBSET S)
    OBVIOUS
  <2> HIDE DEF bad
  <2>2. \E T \in bad : \A U \in bad : U \subseteq T => U = T
    BY <2>1, SmallestSubset
  <2> QED BY <2>2
<1>2. T \in (SUBSET S) \ {{}} /\ f[T] \notin P[T]
  BY <1>1
<1>3. PICK x \in T : f[T \ {x}] \in P[T \ {x}] => f[T] \in P[T]
  BY <1>2
<1>4. T \ {x} \in SUBSET S /\ T \ {x} \subseteq T /\ T \ {x} # T
  BY <1>2
<1>5. T \ {x} \notin bad
  BY <1>1, <1>4
<1> QED BY <1>2, <1>3, <1>4, <1>5
-----------------------------------------------------------------------------
(***************************************************************************)
(* Counting up: induction over an interval, for a set of numbers.          *)
(***************************************************************************)
LEMMA CountingUp ==
  ASSUME NEW n \in Nat, NEW T, 0 \in T, \A k \in 1 .. n : k - 1 \in T => k \in T
  PROVE  \A k \in 0 .. n : k \in T
<1> DEFINE bad == {k \in Nat : k \in 0 .. n /\ k \notin T}
<1> SUFFICES ASSUME bad # {} PROVE FALSE
  OBVIOUS
<1>1. PICK k \in bad : \A j \in bad : ~(<<j, k>> \in OpToRel(<, Nat))
  <2>1. bad \subseteq Nat
    OBVIOUS
  <2> HIDE DEF bad
  <2> QED BY <2>1, NatLessThanWellFounded, WFMin
<1>2. k \in 1 .. n /\ k \notin T
  OBVIOUS
<1>3. k - 1 \notin T /\ k - 1 \in bad
  BY <1>2
<1>4. <<k - 1, k>> \in OpToRel(<, Nat)
  BY <1>2, <1>3 DEF OpToRel
<1> QED BY <1>1, <1>3, <1>4

(***************************************************************************)
(* The value for k comes from the value for k - 1: a loop over the         *)
(* elements of a sequence.                                                 *)
(***************************************************************************)
IsLoop(f, n, base, step) ==
    /\ f[0] = base
    /\ \A k \in 1 .. n : f[k] = step[<<f[k - 1], k>>]

(***************************************************************************)
(* A loop over the elements of a sequence defines a function.              *)
(***************************************************************************)
LEMMA LoopExists ==
  ASSUME NEW n \in Nat, NEW V, NEW base \in V, NEW step \in [V \X (1 .. n) -> V]
  PROVE  \E f \in [0 .. n -> V] : IsLoop(f, n, base, step)
<1> DEFINE S == 1 .. n
           isMax(T, k) == k \in T /\ \A j \in T : j <= k
           pick == [T \in (SUBSET S) \ {{}} |-> CHOOSE k \in S : isMax(T, k)]
           by == [p \in V \X (SUBSET S) |->
                    IF p[2] = {} THEN p[1] ELSE step[<<p[1], pick[p[2]]>>]]
<1>1. ASSUME NEW T \in (SUBSET S) \ {{}} PROVE \E k \in S : isMax(T, k)
  <2> DEFINE above(k) == \A j \in T : j <= k
             good == {k \in Nat : above(k)}
  <2>1. n \in good
    OBVIOUS
  <2>2. PICK k \in good : \A j \in good : ~(<<j, k>> \in OpToRel(<, Nat))
    <3>1. good \subseteq Nat /\ good # {}
      BY <2>1
    <3> HIDE DEF good
    <3> QED BY <3>1, NatLessThanWellFounded, WFMin
  <2>3. k \in T
    <3> SUFFICES ASSUME k \notin T PROVE FALSE
      OBVIOUS
    <3>0. k \in Nat /\ above(k)
      BY <2>2
    <3>1. \A j \in T : j \in Nat /\ j >= 1 /\ j # k
      OBVIOUS
    <3>2. PICK t \in T : TRUE
      OBVIOUS
    <3>3. t \in Nat /\ t >= 1 /\ t <= k
      BY <3>0, <3>1, <3>2
    <3>4. k - 1 \in Nat /\ above(k - 1)
      BY <3>0, <3>1, <3>3
    <3>5. <<k - 1, k>> \in OpToRel(<, Nat) /\ k - 1 \in good
      BY <3>4 DEF OpToRel
    <3> QED BY <2>2, <3>5
  <2> QED BY <2>2, <2>3
<1>2. ASSUME NEW T \in (SUBSET S) \ {{}} PROVE pick[T] \in S /\ isMax(T, pick[T])
  <2> HIDE DEF isMax
  <2> QED BY <1>1
<1>3. /\ pick \in [(SUBSET S) \ {{}} -> S]
      /\ \A T \in (SUBSET S) \ {{}} : pick[T] \in T
  BY <1>2
<1>4. by \in [V \X (SUBSET S) -> V]
  <2> SUFFICES ASSUME NEW p \in V \X (SUBSET S) PROVE by[p] \in V
    OBVIOUS
  <2>1. CASE p[2] = {}
    BY <2>1
  <2>2. CASE p[2] # {}
    <3>1. pick[p[2]] \in S
      BY <1>3, <2>2
    <3> HIDE DEF pick
    <3> QED BY <2>2, <3>1
  <2> QED BY <2>1, <2>2
<1>5. IsFiniteSet(S)
  BY FS_Interval
<1> HIDE DEF pick, by
<1>6. PICK g \in [SUBSET S -> V] : IsSetRecursion(g, S, base, pick, by)
  <2> HIDE DEF S
  <2> QED BY <1>3, <1>4, <1>5, SetRecursionExists
<1> DEFINE f == [k \in 0 .. n |-> g[1 .. k]]
<1>7. f \in [0 .. n -> V]
  <2>1. \A k \in 0 .. n : 1 .. k \in SUBSET S
    OBVIOUS
  <2> QED BY <2>1
<1>8. f[0] = base
  <2>1. 1 .. 0 = {}
    OBVIOUS
  <2>2. g[{}] = base
    BY <1>6 DEF IsSetRecursion
  <2> QED BY <2>1, <2>2
<1>9. ASSUME NEW k \in 1 .. n PROVE f[k] = step[<<f[k - 1], k>>]
  <2> DEFINE T == 1 .. k
  <2>1. T \in (SUBSET S) \ {{}}
    OBVIOUS
  <2>2. pick[T] = k
    <3>1. pick[T] \in T /\ \A j \in T : j <= pick[T]
      BY <1>2, <2>1
    <3>2. k \in T /\ \A j \in T : j <= k /\ j \in Nat
      OBVIOUS
    <3> QED BY <3>1, <3>2
  <2>3. T \ {k} = 1 .. (k - 1) /\ T \ {k} \in SUBSET S
    OBVIOUS
  <2>4. g[T] = by[<<g[T \ {k}], T>>]
    <3> HIDE DEF T
    <3> QED BY <1>6, <2>1, <2>2 DEF IsSetRecursion
  <2>5. <<g[T \ {k}], T>> \in V \X (SUBSET S)
    BY <2>1, <2>3
  <2>6. by[<<g[T \ {k}], T>>] = step[<<g[T \ {k}], k>>]
    <3> HIDE DEF T
    <3> QED BY <2>1, <2>2, <2>5 DEF by
  <2>7. f[k] = g[T] /\ f[k - 1] = g[T \ {k}]
    <3>1. k \in 0 .. n /\ k - 1 \in 0 .. n
      OBVIOUS
    <3> QED BY <2>3, <3>1
  <2> QED BY <2>4, <2>6, <2>7
<1> HIDE DEF f
<1> QED BY <1>7, <1>8, <1>9 DEF IsLoop
=============================================================================
