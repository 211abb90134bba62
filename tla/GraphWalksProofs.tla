-------------------------- MODULE GraphWalksProofs --------------------------
(***************************************************************************)
(* Proofs about the two walks of the dependency graph (GraphWalks): the    *)
(* search for components finds those of any graph, in order, and the       *)
(* traversal of any font forgets no edge.                                  *)
(***************************************************************************)
EXTENDS GraphWalks, SegmentationInfoProofs, SequenceTheorems

-----------------------------------------------------------------------------
(***************************************************************************)
(* What leads where in a graph g: a node leads to all that is in every     *)
(* closed set it is in.                                                    *)
(***************************************************************************)
IsClosed(g, C) == \A x \in C : g[x] \subseteq C

Leads(g, x, y) == \A C \in SUBSET Vertex : x \in C /\ IsClosed(g, C) => y \in C

LEMMA LeadsToItself ==
  ASSUME NEW g, NEW x
  PROVE  Leads(g, x, x)
BY DEF Leads

LEMMA LeadsAlongEdge ==
  ASSUME NEW g, NEW x, NEW y \in g[x]
  PROVE  Leads(g, x, y)
BY DEF Leads, IsClosed

LEMMA LeadsOn ==
  ASSUME NEW g, NEW x, NEW y, NEW z, Leads(g, x, y), Leads(g, y, z)
  PROVE  Leads(g, x, z)
BY DEF Leads

-----------------------------------------------------------------------------
(***************************************************************************)
(* Sequences as the stacks of the search use them.                         *)
(***************************************************************************)
LEMMA RangeIsValues ==
  ASSUME NEW S, NEW s \in Seq(S)
  PROVE  /\ Len(s) \in Nat
         /\ DOMAIN s = 1 .. Len(s)
         /\ s \in [1 .. Len(s) -> S]
         /\ Range(s) = {s[i] : i \in 1 .. Len(s)}
         /\ Range(s) \subseteq S
BY LenProperties, RangeEquality, RangeOfSeq

LEMMA RangeOfAppend ==
  ASSUME NEW S, NEW s \in Seq(S), NEW e \in S
  PROVE  /\ Append(s, e) \in Seq(S)
         /\ Range(Append(s, e)) = Range(s) \cup {e}
         /\ DOMAIN Append(s, e) = 1 .. (Len(s) + 1)
         /\ \A i \in 1 .. Len(s) : Append(s, e)[i] = s[i]
         /\ Append(s, e)[Len(s) + 1] = e
<1> DEFINE a == Append(s, e)
<1>1. /\ a \in Seq(S)
      /\ Len(a) = Len(s) + 1
      /\ \A i \in 1 .. Len(s) : a[i] = s[i]
      /\ a[Len(s) + 1] = e
  BY AppendProperties
<1> HIDE DEF a
<1>2. /\ Range(a) = {a[i] : i \in 1 .. Len(a)}
      /\ DOMAIN a = 1 .. Len(a)
  BY <1>1, RangeIsValues
<1>3. Range(s) = {s[i] : i \in 1 .. Len(s)} /\ Len(s) \in Nat
  BY RangeIsValues
<1>4. Range(a) = Range(s) \cup {e}
  <2>1. ASSUME NEW i \in 1 .. Len(a) PROVE a[i] \in Range(s) \cup {e}
    <3>1. i \in 1 .. Len(s) \/ i = Len(s) + 1
      BY <1>1, <1>3
    <3> QED BY <1>1, <1>3, <3>1
  <2>2. ASSUME NEW i \in 1 .. Len(s) PROVE s[i] \in Range(a)
    <3>1. i \in 1 .. Len(a)
      BY <1>1, <1>3
    <3> QED BY <1>1, <1>2, <3>1
  <2>3. e \in Range(a)
    <3>1. Len(s) + 1 \in 1 .. Len(a)
      BY <1>1, <1>3
    <3> QED BY <1>1, <1>2, <3>1
  <2> QED BY <1>2, <1>3, <2>1, <2>2, <2>3
<1> QED BY <1>1, <1>2, <1>4 DEF a

LEMMA RangeOfPart ==
  ASSUME NEW S, NEW s \in Seq(S), NEW m \in 1 .. Len(s) + 1, NEW n \in 0 .. Len(s)
  PROVE  /\ SubSeq(s, m, n) \in Seq(S)
         /\ Range(SubSeq(s, m, n)) = {s[i] : i \in m .. n}
<1> DEFINE p == SubSeq(s, m, n)
<1>1. Len(s) \in Nat /\ \A i \in 1 .. Len(s) : s[i] \in S
  BY RangeIsValues
<1>2. /\ p \in Seq(S)
      /\ Len(p) = IF m <= n THEN n - m + 1 ELSE 0
      /\ \A i \in 1 .. n - m + 1 : p[i] = s[m + i - 1]
  <2>1. \A i \in m .. n : s[i] \in S
    BY <1>1
  <2> QED BY <1>1, <2>1, SubSeqProperties
<1> HIDE DEF p
<1>3. Range(p) = {p[i] : i \in 1 .. Len(p)}
  BY <1>2, RangeIsValues
<1>4. ASSUME NEW i \in 1 .. Len(p)
      PROVE  m + i - 1 \in m .. n /\ p[i] = s[m + i - 1]
  BY <1>1, <1>2
<1>5. ASSUME NEW i \in m .. n
      PROVE  i - m + 1 \in 1 .. Len(p) /\ p[i - m + 1] = s[i]
  <2>1. i - m + 1 \in 1 .. n - m + 1 /\ m <= n /\ m + (i - m + 1) - 1 = i
    BY <1>1
  <2> QED BY <1>2, <2>1
<1>6. Range(p) = {s[i] : i \in m .. n}
  <2>1. ASSUME NEW x \in Range(p) PROVE x \in {s[i] : i \in m .. n}
    BY <1>3, <1>4
  <2>2. ASSUME NEW i \in m .. n PROVE s[i] \in Range(p)
    BY <1>3, <1>5
  <2> QED BY <2>1, <2>2
<1> QED BY <1>2, <1>6 DEF p
-----------------------------------------------------------------------------
(***************************************************************************)
(* The search for components: what holds at every step of it.              *)
(***************************************************************************)
Call == [node : DOMAIN index, edges : SUBSET Vertex]

\* the nodes that the recursion is in, and the edges which these still have
Path == {dfs[i].node : i \in DOMAIN dfs}
Waits(x, y) == \E i \in DOMAIN dfs : dfs[i].node = x /\ y \in dfs[i].edges

Found == UNION Range(sccs)
FoundUpTo(k) == UNION {sccs[i] : i \in 1 .. k}

SearchTypes ==
    /\ successors \in [Vertex -> SUBSET Vertex]
    /\ DOMAIN index \in SUBSET Vertex
    /\ IsFiniteSet(DOMAIN index)
    /\ index \in [DOMAIN index -> Nat]
    /\ lowlink \in [DOMAIN index -> Nat]
    /\ stack \in Seq(DOMAIN index)
    /\ dfs \in Seq(Call)
    /\ sccs \in Seq(SUBSET DOMAIN index)

\* every node seen has an index of its own, the stacks have later ones on top
IndexInOrder ==
    /\ \A x \in DOMAIN index : index[x] < Cardinality(DOMAIN index)
    /\ \A x, y \in DOMAIN index : index[x] = index[y] => x = y
    /\ \A i, j \in DOMAIN stack : i < j => index[stack[i]] < index[stack[j]]
    /\ \A i, j \in DOMAIN dfs : i < j => index[dfs[i].node] < index[dfs[j].node]

\* a node seen is on the stack or found, and so are those that its edges lead to
SeenOnce ==
    /\ DOMAIN index = Range(stack) \cup Found
    /\ Range(stack) \cap Found = {}
    /\ Path \subseteq Range(stack)
    /\ \A x, y \in Vertex : Waits(x, y) => y \in successors[x]
    /\ \A x \in DOMAIN index : \A y \in successors[x] :
          y \in DOMAIN index \/ Waits(x, y)

\* what leads to each other is found together, and after all it leads to
FoundInOrder ==
    \A k \in DOMAIN sccs :
        /\ sccs[k] # {}
        /\ \A x, y \in sccs[k] : Leads(successors, x, y)
        /\ sccs[k] \cap FoundUpTo(k - 1) = {}
        /\ IsClosed(successors, FoundUpTo(k))

\* a node of the path leads to all above it, from where a way leads back
StackConnected ==
    /\ \A x \in Path : \A y \in Range(stack) :
          index[x] <= index[y] => Leads(successors, x, y)
    /\ \A y \in Range(stack) : \E x \in Path :
          index[x] <= index[y] /\ Leads(successors, y, x)

\* a lowlink is not lower than what the node leads to on the stack
LowlinkReached ==
    \A x \in Range(stack) :
        /\ lowlink[x] <= index[x]
        /\ \E y \in Range(stack) : index[y] <= lowlink[x] /\ Leads(successors, x, y)

(***************************************************************************)
(* The lowlink of a node of the path accounts for the edges seen of all    *)
(* the nodes on the stack up to the next node of the path.                 *)
(***************************************************************************)
UpToNext(x, y) ==
    index[x] <= index[y] /\ \A u \in Path : index[u] <= index[x] \/ index[y] < index[u]

LowlinkCovers ==
    \A x \in Path : \A y, z \in Range(stack) :
        UpToNext(x, y) /\ z \in successors[y] /\ ~Waits(y, z)
            => lowlink[x] <= index[z]

SearchInv == /\ SearchTypes
             /\ IndexInOrder
             /\ SeenOnce
             /\ FoundInOrder
             /\ StackConnected
             /\ LowlinkReached
             /\ LowlinkCovers

-----------------------------------------------------------------------------
(***************************************************************************)
(* The step to a new node v, from nowhere or along an edge.                *)
(***************************************************************************)
Entered(v) ==
    /\ v \in Vertex \ DOMAIN index
    /\ Enter(v)
    /\ DOMAIN index' = DOMAIN index \cup {v}
    /\ \A x \in DOMAIN index : index'[x] = index[x] /\ lowlink'[x] = lowlink[x]
    /\ index'[v] = Cardinality(DOMAIN index)
    /\ lowlink'[v] = Cardinality(DOMAIN index)
    /\ Range(stack') = Range(stack) \cup {v}
    /\ Path' = Path \cup {v}
    /\ \A x \in Path : Leads(successors, x, v)
    /\ \A x, y \in Vertex : Waits(x, y) => Waits(x, y)' \/ y = v
    /\ \A x \in Vertex \ {v}, y \in Vertex : Waits(x, y)' => Waits(x, y)
    /\ \A y \in Vertex : Waits(v, y)' <=> y \in successors[v]

LEMMA EnterSees ==
  ASSUME SearchTypes, IndexInOrder, NEW v \in Vertex \ DOMAIN index, Enter(v)
  PROVE  /\ DOMAIN index' = DOMAIN index \cup {v}
         /\ DOMAIN index' \in SUBSET Vertex
         /\ IsFiniteSet(DOMAIN index')
         /\ Cardinality(DOMAIN index') = Cardinality(DOMAIN index) + 1
         /\ Cardinality(DOMAIN index) \in Nat
         /\ index' \in [DOMAIN index' -> Nat]
         /\ lowlink' \in [DOMAIN index' -> Nat]
         /\ \A x \in DOMAIN index : index'[x] = index[x] /\ lowlink'[x] = lowlink[x]
         /\ index'[v] = Cardinality(DOMAIN index)
         /\ lowlink'[v] = Cardinality(DOMAIN index)
         /\ stack' \in Seq(DOMAIN index')
         /\ Range(stack') = Range(stack) \cup {v}
         /\ \A x \in DOMAIN index' : index'[x] < Cardinality(DOMAIN index')
         /\ \A x, y \in DOMAIN index' : index'[x] = index'[y] => x = y
         /\ \A i, j \in DOMAIN stack' : i < j => index'[stack'[i]] < index'[stack'[j]]
<1> DEFINE n == Cardinality(DOMAIN index)
           D == DOMAIN index
<1>1. /\ n \in Nat
      /\ IsFiniteSet(D \cup {v})
      /\ Cardinality(D \cup {v}) = n + 1
  BY FS_CardinalityType, FS_AddElement DEF SearchTypes
<1>2. /\ index' = [x \in D \cup {v} |-> IF x = v THEN n ELSE index[x]]
      /\ lowlink' = [x \in D \cup {v} |-> IF x = v THEN n ELSE lowlink[x]]
      /\ stack' = Append(stack, v)
  BY DEF Enter, WithNew, SearchTypes
<1>3. /\ DOMAIN index' = D \cup {v}
      /\ \A x \in D : index'[x] = index[x] /\ lowlink'[x] = lowlink[x]
      /\ index'[v] = n /\ lowlink'[v] = n
  <2> HIDE DEF n
  <2> QED BY <1>2
<1>4. index' \in [D \cup {v} -> Nat] /\ lowlink' \in [D \cup {v} -> Nat]
  <2> HIDE DEF n
  <2> QED BY <1>1, <1>2 DEF SearchTypes
<1>5. /\ stack' \in Seq(D \cup {v})
      /\ Range(stack') = Range(stack) \cup {v}
      /\ DOMAIN stack' = 1 .. (Len(stack) + 1)
      /\ \A i \in 1 .. Len(stack) : stack'[i] = stack[i]
      /\ stack'[Len(stack) + 1] = v
  <2>1. stack \in Seq(D \cup {v})
    BY SeqMonotonic DEF SearchTypes
  <2> QED BY <1>2, <2>1, RangeOfAppend
<1>6. /\ \A x \in D : index[x] \in Nat /\ index[x] < n
      /\ \A x, y \in D : index[x] = index[y] => x = y
  BY DEF IndexInOrder, SearchTypes
<1> HIDE DEF n
<1>7. \A i, j \in DOMAIN stack' : i < j => index'[stack'[i]] < index'[stack'[j]]
  <2> SUFFICES ASSUME NEW i \in DOMAIN stack', NEW j \in DOMAIN stack', i < j
               PROVE  index'[stack'[i]] < index'[stack'[j]]
    OBVIOUS
  <2>1. /\ Len(stack) \in Nat /\ DOMAIN stack = 1 .. Len(stack)
        /\ \A k \in 1 .. Len(stack) : stack[k] \in D
    BY RangeIsValues DEF SearchTypes
  <2>2. i \in DOMAIN stack /\ stack'[i] = stack[i] /\ stack[i] \in D
    BY <1>5, <2>1
  <2>3. CASE j = Len(stack) + 1
    BY <1>3, <1>5, <1>6, <2>2, <2>3
  <2>4. CASE j \in DOMAIN stack
    <3>1. stack'[j] = stack[j] /\ stack[j] \in D
      BY <1>5, <2>1, <2>4
    <3> QED BY <1>3, <2>2, <2>4, <3>1 DEF IndexInOrder
  <2> QED BY <1>5, <2>1, <2>3, <2>4
<1>8. /\ D \cup {v} \in SUBSET Vertex
      /\ \A x \in D \cup {v} : index'[x] < n + 1
      /\ \A x, y \in D \cup {v} : index'[x] = index'[y] => x = y
  BY <1>1, <1>3, <1>6 DEF SearchTypes
<1>9. /\ DOMAIN index' \in SUBSET Vertex
      /\ index' \in [DOMAIN index' -> Nat]
      /\ lowlink' \in [DOMAIN index' -> Nat]
      /\ stack' \in Seq(DOMAIN index')
      /\ \A x, y \in DOMAIN index' : index'[x] = index'[y] => x = y
  BY <1>3, <1>4, <1>5, <1>8
<1>10. /\ IsFiniteSet(DOMAIN index')
       /\ Cardinality(DOMAIN index') = n + 1
       /\ \A x \in DOMAIN index' : index'[x] < Cardinality(DOMAIN index')
  BY <1>1, <1>3, <1>8
<1> QED BY <1>1, <1>3, <1>5, <1>7, <1>9, <1>10 DEF n
LEMMA StartEnters ==
  ASSUME SearchTypes, IndexInOrder, NEW v \in Vertex, StartAt(v)
  PROVE  Entered(v) /\ SearchTypes' /\ IndexInOrder'
<1>1. v \in Vertex \ DOMAIN index /\ Enter(v) /\ dfs = <<>> /\ dfs' = <<Visited1(v)>>
  BY DEF StartAt
<1>2. successors' = successors /\ sccs' = sccs
  BY <1>1 DEF Enter
<1>3. Visited1(v) = [node |-> v, edges |-> successors[v]]
  BY DEF Visited1
<1>4. /\ DOMAIN dfs = {}
      /\ DOMAIN dfs' = {1}
      /\ dfs'[1].node = v
      /\ dfs'[1].edges = successors[v]
  BY <1>1, <1>3
<1>5. Path = {} /\ Path' = {v}
  BY <1>4 DEF Path
<1>6. /\ \A x, y : ~Waits(x, y)
      /\ \A x, y : Waits(x, y)' <=> x = v /\ y \in successors[v]
  BY <1>4 DEF Waits
<1>7. Entered(v)
  BY <1>1, <1>5, <1>6, EnterSees DEF Entered
<1>8. dfs' \in Seq(Call')
  <2>1. Visited1(v) \in Call'
    <3>1. v \in DOMAIN index' /\ successors[v] \in SUBSET Vertex
      BY <1>1, EnterSees DEF SearchTypes
    <3> QED BY <1>3, <3>1 DEF Call
  <2> QED BY <1>1, <2>1
<1>9. sccs' \in Seq(SUBSET DOMAIN index')
  <2>1. SUBSET DOMAIN index \subseteq SUBSET DOMAIN index'
    BY <1>1, EnterSees
  <2> QED BY <1>2, <2>1, SeqMonotonic DEF SearchTypes
<1>10. SearchTypes'
  BY <1>1, <1>2, <1>8, <1>9, EnterSees DEF SearchTypes
<1>11. IndexInOrder'
  <2>1. \A i, j \in DOMAIN dfs' : ~(i < j)
    BY <1>4
  <2> QED BY <1>1, <2>1, EnterSees DEF IndexInOrder
<1> QED BY <1>7, <1>10, <1>11

(***************************************************************************)
(* An edge taken away from the call on top.                                *)
(***************************************************************************)
LEMMA PoppedCall ==
  ASSUME SearchTypes, dfs # <<>>, NEW w
  PROVE  /\ Len(dfs) \in Nat \ {0}
         /\ DOMAIN dfs = 1 .. Len(dfs)
         /\ Last(dfs) = dfs[Len(dfs)]
         /\ \A i \in 1 .. Len(dfs) : dfs[i] \in Call
         /\ Popped(w) \in Seq(Call)
         /\ Len(Popped(w)) = Len(dfs)
         /\ DOMAIN Popped(w) = 1 .. Len(dfs)
         /\ \A i \in 1 .. Len(dfs) :
               /\ Popped(w)[i].node = dfs[i].node
               /\ Popped(w)[i].edges =
                     IF i = Len(dfs) THEN dfs[i].edges \ {w} ELSE dfs[i].edges
<1> DEFINE n == Len(dfs)
           d == Front(dfs) \o <<Last(dfs)>>
           e == [Last(dfs) EXCEPT !.edges = @ \ {w}]
<1>1. dfs \in Seq(Call)
  BY DEF SearchTypes
<1>2. /\ n \in Nat \ {0}
      /\ DOMAIN dfs = 1 .. n
      /\ \A i \in 1 .. n : dfs[i] \in Call
      /\ Last(dfs) = dfs[n]
  BY <1>1, RangeIsValues, EmptySeq DEF Last
<1>3. d \in Seq(Call) /\ Len(d) = n /\ \A i \in 1 .. n : d[i] = dfs[i]
  <2>1. /\ Front(dfs) \in Seq(Call)
        /\ Len(Front(dfs)) = n - 1
        /\ \A i \in 1 .. n - 1 : Front(dfs)[i] = dfs[i]
    <3>1. \A i \in 1 .. n - 1 : dfs[i] \in Call
      BY <1>2
    <3> QED BY <1>2, <3>1, SubSeqProperties DEF Front
  <2>2. <<Last(dfs)>> \in Seq(Call) /\ Len(<<Last(dfs)>>) = 1
        /\ <<Last(dfs)>>[1] = dfs[n]
    BY <1>2
  <2> DEFINE f == Front(dfs)
             l == <<Last(dfs)>>
  <2> HIDE DEF f, l, n
  <2>3. /\ f \o l \in Seq(Call)
        /\ Len(f \o l) = Len(f) + Len(l)
        /\ \A i \in 1 .. Len(f) + Len(l) :
              (f \o l)[i] = IF i <= Len(f) THEN f[i] ELSE l[i - Len(f)]
    BY <2>1, <2>2, ConcatProperties DEF f, l
  <2>4. Len(f) = n - 1 /\ Len(l) = 1 /\ l[1] = dfs[n]
        /\ \A i \in 1 .. n - 1 : f[i] = dfs[i]
    BY <2>1, <2>2 DEF f, l
  <2>5. ASSUME NEW i \in 1 .. n PROVE (f \o l)[i] = dfs[i]
    <3>1. i \in 1 .. Len(f) + Len(l)
      BY <1>2, <2>4
    <3>2. CASE i = n
      <4>1. ~(i <= Len(f)) /\ i - Len(f) = 1
        BY <1>2, <2>4, <3>2
      <4> QED BY <2>3, <2>4, <3>1, <3>2, <4>1
    <3>3. CASE i # n
      <4>1. i <= Len(f) /\ i \in 1 .. n - 1
        BY <1>2, <2>4, <3>3
      <4> QED BY <2>3, <2>4, <3>1, <4>1
    <3> QED BY <3>2, <3>3
  <2>6. Len(f \o l) = n
    BY <1>2, <2>3, <2>4
  <2> QED BY <2>3, <2>5, <2>6 DEF f, l
<1>4. e \in Call /\ e.node = dfs[n].node /\ e.edges = dfs[n].edges \ {w}
  <2>1. dfs[n] \in Call
    BY <1>2
  <2> QED BY <1>2, <2>1 DEF Call
<1>5. Popped(w) = [d EXCEPT ![n] = e]
  <2>1. d[n] = Last(dfs)
    BY <1>2, <1>3
  <2>2. Popped(w) = [d EXCEPT ![n] = [d[n] EXCEPT !.edges = @ \ {w}]]
    BY DEF Popped
  <2> QED BY <2>1, <2>2
<1> HIDE DEF d, e
<1>6. /\ Popped(w) \in Seq(Call)
      /\ Len(Popped(w)) = n
      /\ \A i \in 1 .. n : Popped(w)[i] = IF i = n THEN e ELSE d[i]
  <2>1. n \in 1 .. Len(d)
    BY <1>2, <1>3
  <2> QED BY <1>3, <1>4, <1>5, <2>1, ExceptSeq
<1>7. DOMAIN Popped(w) = 1 .. n
  BY <1>6, RangeIsValues
<1> QED BY <1>2, <1>3, <1>4, <1>6, <1>7

(***************************************************************************)
(* The node on top of the path has the highest index of the path, and no   *)
(* other call is at it.                                                    *)
(***************************************************************************)
LEMMA TopOfPath ==
  ASSUME SearchTypes, IndexInOrder, dfs # <<>>
  PROVE  LET v == Last(dfs).node
         IN  /\ v \in Path
             /\ v \in DOMAIN index
             /\ Path \subseteq DOMAIN index
             /\ \A x \in Path : index[x] <= index[v]
             /\ \A i \in DOMAIN dfs : dfs[i].node = v => i = Len(dfs)
             /\ \A y : Waits(v, y) <=> y \in Last(dfs).edges
<1> DEFINE n == Len(dfs)
           v == Last(dfs).node
<1>1. /\ n \in Nat \ {0}
      /\ DOMAIN dfs = 1 .. n
      /\ \A i \in 1 .. n : dfs[i] \in Call
      /\ Last(dfs) = dfs[n]
  BY PoppedCall
<1> HIDE DEF n
<1>2. \A i \in 1 .. n : dfs[i].node \in DOMAIN index /\ index[dfs[i].node] \in Nat
  BY <1>1 DEF Call, SearchTypes
<1>3. ASSUME NEW i \in 1 .. n, i # n
      PROVE  index[dfs[i].node] < index[dfs[n].node]
  <2>1. i < n /\ n \in 1 .. n
    BY <1>1, <1>3
  <2> QED BY <1>1, <2>1 DEF IndexInOrder
<1>4. v = dfs[n].node /\ n \in 1 .. n
  BY <1>1
<1> HIDE DEF v
<1>5. v \in Path /\ v \in DOMAIN index /\ Path \subseteq DOMAIN index
  BY <1>1, <1>2, <1>4 DEF Path
<1>6. \A x \in Path : index[x] <= index[v]
  BY <1>1, <1>2, <1>3, <1>4 DEF Path
<1>7. \A i \in DOMAIN dfs : dfs[i].node = v => i = n
  BY <1>1, <1>2, <1>3, <1>4
<1>8. \A y : Waits(v, y) <=> y \in Last(dfs).edges
  BY <1>1, <1>4, <1>7 DEF Waits
<1> QED BY <1>5, <1>6, <1>7, <1>8 DEF n, v
LEMMA DescendEnters ==
  ASSUME SearchInv, dfs # <<>>, NEW w \in Last(dfs).edges, Descend(w)
  PROVE  Entered(w) /\ SearchTypes' /\ IndexInOrder'
<1> DEFINE n == Len(dfs)
           v == Last(dfs).node
           p == Popped(w)
<1>1. SearchTypes /\ IndexInOrder /\ SeenOnce
  BY DEF SearchInv
<1>2. /\ n \in Nat \ {0}
      /\ DOMAIN dfs = 1 .. n
      /\ Last(dfs) = dfs[n]
      /\ \A i \in 1 .. n : dfs[i] \in Call
      /\ p \in Seq(Call) /\ Len(p) = n /\ DOMAIN p = 1 .. n
      /\ \A i \in 1 .. n : /\ p[i].node = dfs[i].node
                           /\ p[i].edges = IF i = n THEN dfs[i].edges \ {w}
                                           ELSE dfs[i].edges
  BY <1>1, PoppedCall
<1>3. /\ v \in Path /\ v \in DOMAIN index /\ Path \subseteq DOMAIN index
      /\ \A x \in Path : index[x] <= index[v]
      /\ \A i \in DOMAIN dfs : dfs[i].node = v => i = n
      /\ \A y : Waits(v, y) <=> y \in Last(dfs).edges
  BY <1>1, TopOfPath
<1>4. /\ w \in Vertex \ DOMAIN index
      /\ Enter(w)
      /\ dfs' = Append(p, Visited1(w))
      /\ successors' = successors /\ sccs' = sccs
  <2>1. w \in Vertex
    <3>1. n \in 1 .. n
      <4>1. n \in Nat \ {0}
        BY <1>2
      <4> HIDE DEF n
      <4> QED BY <4>1
    <3>2. dfs[n] \in Call /\ w \in dfs[n].edges
      BY <1>2, <3>1
    <3> QED BY <3>2 DEF Call
  <2> QED BY <2>1 DEF Descend, Enter
<1>5. Visited1(w) = [node |-> w, edges |-> successors[w]]
  BY DEF Visited1
<1>6. Visited1(w) \in Call' /\ p \in Seq(Call')
  <2>1. w \in DOMAIN index' /\ successors[w] \in SUBSET Vertex
    BY <1>1, <1>4, EnterSees DEF SearchTypes
  <2>2. Call \subseteq Call'
    BY <1>1, <1>4, EnterSees DEF Call
  <2>3. Visited1(w) \in Call'
    BY <1>5, <2>1 DEF Call
  <2>4. \A C : Call \subseteq C => p \in Seq(C)
    BY <1>2, SeqMonotonic
  <2> QED BY <2>2, <2>3, <2>4
<1> HIDE DEF n, v, p
<1>7. /\ dfs' \in Seq(Call')
      /\ DOMAIN dfs' = 1 .. n + 1
      /\ \A i \in 1 .. n : dfs'[i] = p[i]
      /\ dfs'[n + 1] = Visited1(w)
  <2> DEFINE C == Call'
  <2>1. Visited1(w) \in C /\ p \in Seq(C)
    BY <1>6
  <2> HIDE DEF C
  <2>2. /\ Append(p, Visited1(w)) \in Seq(C)
        /\ DOMAIN Append(p, Visited1(w)) = 1 .. Len(p) + 1
        /\ \A i \in 1 .. Len(p) : Append(p, Visited1(w))[i] = p[i]
        /\ Append(p, Visited1(w))[Len(p) + 1] = Visited1(w)
    BY <2>1, RangeOfAppend
  <2> QED BY <1>2, <1>4, <2>2 DEF C
<1>8. /\ \A i \in 1 .. n : dfs'[i].node = dfs[i].node
      /\ dfs'[n + 1].node = w
      /\ dfs'[n + 1].edges = successors[w]
      /\ \A i \in 1 .. n : dfs'[i].edges = IF i = n THEN dfs[i].edges \ {w}
                                          ELSE dfs[i].edges
  <2>1. /\ dfs'[n + 1].node = w
        /\ dfs'[n + 1].edges = successors[w]
    BY <1>5, <1>7
  <2>2. \A i \in 1 .. n : dfs'[i].node = p[i].node /\ dfs'[i].edges = p[i].edges
    BY <1>7
  <2> QED BY <1>2, <2>1, <2>2
<1>9. 1 .. n + 1 = (1 .. n) \cup {n + 1}
  BY <1>2
<1>10. Path' = Path \cup {w}
  <2>1. Path' = {dfs'[i].node : i \in 1 .. n + 1}
    BY <1>7 DEF Path
  <2>2. Path = {dfs[i].node : i \in 1 .. n}
    BY <1>2 DEF Path
  <2> QED BY <1>8, <1>9, <2>1, <2>2
<1>11. \A x, y : Waits(x, y)' <=> \/ x = w /\ y \in successors[w]
                                  \/ Waits(x, y) /\ ~(x = v /\ y = w)
  <2> SUFFICES ASSUME NEW x, NEW y
               PROVE  Waits(x, y)' <=> \/ x = w /\ y \in successors[w]
                                       \/ Waits(x, y) /\ ~(x = v /\ y = w)
    OBVIOUS
  <2>1. Waits(x, y)' <=> \/ \E i \in 1 .. n : dfs'[i].node = x /\ y \in dfs'[i].edges
                         \/ dfs'[n + 1].node = x /\ y \in dfs'[n + 1].edges
    BY <1>7, <1>9 DEF Waits
  <2>2. Waits(x, y) <=> \E i \in 1 .. n : dfs[i].node = x /\ y \in dfs[i].edges
    BY <1>2 DEF Waits
  <2>3. v = dfs[n].node
    BY <1>2 DEF v
  <2>4. \A i \in 1 .. n : dfs[i].node = v <=> i = n
    BY <1>2, <1>3, <2>3
  <2>5. ASSUME NEW i \in 1 .. n
        PROVE  dfs'[i].node = x /\ y \in dfs'[i].edges
                 <=> dfs[i].node = x /\ y \in dfs[i].edges /\ ~(x = v /\ y = w)
    BY <1>8, <2>4
  <2> QED BY <1>8, <2>1, <2>2, <2>5
<1>12. \A x \in Path : Leads(successors, x, w)
  <2>1. w \in successors[v]
    <3>1. Waits(v, w)
      BY <1>3
    <3> QED BY <1>1, <1>3, <1>4, <3>1 DEF SeenOnce, SearchTypes
  <2>2. ASSUME NEW x \in Path PROVE Leads(successors, x, v)
    BY <1>1, <1>3 DEF StackConnected, SearchInv, SeenOnce
  <2> QED BY <2>1, <2>2, LeadsAlongEdge, LeadsOn
<1>13. Entered(w)
  <2>1. ~\E y : Waits(w, y)
    BY <1>3, <1>4 DEF Path, Waits
  <2> QED BY <1>1, <1>4, <1>10, <1>11, <1>12, <2>1, EnterSees DEF Entered
<1>14. SearchTypes'
  <2>1. sccs' \in Seq(SUBSET DOMAIN index')
    <3>1. SUBSET DOMAIN index \subseteq SUBSET DOMAIN index'
      BY <1>1, <1>4, EnterSees
    <3> QED BY <1>1, <1>4, <3>1, SeqMonotonic DEF SearchTypes
  <2> QED BY <1>1, <1>4, <1>7, <2>1, EnterSees DEF SearchTypes
<1>15. IndexInOrder'
  <2>1. ASSUME NEW i \in DOMAIN dfs', NEW j \in DOMAIN dfs', i < j
        PROVE  index'[dfs'[i].node] < index'[dfs'[j].node]
    <3>1. i \in 1 .. n
      BY <1>2, <1>7, <2>1
    <3>2. dfs[i].node \in DOMAIN index
      BY <1>2, <3>1 DEF Call
    <3>3. CASE j = n + 1
      <4>1. index[dfs[i].node] < Cardinality(DOMAIN index)
        BY <1>1, <3>2 DEF IndexInOrder
      <4>2. index'[dfs[i].node] = index[dfs[i].node] /\ index'[w] = Cardinality(DOMAIN index)
        BY <1>1, <1>4, <3>2, EnterSees
      <4>3. dfs'[i].node = dfs[i].node /\ dfs'[j].node = w
        BY <1>8, <3>1, <3>3
      <4> QED BY <4>1, <4>2, <4>3
    <3>4. CASE j \in 1 .. n
      <4>1. dfs[j].node \in DOMAIN index
        BY <1>2, <3>4 DEF Call
      <4>2. index[dfs[i].node] < index[dfs[j].node]
        BY <1>1, <1>2, <2>1, <3>1, <3>4 DEF IndexInOrder
      <4>3. /\ index'[dfs[i].node] = index[dfs[i].node]
            /\ index'[dfs[j].node] = index[dfs[j].node]
        BY <1>1, <1>4, <3>2, <4>1, EnterSees
      <4>4. dfs'[i].node = dfs[i].node /\ dfs'[j].node = dfs[j].node
        BY <1>8, <3>1, <3>4
      <4> QED BY <4>2, <4>3, <4>4
    <3> QED BY <1>7, <1>9, <3>3, <3>4
  <2> QED BY <1>1, <1>4, <2>1, EnterSees DEF IndexInOrder
<1> QED BY <1>13, <1>14, <1>15

(***************************************************************************)
(* A new node keeps what the search rests on: nothing but the path leads   *)
(* to it so far.                                                           *)
(***************************************************************************)
LEMMA EnteredKeeps ==
  ASSUME SearchInv, NEW v \in Vertex, Entered(v), SearchTypes', IndexInOrder'
  PROVE  SearchInv'
<1> DEFINE n == Cardinality(DOMAIN index)
<1>1. SearchTypes /\ IndexInOrder /\ SeenOnce /\ FoundInOrder /\ StackConnected
      /\ LowlinkReached /\ LowlinkCovers
  BY DEF SearchInv
<1>2. successors' = successors /\ sccs' = sccs
  BY DEF Entered, Enter
<1>3. Found' = Found /\ \A k : FoundUpTo(k)' = FoundUpTo(k)
  BY <1>2 DEF Found, FoundUpTo
<1>4. /\ DOMAIN index \subseteq Vertex
      /\ \A x \in DOMAIN index : index[x] \in Nat /\ lowlink[x] \in Nat /\ index[x] < n
      /\ n \in Nat
  BY <1>1, FS_CardinalityType DEF SearchTypes, IndexInOrder
<1>5. Range(stack) \subseteq DOMAIN index /\ Path \subseteq Range(stack)
      /\ Range(stack) \cap Found = {} /\ DOMAIN index = Range(stack) \cup Found
  BY <1>1 DEF SeenOnce
<1>6. /\ v \notin DOMAIN index
      /\ DOMAIN index' = DOMAIN index \cup {v}
      /\ \A x \in DOMAIN index : index'[x] = index[x] /\ lowlink'[x] = lowlink[x]
      /\ index'[v] = n
      /\ lowlink'[v] = n
      /\ Range(stack') = Range(stack) \cup {v}
      /\ Path' = Path \cup {v}
      /\ \A x \in Path : Leads(successors, x, v)
      /\ \A x, y \in Vertex : Waits(x, y) => Waits(x, y)' \/ y = v
      /\ \A x \in Vertex \ {v}, y \in Vertex : Waits(x, y)' => Waits(x, y)
      /\ \A y \in Vertex : Waits(v, y)' <=> y \in successors[v]
  BY DEF Entered
<1> HIDE DEF n
<1>7. SeenOnce'
  <2>1. DOMAIN index' = Range(stack)' \cup Found' /\ Range(stack)' \cap Found' = {}
        /\ Path' \subseteq Range(stack)'
    BY <1>3, <1>5, <1>6
  <2>2. \A x, y \in Vertex : Waits(x, y)' => y \in successors'[x]
    BY <1>1, <1>2, <1>6 DEF SeenOnce
  <2>3. ASSUME NEW x \in DOMAIN index', NEW y \in successors'[x]
        PROVE  y \in DOMAIN index' \/ Waits(x, y)'
    <3>1. x \in Vertex /\ y \in Vertex
      BY <1>1, <1>2, <1>4, <1>6 DEF SearchTypes
    <3>2. CASE x = v
      BY <1>2, <1>6, <2>3, <3>1, <3>2
    <3>3. CASE x \in DOMAIN index
      <4>1. y \in DOMAIN index \/ Waits(x, y)
        BY <1>1, <1>2, <2>3, <3>3 DEF SeenOnce
      <4> QED BY <1>6, <3>1, <4>1
    <3> QED BY <1>6, <3>2, <3>3
  <2> QED BY <2>1, <2>2, <2>3 DEF SeenOnce
<1>8. FoundInOrder'
  BY <1>1, <1>2, <1>3 DEF FoundInOrder
<1>9. StackConnected'
  <2>1. ASSUME NEW x \in Path', NEW y \in Range(stack'), index'[x] <= index'[y]
        PROVE  Leads(successors', x, y)
    <3>1. CASE y = v
      BY <1>2, <1>6, <3>1, LeadsToItself
    <3>2. CASE y # v
      <4>1. y \in Range(stack) /\ index'[y] = index[y] /\ index[y] \in Nat /\ index[y] < n
        BY <1>4, <1>5, <1>6, <3>2
      <4>2. x # v
        BY <1>4, <1>6, <2>1, <4>1
      <4>3. x \in Path /\ index'[x] = index[x]
        BY <1>5, <1>6, <4>2
      <4> QED BY <1>1, <1>2, <2>1, <4>1, <4>3 DEF StackConnected
    <3> QED BY <3>1, <3>2
  <2>2. ASSUME NEW y \in Range(stack')
        PROVE  \E x \in Path' : index'[x] <= index'[y] /\ Leads(successors', y, x)
    <3>1. CASE y = v
      BY <1>2, <1>4, <1>6, <3>1, LeadsToItself
    <3>2. CASE y # v
      <4>1. y \in Range(stack) /\ index'[y] = index[y]
        BY <1>5, <1>6, <3>2
      <4>2. PICK x \in Path : index[x] <= index[y] /\ Leads(successors, y, x)
        BY <1>1, <4>1 DEF StackConnected
      <4>3. x \in Path' /\ index'[x] = index[x]
        BY <1>5, <1>6
      <4> QED BY <1>2, <4>1, <4>2, <4>3
    <3> QED BY <3>1, <3>2
  <2> QED BY <2>1, <2>2 DEF StackConnected
<1>10. LowlinkReached'
  <2> SUFFICES ASSUME NEW x \in Range(stack')
               PROVE  /\ lowlink'[x] <= index'[x]
                      /\ \E y \in Range(stack') : index'[y] <= lowlink'[x]
                                                  /\ Leads(successors', x, y)
    BY DEF LowlinkReached
  <2>1. CASE x = v
    BY <1>2, <1>4, <1>6, <2>1, LeadsToItself
  <2>2. CASE x # v
    <3>1. x \in Range(stack) /\ index'[x] = index[x] /\ lowlink'[x] = lowlink[x]
      BY <1>5, <1>6, <2>2
    <3>2. PICK y \in Range(stack) : index[y] <= lowlink[x] /\ Leads(successors, x, y)
      BY <1>1, <3>1 DEF LowlinkReached
    <3>3. y \in Range(stack') /\ index'[y] = index[y]
      BY <1>5, <1>6
    <3>4. lowlink[x] <= index[x]
      BY <1>1, <3>1 DEF LowlinkReached
    <3> QED BY <1>2, <3>1, <3>2, <3>3, <3>4
  <2> QED BY <2>1, <2>2
<1>11. LowlinkCovers'
  <2> SUFFICES ASSUME NEW x \in Path', NEW y \in Range(stack'), NEW z \in Range(stack'),
                      UpToNext(x, y)', z \in successors'[y], ~Waits(y, z)'
               PROVE  lowlink'[x] <= index'[z]
    BY DEF LowlinkCovers
  <2>1. y # v
    BY <1>2, <1>4, <1>5, <1>6
  <2>2. y \in Range(stack) /\ index'[y] = index[y] /\ index[y] \in Nat /\ index[y] < n
    BY <1>4, <1>5, <1>6, <2>1
  <2>3. x # v
    BY <1>4, <1>6, <2>2 DEF UpToNext
  <2>4. x \in Path /\ index'[x] = index[x] /\ lowlink'[x] = lowlink[x]
        /\ index[x] \in Nat /\ index[x] < n /\ lowlink[x] \in Nat
    BY <1>4, <1>5, <1>6, <2>3
  <2>5. lowlink[x] <= index[x]
    BY <1>1, <1>5, <2>4 DEF LowlinkReached
  <2>6. CASE z = v
    BY <1>4, <1>6, <2>4, <2>5, <2>6
  <2>7. CASE z # v
    <3>1. z \in Range(stack) /\ index'[z] = index[z]
      BY <1>5, <1>6, <2>7
    <3>2. UpToNext(x, y)
      <4>1. \A u \in Path : u \in Path' /\ index'[u] = index[u]
        BY <1>5, <1>6
      <4> QED BY <2>2, <2>4, <4>1 DEF UpToNext
    <3>3. ~Waits(y, z)
      BY <1>4, <1>5, <1>6, <2>2, <2>7, <3>1
    <3> QED BY <1>1, <1>2, <2>2, <2>4, <3>1, <3>2, <3>3 DEF LowlinkCovers
  <2> QED BY <2>6, <2>7
<1> QED BY <1>7, <1>8, <1>9, <1>10, <1>11 DEF SearchInv
(***************************************************************************)
(* An edge to a node that was seen: only the lowlink changes.              *)
(***************************************************************************)
LEMMA SeeAgainKeeps ==
  ASSUME SearchInv, dfs # <<>>, NEW w \in Last(dfs).edges, SeeAgain(Last(dfs).node, w)
  PROVE  SearchInv'
<1> DEFINE n == Len(dfs)
           v == Last(dfs).node
           p == Popped(w)
<1>1. SearchTypes /\ IndexInOrder /\ SeenOnce /\ FoundInOrder /\ StackConnected
      /\ LowlinkReached /\ LowlinkCovers
  BY DEF SearchInv
<1>2. /\ n \in Nat \ {0}
      /\ DOMAIN dfs = 1 .. n
      /\ Last(dfs) = dfs[n]
      /\ \A i \in 1 .. n : dfs[i] \in Call
      /\ p \in Seq(Call) /\ Len(p) = n /\ DOMAIN p = 1 .. n
      /\ \A i \in 1 .. n : /\ p[i].node = dfs[i].node
                           /\ p[i].edges = IF i = n THEN dfs[i].edges \ {w}
                                           ELSE dfs[i].edges
  BY <1>1, PoppedCall
<1>3. /\ v \in Path /\ v \in DOMAIN index /\ Path \subseteq DOMAIN index
      /\ \A x \in Path : index[x] <= index[v]
      /\ \A i \in DOMAIN dfs : dfs[i].node = v => i = n
      /\ \A y : Waits(v, y) <=> y \in Last(dfs).edges
  BY <1>1, TopOfPath
<1>4. /\ w \in DOMAIN index
      /\ lowlink' = [lowlink EXCEPT ![v] = LowlinkThrough(v, w)]
      /\ dfs' = p
      /\ successors' = successors /\ index' = index /\ stack' = stack /\ sccs' = sccs
  BY DEF SeeAgain
<1> HIDE DEF n, v, p
<1>5. /\ DOMAIN index \subseteq Vertex
      /\ \A x \in DOMAIN index : index[x] \in Nat /\ lowlink[x] \in Nat
  BY <1>1 DEF SearchTypes
<1>6. Range(stack) \subseteq DOMAIN index /\ Path \subseteq Range(stack)
  BY <1>1 DEF SeenOnce
<1>7. /\ \A x \in DOMAIN index : x # v => lowlink'[x] = lowlink[x]
      /\ lowlink'[v] = IF OnStack(w) THEN Lesser(lowlink[v], index[w]) ELSE lowlink[v]
      /\ lowlink' \in [DOMAIN index -> Nat]
  <2>1. LowlinkThrough(v, w) \in Nat
    BY <1>3, <1>4, <1>5 DEF LowlinkThrough, Lesser
  <2> QED BY <1>1, <1>3, <1>4, <2>1 DEF LowlinkThrough, SearchTypes
<1>8. \A x \in DOMAIN index : lowlink'[x] <= lowlink[x] /\ lowlink'[x] \in Nat
  BY <1>4, <1>5, <1>7 DEF Lesser
<1>9. Path' = Path
  <2>1. Path' = {p[i].node : i \in 1 .. n} /\ Path = {dfs[i].node : i \in 1 .. n}
    BY <1>2, <1>4 DEF Path
  <2>2. \A i \in 1 .. n : p[i].node = dfs[i].node
    BY <1>2
  <2> QED BY <2>1, <2>2
<1>10. \A x, y : Waits(x, y)' <=> Waits(x, y) /\ ~(x = v /\ y = w)
  <2> SUFFICES ASSUME NEW x, NEW y
               PROVE  Waits(x, y)' <=> Waits(x, y) /\ ~(x = v /\ y = w)
    OBVIOUS
  <2>1. Waits(x, y)' <=> \E i \in 1 .. n : p[i].node = x /\ y \in p[i].edges
    BY <1>2, <1>4 DEF Waits
  <2>2. Waits(x, y) <=> \E i \in 1 .. n : dfs[i].node = x /\ y \in dfs[i].edges
    BY <1>2 DEF Waits
  <2>3. v = dfs[n].node
    BY <1>2 DEF v
  <2>4. \A i \in 1 .. n : dfs[i].node = v <=> i = n
    BY <1>2, <1>3, <2>3
  <2>5. ASSUME NEW i \in 1 .. n
        PROVE  p[i].node = x /\ y \in p[i].edges
                 <=> dfs[i].node = x /\ y \in dfs[i].edges /\ ~(x = v /\ y = w)
    BY <1>2, <2>4
  <2> QED BY <2>1, <2>2, <2>5
<1>11. Found' = Found /\ \A k : FoundUpTo(k)' = FoundUpTo(k)
  BY <1>4 DEF Found, FoundUpTo
<1>12. SearchTypes'
  BY <1>1, <1>2, <1>4, <1>7 DEF SearchTypes, Call
<1>13. IndexInOrder'
  <2>1. \A i, j \in DOMAIN dfs' : i < j => index'[dfs'[i].node] < index'[dfs'[j].node]
    <3>1. \A i \in 1 .. n : dfs'[i].node = dfs[i].node
      BY <1>2, <1>4
    <3>2. \A i, j \in 1 .. n : i < j => index[dfs[i].node] < index[dfs[j].node]
      BY <1>1, <1>2 DEF IndexInOrder
    <3>3. DOMAIN dfs' = 1 .. n /\ index' = index
      BY <1>2, <1>4
    <3> QED BY <3>1, <3>2, <3>3
  <2> QED BY <1>1, <1>4, <2>1 DEF IndexInOrder
<1>14. SeenOnce'
  BY <1>1, <1>4, <1>9, <1>10, <1>11 DEF SeenOnce
<1>15. FoundInOrder'
  BY <1>1, <1>4, <1>11 DEF FoundInOrder
<1>16. StackConnected'
  BY <1>1, <1>4, <1>9 DEF StackConnected
<1>17. w \in successors[v]
  <2>1. Waits(v, w)
    BY <1>3
  <2> QED BY <1>1, <1>3, <1>4, <1>5, <2>1 DEF SeenOnce
<1>18. LowlinkReached'
  <2> SUFFICES ASSUME NEW x \in Range(stack)
               PROVE  /\ lowlink'[x] <= index[x]
                      /\ \E y \in Range(stack) : index[y] <= lowlink'[x]
                                                 /\ Leads(successors, x, y)
    BY <1>4 DEF LowlinkReached
  <2>1. /\ lowlink[x] <= index[x]
        /\ \E y \in Range(stack) : index[y] <= lowlink[x] /\ Leads(successors, x, y)
    BY <1>1 DEF LowlinkReached
  <2>2. lowlink'[x] <= index[x]
    BY <1>5, <1>6, <1>8, <2>1
  <2>3. CASE lowlink'[x] = lowlink[x]
    BY <2>1, <2>2, <2>3
  <2>4. CASE lowlink'[x] # lowlink[x]
    <3>1. x = v /\ OnStack(w) /\ lowlink'[x] = index[w]
      BY <1>6, <1>7, <2>4 DEF Lesser
    <3>2. w \in Range(stack) /\ index[w] <= lowlink'[x]
      BY <1>4, <1>5, <3>1 DEF OnStack
    <3> QED BY <1>17, <2>2, <3>1, <3>2, LeadsAlongEdge
  <2> QED BY <2>3, <2>4
<1>19. LowlinkCovers'
  <2> SUFFICES ASSUME NEW x \in Path, NEW y \in Range(stack), NEW z \in Range(stack),
                      UpToNext(x, y), z \in successors[y],
                      ~Waits(y, z) \/ (y = v /\ z = w)
               PROVE  lowlink'[x] <= index[z]
    <3>1. \A x, y : UpToNext(x, y)' <=> UpToNext(x, y)
      BY <1>4, <1>9 DEF UpToNext
    <3> QED BY <1>4, <1>9, <1>10, <3>1 DEF LowlinkCovers
  <2>1. index[z] \in Nat /\ lowlink[x] \in Nat /\ lowlink'[x] \in Nat
        /\ lowlink'[x] <= lowlink[x] /\ index[x] \in Nat /\ index[v] \in Nat
    BY <1>3, <1>5, <1>6, <1>8
  <2>2. CASE ~Waits(y, z)
    <3>1. lowlink[x] <= index[z]
      BY <1>1, <2>2 DEF LowlinkCovers
    <3> QED BY <2>1, <3>1
  <2>3. CASE y = v /\ z = w
    <3>1. index[x] = index[v]
      BY <1>3, <2>1, <2>3 DEF UpToNext
    <3>2. x = v
      BY <1>1, <1>3, <1>6, <3>1 DEF IndexInOrder
    <3>3. lowlink'[v] = Lesser(lowlink[v], index[w])
      BY <1>7, <2>3 DEF OnStack
    <3> QED BY <2>1, <2>3, <3>2, <3>3 DEF Lesser
  <2> QED BY <2>2, <2>3
<1> QED BY <1>12, <1>13, <1>14, <1>15, <1>16, <1>18, <1>19 DEF SearchInv
(***************************************************************************)
(* A node without edges is left: what happens to the path and lowlinks.    *)
(***************************************************************************)
Highest(x) == \A u \in Path : index[u] <= index[x]

LeftNode(v) ==
    /\ v \in Path /\ Highest(v) /\ \A y : ~Waits(v, y)
    /\ Path' = Path \ {v}
    /\ \A x, y : Waits(x, y)' <=> Waits(x, y)
    /\ successors' = successors /\ index' = index
    /\ dfs' \in Seq(Call)
    /\ \A i, j \in DOMAIN dfs' : i < j => index[dfs'[i].node] < index[dfs'[j].node]
    /\ lowlink' \in [DOMAIN index -> Nat]
    /\ \A x \in DOMAIN index : lowlink'[x] # lowlink[x] =>
          x \in Path' /\ lowlink'[x] = lowlink[v] /\ lowlink[v] < lowlink[x]
    /\ \A x \in Path' : Highest(x)' => lowlink'[x] <= lowlink[v]

LEMMA LeaveUpdatesPath ==
  ASSUME SearchInv, dfs # <<>>, Leave(Last(dfs).node)
  PROVE  LeftNode(Last(dfs).node)
<1> DEFINE n == Len(dfs)
           v == Last(dfs).node
           rest == Front(dfs)
           parent == Last(rest).node
<1>1. SearchTypes /\ IndexInOrder
  BY DEF SearchInv
<1>2. /\ n \in Nat \ {0}
      /\ DOMAIN dfs = 1 .. n
      /\ Last(dfs) = dfs[n]
      /\ \A i \in 1 .. n : dfs[i] \in Call
  BY <1>1, PoppedCall
<1>3. /\ v \in Path /\ v \in DOMAIN index /\ Path \subseteq DOMAIN index
      /\ \A x \in Path : index[x] <= index[v]
      /\ \A i \in DOMAIN dfs : dfs[i].node = v => i = n
      /\ \A y : Waits(v, y) <=> y \in Last(dfs).edges
  BY <1>1, TopOfPath
<1>4. /\ Last(dfs).edges = {}
      /\ dfs' = rest
      /\ lowlink' = IF rest = <<>> THEN lowlink
                    ELSE [lowlink EXCEPT ![parent] = Lesser(@, lowlink[v])]
      /\ successors' = successors /\ index' = index
  BY DEF Leave
<1>5. rest = SubSeq(dfs, 1, n - 1)
  BY DEF Front
<1> HIDE DEF n
<1>6. /\ rest \in Seq(Call)
      /\ Len(rest) = n - 1
      /\ DOMAIN rest = 1 .. n - 1
      /\ \A i \in 1 .. n - 1 : rest[i] = dfs[i]
  <2>1. \A i \in 1 .. n - 1 : dfs[i] \in Call
    BY <1>2
  <2>2. /\ SubSeq(dfs, 1, n - 1) \in Seq(Call)
        /\ Len(SubSeq(dfs, 1, n - 1)) = IF 1 <= n - 1 THEN n - 1 - 1 + 1 ELSE 0
        /\ \A i \in 1 .. n - 1 - 1 + 1 : SubSeq(dfs, 1, n - 1)[i] = dfs[1 + i - 1]
    BY <1>2, <2>1, SubSeqProperties
  <2>3. rest \in Seq(Call) /\ Len(rest) = n - 1
    BY <1>2, <1>5, <2>2
  <2>4. \A i \in 1 .. n - 1 : rest[i] = dfs[i]
    <3>1. n - 1 - 1 + 1 = n - 1 /\ \A i \in 1 .. n - 1 : 1 + i - 1 = i
      BY <1>2
    <3> QED BY <1>5, <2>2, <3>1
  <2> QED BY <2>3, <2>4, RangeIsValues
<1> HIDE DEF rest
<1>7. v = dfs[n].node /\ \A i \in 1 .. n : dfs[i].node = v <=> i = n
  BY <1>2, <1>3
<1>8. 1 .. n = (1 .. n - 1) \cup {n} /\ n \notin 1 .. n - 1
  BY <1>2
<1>9. Path' = Path \ {v} /\ Path' = {dfs[i].node : i \in 1 .. n - 1}
  <2>1. Path' = {rest[i].node : i \in 1 .. n - 1} /\ Path = {dfs[i].node : i \in 1 .. n}
    BY <1>2, <1>4, <1>6 DEF Path
  <2>2. Path' = {dfs[i].node : i \in 1 .. n - 1}
    BY <1>6, <2>1
  <2>3. \A i \in 1 .. n - 1 : dfs[i].node # v
    BY <1>7, <1>8
  <2> HIDE DEF v
  <2> QED BY <1>7, <1>8, <2>1, <2>2, <2>3
<1>10. \A x, y : Waits(x, y)' <=> Waits(x, y)
  <2> SUFFICES ASSUME NEW x, NEW y PROVE Waits(x, y)' <=> Waits(x, y)
    OBVIOUS
  <2>1. Waits(x, y)' <=> \E i \in 1 .. n - 1 : dfs[i].node = x /\ y \in dfs[i].edges
    BY <1>4, <1>6 DEF Waits
  <2>2. Waits(x, y) <=> \E i \in 1 .. n : dfs[i].node = x /\ y \in dfs[i].edges
    BY <1>2 DEF Waits
  <2>3. y \notin dfs[n].edges
    BY <1>2, <1>4
  <2> QED BY <1>8, <2>1, <2>2, <2>3
<1>11. \A i, j \in DOMAIN dfs' : i < j => index[dfs'[i].node] < index[dfs'[j].node]
  <2>1. DOMAIN dfs' = 1 .. n - 1 /\ \A i \in 1 .. n - 1 : dfs'[i] = dfs[i] /\ i \in DOMAIN dfs
    BY <1>2, <1>4, <1>6
  <2> QED BY <1>1, <2>1 DEF IndexInOrder
<1>12. \A x \in DOMAIN index : index[x] \in Nat /\ lowlink[x] \in Nat
  BY <1>1 DEF SearchTypes
<1> HIDE DEF v
<1>13. /\ lowlink' \in [DOMAIN index -> Nat]
       /\ \A x \in DOMAIN index : lowlink'[x] # lowlink[x] =>
             x \in Path' /\ lowlink'[x] = lowlink[v] /\ lowlink[v] < lowlink[x]
       /\ \A x \in Path' : Highest(x)' => lowlink'[x] <= lowlink[v]
  <2>1. CASE n = 1
    <3>1. rest = <<>> /\ Path' = {}
      <4>1. 1 .. n - 1 = {}
        BY <2>1
      <4>2. rest = <<>>
        BY <1>6, <2>1, EmptySeq
      <4> QED BY <1>9, <4>1, <4>2
    <3> QED BY <1>1, <1>4, <3>1 DEF SearchTypes
  <2>2. CASE n # 1
    <3>1. n - 1 \in 1 .. n - 1 /\ n - 1 \in Nat \ {0}
      BY <1>2, <2>2
    <3>2. parent = dfs[n - 1].node
      <4>1. Last(rest) = rest[n - 1]
        BY <1>6 DEF Last
      <4> QED BY <1>6, <3>1, <4>1
    <3>3. rest # <<>>
      BY <1>6, <3>1, EmptySeq
    <3>4. parent \in Path' /\ parent \in DOMAIN index
      <4>1. dfs[n - 1] \in Call
        BY <1>2, <1>8, <3>1
      <4> QED BY <1>9, <3>1, <3>2, <4>1 DEF Call
    <3>5. lowlink' = [lowlink EXCEPT ![parent] = Lesser(lowlink[parent], lowlink[v])]
      BY <1>4, <3>3
    <3> HIDE DEF parent
    <3>6. ASSUME NEW x \in Path', x # parent PROVE ~Highest(x)'
      <4>1. PICK i \in 1 .. n - 1 : x = dfs[i].node
        BY <1>9
      <4>2. i < n - 1
        BY <1>2, <3>2, <3>6, <4>1
      <4>3. i \in DOMAIN dfs /\ n - 1 \in DOMAIN dfs
        BY <1>2, <1>8, <3>1
      <4>4. index[x] < index[parent]
        BY <1>1, <3>2, <4>1, <4>2, <4>3 DEF IndexInOrder
      <4>5. index[x] \in Nat /\ index[parent] \in Nat
        BY <1>3, <1>9, <1>12, <3>4, <3>6
      <4> QED BY <1>4, <3>4, <4>4, <4>5 DEF Highest
    <3>7. /\ lowlink[parent] \in Nat /\ lowlink[v] \in Nat
          /\ Lesser(lowlink[parent], lowlink[v]) \in Nat
      BY <1>3, <1>12, <3>4 DEF Lesser
    <3>8. /\ lowlink' \in [DOMAIN index -> Nat]
          /\ \A x \in DOMAIN index : x # parent => lowlink'[x] = lowlink[x]
          /\ lowlink'[parent] = Lesser(lowlink[parent], lowlink[v])
      BY <1>1, <3>4, <3>5, <3>7 DEF SearchTypes
    <3>9. lowlink'[parent] # lowlink[parent] =>
             lowlink'[parent] = lowlink[v] /\ lowlink[v] < lowlink[parent]
      BY <3>7, <3>8 DEF Lesser
    <3>10. lowlink'[parent] <= lowlink[v]
      BY <3>7, <3>8 DEF Lesser
    <3> QED BY <3>4, <3>6, <3>8, <3>9, <3>10
  <2> QED BY <2>1, <2>2
<1>14. Highest(v)
  BY <1>3 DEF Highest
<1>15. \A y : ~Waits(v, y)
  BY <1>3, <1>4
<1>16. dfs' \in Seq(Call)
  BY <1>4, <1>6
<1> QED BY <1>3, <1>4, <1>9, <1>10, <1>11, <1>13, <1>14, <1>15, <1>16 DEF LeftNode, v

(***************************************************************************)
(* What happens to the stack: the root of a component takes all above it.  *)
(***************************************************************************)
Above(v) == {x \in Range(stack) : index[v] <= index[x]}

LEMMA LeaveUpdatesStack ==
  ASSUME SearchInv, NEW v \in Range(stack), Leave(v)
  PROVE  /\ stack' \in Seq(DOMAIN index)
         /\ sccs' \in Seq(SUBSET DOMAIN index)
         /\ \A i, j \in DOMAIN stack' : i < j => index[stack'[i]] < index[stack'[j]]
         /\ lowlink[v] # index[v] => stack' = stack /\ sccs' = sccs
         /\ lowlink[v] = index[v] =>
               Range(stack') = Range(stack) \ Above(v) /\ sccs' = Append(sccs, Above(v))
<1> DEFINE m == Len(stack)
           p == PositionOf(v)
           lower == SubSeq(stack, 1, p - 1)
           upper == SubSeq(stack, p, m)
<1>1. SearchTypes /\ IndexInOrder
  BY DEF SearchInv
<1>2. /\ m \in Nat
      /\ DOMAIN stack = 1 .. m
      /\ stack \in [1 .. m -> DOMAIN index]
      /\ Range(stack) = {stack[i] : i \in 1 .. m}
      /\ Range(stack) \subseteq DOMAIN index
  BY <1>1, RangeIsValues DEF SearchTypes
<1>3. p \in 1 .. m /\ stack[p] = v
  <2>1. \E i \in DOMAIN stack : stack[i] = v
    BY <1>2
  <2> QED BY <1>2, <2>1 DEF PositionOf
<1>4. IF lowlink[v] = index[v] THEN stack' = lower /\ sccs' = Append(sccs, Range(upper))
      ELSE stack' = stack /\ sccs' = sccs
  BY DEF Leave
<1> HIDE DEF p, m
<1>5. /\ lower \in Seq(DOMAIN index) /\ Range(lower) = {stack[i] : i \in 1 .. p - 1}
      /\ Range(upper) = {stack[i] : i \in p .. m}
  <2>1. /\ 1 \in 1 .. m + 1 /\ p - 1 \in 0 .. m
        /\ p \in 1 .. m + 1 /\ m \in 0 .. m
    BY <1>2, <1>3
  <2>2. stack \in Seq(DOMAIN index)
    BY <1>1 DEF SearchTypes
  <2> QED BY <2>1, <2>2, RangeOfPart DEF m
<1>6. DOMAIN lower = 1 .. p - 1 /\ \A i \in 1 .. p - 1 : lower[i] = stack[i]
  <2>1. \A i \in 1 .. p - 1 : stack[i] \in DOMAIN index
    BY <1>2, <1>3
  <2>2. /\ Len(lower) = IF 1 <= p - 1 THEN p - 1 - 1 + 1 ELSE 0
        /\ \A i \in 1 .. p - 1 - 1 + 1 : lower[i] = stack[1 + i - 1]
    BY <1>3, <2>1, SubSeqProperties
  <2>3. Len(lower) = p - 1 /\ p - 1 - 1 + 1 = p - 1 /\ \A i \in 1 .. p - 1 : 1 + i - 1 = i
    BY <1>2, <1>3, <2>2
  <2>4. DOMAIN lower = 1 .. Len(lower)
    BY <1>5, RangeIsValues
  <2> HIDE DEF lower
  <2> QED BY <2>2, <2>3, <2>4
<1> HIDE DEF lower, upper
<1>7. ASSUME NEW i \in 1 .. m
      PROVE  index[stack[i]] \in Nat /\ (i < p <=> ~(index[v] <= index[stack[i]]))
  <2>1. index[stack[i]] \in Nat /\ index[v] \in Nat
    BY <1>1, <1>2 DEF SearchTypes
  <2>2. i < p => index[stack[i]] < index[v]
    BY <1>1, <1>2, <1>3 DEF IndexInOrder
  <2>3. i > p => index[v] < index[stack[i]]
    BY <1>1, <1>2, <1>3 DEF IndexInOrder
  <2>4. i < p \/ i = p \/ i > p
    BY <1>2, <1>3
  <2> QED BY <1>2, <1>3, <2>1, <2>2, <2>3, <2>4
<1>8. Range(upper) = Above(v)
  <2>1. \A i \in 1 .. m : i \in p .. m <=> ~(i < p)
    BY <1>2, <1>3
  <2>2. p .. m \subseteq 1 .. m
    BY <1>2, <1>3
  <2> QED BY <1>2, <1>5, <1>7, <2>1, <2>2 DEF Above
<1>9. Range(lower) = Range(stack) \ Above(v)
  <2>1. \A i \in 1 .. m : i \in 1 .. p - 1 <=> i < p
    BY <1>2, <1>3
  <2>2. 1 .. p - 1 \subseteq 1 .. m
    BY <1>2, <1>3
  <2> QED BY <1>2, <1>5, <1>7, <2>1, <2>2 DEF Above
<1>10. \A i, j \in DOMAIN lower : i < j => index[lower[i]] < index[lower[j]]
  <2> SUFFICES ASSUME NEW i \in 1 .. p - 1, NEW j \in 1 .. p - 1, i < j
               PROVE  index[lower[i]] < index[lower[j]]
    BY <1>6
  <2>1. i \in DOMAIN stack /\ j \in DOMAIN stack
    BY <1>2, <1>3
  <2> QED BY <1>1, <1>6, <2>1 DEF IndexInOrder
<1>11. Append(sccs, Above(v)) \in Seq(SUBSET DOMAIN index)
  <2>1. Above(v) \in SUBSET DOMAIN index
    BY <1>2 DEF Above
  <2> QED BY <1>1, <2>1, RangeOfAppend DEF SearchTypes
<1>12. CASE lowlink[v] = index[v]
  BY <1>4, <1>5, <1>8, <1>9, <1>10, <1>11, <1>12
<1>13. CASE lowlink[v] # index[v]
  BY <1>1, <1>4, <1>13 DEF SearchTypes, IndexInOrder
<1> QED BY <1>12, <1>13
(***************************************************************************)
(* Why the root of a component takes all of the component and nothing      *)
(* else: all above it leads back to it, and no edge leads further down.    *)
(***************************************************************************)
LEMMA RootIsComponent ==
  ASSUME SearchInv, NEW v \in Path, Highest(v), \A y : ~Waits(v, y),
         lowlink[v] = index[v]
  PROVE  /\ v \in Above(v)
         /\ \A x, y \in Above(v) : Leads(successors, x, y)
         /\ IsClosed(successors, Found \cup Above(v))
<1>1. SearchTypes /\ IndexInOrder /\ SeenOnce /\ FoundInOrder /\ StackConnected
      /\ LowlinkReached /\ LowlinkCovers
  BY DEF SearchInv
<1>2. /\ Range(stack) \subseteq DOMAIN index /\ Path \subseteq Range(stack)
      /\ DOMAIN index = Range(stack) \cup Found
  BY <1>1 DEF SeenOnce
<1>3. \A x \in DOMAIN index : index[x] \in Nat /\ x \in Vertex
  BY <1>1 DEF SearchTypes
<1>4. v \in Above(v)
  BY <1>2, <1>3 DEF Above
<1>5. ASSUME NEW x \in Above(v) PROVE Leads(successors, v, x) /\ Leads(successors, x, v)
  <2>1. x \in Range(stack) /\ index[v] <= index[x]
    BY DEF Above
  <2>2. Leads(successors, v, x)
    BY <1>1, <2>1 DEF StackConnected
  <2>3. PICK u \in Path : Leads(successors, x, u)
    BY <1>1, <2>1 DEF StackConnected
  <2>4. Leads(successors, u, v)
    BY <1>1, <1>2 DEF StackConnected, Highest
  <2> QED BY <2>2, <2>3, <2>4, LeadsOn
<1>6. \A x, y \in Above(v) : Leads(successors, x, y)
  BY <1>5, LeadsOn
<1>7. ASSUME NEW x \in Above(v), NEW y \in successors[x]
      PROVE  y \in Found \cup Above(v)
  <2>1. x \in Range(stack) /\ index[v] <= index[x] /\ x \in Vertex /\ x \in DOMAIN index
    BY <1>2, <1>3 DEF Above
  <2>2. ~Waits(x, y)
    <3> SUFFICES ASSUME Waits(x, y) PROVE FALSE
      OBVIOUS
    <3>1. x \in Path
      BY DEF Waits, Path
    <3>2. index[x] = index[v]
      BY <1>2, <1>3, <2>1, <3>1 DEF Highest
    <3>3. x = v
      BY <1>1, <1>2, <2>1, <3>2 DEF IndexInOrder
    <3> QED BY <3>3
  <2>3. y \in DOMAIN index
    BY <1>1, <2>1, <2>2 DEF SeenOnce
  <2>4. CASE y \in Range(stack)
    <3>1. UpToNext(v, x)
      BY <2>1 DEF UpToNext, Highest
    <3>2. lowlink[v] <= index[y]
      BY <1>1, <2>1, <2>2, <2>4, <3>1 DEF LowlinkCovers
    <3> QED BY <2>4, <3>2 DEF Above
  <2> QED BY <1>2, <2>3, <2>4
<1>8. ASSUME NEW x \in Found PROVE successors[x] \subseteq Found
  <2>1. /\ Len(sccs) \in Nat
        /\ DOMAIN sccs = 1 .. Len(sccs)
        /\ Range(sccs) = {sccs[i] : i \in 1 .. Len(sccs)}
    BY <1>1, RangeIsValues DEF SearchTypes
  <2>2. PICK i \in 1 .. Len(sccs) : x \in sccs[i]
    BY <2>1 DEF Found
  <2>3. Found = FoundUpTo(Len(sccs))
    BY <2>1 DEF Found, FoundUpTo
  <2>4. Len(sccs) \in DOMAIN sccs
    BY <2>1, <2>2
  <2> QED BY <1>1, <2>3, <2>4 DEF FoundInOrder, IsClosed
<1>9. IsClosed(successors, Found \cup Above(v))
  BY <1>7, <1>8 DEF IsClosed
<1> QED BY <1>4, <1>6, <1>9

LEMMA LeaveKeeps ==
  ASSUME SearchInv, dfs # <<>>, Leave(Last(dfs).node)
  PROVE  SearchInv'
<1> DEFINE v == Last(dfs).node
<1>1. SearchTypes /\ IndexInOrder /\ SeenOnce /\ FoundInOrder /\ StackConnected
      /\ LowlinkReached /\ LowlinkCovers
  BY DEF SearchInv
<1>2. /\ Range(stack) \subseteq DOMAIN index /\ Path \subseteq Range(stack)
      /\ DOMAIN index = Range(stack) \cup Found
      /\ Range(stack) \cap Found = {}
  BY <1>1 DEF SeenOnce
<1>3. \A x \in DOMAIN index : index[x] \in Nat /\ lowlink[x] \in Nat /\ x \in Vertex
  BY <1>1 DEF SearchTypes
<1>4. LeftNode(v)
  BY LeaveUpdatesPath
<1>5. /\ v \in Path /\ Highest(v) /\ \A y : ~Waits(v, y)
      /\ Path' = Path \ {v}
      /\ \A x, y : Waits(x, y)' <=> Waits(x, y)
      /\ successors' = successors /\ index' = index
      /\ dfs' \in Seq(Call)
      /\ \A i, j \in DOMAIN dfs' : i < j => index[dfs'[i].node] < index[dfs'[j].node]
      /\ lowlink' \in [DOMAIN index -> Nat]
      /\ \A x \in DOMAIN index : lowlink'[x] # lowlink[x] =>
            x \in Path' /\ lowlink'[x] = lowlink[v] /\ lowlink[v] < lowlink[x]
      /\ \A x \in Path' : Highest(x)' => lowlink'[x] <= lowlink[v]
  BY <1>4 DEF LeftNode
<1>6. v \in Range(stack) /\ v \in DOMAIN index
  BY <1>2, <1>5
<1>7. /\ stack' \in Seq(DOMAIN index)
      /\ sccs' \in Seq(SUBSET DOMAIN index)
      /\ \A i, j \in DOMAIN stack' : i < j => index[stack'[i]] < index[stack'[j]]
      /\ lowlink[v] # index[v] => stack' = stack /\ sccs' = sccs
      /\ lowlink[v] = index[v] =>
            Range(stack') = Range(stack) \ Above(v) /\ sccs' = Append(sccs, Above(v))
  BY <1>6, LeaveUpdatesStack
<1> HIDE DEF v
<1>8. \A x \in Path : index[x] <= index[v] /\ (x # v => index[x] < index[v])
  BY <1>1, <1>2, <1>3, <1>5, <1>6 DEF Highest, IndexInOrder
<1>9. \A x \in Range(stack) : x \in Range(stack') <=> lowlink[v] # index[v]
                                                        \/ index[x] < index[v]
  BY <1>2, <1>3, <1>6, <1>7 DEF Above
<1>10. Range(stack') \subseteq Range(stack)
  BY <1>7
<1>11. /\ lowlink[v] <= index[v]
       /\ \A x \in DOMAIN index : lowlink'[x] <= lowlink[x] /\ lowlink'[x] \in Nat
  BY <1>1, <1>3, <1>5, <1>6 DEF LowlinkReached
<1>12. SearchTypes'
  BY <1>1, <1>5, <1>7 DEF SearchTypes, Call
<1>13. IndexInOrder'
  BY <1>1, <1>5, <1>7 DEF IndexInOrder
<1>14. /\ Found' = IF lowlink[v] = index[v] THEN Found \cup Above(v) ELSE Found
       /\ \A k \in 0 .. Len(sccs) : FoundUpTo(k)' = FoundUpTo(k)
       /\ \A k \in DOMAIN sccs : sccs'[k] = sccs[k]
       /\ Len(sccs) \in Nat /\ DOMAIN sccs = 1 .. Len(sccs)
       /\ FoundUpTo(Len(sccs)) = Found
       /\ lowlink[v] = index[v] =>
             /\ DOMAIN sccs' = 1 .. Len(sccs) + 1
             /\ sccs'[Len(sccs) + 1] = Above(v)
             /\ \A k \in {Len(sccs) + 1} : FoundUpTo(k)' = Found \cup Above(v)
  <2> DEFINE n == Len(sccs)
  <2>1. n \in Nat /\ DOMAIN sccs = 1 .. n /\ Range(sccs) = {sccs[i] : i \in 1 .. n}
    BY <1>1, RangeIsValues DEF SearchTypes
  <2>2. FoundUpTo(n) = Found
    BY <2>1 DEF Found, FoundUpTo
  <2>3. CASE lowlink[v] # index[v]
    BY <1>7, <2>1, <2>2, <2>3 DEF Found, FoundUpTo
  <2>4. CASE lowlink[v] = index[v]
    <3>1. Above(v) \in SUBSET DOMAIN index /\ sccs' = Append(sccs, Above(v))
      BY <1>2, <1>7, <2>4 DEF Above
    <3>2. /\ Range(sccs') = Range(sccs) \cup {Above(v)}
          /\ DOMAIN sccs' = 1 .. n + 1
          /\ \A i \in 1 .. n : sccs'[i] = sccs[i]
          /\ sccs'[n + 1] = Above(v)
      BY <1>1, <3>1, RangeOfAppend DEF SearchTypes
    <3>3. Found' = Found \cup Above(v)
      BY <3>2 DEF Found
    <3> HIDE DEF n
    <3>4. \A k \in 0 .. n : 1 .. k \subseteq 1 .. n
      BY <2>1
    <3>5. \A k \in 0 .. n : FoundUpTo(k)' = FoundUpTo(k)
      BY <3>2, <3>4 DEF FoundUpTo
    <3>6. \A k \in {n + 1} : FoundUpTo(k)' = Found \cup Above(v)
      <4>1. 1 .. n + 1 = (1 .. n) \cup {n + 1}
        BY <2>1
      <4>2. UNION {sccs'[i] : i \in 1 .. n + 1}
              = (UNION {sccs'[i] : i \in 1 .. n}) \cup sccs'[n + 1]
        BY <4>1
      <4>3. {sccs'[i] : i \in 1 .. n} = {sccs[i] : i \in 1 .. n}
        BY <3>2
      <4>4. UNION {sccs[i] : i \in 1 .. n} = Found
        BY <2>2 DEF FoundUpTo
      <4>5. UNION {sccs'[i] : i \in 1 .. n + 1} = Found \cup Above(v)
        BY <3>2, <4>2, <4>3, <4>4
      <4>6. \A k : FoundUpTo(k)' = UNION {sccs'[i] : i \in 1 .. k}
        BY DEF FoundUpTo
      <4> QED BY <4>5, <4>6
    <3> QED BY <2>1, <2>2, <2>4, <3>2, <3>3, <3>5, <3>6 DEF n
  <2> QED BY <2>3, <2>4
<1>15. SeenOnce'
  <2>1. /\ DOMAIN index' = Range(stack)' \cup Found'
        /\ Range(stack)' \cap Found' = {}
    <3>1. CASE lowlink[v] = index[v]
      BY <1>2, <1>5, <1>7, <1>14, <3>1 DEF Above
    <3>2. CASE lowlink[v] # index[v]
      BY <1>2, <1>5, <1>7, <1>14, <3>2
    <3> QED BY <3>1, <3>2
  <2>2. Path' \subseteq Range(stack)'
    BY <1>2, <1>5, <1>8, <1>9
  <2> QED BY <1>1, <1>5, <2>1, <2>2 DEF SeenOnce
<1>16. FoundInOrder'
  <2>1. CASE lowlink[v] # index[v]
    <3>1. sccs' = sccs /\ successors' = successors
      BY <1>5, <1>7, <2>1
    <3>2. \A k : FoundUpTo(k)' = FoundUpTo(k)
      BY <3>1 DEF FoundUpTo
    <3> QED BY <1>1, <3>1, <3>2 DEF FoundInOrder
  <2>2. CASE lowlink[v] = index[v]
    <3>1. /\ v \in Above(v)
          /\ \A x, y \in Above(v) : Leads(successors, x, y)
          /\ IsClosed(successors, Found \cup Above(v))
      BY <1>5, <2>2, RootIsComponent
    <3>2. Above(v) \cap Found = {}
      BY <1>2 DEF Above
    <3> SUFFICES ASSUME NEW k \in 1 .. Len(sccs) + 1
                 PROVE  /\ sccs'[k] # {}
                        /\ \A x, y \in sccs'[k] : Leads(successors, x, y)
                        /\ sccs'[k] \cap FoundUpTo(k - 1)' = {}
                        /\ IsClosed(successors, FoundUpTo(k)')
      BY <1>5, <1>14, <2>2 DEF FoundInOrder
    <3>3. CASE k = Len(sccs) + 1
      <4>1. k - 1 = Len(sccs) /\ Len(sccs) \in 0 .. Len(sccs)
        BY <1>14, <3>3
      <4>2. sccs'[k] = Above(v) /\ FoundUpTo(k)' = Found \cup Above(v)
            /\ FoundUpTo(k - 1)' = Found
        <5>1. FoundUpTo(Len(sccs)) = Found /\ k \in {Len(sccs) + 1}
              /\ k - 1 \in 0 .. Len(sccs)
          BY <1>14, <3>3, <4>1
        <5>2. FoundUpTo(k - 1)' = FoundUpTo(k - 1) /\ FoundUpTo(k)' = Found \cup Above(v)
          BY <1>14, <2>2, <5>1
        <5> QED BY <1>14, <2>2, <3>3, <4>1, <5>1, <5>2
      <4> QED BY <3>1, <3>2, <4>2
    <3>4. CASE k \in DOMAIN sccs
      <4>1. k \in 0 .. Len(sccs) /\ k - 1 \in 0 .. Len(sccs)
        BY <1>14, <3>4
      <4>2. sccs'[k] = sccs[k] /\ FoundUpTo(k)' = FoundUpTo(k)
            /\ FoundUpTo(k - 1)' = FoundUpTo(k - 1)
        BY <1>14, <3>4, <4>1
      <4> QED BY <1>1, <3>4, <4>2 DEF FoundInOrder
    <3> QED BY <1>14, <3>3, <3>4
  <2> QED BY <2>1, <2>2
<1>17. StackConnected'
  <2>1. ASSUME NEW x \in Path', NEW y \in Range(stack'), index[x] <= index[y]
        PROVE  Leads(successors, x, y)
    BY <1>1, <1>5, <1>10, <2>1 DEF StackConnected
  <2>2. ASSUME NEW y \in Range(stack')
        PROVE  \E x \in Path' : index[x] <= index[y] /\ Leads(successors, y, x)
    <3>1. y \in Range(stack) /\ index[y] \in Nat
      BY <1>2, <1>3, <1>10
    <3>2. PICK x \in Path : index[x] <= index[y] /\ Leads(successors, y, x)
      BY <1>1, <3>1 DEF StackConnected
    <3>3. CASE x # v
      BY <1>5, <3>2, <3>3
    <3>4. CASE x = v
      <4>1. lowlink[v] # index[v]
        BY <1>3, <1>6, <1>9, <3>1, <3>2, <3>4
      <4>2. PICK z \in Range(stack) : index[z] <= lowlink[v] /\ Leads(successors, v, z)
        BY <1>1, <1>6 DEF LowlinkReached
      <4>3. PICK u \in Path : index[u] <= index[z] /\ Leads(successors, z, u)
        BY <1>1 DEF StackConnected
      <4>4. /\ index[u] \in Nat /\ index[z] \in Nat /\ index[v] \in Nat
            /\ lowlink[v] \in Nat
        BY <1>2, <1>3, <1>6
      <4>5. index[u] < index[v] /\ index[u] <= index[y]
        BY <1>11, <3>1, <3>2, <3>4, <4>1, <4>2, <4>3, <4>4
      <4>6. u \in Path'
        BY <1>5, <4>4, <4>5
      <4>7. Leads(successors, y, u)
        BY <3>2, <3>4, <4>2, <4>3, LeadsOn
      <4> QED BY <4>5, <4>6, <4>7
    <3> QED BY <3>3, <3>4
  <2> QED BY <1>5, <2>1, <2>2 DEF StackConnected
<1>18. LowlinkReached'
  <2> SUFFICES ASSUME NEW x \in Range(stack')
               PROVE  /\ lowlink'[x] <= index[x]
                      /\ \E y \in Range(stack') : index[y] <= lowlink'[x]
                                                  /\ Leads(successors, x, y)
    BY <1>5 DEF LowlinkReached
  <2>1. /\ x \in Range(stack) /\ x \in DOMAIN index
        /\ index[x] \in Nat /\ lowlink[x] \in Nat
        /\ index[v] \in Nat /\ lowlink[v] \in Nat
    BY <1>2, <1>3, <1>6, <1>10
  <2>2. lowlink[x] <= index[x]
    BY <1>1, <2>1 DEF LowlinkReached
  <2>3. lowlink'[x] <= index[x] /\ lowlink'[x] \in Nat
    BY <1>11, <2>1, <2>2
  <2>4. \E y \in Range(stack) : index[y] <= lowlink'[x] /\ Leads(successors, x, y)
    <3>1. CASE lowlink'[x] = lowlink[x]
      BY <1>1, <2>1, <3>1 DEF LowlinkReached
    <3>2. CASE lowlink'[x] # lowlink[x]
      <4>1. x \in Path /\ lowlink'[x] = lowlink[v]
        BY <1>5, <2>1, <3>2
      <4>2. Leads(successors, x, v)
        BY <1>1, <1>6, <1>8, <4>1 DEF StackConnected
      <4>3. PICK y \in Range(stack) : index[y] <= lowlink[v] /\ Leads(successors, v, y)
        BY <1>1, <1>6 DEF LowlinkReached
      <4> QED BY <4>1, <4>2, <4>3, LeadsOn
    <3> QED BY <3>1, <3>2
  <2>5. ASSUME NEW y \in Range(stack), index[y] <= lowlink'[x]
        PROVE  y \in Range(stack')
    <3>1. CASE lowlink[v] # index[v]
      BY <1>9, <3>1
    <3>2. CASE lowlink[v] = index[v]
      <4>1. index[x] < index[v]
        BY <1>9, <2>1, <3>2
      <4>2. index[y] \in Nat
        BY <1>2, <1>3
      <4>3. index[y] < index[v]
        BY <2>1, <2>3, <2>5, <4>1, <4>2
      <4> QED BY <1>9, <4>3
    <3> QED BY <3>1, <3>2
  <2> QED BY <2>3, <2>4, <2>5
<1>19. LowlinkCovers'
  <2> SUFFICES ASSUME NEW x \in Path', NEW y \in Range(stack'), NEW z \in Range(stack'),
                      UpToNext(x, y)', z \in successors[y], ~Waits(y, z)
               PROVE  lowlink'[x] <= index[z]
    BY <1>5 DEF LowlinkCovers
  <2>1. /\ x \in Path /\ x # v /\ y \in Range(stack) /\ z \in Range(stack)
        /\ index[x] \in Nat /\ index[y] \in Nat /\ index[z] \in Nat /\ index[v] \in Nat
        /\ lowlink[x] \in Nat /\ lowlink'[x] \in Nat /\ lowlink[v] \in Nat
        /\ lowlink'[x] <= lowlink[x]
    BY <1>2, <1>3, <1>5, <1>6, <1>10, <1>11
  <2>2. index[x] <= index[y]
        /\ \A u \in Path \ {v} : index[u] <= index[x] \/ index[y] < index[u]
    BY <1>5 DEF UpToNext
  <2>3. \A u \in Path : index[u] \in Nat
    BY <1>2, <1>3
  <2>4. CASE index[y] < index[v]
    <3>1. UpToNext(x, y)
      BY <2>2, <2>4 DEF UpToNext
    <3>2. lowlink[x] <= index[z]
      BY <1>1, <2>1, <3>1 DEF LowlinkCovers
    <3> QED BY <2>1, <3>2
  <2>5. CASE index[v] <= index[y]
    <3>1. UpToNext(v, y)
      BY <1>8, <2>5 DEF UpToNext
    <3>2. lowlink[v] <= index[z]
      BY <1>1, <1>5, <2>1, <3>1 DEF LowlinkCovers
    <3>3. Highest(x)'
      <4>1. ASSUME NEW u \in Path \ {v} PROVE index[u] <= index[x]
        <5>1. index[u] <= index[v]
          BY <1>8
        <5> QED BY <2>1, <2>2, <2>3, <2>5, <5>1
      <4> QED BY <1>5, <4>1 DEF Highest
    <3>4. lowlink'[x] <= lowlink[v]
      BY <1>5, <3>3
    <3> QED BY <2>1, <3>2, <3>4
  <2> QED BY <2>1, <2>4, <2>5
<1> QED BY <1>12, <1>13, <1>15, <1>16, <1>17, <1>18, <1>19 DEF SearchInv
LEMMA SearchStarts ==
  ASSUME SccInit
  PROVE  SearchInv
<1>1. /\ successors \in [Vertex -> SUBSET Vertex]
      /\ DOMAIN index = {} /\ DOMAIN lowlink = {}
      /\ index \in [{} -> Nat] /\ lowlink \in [{} -> Nat]
      /\ stack = <<>> /\ dfs = <<>> /\ sccs = <<>>
  BY GraphAssumption DEF SccInit, NoIndex
<1>2. /\ DOMAIN stack = {} /\ DOMAIN dfs = {} /\ DOMAIN sccs = {}
      /\ Range(stack) = {} /\ Range(sccs) = {}
  BY <1>1 DEF Range
<1>3. Path = {} /\ Found = {} /\ \A x, y : ~Waits(x, y)
  BY <1>2 DEF Path, Found, Waits
<1>4. SearchTypes
  <2>1. \A S : <<>> \in Seq(S)
    BY EmptySeq
  <2> QED BY <1>1, <2>1, FS_EmptySet DEF SearchTypes
<1>5. IndexInOrder /\ SeenOnce /\ FoundInOrder /\ StackConnected
      /\ LowlinkReached /\ LowlinkCovers
  BY <1>1, <1>2, <1>3
     DEF IndexInOrder, SeenOnce, FoundInOrder, StackConnected, LowlinkReached,
         LowlinkCovers
<1> QED BY <1>4, <1>5 DEF SearchInv

LEMMA SearchContinues ==
  ASSUME SearchInv, [Next]_vars
  PROVE  SearchInv'
<1>1. ASSUME NEW v \in Vertex, StartAt(v) PROVE SearchInv'
  <2>1. SearchTypes /\ IndexInOrder
    BY DEF SearchInv
  <2> QED BY <1>1, <2>1, StartEnters, EnteredKeeps
<1>2. ASSUME dfs # <<>>, NEW w \in Last(dfs).edges, Descend(w) PROVE SearchInv'
  <2>1. w \in Vertex
    <3>1. Last(dfs) \in Call
      <4>1. SearchTypes
        BY DEF SearchInv
      <4>2. Last(dfs) = dfs[Len(dfs)] /\ Len(dfs) \in 1 .. Len(dfs)
            /\ \A i \in 1 .. Len(dfs) : dfs[i] \in Call
        BY <1>2, <4>1, PoppedCall
      <4> QED BY <4>2
    <3> QED BY <3>1 DEF Call
  <2> QED BY <1>2, <2>1, DescendEnters, EnteredKeeps
<1>3. ASSUME dfs # <<>>, NEW w \in Last(dfs).edges, SeeAgain(Last(dfs).node, w)
      PROVE  SearchInv'
  BY <1>3, SeeAgainKeeps
<1>4. ASSUME dfs # <<>>, Leave(Last(dfs).node) PROVE SearchInv'
  BY <1>4, LeaveKeeps
<1>5. CASE UNCHANGED scc_vars
  <2>1. /\ successors' = successors /\ index' = index /\ lowlink' = lowlink
        /\ stack' = stack /\ dfs' = dfs /\ sccs' = sccs
    BY <1>5 DEF scc_vars
  <2>2. /\ Call' = Call /\ Path' = Path /\ Found' = Found
        /\ \A x, y : Waits(x, y)' <=> Waits(x, y)
        /\ \A k : FoundUpTo(k)' = FoundUpTo(k)
    BY <2>1 DEF Call, Path, Found, Waits, FoundUpTo
  <2>3. SearchTypes' /\ IndexInOrder'
    BY <2>1, <2>2 DEF SearchInv, SearchTypes, IndexInOrder
  <2>4. SeenOnce' /\ FoundInOrder'
    BY <2>1, <2>2 DEF SearchInv, SeenOnce, FoundInOrder
  <2>5. StackConnected' /\ LowlinkReached' /\ LowlinkCovers'
    BY <2>1, <2>2
       DEF SearchInv, StackConnected, LowlinkReached, LowlinkCovers, UpToNext
  <2> QED BY <2>3, <2>4, <2>5 DEF SearchInv
<1>6. UNCHANGED vars => UNCHANGED scc_vars
  BY DEF vars
<1> QED BY <1>1, <1>2, <1>3, <1>4, <1>5, <1>6 DEF Next, SccNext

-----------------------------------------------------------------------------
(***************************************************************************)
(* What a set reaches in a finite graph, as the property defines it, is    *)
(* the least closed set around it.                                         *)
(***************************************************************************)
LEMMA ReachEquation ==
  ASSUME successors \in [Vertex -> SUBSET Vertex]
  PROVE  \E r : /\ r = [x \in SUBSET Vertex |->
                          IF UNION {successors[v] : v \in x} \subseteq x THEN x
                          ELSE r[x \cup UNION {successors[v] : v \in x}]]
                /\ \A vs : Reach(vs) = r[vs]
<1> DEFINE beyond(x) == UNION {successors[v] : v \in x}
           reach[x \in SUBSET Vertex] ==
              LET more == UNION {successors[v] : v \in x}
              IN  IF more \subseteq x THEN x ELSE reach[x \cup more]
           Sol(r) == r = [x \in SUBSET Vertex |->
                            IF beyond(x) \subseteq x THEN x ELSE r[x \cup beyond(x)]]
           on == [x \in SUBSET Vertex |-> x \cup beyond(x)]
           out == [x \in SUBSET Vertex |-> x]
           stop == {x \in SUBSET Vertex : beyond(x) \subseteq x}
<1>1. reach = CHOOSE r : Sol(r)
  OBVIOUS
<1>2. /\ on \in [SUBSET Vertex -> SUBSET Vertex]
      /\ out \in [SUBSET Vertex -> SUBSET Vertex]
      /\ stop \in SUBSET (SUBSET Vertex)
  <2>1. \A x \in SUBSET Vertex : x \cup beyond(x) \in SUBSET Vertex
    OBVIOUS
  <2> HIDE DEF beyond
  <2> QED BY <2>1
<1> HIDE DEF reach
<1>3. PICK r \in [SUBSET Vertex -> SUBSET Vertex] :
         \A x \in SUBSET Vertex : r[x] = IF x \in stop THEN out[x] ELSE r[on[x]]
  <2> DEFINE D == SUBSET Vertex
  <2>1. on \in [D -> D] /\ out \in [D -> D] /\ stop \in SUBSET D
    BY <1>2
  <2> HIDE DEF on, out, stop, D
  <2>2. \E r \in [D -> D] : IsIteration(r, D, stop, on, out)
    BY <2>1, IterationExists
  <2> QED BY <2>2 DEF D, IsIteration
<1>4. Sol(r)
  <2> HIDE DEF beyond
  <2> QED BY <1>3
<1> HIDE DEF Sol
<1>5. Sol(reach)
  BY <1>1, <1>4
<1>6. \A vs : Reach(vs) = reach[vs]
  BY DEF Reach, reach
<1> QED BY <1>5, <1>6 DEF Sol

LEMMA ReachIsLeast ==
  ASSUME successors \in [Vertex -> SUBSET Vertex], IsFiniteSet(Vertex),
         NEW vs \in SUBSET Vertex
  PROVE  /\ vs \subseteq Reach(vs)
         /\ Reach(vs) \in SUBSET Vertex
         /\ IsClosed(successors, Reach(vs))
         /\ \A C \in SUBSET Vertex :
               vs \subseteq C /\ IsClosed(successors, C) => Reach(vs) \subseteq C
<1> DEFINE beyond(x) == UNION {successors[v] : v \in x}
<1>1. PICK r : /\ r = [x \in SUBSET Vertex |->
                          IF beyond(x) \subseteq x THEN x ELSE r[x \cup beyond(x)]]
               /\ \A x : Reach(x) = r[x]
  BY ReachEquation
<1> DEFINE least(x) == /\ x \subseteq r[x]
                       /\ r[x] \in SUBSET Vertex
                       /\ IsClosed(successors, r[x])
                       /\ \A C \in SUBSET Vertex :
                             x \subseteq C /\ IsClosed(successors, C) => r[x] \subseteq C
           bad == {Vertex \ x : x \in {y \in SUBSET Vertex : ~least(y)}}
<1>2. \A x \in SUBSET Vertex : x \cup beyond(x) \in SUBSET Vertex
  OBVIOUS
<1>3. \A x \in SUBSET Vertex : beyond(x) \subseteq x <=> IsClosed(successors, x)
  BY DEF IsClosed
<1>4. \A x, C \in SUBSET Vertex :
         x \subseteq C /\ IsClosed(successors, C) => x \cup beyond(x) \subseteq C
  BY DEF IsClosed
<1> HIDE DEF beyond
<1>5. ASSUME NEW x \in SUBSET Vertex, ~least(x)
      PROVE  /\ ~least(x \cup beyond(x)) /\ x \cup beyond(x) \in SUBSET Vertex
             /\ x \cup beyond(x) # x
  <2>1. x \cup beyond(x) \in SUBSET Vertex
    BY <1>2
  <2>2. CASE beyond(x) \subseteq x
    <3>1. r[x] = x
      BY <1>1, <2>2
    <3>2. IsClosed(successors, x)
      BY <1>3, <2>2
    <3>3. least(x)
      BY <3>1, <3>2
    <3> HIDE DEF least
    <3> QED BY <1>5, <3>3
  <2>3. CASE ~(beyond(x) \subseteq x)
    <3>1. r[x] = r[x \cup beyond(x)]
      BY <1>1, <2>3
    <3> DEFINE y == x \cup beyond(x)
    <3>2. \A C \in SUBSET Vertex :
             x \subseteq C /\ IsClosed(successors, C) => y \subseteq C
      BY <1>4
    <3>3. x \subseteq y /\ r[x] = r[y]
      BY <3>1
    <3> HIDE DEF y
    <3>4. least(y) => least(x)
      BY <3>2, <3>3
    <3> HIDE DEF least
    <3> QED BY <1>5, <2>1, <2>3, <3>4 DEF y
  <2> QED BY <2>2, <2>3
<1> HIDE DEF least
<1>6. bad = {}
  <2> SUFFICES ASSUME bad # {} PROVE FALSE
    OBVIOUS
  <2>1. bad \in SUBSET (SUBSET Vertex)
    OBVIOUS
  <2>2. PICK T \in bad : \A U \in bad : U \subseteq T => U = T
    <3> HIDE DEF bad
    <3> QED BY <2>1, SmallestSubset
  <2>3. PICK x \in SUBSET Vertex : T = Vertex \ x /\ ~least(x)
    BY <2>2
  <2>4. Vertex \ (x \cup beyond(x)) \in bad
    BY <1>5, <2>3
  <2>5. Vertex \ (x \cup beyond(x)) = Vertex \ x
    BY <2>2, <2>3, <2>4
  <2>6. x \cup beyond(x) = x
    BY <1>5, <2>3, <2>5
  <2> QED BY <1>5, <2>3, <2>6
<1>7. least(vs)
  BY <1>6
<1> QED BY <1>1, <1>7 DEF least
(***************************************************************************)
(* At the end every node is in one set of those found, which is its class. *)
(***************************************************************************)
LEMMA FoundIsClass ==
  ASSUME SearchInv, IsFiniteSet(Vertex), NEW k \in DOMAIN sccs, NEW v \in sccs[k]
  PROVE  {w \in Reach({v}) : v \in Reach({w})} = sccs[k]
<1>1. /\ SearchTypes
      /\ FoundInOrder
      /\ successors \in [Vertex -> SUBSET Vertex]
      /\ DOMAIN sccs = 1 .. Len(sccs) /\ Len(sccs) \in Nat
      /\ \A i \in DOMAIN sccs : sccs[i] \in SUBSET Vertex
  <2>1. SearchTypes /\ FoundInOrder
    BY DEF SearchInv
  <2>2. sccs \in [1 .. Len(sccs) -> SUBSET DOMAIN index]
        /\ DOMAIN sccs = 1 .. Len(sccs) /\ Len(sccs) \in Nat
    BY <2>1, RangeIsValues DEF SearchTypes
  <2> QED BY <2>1, <2>2 DEF SearchTypes
<1>2. \A j \in DOMAIN sccs : /\ FoundUpTo(j) \in SUBSET Vertex
                             /\ sccs[j] \subseteq FoundUpTo(j)
                             /\ IsClosed(successors, FoundUpTo(j))
  BY <1>1 DEF FoundUpTo, FoundInOrder
<1>3. ASSUME NEW j \in DOMAIN sccs, NEW x \in sccs[j]
      PROVE  x \in Vertex /\ Reach({x}) \subseteq FoundUpTo(j)
  <2>1. x \in Vertex /\ {x} \subseteq FoundUpTo(j)
    BY <1>1, <1>2
  <2> QED BY <1>1, <1>2, <2>1, ReachIsLeast
<1>4. ASSUME NEW x \in sccs[k], NEW y \in sccs[k] PROVE y \in Reach({x})
  <2>1. Leads(successors, x, y)
    BY <1>1 DEF FoundInOrder
  <2>2. {x} \in SUBSET Vertex
    BY <1>3
  <2>3. x \in Reach({x}) /\ Reach({x}) \in SUBSET Vertex
        /\ IsClosed(successors, Reach({x}))
    BY <1>1, <2>2, ReachIsLeast
  <2> QED BY <2>1, <2>3 DEF Leads
<1>5. ASSUME NEW w \in Reach({v}), v \in Reach({w}) PROVE w \in sccs[k]
  <2>1. w \in FoundUpTo(k)
    BY <1>3
  <2>2. PICK j \in 1 .. k : w \in sccs[j]
    BY <2>1 DEF FoundUpTo
  <2>3. j \in DOMAIN sccs
    BY <1>1, <2>2
  <2>4. v \in FoundUpTo(j)
    BY <1>3, <1>5, <2>2, <2>3
  <2>5. PICK l \in 1 .. j : v \in sccs[l]
    BY <2>4 DEF FoundUpTo
  <2>6. CASE j = k
    BY <2>2, <2>6
  <2>7. CASE j # k
    <3>1. l \in 1 .. k - 1
      BY <1>1, <2>2, <2>5, <2>7
    <3>2. v \in FoundUpTo(k - 1)
      BY <2>5, <3>1 DEF FoundUpTo
    <3> QED BY <1>1, <3>2 DEF FoundInOrder
  <2> QED BY <2>6, <2>7
<1> QED BY <1>4, <1>5

LEMMA SearchInvGivesComponents ==
  ASSUME SearchInv
  PROVE  ComponentsInOrder
<1> DEFINE n == Len(sccs)
           result == StronglyConnectedComponents
           class(v) == {w \in Reach({v}) : v \in Reach({w})}
<1> SUFFICES ASSUME SccDone
             PROVE  /\ Range(result) = {class(v) : v \in Vertex}
                    /\ \A i, j \in DOMAIN result :
                          i < j => Reach(result[j]) \cap result[i] = {}
  BY DEF ComponentsInOrder
<1>1. SearchTypes /\ SeenOnce /\ FoundInOrder /\ StackConnected
  BY DEF SearchInv
<1>2. Found = Vertex /\ IsFiniteSet(Vertex)
  <2>1. Path = {}
    BY DEF SccDone, Path
  <2>2. Range(stack) = {}
    BY <1>1, <2>1 DEF StackConnected
  <2> QED BY <1>1, <2>2 DEF SccDone, SeenOnce, SearchTypes
<1>3. /\ n \in Nat
      /\ DOMAIN sccs = 1 .. n
      /\ Range(sccs) = {sccs[k] : k \in 1 .. n}
      /\ \A k \in 1 .. n : sccs[k] \in SUBSET Vertex
  <2>1. sccs \in Seq(SUBSET DOMAIN index)
    BY <1>1 DEF SearchTypes
  <2>2. /\ n \in Nat
        /\ DOMAIN sccs = 1 .. n
        /\ Range(sccs) = {sccs[k] : k \in 1 .. n}
        /\ sccs \in [1 .. n -> SUBSET DOMAIN index]
    BY <2>1, RangeIsValues
  <2> QED BY <1>1, <2>2 DEF SearchTypes
<1>4. ASSUME NEW k \in 1 .. n, NEW v \in sccs[k] PROVE class(v) = sccs[k]
  BY <1>2, <1>3, FoundIsClass
<1>5. /\ DOMAIN result = 1 .. n
      /\ \A i \in 1 .. n : result[i] = sccs[n - i + 1]
  <2>1. result = [i \in 1 .. n |-> sccs[n - i + 1]]
    BY DEF StronglyConnectedComponents, Reverse
  <2> QED BY <2>1
<1> HIDE DEF result, n, class
<1>6. Range(result) = Range(sccs)
  <2>1. ASSUME NEW i \in 1 .. n
        PROVE  n - i + 1 \in 1 .. n /\ n - (n - i + 1) + 1 = i
    BY <1>3
  <2>2. Range(result) = {result[i] : i \in 1 .. n}
    BY <1>5 DEF Range
  <2>3. ASSUME NEW i \in 1 .. n PROVE result[i] \in Range(sccs)
    BY <1>3, <1>5, <2>1
  <2>4. ASSUME NEW i \in 1 .. n PROVE sccs[i] \in Range(result)
    BY <1>5, <2>1, <2>2
  <2> QED BY <1>3, <2>2, <2>3, <2>4
<1>7. Range(sccs) = {class(v) : v \in Vertex}
  <2>1. ASSUME NEW k \in 1 .. n PROVE sccs[k] \in {class(v) : v \in Vertex}
    <3>1. PICK v : v \in sccs[k]
      BY <1>1, <1>3 DEF FoundInOrder
    <3>2. v \in Vertex
      BY <1>3, <3>1
    <3> QED BY <1>4, <3>1, <3>2
  <2>2. ASSUME NEW v \in Vertex PROVE class(v) \in Range(sccs)
    <3>1. PICK k \in 1 .. n : v \in sccs[k]
      BY <1>2, <1>3 DEF Found
    <3> QED BY <1>3, <1>4, <3>1
  <2> QED BY <1>3, <2>1, <2>2
<1>8. ASSUME NEW i \in DOMAIN result, NEW j \in DOMAIN result, i < j
      PROVE  Reach(result[j]) \cap result[i] = {}
  <2> DEFINE a == n - j + 1
             b == n - i + 1
  <2>1. a \in 1 .. n /\ b \in 1 .. n /\ a <= b - 1 /\ i \in 1 .. n /\ j \in 1 .. n
    BY <1>3, <1>5, <1>8
  <2>2. result[j] = sccs[a] /\ result[i] = sccs[b]
    BY <1>5, <2>1
  <2> HIDE DEF a, b
  <2>3. 1 .. a \subseteq 1 .. b - 1 /\ a \in 1 .. a /\ 1 .. a \subseteq 1 .. n
    BY <1>3, <2>1
  <2>4. FoundUpTo(a) \subseteq FoundUpTo(b - 1) /\ sccs[a] \subseteq FoundUpTo(a)
        /\ FoundUpTo(a) \in SUBSET Vertex
    BY <1>3, <2>3 DEF FoundUpTo
  <2>5. IsClosed(successors, FoundUpTo(a)) /\ sccs[b] \cap FoundUpTo(b - 1) = {}
    BY <1>1, <1>3, <2>1 DEF FoundInOrder
  <2>6. Reach(sccs[a]) \subseteq FoundUpTo(a)
    <3>1. successors \in [Vertex -> SUBSET Vertex] /\ sccs[a] \in SUBSET Vertex
      BY <1>1, <1>3, <2>1 DEF SearchTypes
    <3> QED BY <1>2, <2>4, <2>5, <3>1, ReachIsLeast
  <2> QED BY <2>2, <2>4, <2>5, <2>6
<1> QED BY <1>6, <1>7, <1>8

-----------------------------------------------------------------------------
(***************************************************************************)
(* At every step of the search the components found so far are complete,   *)
(* what is on the stack leads to each other as the path tells, and the     *)
(* lowlinks are exact enough to tell the root of a component               *)
(* (StronglyConnectedComponents in dependency_graph.cc).                   *)
(***************************************************************************)
THEOREM SearchStaysInOrder == Spec => []SearchInv
<1>1. Init => SearchInv
  BY SearchStarts DEF Init
<1>2. SearchInv /\ [Next]_vars => SearchInv'
  BY SearchContinues
<1> QED BY <1>1, <1>2, PTL DEF Spec

(***************************************************************************)
(* The search finds the strongly connected components of any graph, each   *)
(* once, and none leads to an earlier one: what PropagateConditions relies *)
(* on (StronglyConnectedComponents in dependency_graph.cc).                *)
(***************************************************************************)
THEOREM ComponentsAreFound == Spec => []ComponentsInOrder
<1>1. SearchInv => ComponentsInOrder
  BY SearchInvGivesComponents
<1> QED BY <1>1, SearchStaysInOrder, PTL
-----------------------------------------------------------------------------
(***************************************************************************)
(* The traversal: nodes, and the order it has them in.                     *)
(***************************************************************************)
LEMMA FiniteImage ==
  ASSUME NEW S, IsFiniteSet(S), NEW T, NEW f \in [S -> T], \A t \in T : \E s \in S : f[s] = t
  PROVE  IsFiniteSet(T)
<1>1. f \in Surjection(S, T)
  BY DEF Surjection
<1> QED BY <1>1, FS_Surjection

LEMMA NodesAreFinite ==
  IsFiniteSet(Node)
<1>1. IsFiniteSet({SegmentNode(s) : s \in Segment})
  <2> DEFINE T == {SegmentNode(s) : s \in Segment}
             f == [s \in Segment |-> SegmentNode(s)]
  <2>1. f \in [Segment -> T] /\ \A t \in T : \E s \in Segment : f[s] = t
    OBVIOUS
  <2> HIDE DEF T, f
  <2>2. IsFiniteSet(T)
    BY <2>1, SegmentAssumption, FiniteImage
  <2> QED BY <2>2 DEF T
<1>2. IsFiniteSet({UnicodeNode(u) : u \in Codepoint \ Feature})
  <2> DEFINE U == Codepoint \ Feature
             T == {UnicodeNode(u) : u \in U}
             f == [u \in U |-> UnicodeNode(u)]
  <2>1. f \in [U -> T] /\ \A t \in T : \E u \in U : f[u] = t
    OBVIOUS
  <2>2. IsFiniteSet(U)
    BY FontAssumption, FS_Subset
  <2> HIDE DEF T, f, U
  <2>3. IsFiniteSet(T)
    BY <2>1, <2>2, FiniteImage
  <2> QED BY <2>3 DEF T, U
<1>3. IsFiniteSet({FeatureNode(t) : t \in Feature})
  <2> DEFINE T == {FeatureNode(t) : t \in Feature}
             f == [t \in Feature |-> FeatureNode(t)]
  <2>1. f \in [Feature -> T] /\ \A x \in T : \E t \in Feature : f[t] = x
    OBVIOUS
  <2>2. IsFiniteSet(Feature)
    BY FontAssumption, DependencyAssumption, FS_Subset
  <2> HIDE DEF T, f
  <2>3. IsFiniteSet(T)
    BY <2>1, <2>2, FiniteImage
  <2> QED BY <2>3 DEF T
<1>4. IsFiniteSet({GlyphNode(g) : g \in Glyph})
  <2> DEFINE T == {GlyphNode(g) : g \in Glyph}
             f == [g \in Glyph |-> GlyphNode(g)]
  <2>1. f \in [Glyph -> T] /\ \A x \in T : \E g \in Glyph : f[g] = x
    OBVIOUS
  <2> HIDE DEF T, f
  <2>2. IsFiniteSet(T)
    BY <2>1, FontAssumption, FiniteImage
  <2> QED BY <2>2 DEF T
<1>5. IsFiniteSet({InitFont})
  BY FS_Singleton
<1> QED BY <1>1, <1>2, <1>3, <1>4, <1>5, FS_Union DEF Node, Nodes

LEMMA HighestNumber ==
  ASSUME NEW n \in Nat, NEW T \in SUBSET (1 .. n), T # {}
  PROVE  Max(T) \in T
<1> DEFINE below == {k \in Nat : n - k \in T}
           R == OpToRel(<, Nat)
<1>1. \E k \in below : TRUE
  <2>1. PICK t \in T : TRUE
    OBVIOUS
  <2>2. n - t \in Nat /\ n - (n - t) = t
    OBVIOUS
  <2> QED BY <2>1, <2>2
<1>2. PICK k \in below : \A j \in below : ~(<<j, k>> \in R)
  <2>1. IsWellFoundedOn(R, Nat)
    BY NatLessThanWellFounded
  <2>2. below \in SUBSET Nat
    OBVIOUS
  <2> HIDE DEF below, R
  <2> QED BY <1>1, <2>1, <2>2, WFMin
<1>3. n - k \in T /\ k \in Nat
  OBVIOUS
<1>4. ASSUME NEW t \in T PROVE n - k >= t
  <2>1. n - t \in below /\ t \in Nat
    <3>1. n - t \in Nat /\ n - (n - t) = t
      OBVIOUS
    <3> QED BY <3>1
  <2>2. ~(n - t < k)
    BY <1>2, <1>3, <2>1 DEF OpToRel
  <2> QED BY <1>3, <2>1, <2>2
<1> QED BY <1>3, <1>4 DEF Max

LEMMA AsSequenceIsOrder ==
  ASSUME NEW S, IsFiniteSet(S)
  PROVE  AsSequence(S) \in Seq(S) /\ Range(AsSequence(S)) = S
<1> DEFINE one(T) == CHOOSE x \in T : TRUE
           iter[T \in SUBSET S] ==
              IF T = {} THEN <<>>
              ELSE LET x == CHOOSE y \in T : TRUE IN Append(iter[T \ {x}], x)
           Sol(h) == h = [T \in SUBSET S |->
                             IF T = {} THEN <<>>
                             ELSE Append(h[T \ {one(T)}], one(T))]
           V == Seq(S)
           pick == [T \in (SUBSET S) \ {{}} |-> one(T)]
           step == [p \in V \X (SUBSET S) |->
                       IF p[2] = {} THEN <<>> ELSE Append(p[1], one(p[2]))]
           good == [T \in SUBSET S |-> {s \in V : Range(s) = T}]
<1>1. iter = CHOOSE h : Sol(h)
  OBVIOUS
<1>2. AsSequence(S) = iter[S]
  BY DEF AsSequence, FoldSet, MapThenFoldSet
<1> HIDE DEF iter
<1>3. \A T \in (SUBSET S) \ {{}} : one(T) \in T
  OBVIOUS
<1> HIDE DEF one
<1>4. ASSUME NEW T \in (SUBSET S) \ {{}}, NEW s \in V
      PROVE  Append(s, one(T)) \in V /\ Range(Append(s, one(T))) = Range(s) \cup {one(T)}
  BY <1>3, RangeOfAppend
<1>5. <<>> \in V /\ Range(<<>>) = {}
  BY EmptySeq DEF Range
<1>6. \E h : Sol(h)
  <2>1. /\ pick \in [(SUBSET S) \ {{}} -> S]
        /\ \A T \in (SUBSET S) \ {{}} : pick[T] \in T
    BY <1>3
  <2>2. step \in [V \X (SUBSET S) -> V] /\ <<>> \in V
    <3> HIDE DEF V
    <3> QED BY <1>4, <1>5
  <2> HIDE DEF pick, step, V
  <2>3. PICK f \in [SUBSET S -> V] : IsSetRecursion(f, S, <<>>, pick, step)
    BY <2>1, <2>2, SetRecursionExists
  <2>4. ASSUME NEW T \in SUBSET S
        PROVE  f[T] = IF T = {} THEN <<>> ELSE Append(f[T \ {one(T)}], one(T))
    <3>1. CASE T = {}
      BY <2>3, <3>1 DEF IsSetRecursion
    <3>2. CASE T # {}
      <4>1. pick[T] = one(T)
        BY <3>2 DEF pick
      <4>2. f[T] = step[<<f[T \ {one(T)}], T>>]
        BY <2>3, <3>2, <4>1 DEF IsSetRecursion
      <4>3. f[T \ {one(T)}] \in V
        BY <1>3, <3>2
      <4> QED BY <3>2, <4>2, <4>3 DEF step
    <3> QED BY <3>1, <3>2
  <2>5. Sol(f)
    BY <2>4
  <2> QED BY <2>5
<1>7. Sol(iter)
  <2> HIDE DEF Sol
  <2> QED BY <1>1, <1>6
<1> HIDE DEF V
<1>8. iter[{}] \in good[{}]
  BY <1>5, <1>7
<1>9. ASSUME NEW T \in (SUBSET S) \ {{}}
      PROVE  \E x \in T : iter[T \ {x}] \in good[T \ {x}] => iter[T] \in good[T]
  <2> DEFINE U == T \ {one(T)}
  <2>1. U \in SUBSET S /\ T \in SUBSET S /\ one(T) \in T /\ T = U \cup {one(T)}
    BY <1>3
  <2>2. iter[T] = Append(iter[U], one(T))
    BY <1>7
  <2> HIDE DEF U
  <2>3. iter[U] \in good[U] => iter[T] \in good[T]
    BY <1>4, <2>1, <2>2
  <2> QED BY <2>1, <2>3 DEF U
<1> HIDE DEF Sol
<1>10. iter[S] \in good[S]
  <2> HIDE DEF good
  <2>1. \A T \in SUBSET S : iter[T] \in good[T]
    BY <1>8, <1>9, RecursionKeeps
  <2> QED BY <2>1
<1> QED BY <1>2, <1>10 DEF V
(***************************************************************************)
(* The edges that a phase follows: all of them lead to nodes, and to no    *)
(* codepoint but those that can be reached in the end.                     *)
(***************************************************************************)
Outgoing(n) == HandleOutgoingEdges(info, InPhase(free, phase), n)
PhaseEdges == UNION {Outgoing(n) : n \in Node}

LEMMA EdgesLeadToNodes ==
  ASSUME NEW e \in PhaseEdges
  PROVE  /\ e.dest \in Node
         /\ e.dest.type = "UNICODE" => e.dest.id \in free.unicodes
<1> DEFINE ctx == InPhase(free, phase)
<1>1. PICK n : e \in HandleOutgoingEdges(info, ctx, n)
  BY DEF PhaseEdges, Outgoing
<1>2. ctx.nodes = Node /\ ctx.unicodes = free.unicodes
  BY DEF InPhase, free, TraversalContext
<1> HIDE DEF ctx
<1>3. ShouldFollow(ctx, e)
  BY <1>1 DEF HandleOutgoingEdges
<1> QED BY <1>2, <1>3 DEF ShouldFollow

(***************************************************************************)
(* How far a walk has come: parts of the state, and what following edges   *)
(* of E makes of them.  A node is new exactly when it is to be handled.    *)
(***************************************************************************)
Frontiers(E) == [next : Seq(Node), visited : SUBSET Node, reached : SUBSET Node,
                 full : SUBSET Node, pending : Seq(E)]

Advances(s, t, E) ==
    /\ t.visited \subseteq s.visited
    /\ s.visited \ Range(s.next) \subseteq t.visited \ Range(t.next)
    /\ t.reached \subseteq s.reached
    /\ \A n \in s.reached \ t.reached : \E e \in E : n = e.dest

LEMMA AdvancesOn ==
  ASSUME NEW s, NEW t, NEW u, NEW E, Advances(s, t, E), Advances(t, u, E)
  PROVE  Advances(s, u, E)
BY DEF Advances

LEMMA VisitAdvances ==
  ASSUME NEW E, NEW s \in Frontiers(E), NEW e \in E, e.dest \in Node
  PROVE  /\ Visit(s, e) \in Frontiers(E)
         /\ Advances(Visit(s, e), s, E)
         /\ e.dest \in Visit(s, e).visited
         /\ Visit(s, e).pending = s.pending
<1> DEFINE v == Visit(s, e)
           to == IF e.dest \in s.visited THEN s.next ELSE Append(s.next, e.dest)
<1>1. /\ s.next \in Seq(Node) /\ s.visited \in SUBSET Node /\ s.reached \in SUBSET Node
      /\ s.full \in SUBSET Node /\ s.pending \in Seq(E)
      /\ DOMAIN s = {"next", "visited", "reached", "full", "pending"}
  BY DEF Frontiers
<1>2. to \in Seq(Node) /\ Range(to) = IF e.dest \in s.visited THEN Range(s.next)
                                      ELSE Range(s.next) \cup {e.dest}
  <2>1. \A q \in Seq(Node) : /\ Append(q, e.dest) \in Seq(Node)
                             /\ Range(Append(q, e.dest)) = Range(q) \cup {e.dest}
    BY RangeOfAppend
  <2> QED BY <1>1, <2>1
<1> HIDE DEF to
<1>3. v = [s EXCEPT !.next = to, !.visited = @ \cup {e.dest},
                    !.reached = @ \cup {e.dest}, !.full = @ \cup {e.dest}]
  BY DEF Visit, to
<1>4. /\ v.next = to
      /\ v.visited = s.visited \cup {e.dest}
      /\ v.reached = s.reached \cup {e.dest}
      /\ v.pending = s.pending
  BY <1>3 DEF Frontiers
<1>5. v \in Frontiers(E)
  <2>1. s = [next |-> s.next, visited |-> s.visited, reached |-> s.reached,
             full |-> s.full, pending |-> s.pending]
    BY DEF Frontiers
  <2>2. v = [next |-> to, visited |-> s.visited \cup {e.dest},
             reached |-> s.reached \cup {e.dest}, full |-> s.full \cup {e.dest},
             pending |-> s.pending]
    BY <1>3, <2>1
  <2> QED BY <1>1, <1>2, <2>2 DEF Frontiers
<1> HIDE DEF v
<1>6. Advances(v, s, E)
  BY <1>2, <1>4 DEF Advances
<1> QED BY <1>4, <1>5, <1>6 DEF v
(***************************************************************************)
(* What CheckPending does with one edge that was put aside.                *)
(***************************************************************************)
Retried(s, e) == IF ConstraintsSatisfied(e, s.reached) THEN Visit(s, e)
                 ELSE [s EXCEPT !.pending = Append(@, e)]

LEMMA RetriedAdvances ==
  ASSUME NEW E, NEW s \in Frontiers(E), NEW e \in E, e.dest \in Node
  PROVE  /\ Retried(s, e) \in Frontiers(E)
         /\ Advances(Retried(s, e), s, E)
         /\ e.dest \in Retried(s, e).visited \/ e \in Range(Retried(s, e).pending)
         /\ s.visited \subseteq Retried(s, e).visited
         /\ Range(s.pending) \subseteq Range(Retried(s, e).pending)
<1>1. CASE ConstraintsSatisfied(e, s.reached)
  <2>1. Retried(s, e) = Visit(s, e)
    BY <1>1 DEF Retried
  <2>2. /\ Visit(s, e) \in Frontiers(E) /\ Advances(Visit(s, e), s, E)
        /\ e.dest \in Visit(s, e).visited /\ Visit(s, e).pending = s.pending
    BY VisitAdvances
  <2>3. s.visited \subseteq Visit(s, e).visited
    BY <2>2 DEF Advances
  <2> QED BY <2>1, <2>2, <2>3
<1>2. CASE ~ConstraintsSatisfied(e, s.reached)
  <2> DEFINE v == Retried(s, e)
             more == Append(s.pending, e)
  <2>1. s.pending \in Seq(E)
    BY DEF Frontiers
  <2>2. more \in Seq(E) /\ Range(more) = Range(s.pending) \cup {e}
    BY <2>1, RangeOfAppend
  <2>3. v = [s EXCEPT !.pending = more]
    BY <1>2 DEF Retried
  <2> HIDE DEF more, v
  <2>4. s = [next |-> s.next, visited |-> s.visited, reached |-> s.reached,
             full |-> s.full, pending |-> s.pending]
    BY DEF Frontiers
  <2>5. v = [next |-> s.next, visited |-> s.visited, reached |-> s.reached,
             full |-> s.full, pending |-> more]
    BY <2>3, <2>4
  <2>6. v \in Frontiers(E)
    BY <2>2, <2>5 DEF Frontiers
  <2>7. Advances(v, s, E)
    BY <2>5 DEF Advances
  <2>8. v.visited = s.visited /\ v.pending = more
    BY <2>5
  <2>9. e \in Range(v.pending) /\ Range(s.pending) \subseteq Range(v.pending)
    BY <2>2, <2>8
  <2> QED BY <2>6, <2>7, <2>8, <2>9 DEF v
<1> QED BY <1>1, <1>2

NonePending(st) == [st EXCEPT !.pending = <<>>]

RetriesInOrder(f, st, E) ==
    LET S == 1 .. Len(st.pending)
    IN  /\ f \in [SUBSET S -> Frontiers(E)]
        /\ CheckPending(st) = f[S]
        /\ \A T \in SUBSET S :
              f[T] = IF T = {} THEN NonePending(st)
                     ELSE Retried(f[T \ {Max(T)}], st.pending[Max(T)])

LEMMA CheckPendingIsRecursion ==
  ASSUME NEW E, NEW st \in Frontiers(E), \A e \in E : e.dest \in Node
  PROVE  /\ NonePending(st) \in Frontiers(E)
         /\ \E f : RetriesInOrder(f, st, E)
<1> DEFINE S == 1 .. Len(st.pending)
           base == [st EXCEPT !.pending = <<>>]
           V == Frontiers(E)
           old == st.pending
           iter[T \in SUBSET S] ==
              IF T = {} THEN base
              ELSE LET x == Max(T) IN Retried(iter[T \ {x}], old[x])
           Sol(h) == h = [T \in SUBSET S |->
                             IF T = {} THEN base
                             ELSE Retried(h[T \ {Max(T)}], old[Max(T)])]
           pick == [T \in (SUBSET S) \ {{}} |-> Max(T)]
           step == [p \in V \X (SUBSET S) |->
                       IF p[2] = {} THEN base ELSE Retried(p[1], old[Max(p[2])])]
<1>1. iter = CHOOSE h : Sol(h)
  OBVIOUS
<1>2. old \in Seq(E) /\ Len(old) \in Nat /\ DOMAIN old = S /\ \A i \in S : old[i] \in E
  <2>1. old \in Seq(E)
    BY DEF Frontiers
  <2> QED BY <2>1, RangeIsValues
<1>3. CheckPending(st) = iter[S]
  <2>1. DOMAIN st.pending = S
    BY <1>2
  <2> QED BY <2>1 DEF CheckPending, FoldLeft, MapThenFoldSet, Retried
<1> HIDE DEF iter
<1>4. IsFiniteSet(S)
  BY <1>2, FS_Interval
<1>5. base \in V
  <2>1. st = [next |-> st.next, visited |-> st.visited, reached |-> st.reached,
              full |-> st.full, pending |-> st.pending]
    BY DEF Frontiers
  <2>2. base = [next |-> st.next, visited |-> st.visited, reached |-> st.reached,
                full |-> st.full, pending |-> <<>>]
    BY <2>1
  <2>3. <<>> \in Seq(E)
    BY EmptySeq
  <2> QED BY <2>2, <2>3 DEF Frontiers
<1>6. \A T \in (SUBSET S) \ {{}} : Max(T) \in T
  <2> TAKE T \in (SUBSET S) \ {{}}
  <2> QED BY <1>2, HighestNumber
<1>7. ASSUME NEW T \in (SUBSET S) \ {{}}, NEW s \in V
      PROVE  Retried(s, old[Max(T)]) \in V
  <2>1. old[Max(T)] \in E
    BY <1>2, <1>6
  <2>2. old[Max(T)].dest \in Node
    BY <2>1
  <2> QED BY <2>1, <2>2, RetriedAdvances
<1> HIDE DEF S, base, V, old
<1>8. \E f \in [SUBSET S -> V] :
         \A T \in SUBSET S : f[T] = IF T = {} THEN base
                                    ELSE Retried(f[T \ {Max(T)}], old[Max(T)])
  <2>1. /\ pick \in [(SUBSET S) \ {{}} -> S]
        /\ \A T \in (SUBSET S) \ {{}} : pick[T] \in T
    BY <1>6
  <2>2. step \in [V \X (SUBSET S) -> V]
    BY <1>5, <1>7
  <2> HIDE DEF pick, step
  <2>3. PICK f \in [SUBSET S -> V] : IsSetRecursion(f, S, base, pick, step)
    BY <1>4, <1>5, <2>1, <2>2, SetRecursionExists
  <2>4. ASSUME NEW T \in SUBSET S
        PROVE  f[T] = IF T = {} THEN base ELSE Retried(f[T \ {Max(T)}], old[Max(T)])
    <3>1. CASE T = {}
      BY <2>3, <3>1 DEF IsSetRecursion
    <3>2. CASE T # {}
      <4>1. pick[T] = Max(T)
        BY <3>2 DEF pick
      <4>2. f[T] = step[<<f[T \ {Max(T)}], T>>]
        BY <2>3, <3>2, <4>1 DEF IsSetRecursion
      <4>3. f[T \ {Max(T)}] \in V
        BY <1>6, <3>2
      <4> QED BY <3>2, <4>2, <4>3 DEF step
    <3> QED BY <3>1, <3>2
  <2> QED BY <2>4
<1>9. Sol(iter)
  <2>1. \E h : Sol(h)
    <3>1. PICK f \in [SUBSET S -> V] :
            \A T \in SUBSET S : f[T] = IF T = {} THEN base
                                       ELSE Retried(f[T \ {Max(T)}], old[Max(T)])
      BY <1>8
    <3>2. Sol(f)
      BY <3>1
    <3> QED BY <3>2
  <2> HIDE DEF Sol
  <2> QED BY <1>1, <2>1
<1>10. \A T \in SUBSET S : iter[T] = IF T = {} THEN base
                                     ELSE Retried(iter[T \ {Max(T)}], old[Max(T)])
  BY <1>9
<1>11. iter \in [SUBSET S -> V]
  <2> DEFINE good == [T \in SUBSET S |-> V]
  <2>1. iter[{}] \in good[{}]
    BY <1>5, <1>10
  <2>2. ASSUME NEW T \in (SUBSET S) \ {{}}
        PROVE  \E x \in T : iter[T \ {x}] \in good[T \ {x}] => iter[T] \in good[T]
    <3>1. Max(T) \in T /\ T \ {Max(T)} \in SUBSET S
      BY <1>6
    <3>2. iter[T \ {Max(T)}] \in V => iter[T] \in V
      BY <1>7, <1>10, <3>1
    <3>3. good[T \ {Max(T)}] = V /\ good[T] = V
      BY <3>1
    <3> QED BY <3>1, <3>2, <3>3
  <2> HIDE DEF good
  <2>3. \A T \in SUBSET S : iter[T] \in good[T]
    BY <1>4, <2>1, <2>2, RecursionKeeps
  <2>4. \A T \in SUBSET S : iter[T] \in V
    BY <2>3 DEF good
  <2>5. iter = [T \in SUBSET S |-> iter[T]]
    BY <1>9
  <2> HIDE DEF Sol
  <2> QED BY <2>4, <2>5
<1> HIDE DEF Sol
<1>12. /\ CheckPending(st) = iter[S]
       /\ \A T \in SUBSET S : iter[T] = IF T = {} THEN base
                                        ELSE Retried(iter[T \ {Max(T)}], old[Max(T)])
  BY <1>3, <1>10
<1>13. NonePending(st) = base
  BY DEF NonePending, base
<1>14. RetriesInOrder(iter, st, E)
  BY <1>11, <1>12, <1>13 DEF RetriesInOrder, S, V, old
<1> QED BY <1>5, <1>13, <1>14 DEF V
(***************************************************************************)
(* CheckPending loses nothing: each edge that was put aside is followed or *)
(* put aside again.                                                        *)
(***************************************************************************)
LEMMA CheckPendingAdvances ==
  ASSUME NEW E, NEW st \in Frontiers(E), \A e \in E : e.dest \in Node
  PROVE  /\ CheckPending(st) \in Frontiers(E)
         /\ Advances(CheckPending(st), st, E)
         /\ \A e \in Range(st.pending) :
               e.dest \in CheckPending(st).visited \/ e \in Range(CheckPending(st).pending)
<1> DEFINE S == 1 .. Len(st.pending)
           base == NonePending(st)
           V == Frontiers(E)
           old == st.pending
           kept(s, e) == e.dest \in s.visited \/ e \in Range(s.pending)
           good == [T \in SUBSET S |->
                      {s \in V : Advances(s, st, E) /\ \A i \in T : kept(s, old[i])}]
<1>1. base \in V /\ \E f : RetriesInOrder(f, st, E)
  BY CheckPendingIsRecursion
<1>2. PICK f : /\ f \in [SUBSET S -> V]
               /\ CheckPending(st) = f[S]
               /\ \A T \in SUBSET S :
                     f[T] = IF T = {} THEN base
                            ELSE Retried(f[T \ {Max(T)}], old[Max(T)])
  <2>1. PICK f : RetriesInOrder(f, st, E)
    BY <1>1
  <2> QED BY <2>1 DEF RetriesInOrder
<1>3. Len(old) \in Nat /\ DOMAIN old = S /\ \A i \in S : old[i] \in E
  <2>1. old \in Seq(E)
    BY DEF Frontiers
  <2> QED BY <2>1, RangeIsValues
<1>4. \A T \in (SUBSET S) \ {{}} : Max(T) \in T
  <2> TAKE T \in (SUBSET S) \ {{}}
  <2> QED BY <1>3, HighestNumber
<1>5. Advances(base, st, E)
  <2>1. /\ base.visited = st.visited /\ base.next = st.next /\ base.reached = st.reached
    BY DEF Frontiers, NonePending
  <2> QED BY <2>1 DEF Advances
<1>6. Range(old) = {old[i] : i \in S}
  BY <1>3 DEF Range
<1>12. IsFiniteSet(S)
  BY <1>3, FS_Interval
<1> HIDE DEF S, base, V, old
<1>7. f[{}] \in good[{}]
  BY <1>1, <1>2, <1>5
<1>8. ASSUME NEW T \in (SUBSET S) \ {{}}
      PROVE  \E x \in T : f[T \ {x}] \in good[T \ {x}] => f[T] \in good[T]
  <2> DEFINE m == Max(T)
             U == T \ {m}
             s == f[U]
             r == Retried(s, old[m])
  <2>1. m \in T /\ m \in S /\ U \in SUBSET S /\ T = U \cup {m} /\ T \in SUBSET S
    BY <1>4
  <2>2. f[T] = r
    BY <1>2
  <2> HIDE DEF m
  <2>3. s \in V /\ old[m] \in E /\ old[m].dest \in Node
    BY <1>2, <1>3, <2>1
  <2> HIDE DEF U, s
  <2>4. /\ r \in V /\ Advances(r, s, E)
        /\ old[m].dest \in r.visited \/ old[m] \in Range(r.pending)
        /\ s.visited \subseteq r.visited
        /\ Range(s.pending) \subseteq Range(r.pending)
    BY <2>3, RetriedAdvances DEF V
  <2> HIDE DEF r
  <2>5. ASSUME s \in good[U] PROVE r \in good[T]
    <3>1. s \in V /\ Advances(s, st, E) /\ \A i \in U : kept(s, old[i])
      BY <2>1, <2>5
    <3>2. Advances(r, st, E)
      BY <2>4, <3>1, AdvancesOn
    <3>3. \A i \in T : kept(r, old[i])
      BY <2>1, <2>4, <3>1
    <3> HIDE DEF kept
    <3> QED BY <2>1, <2>4, <3>2, <3>3
  <2> HIDE DEF good
  <2>6. f[T \ {m}] \in good[T \ {m}] => f[T] \in good[T]
    BY <2>2, <2>5 DEF s, U
  <2> QED BY <2>1, <2>6
<1>9. f[S] \in good[S]
  <2> HIDE DEF good
  <2>1. \A T \in SUBSET S : f[T] \in good[T]
    BY <1>12, <1>7, <1>8, RecursionKeeps
  <2> QED BY <2>1
<1>10. /\ f[S] \in V /\ Advances(f[S], st, E)
       /\ \A i \in S : kept(f[S], old[i])
  BY <1>9
<1>11. \A e \in Range(old) : kept(f[S], e)
  BY <1>6, <1>10
<1> QED BY <1>2, <1>10, <1>11 DEF V, old

(***************************************************************************)
(* A walk reaches no codepoint but those that it was allowed to: an edge   *)
(* that was ignored for its codepoints may be ignored for good.            *)
(***************************************************************************)
LEMMA IgnoredForGood ==
  ASSUME NEW s, NEW t, Advances(s, t, PhaseEdges), NEW e,
         ~CanReachCodepoints(e, t.reached)
  PROVE  ~CanReachCodepoints(e, s.reached)
<1>1. Ids(s.reached, "UNICODE") \subseteq Ids(t.reached, "UNICODE") \cup free.unicodes
  <2> SUFFICES ASSUME NEW n \in s.reached, n.type = "UNICODE", n \notin t.reached
               PROVE  n.id \in free.unicodes
    BY DEF Ids
  <2>1. PICK d \in PhaseEdges : n = d.dest
    BY DEF Advances
  <2> QED BY <2>1, EdgesLeadToNodes
<1> QED BY <1>1 DEF CanReachCodepoints

LEMMA PendingEdgeAdvances ==
  ASSUME NEW E, NEW s \in Frontiers(E), NEW e \in E, e.dest \in Node
  PROVE  LET v == TraversePendingEdgeTo(s, e)
         IN  /\ v \in Frontiers(E)
             /\ Advances(v, s, E)
             /\ \/ e.dest \in v.visited
                \/ e \in Range(v.pending)
                \/ ~CanReachCodepoints(e, s.reached)
             /\ Range(s.pending) \subseteq Range(v.pending)
             /\ s.visited \subseteq v.visited
<1>1. CASE CanReachCodepoints(e, s.reached)
  <2>1. TraversePendingEdgeTo(s, e) = Retried(s, e)
    BY <1>1 DEF TraversePendingEdgeTo, Retried
  <2> QED BY <2>1, RetriedAdvances
<1>2. CASE ~CanReachCodepoints(e, s.reached)
  <2>1. TraversePendingEdgeTo(s, e) = s
    BY <1>2 DEF TraversePendingEdgeTo
  <2>2. Advances(s, s, E)
    BY DEF Advances
  <2> QED BY <1>2, <2>1, <2>2
<1> QED BY <1>1, <1>2
-----------------------------------------------------------------------------
(***************************************************************************)
(* The inductive invariant of the traversal: what is put aside or left to  *)
(* do are edges of this phase, and none of a handled node is missing.      *)
(***************************************************************************)
TraversalInv ==
    /\ walk \in Walk
    /\ Frontier \in Frontiers(PhaseEdges)
    /\ todo \subseteq PhaseEdges
    /\ NoEdgeForgotten

LEMMA WalkHasType ==
  ASSUME NEW w \in Walk
  PROVE  StartNodes(w) \subseteq Node /\ InitFontNodes(w.info) \subseteq Node
<1>1. w.info \in Info /\ w.segments \in SUBSET Segment
  BY WalkAssumption
<1>2. w.info.init.codepoints \subseteq Codepoint /\ w.info.init.gids \subseteq Glyph
  BY <1>1 DEF Info, Definition
<1>3. StartNodes(w) \subseteq Node
  BY <1>1 DEF StartNodes, Node, Nodes
<1>4. InitFontNodes(w.info) \subseteq Node
  BY <1>2 DEF InitFontNodes, Node, Nodes
<1> QED BY <1>3, <1>4

LEMMA FrontierFields ==
  /\ Frontier.next = next
  /\ Frontier.visited = visited
  /\ Frontier.reached = reached
  /\ Frontier.full = full
  /\ Frontier.pending = pending
BY DEF Frontier

LEMMA SamePhase ==
  ASSUME UNCHANGED <<walk, phase>>
  PROVE  /\ PhaseEdges' = PhaseEdges
         /\ free' = free
         /\ \A n : HandleOutgoingEdges(info', InPhase(free', phase'), n) = Outgoing(n)
<1>1. info' = info
  BY DEF info
<1>2. free' = free
  BY <1>1 DEF free
<1>3. \A n : HandleOutgoingEdges(info', InPhase(free', phase'), n) = Outgoing(n)
  BY <1>1, <1>2 DEF Outgoing
<1>4. PhaseEdges' = UNION {HandleOutgoingEdges(info', InPhase(free', phase'), n) : n \in Node}
  BY DEF PhaseEdges, Outgoing
<1> QED BY <1>2, <1>3, <1>4 DEF PhaseEdges

(***************************************************************************)
(* A step within a phase that follows edges or puts them aside.            *)
(***************************************************************************)
LEMMA AdvanceKeeps ==
  ASSUME TraversalInv, UNCHANGED <<walk, phase>>, NEW t \in Frontiers(PhaseEdges),
         SetFrontier(t), Advances(t, Frontier, PhaseEdges), todo' \subseteq todo,
         \A e \in todo \cup Range(pending) :
            \/ e.dest \in t.visited
            \/ e \in todo' \cup Range(t.pending)
            \/ ~CanReachCodepoints(e, reached)
  PROVE  TraversalInv'
<1>1. /\ next' = t.next /\ visited' = t.visited /\ reached' = t.reached
      /\ full' = t.full /\ pending' = t.pending
  BY DEF SetFrontier
<1>2. Frontier' = t
  <2>1. t = [next |-> t.next, visited |-> t.visited, reached |-> t.reached,
             full |-> t.full, pending |-> t.pending]
    BY DEF Frontiers
  <2> QED BY <1>1, <2>1 DEF Frontier
<1>3. /\ PhaseEdges' = PhaseEdges /\ free' = free
      /\ \A n : HandleOutgoingEdges(info', InPhase(free', phase'), n) = Outgoing(n)
  BY SamePhase
<1>4. walk' \in Walk /\ Frontier' \in Frontiers(PhaseEdges)' /\ todo' \subseteq PhaseEdges'
  <2>1. Frontiers(PhaseEdges)' = Frontiers(PhaseEdges)
    BY <1>3 DEF Frontiers
  <2> QED BY <1>2, <1>3, <2>1 DEF TraversalInv
<1>5. ASSUME NEW e, ~CanReachCodepoints(e, reached)
      PROVE  ~CanReachCodepoints(e, reached)'
  <2>1. ~CanReachCodepoints(e, t.reached)
    BY <1>5, IgnoredForGood, FrontierFields
  <2>2. CanReachCodepoints(e, reached)' = CanReachCodepoints(e, t.reached)
    BY <1>1, <1>3 DEF CanReachCodepoints
  <2> QED BY <2>1, <2>2
<1>6. ASSUME phase' # Finished, NEW n \in visited' \ Range(next'), NEW e \in Outgoing(n)
      PROVE  \/ e.dest \in visited'
             \/ e \in todo' \cup Range(pending')
             \/ ~CanReachCodepoints(e, reached)'
  <2>1. n \in visited \ Range(next) /\ visited \subseteq visited'
    BY <1>1, FrontierFields DEF Advances
  <2>2. \/ e.dest \in visited
        \/ e \in todo \cup Range(pending)
        \/ ~CanReachCodepoints(e, reached)
    BY <1>6, <2>1 DEF TraversalInv, NoEdgeForgotten, Outgoing
  <2> QED BY <1>1, <1>5, <2>1, <2>2
<1>7. NoEdgeForgotten'
  BY <1>3, <1>6 DEF NoEdgeForgotten
<1> QED BY <1>4, <1>7 DEF TraversalInv

LEMMA TakeNextKeeps ==
  ASSUME TraversalInv, TakeNext
  PROVE  TraversalInv'
<1> DEFINE n0 == Last(next)
<1>1. next \in Seq(Node) /\ next # <<>> /\ visited \subseteq Node /\ reached \subseteq Node
      /\ full \subseteq Node /\ pending \in Seq(PhaseEdges)
  BY FrontierFields DEF TraversalInv, TakeNext, Frontiers
<1>2. /\ n0 \in Node /\ next' \in Seq(Node)
      /\ Range(next) = Range(next') \cup {n0}
  <2>1. /\ Len(next) \in Nat /\ Len(next) # 0 /\ Len(next) \in 1 .. Len(next)
        /\ \A i \in 1 .. Len(next) : next[i] \in Node
        /\ Range(next) = {next[i] : i \in 1 .. Len(next)}
    <3>1. /\ Len(next) \in Nat /\ DOMAIN next = 1 .. Len(next)
          /\ \A i \in 1 .. Len(next) : next[i] \in Node
      BY <1>1, RangeIsValues
    <3>2. Len(next) # 0
      BY <1>1, EmptySeq
    <3> QED BY <3>1, <3>2 DEF Range
  <2>2. next' = SubSeq(next, 1, Len(next) - 1)
    BY DEF TakeNext, Front
  <2>3. next' \in Seq(Node) /\ Range(next') = {next[i] : i \in 1 .. Len(next) - 1}
    <3>1. 1 \in 1 .. Len(next) + 1 /\ Len(next) - 1 \in 0 .. Len(next)
      BY <2>1
    <3> QED BY <1>1, <2>2, <3>1, RangeOfPart
  <2>4. n0 = next[Len(next)]
    BY DEF Last
  <2>5. 1 .. Len(next) = (1 .. Len(next) - 1) \cup {Len(next)}
    BY <2>1
  <2> QED BY <2>1, <2>3, <2>4, <2>5
<1>3. /\ PhaseEdges' = PhaseEdges /\ free' = free
      /\ \A n : HandleOutgoingEdges(info', InPhase(free', phase'), n) = Outgoing(n)
  <2>1. UNCHANGED <<walk, phase>>
    BY DEF TakeNext
  <2> QED BY <2>1, SamePhase
<1>4. todo' = Outgoing(n0) /\ todo = {}
  BY DEF TakeNext, Outgoing
<1> HIDE DEF n0
<1>5. UNCHANGED <<walk, phase, visited, reached, pending, full>>
  BY DEF TakeNext
<1>6. walk' \in Walk /\ Frontier' \in Frontiers(PhaseEdges)' /\ todo' \subseteq PhaseEdges'
  <2>1. Frontier' \in Frontiers(PhaseEdges)'
    BY <1>1, <1>2, <1>3, <1>5 DEF Frontier, Frontiers
  <2>2. todo' \subseteq PhaseEdges'
    BY <1>2, <1>3, <1>4 DEF PhaseEdges
  <2> QED BY <1>5, <2>1, <2>2 DEF TraversalInv
<1>7. ASSUME phase' # Finished, NEW n \in visited' \ Range(next'), NEW e \in Outgoing(n)
      PROVE  \/ e.dest \in visited'
             \/ e \in todo' \cup Range(pending')
             \/ ~CanReachCodepoints(e, reached)'
  <2>1. CASE n = n0
    BY <1>4, <1>7, <2>1
  <2>2. CASE n # n0
    <3>1. n \in visited \ Range(next)
      BY <1>2, <1>5, <2>2
    <3>2. \/ e.dest \in visited
          \/ e \in todo \cup Range(pending)
          \/ ~CanReachCodepoints(e, reached)
      BY <1>5, <1>7, <3>1 DEF TraversalInv, NoEdgeForgotten, Outgoing
    <3>3. CanReachCodepoints(e, reached)' = CanReachCodepoints(e, reached)
      BY <1>3, <1>5 DEF CanReachCodepoints
    <3> QED BY <1>4, <1>5, <3>2, <3>3
  <2> QED BY <2>1, <2>2
<1>8. NoEdgeForgotten'
  BY <1>3, <1>7 DEF NoEdgeForgotten
<1> QED BY <1>6, <1>8 DEF TraversalInv
LEMMA TraverseKeeps ==
  ASSUME TraversalInv, NEW e \in todo, Traverse(e)
  PROVE  TraversalInv'
<1> DEFINE t == TraversePendingEdgeTo(Frontier, e)
<1>1. Frontier \in Frontiers(PhaseEdges) /\ e \in PhaseEdges /\ e.dest \in Node
  BY EdgesLeadToNodes DEF TraversalInv
<1>2. /\ t \in Frontiers(PhaseEdges)
      /\ Advances(t, Frontier, PhaseEdges)
      /\ \/ e.dest \in t.visited
         \/ e \in Range(t.pending)
         \/ ~CanReachCodepoints(e, reached)
      /\ Range(pending) \subseteq Range(t.pending)
  BY <1>1, PendingEdgeAdvances, FrontierFields
<1>3. /\ todo' = todo \ {e} /\ SetFrontier(t) /\ UNCHANGED <<walk, phase>>
  BY DEF Traverse
<1> HIDE DEF t
<1>4. \A d \in todo \cup Range(pending) :
         \/ d.dest \in t.visited
         \/ d \in todo' \cup Range(t.pending)
         \/ ~CanReachCodepoints(d, reached)
  BY <1>2, <1>3
<1> QED BY <1>2, <1>3, <1>4, AdvanceKeeps

LEMMA LeftEdgesAdvance ==
  ASSUME TraversalInv
  PROVE  /\ CheckPending(Frontier) \in Frontiers(PhaseEdges)
         /\ Advances(CheckPending(Frontier), Frontier, PhaseEdges)
         /\ \A e \in Range(pending) : \/ e.dest \in CheckPending(Frontier).visited
                                      \/ e \in Range(CheckPending(Frontier).pending)
<1>1. Frontier \in Frontiers(PhaseEdges) /\ \A e \in PhaseEdges : e.dest \in Node
  BY EdgesLeadToNodes DEF TraversalInv
<1> QED BY <1>1, CheckPendingAdvances, FrontierFields

LEMMA RetryPendingKeeps ==
  ASSUME TraversalInv, RetryPending
  PROVE  TraversalInv'
<1> DEFINE t == CheckPending(Frontier)
<1>1. /\ t \in Frontiers(PhaseEdges)
      /\ Advances(t, Frontier, PhaseEdges)
      /\ \A e \in Range(pending) : e.dest \in t.visited \/ e \in Range(t.pending)
  BY LeftEdgesAdvance
<1>2. todo = {} /\ todo' = todo /\ SetFrontier(t) /\ UNCHANGED <<walk, phase>>
  BY DEF RetryPending
<1> HIDE DEF t
<1> QED BY <1>1, <1>2, AdvanceKeeps

LEMMA EndPhaseKeeps ==
  ASSUME TraversalInv, EndPhase
  PROVE  TraversalInv'
<1> DEFINE left  == CheckPending(Frontier)
           later == {p \in ClosurePhases(info.font) : p > phase}
           then  == IF later = {} THEN Finished ELSE Min(later)
           start == IF then = Finished THEN {} ELSE PhaseStart(left.full, then)
<1>1. /\ todo = {} /\ phase' = then /\ next' = AsSequence(start) /\ visited' = start
      /\ reached' = InitFontNodes(info) \cup start /\ pending' = <<>>
      /\ full' = left.full /\ UNCHANGED <<walk, todo>>
  BY DEF EndPhase
<1>2. left \in Frontiers(PhaseEdges)
  BY LeftEdgesAdvance
<1>3. left.full \subseteq Node
  BY <1>2 DEF Frontiers
<1>4. start \subseteq Node
  BY <1>3 DEF PhaseStart
<1> HIDE DEF start, then, left, later
<1>5. next' \in Seq(start) /\ Range(next') = start
  <2>1. IsFiniteSet(start)
    BY <1>4, NodesAreFinite, FS_Subset
  <2> QED BY <1>1, <2>1, AsSequenceIsOrder
<1>6. walk \in Walk /\ InitFontNodes(info) \subseteq Node
  BY WalkHasType DEF TraversalInv, info
<1>7. next' \in Seq(Node)
  BY <1>4, <1>5, SeqMonotonic
<1>8. Frontier' \in Frontiers(PhaseEdges)'
  <2>1. <<>> \in Seq(PhaseEdges')
    BY EmptySeq
  <2> QED BY <1>1, <1>3, <1>4, <1>6, <1>7, <2>1 DEF Frontier, Frontiers
<1>9. walk' \in Walk /\ todo' \subseteq PhaseEdges'
  BY <1>1, <1>6
<1>10. visited' \ Range(next') = {}
  BY <1>1, <1>5
<1>11. NoEdgeForgotten'
  BY <1>10 DEF NoEdgeForgotten
<1> QED BY <1>8, <1>9, <1>11 DEF TraversalInv

LEMMA TraversalStarts ==
  ASSUME TraversalInit
  PROVE  TraversalInv
<1>1. /\ walk \in Walk /\ next = AsSequence(StartNodes(walk)) /\ visited = StartNodes(walk)
      /\ reached = InitFontNodes(walk.info) \cup StartNodes(walk)
      /\ todo = {} /\ pending = <<>> /\ full = {}
  BY DEF TraversalInit
<1>2. StartNodes(walk) \subseteq Node /\ InitFontNodes(walk.info) \subseteq Node
  BY <1>1, WalkHasType
<1>3. next \in Seq(StartNodes(walk)) /\ Range(next) = StartNodes(walk)
  <2>1. IsFiniteSet(StartNodes(walk))
    BY <1>2, NodesAreFinite, FS_Subset
  <2> QED BY <1>1, <2>1, AsSequenceIsOrder
<1>4. next \in Seq(Node)
  BY <1>2, <1>3, SeqMonotonic
<1>5. Frontier \in Frontiers(PhaseEdges)
  <2>1. <<>> \in Seq(PhaseEdges)
    BY EmptySeq
  <2> QED BY <1>1, <1>2, <1>4, <2>1 DEF Frontier, Frontiers
<1>6. NoEdgeForgotten
  <2>1. visited \ Range(next) = {}
    BY <1>1, <1>3
  <2> QED BY <2>1 DEF NoEdgeForgotten
<1> QED BY <1>1, <1>5, <1>6 DEF TraversalInv

LEMMA TraversalContinues ==
  ASSUME TraversalInv, [Next]_vars
  PROVE  TraversalInv'
<1>1. CASE TraversalNext
  <2>1. CASE TakeNext
    BY <2>1, TakeNextKeeps
  <2>2. ASSUME NEW e \in todo, Traverse(e) PROVE TraversalInv'
    BY <2>2, TraverseKeeps
  <2>3. CASE RetryPending
    BY <2>3, RetryPendingKeeps
  <2>4. CASE EndPhase
    BY <2>4, EndPhaseKeeps
  <2> QED BY <1>1, <2>1, <2>2, <2>3, <2>4 DEF TraversalNext
<1>2. CASE UNCHANGED traversal_vars
  <2>1. UNCHANGED <<walk, phase, next, todo, visited, reached, pending, full>>
    BY <1>2 DEF traversal_vars
  <2>2. /\ PhaseEdges' = PhaseEdges /\ free' = free
        /\ \A n : HandleOutgoingEdges(info', InPhase(free', phase'), n) = Outgoing(n)
    BY <2>1, SamePhase
  <2>3. Frontier' = Frontier /\ Frontiers(PhaseEdges)' = Frontiers(PhaseEdges)
    BY <2>1, <2>2 DEF Frontier, Frontiers
  <2>4. NoEdgeForgotten'
    <3>1. \A e : CanReachCodepoints(e, reached)' = CanReachCodepoints(e, reached)
      BY <2>1, <2>2 DEF CanReachCodepoints
    <3> QED BY <2>1, <2>2, <3>1 DEF TraversalInv, NoEdgeForgotten, Outgoing
  <2> QED BY <2>1, <2>2, <2>3, <2>4 DEF TraversalInv
<1> QED BY <1>1, <1>2 DEF Next, vars

(***************************************************************************)
(* Whatever the font and the order of its edges, a traversal follows each  *)
(* edge of a node that it handled, has it yet to do, has put it aside or   *)
(* ignores it for a codepoint that cannot be reached (TraverseGraph and    *)
(* CheckPending in dependency_graph.cc).                                   *)
(***************************************************************************)
THEOREM NothingIsForgotten == Spec => []NoEdgeForgotten
<1>1. Init => TraversalInv
  BY TraversalStarts DEF Init
<1>2. TraversalInv /\ [Next]_vars => TraversalInv'
  BY TraversalContinues
<1>3. TraversalInv => NoEdgeForgotten
  BY DEF TraversalInv
<1> QED BY <1>1, <1>2, <1>3, PTL DEF Spec
(***************************************************************************)
(* A phase ends with the account of all it saw: each edge of a node that   *)
(* was visited leads to one that was visited too, or is reported, or       *)
(* cannot be followed for its codepoints (the pending edges that           *)
(* TraverseGraph hands to the result).                                     *)
(***************************************************************************)
AllAccountedFor ==
    EndPhase =>
        \A n \in visited : \A e \in HandleOutgoingEdges(info, InPhase(free, phase), n) :
            \/ e.dest \in visited
            \/ e \in reported'
            \/ ~CanReachCodepoints(e, reached)

THEOREM EveryPhaseIsComplete == Spec => [][AllAccountedFor]_vars
<1>1. TraversalInv => AllAccountedFor
  <2> SUFFICES ASSUME TraversalInv, EndPhase, NEW n \in visited, NEW e \in Outgoing(n)
               PROVE  \/ e.dest \in visited
                      \/ e \in reported'
                      \/ ~CanReachCodepoints(e, reached)
    BY DEF AllAccountedFor, Outgoing
  <2> DEFINE left == CheckPending(Frontier)
  <2>1. /\ todo = {} /\ next = <<>> /\ left.next = <<>> /\ phase # Finished
        /\ reported' = reported \cup {d \in Range(left.pending) : d.dest \notin left.visited}
    BY DEF EndPhase
  <2>2. /\ Advances(left, Frontier, PhaseEdges)
        /\ \A d \in Range(pending) : d.dest \in left.visited \/ d \in Range(left.pending)
    BY LeftEdgesAdvance
  <2> HIDE DEF left
  <2>3. Range(<<>>) = {}
    BY DEF Range
  <2>4. left.visited = visited
    BY <2>1, <2>2, <2>3, FrontierFields DEF Advances
  <2>5. \/ e.dest \in visited
        \/ e \in Range(pending)
        \/ ~CanReachCodepoints(e, reached)
    BY <2>1, <2>3 DEF TraversalInv, NoEdgeForgotten, Outgoing
  <2> QED BY <2>1, <2>2, <2>4, <2>5
<1>2. Init => TraversalInv
  BY TraversalStarts DEF Init
<1>3. TraversalInv /\ [Next]_vars => TraversalInv'
  BY TraversalContinues
<1> QED BY <1>1, <1>2, <1>3, PTL DEF Spec
=============================================================================
