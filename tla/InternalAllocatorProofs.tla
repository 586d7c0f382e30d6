---------------------- MODULE InternalAllocatorProofs ----------------------
(***************************************************************************)
(* Proofs about InternalAllocator for every depth of the tree and every    *)
(* set of sizes that SizesAssumption allows.                               *)
(***************************************************************************)
EXTENDS InternalAllocator, BuddyTreeProofs

-----------------------------------------------------------------------------
(***************************************************************************)
(* The inductive invariant.  The type of the cursor depends on all of it:  *)
(* the search must not go up from the root, which it would do at a full    *)
(* root, and the root is full only if free_mem is 0.                       *)
(***************************************************************************)
States == {NODE_FULL, NODE_SPLIT, NODE_USED, NODE_FREE}
Closed == {NODE_FULL, NODE_USED}

\* Node n of tree t has a meaningful state.
Vis(t, n) == \A a \in Above(n) : t[a] \in {NODE_SPLIT, NODE_FULL}

\* What the state of a node says of its children.  Only in X, the way that a search
\* is splitting, a split node may have two free children.
NodeOK(t, n, X) ==
  /\ t[n] \in {NODE_SPLIT, NODE_FULL} => ~IS_LEAF(n)
  /\ t[n] = NODE_FULL => \A c \in Kids(n) : t[c] \in Closed
  /\ t[n] = NODE_SPLIT => \E c \in Kids(n) : t[c] \notin Closed
  /\ t[n] = NODE_SPLIT /\ n \notin X => \E c \in Kids(n) : t[c] # NODE_FREE
Shape(t, X) == \A n \in Nodes : Vis(t, n) => NodeOK(t, n, X)

UsedNodes(t) == {n \in Nodes : Vis(t, n) /\ t[n] = NODE_USED}
UsedBlocks(t) == UNION {BlocksOf(n) : n \in UsedNodes(t)}

\* Node n is the one that internal_alloc takes for an allocation a.
Holds(a, n) ==
  /\ a[1] = FirstBlock(n) * LeastSize /\ a[2] \in Sizes /\ a[2] <= NodeSize(n)
  /\ IS_LEAF(n) \/ NodeSize(n) \div 2 < a[2]

LiveOK(t, L) ==
  /\ L \subseteq Nat \X Sizes
  /\ \A a \in L : \E n \in UsedNodes(t) : Holds(a, n)
  /\ \A n \in UsedNodes(t) : \E a \in L : Holds(a, n)
  /\ \A a, b \in L : a[1] = b[1] => a = b

\* The nodes that the search under way has split.
Splitting ==
  IF pc = "search" /\ state = "DOWN" /\ buddy_tree[idx] = NODE_FREE THEN Above(idx) ELSE {}

TypeInv ==
  /\ buddy_tree \in [Nodes -> States] /\ free_mem \in Nat
  /\ pc \in {"idle", "search", "locate"}
  /\ idx \in Nodes /\ state \in {"DOWN", "UP_LEFT", "UP_RIGHT"}

AtRest == size = 0 /\ dest = 0 /\ idx = 1 /\ state = "DOWN"

\* The search has come by split nodes, and a node that it visits is large enough.
SearchOK ==
  /\ size \in Sizes /\ dest = 0 /\ free_mem >= size
  /\ \A a \in Above(idx) : buddy_tree[a] = NODE_SPLIT
  /\ state = "DOWN" => size <= cur_size
  /\ state # "DOWN" => /\ ~IS_LEAF(idx) /\ buddy_tree[idx] = NODE_SPLIT
                       /\ size <= cur_size \div 2

\* internal_free is on the way to a used node.
LocateOK ==
  /\ size = 0
  /\ \E n \in UsedNodes(buddy_tree) : dest = FirstBlock(n) * LeastSize /\ idx \in Path(n)

CallOK ==
  /\ pc = "idle" => AtRest
  /\ pc = "search" => SearchOK
  /\ pc = "locate" => LocateOK

MemOK == free_mem = MemSize - LeastSize * Cardinality(UsedBlocks(buddy_tree))

IInv ==
  /\ TypeInv /\ CursorExact /\ CallOK
  /\ Shape(buddy_tree, Splitting)
  /\ LiveOK(buddy_tree, live)
  /\ MemOK

-----------------------------------------------------------------------------
(***************************************************************************)
(* Visible nodes                                                           *)
(***************************************************************************)
LEMMA VisKid ==
  ASSUME NEW p \in Nodes, ~IS_LEAF(p), NEW c \in Kids(p), NEW t
  PROVE  Vis(t, c) <=> Vis(t, p) /\ t[p] \in {NODE_SPLIT, NODE_FULL}
<1>1. Above(c) = {p} \cup Above(p)
  BY KidFacts
<1> QED BY <1>1 DEF Vis

\* Nothing below a free or used node is visible.
LEMMA NotVis ==
  ASSUME NEW t, NEW n, NEW m, n \in Above(m), t[n] \notin {NODE_SPLIT, NODE_FULL}
  PROVE  ~Vis(t, m)
BY DEF Vis

\* Two used nodes have no block in common.
LEMMA UsedDisjoint ==
  ASSUME NEW t, NEW m \in UsedNodes(t), NEW n \in Nodes, Vis(t, n),
         t[n] \in {NODE_USED, NODE_FREE}, m # n
  PROVE  BlocksOf(m) \cap BlocksOf(n) = {}
<1>1. m \in Nodes /\ Vis(t, m) /\ t[m] = NODE_USED
  BY DEF UsedNodes
<1>2. m \notin Above(n) /\ n \notin Above(m)
  BY <1>1, NotVis DEF NODE_USED, NODE_FREE, NODE_SPLIT, NODE_FULL
<1>3. m \notin Path(n) /\ n \notin Path(m)
  BY <1>2 DEF Above
<1> QED BY <1>1, <1>3, BlocksOverlap

-----------------------------------------------------------------------------
(***************************************************************************)
(* Splitting                                                               *)
(***************************************************************************)
SplitOf(t, n) == [t EXCEPT ![n] = NODE_SPLIT, ![2 * n] = NODE_FREE, ![2 * n + 1] = NODE_FREE]

\* The search splits a free node on its way down.
LEMMA SplitTree ==
  ASSUME NEW t \in [Nodes -> States], NEW n \in Nodes, ~IS_LEAF(n), t[n] = NODE_FREE,
         \A a \in Above(n) : t[a] = NODE_SPLIT,
         NEW X, X \subseteq Above(n), Shape(t, X),
         NEW u, u = SplitOf(t, n)
  PROVE  /\ u \in [Nodes -> States] /\ u[2 * n] = NODE_FREE
         /\ \A a \in Above(2 * n) : u[a] = NODE_SPLIT
         /\ Shape(u, Above(2 * n))
         /\ UsedNodes(u) = UsedNodes(t)
<1> USE DEF NODE_USED, NODE_FREE, NODE_SPLIT, NODE_FULL
<1>1. 2 * n \in Kids(n) /\ 2 * n + 1 \in Kids(n)
  BY DEF Kids
<1>2. \A c \in Kids(n) : c \in Nodes /\ c # n /\ c # 1 /\ PARENT(c) = n /\ Above(c) = {n} \cup Above(n)
  BY KidFacts
<1>3. u \in [Nodes -> States]
  BY DEF States, SplitOf
<1>4. \A m \in Nodes : u[m] = IF m \in Kids(n) THEN NODE_FREE
                              ELSE IF m = n THEN NODE_SPLIT ELSE t[m]
  BY <1>2 DEF Kids, SplitOf
<1>5. n \notin Above(n)
  BY AboveFacts
<1>6. \A a \in Above(n) : a \in Nodes /\ a \notin Kids(n)
  BY <1>5, AboveFacts, KidAbove DEF Above
<1>7. \A a \in Above(2 * n) : u[a] = NODE_SPLIT
  BY <1>1, <1>2, <1>4, <1>6
<1>8. Vis(t, n)
  BY DEF Vis
<1>9. ASSUME NEW m \in Nodes, n \notin Above(m)
      PROVE  /\ Vis(u, m) <=> Vis(t, m)
             /\ m # n => u[m] = t[m]
  <2>1. \A a \in Above(m) : a \in Nodes /\ a # n /\ a \notin Kids(n)
    BY <1>9, AboveFacts, KidAbove DEF Above
  <2>2. m \notin Kids(n)
    BY <1>2, <1>9
  <2> QED BY <2>1, <2>2, <1>4 DEF Vis
<1>10. ASSUME NEW m \in Nodes, n \in Above(m)
       PROVE  ~Vis(t, m) /\ (Vis(u, m) => m \in Kids(n) /\ u[m] = NODE_FREE)
  <2>1. ~Vis(t, m)
    BY <1>10, NotVis
  <2>2. ASSUME m \notin Kids(n) PROVE ~Vis(u, m)
    <3>1. PICK c \in Kids(n) : c \in Path(m)
      BY <1>10, AboveKid
    <3>2. c \in Above(m) /\ u[c] = NODE_FREE
      BY <3>1, <2>2, <1>2, <1>4 DEF Above
    <3> QED BY <3>2, NotVis
  <2> QED BY <2>1, <2>2, <1>4
<1>11. Shape(u, Above(2 * n))
  <2> SUFFICES ASSUME NEW m \in Nodes, Vis(u, m) PROVE NodeOK(u, m, Above(2 * n))
    BY DEF Shape
  <2>1. CASE n \in Above(m)
    BY <2>1, <1>10 DEF NodeOK
  <2>2. CASE m = n
    <3>1. u[n] = NODE_SPLIT /\ \A c \in Kids(n) : u[c] = NODE_FREE
      BY <1>2, <1>4
    <3>2. n \in Above(2 * n)
      BY <1>1, <1>2
    <3> QED BY <3>1, <3>2, <2>2, <1>1 DEF NodeOK, Closed
  <2>3. CASE n \notin Above(m) /\ m # n
    <3>1. Vis(t, m) /\ u[m] = t[m]
      BY <2>3, <1>9
    <3>2. NodeOK(t, m, X)
      BY <3>1 DEF Shape
    <3>3. CASE IS_LEAF(m)
      BY <3>1, <3>2, <3>3 DEF NodeOK
    <3>4. CASE ~IS_LEAF(m) /\ n \in Kids(m)
      <4>1. m \in Above(n)
        BY <3>4, KidAbove, PathFacts
      <4>2. t[m] = NODE_SPLIT /\ u[n] = NODE_SPLIT
        BY <4>1, <1>2, <1>4
      <4> QED BY <4>2, <3>1, <3>4 DEF NodeOK, Closed
    <3>5. CASE ~IS_LEAF(m) /\ n \notin Kids(m)
      <4>1. \A c \in Kids(m) : c \in Nodes /\ c \notin Kids(n) /\ c # n
        BY <3>5, <2>3, <1>2, KidFacts
      <4>2. \A c \in Kids(m) : u[c] = t[c]
        BY <4>1, <1>4
      <4>3. X \subseteq Above(2 * n)
        BY <1>1, <1>2
      <4> QED BY <4>2, <4>3, <3>1, <3>2 DEF NodeOK
    <3> QED BY <3>3, <3>4, <3>5
  <2> QED BY <2>1, <2>2, <2>3
<1>12. UsedNodes(u) = UsedNodes(t)
  <2>1. ASSUME NEW m \in Nodes PROVE m \in UsedNodes(u) <=> m \in UsedNodes(t)
    <3>1. CASE n \in Above(m)
      BY <3>1, <1>10 DEF UsedNodes
    <3>2. CASE m = n
      BY <3>2, <1>2, <1>4 DEF UsedNodes
    <3>3. CASE n \notin Above(m) /\ m # n
      BY <3>3, <1>9 DEF UsedNodes
    <3> QED BY <3>1, <3>2, <3>3
  <2> QED BY <2>1 DEF UsedNodes
<1> QED BY <1>1, <1>2, <1>3, <1>4, <1>7, <1>11, <1>12

-----------------------------------------------------------------------------
(***************************************************************************)
(* Taking a node                                                           *)
(***************************************************************************)

\* The search takes a free node, and full parents are marked.
LEMMA TakeTree ==
  ASSUME NEW t \in [Nodes -> States], NEW n \in Nodes, t[n] = NODE_FREE,
         \A a \in Above(n) : t[a] = NODE_SPLIT,
         NEW X, X \subseteq Above(n), Shape(t, X),
         NEW u, u = coalesce_full_nodes([t EXCEPT ![n] = NODE_USED], n)
  PROVE  /\ u \in [Nodes -> States] /\ Shape(u, {})
         /\ UsedNodes(u) = UsedNodes(t) \cup {n} /\ n \notin UsedNodes(t)
<1> USE DEF NODE_USED, NODE_FREE, NODE_SPLIT, NODE_FULL
<1> DEFINE v == [t EXCEPT ![n] = NODE_USED]
           top == MergeTop(v, n, {NODE_FULL, NODE_USED})
<1>1. v \in [Nodes -> States] /\ v[n] = NODE_USED /\ \A m \in Nodes : m # n => v[m] = t[m]
  BY DEF States
<1>2. /\ top \in Path(n) /\ top \in Nodes /\ top <= n
      /\ \A c \in Path(n) : c > top => v[Sibling(c)] \in {NODE_FULL, NODE_USED}
      /\ top # 1 => v[Sibling(top)] \notin {NODE_FULL, NODE_USED}
  BY MergeFacts
<1>3. u = [m \in Nodes |-> IF m \in Path(n) /\ m < n /\ m >= top THEN NODE_FULL ELSE v[m]]
  BY DEF coalesce_full_nodes, Merge
<1> HIDE DEF v, top
<1>4. u \in [Nodes -> States]
  BY <1>1, <1>3 DEF States
<1>5. /\ Path(n) = {n} \cup Above(n) /\ Above(n) \subseteq Nodes /\ n \notin Above(n)
      /\ \A a \in Above(n) : a < n /\ a \in Nat /\ ~IS_LEAF(a)
  BY AboveFacts, NodesNat
<1>6. n \in Nat /\ top \in Nat
  BY <1>2, NodesNat
<1>7. u[n] = NODE_USED
  <2>1. ~(n < n)
    BY <1>6
  <2> QED BY <2>1, <1>1, <1>3
<1>8. \A a \in Above(n) : u[a] = IF a >= top THEN NODE_FULL ELSE NODE_SPLIT
  BY <1>1, <1>3, <1>5
<1>9. \A m \in Nodes : m \notin Path(n) => u[m] = t[m]
  BY <1>1, <1>3, <1>5
<1>10. ASSUME NEW m \in Nodes PROVE Vis(u, m) <=> Vis(t, m)
  <2>1. CASE n \in Above(m)
    BY <2>1, <1>7, NotVis
  <2>2. CASE n \notin Above(m)
    <3>1. \A a \in Above(m) : a \in Nodes /\ a # n
      BY <2>2, AboveFacts
    <3>2. \A a \in Above(m) : u[a] \in {NODE_SPLIT, NODE_FULL} <=> t[a] \in {NODE_SPLIT, NODE_FULL}
      BY <3>1, <1>5, <1>8, <1>9
    <3> QED BY <3>2 DEF Vis
  <2> QED BY <2>1, <2>2
<1>11. Shape(u, {})
  <2> SUFFICES ASSUME NEW m \in Nodes, Vis(u, m) PROVE NodeOK(u, m, {})
    BY DEF Shape
  <2>1. CASE m = n
    BY <2>1, <1>7 DEF NodeOK
  <2>2. CASE m \in Above(n)
    <3>1. PICK c \in Kids(m) : c \in Path(n) /\ c > m /\ Sibling(c) \notin Path(n)
      BY <2>2, AboveKid
    <3>2. ~IS_LEAF(m) /\ m \in Nat
      BY <2>2, <1>5
    <3>3. /\ c \in Nodes /\ c # 1 /\ PARENT(c) = m /\ Kids(m) = {c, Sibling(c)}
          /\ Sibling(c) \in Nodes /\ c \in Nat
      BY <3>1, <3>2, KidFacts, SiblingOff, NodesNat
    <3>4. u[Sibling(c)] = t[Sibling(c)] /\ v[Sibling(c)] = t[Sibling(c)]
      BY <3>1, <3>3, <1>1, <1>5, <1>9
    <3>5. CASE m >= top
      <4>1. c > top
        BY <3>1, <3>2, <3>3, <3>5, <1>6
      <4>2. u[m] = NODE_FULL
        BY <3>5, <2>2, <1>8
      <4>3. t[Sibling(c)] \in Closed
        BY <4>1, <3>1, <3>4, <1>2 DEF Closed
      <4>4. c \in Above(n) => u[c] = NODE_FULL
        <5>1. c >= top
          BY <4>1, <3>3, <1>6
        <5> QED BY <5>1, <1>8
      <4>5. u[c] \in Closed
        BY <4>4, <3>1, <1>5, <1>7 DEF Closed
      <4> QED BY <4>2, <4>3, <4>5, <3>2, <3>3, <3>4 DEF NodeOK
    <3>6. CASE m < top
      <4>1. u[m] = NODE_SPLIT
        <5>1. ~(m >= top)
          BY <3>2, <3>6, <1>6
        <5> QED BY <5>1, <2>2, <1>8
      <4>2. top >= c
        BY <3>1, <3>3, <3>6, <1>2, PathGap
      <4>3. CASE c = top
        <5>1. u[Sibling(c)] \notin Closed
          BY <4>3, <3>3, <3>4, <1>2 DEF Closed
        <5>2. u[c] # NODE_FREE
          BY <4>3, <3>1, <1>5, <1>6, <1>7, <1>8
        <5> QED BY <4>1, <5>1, <5>2, <3>2, <3>3 DEF NodeOK
      <4>4. CASE c < top
        <5>1. c # n /\ ~(c >= top)
          BY <4>4, <3>3, <1>2, <1>6
        <5>2. c \in Above(n)
          BY <5>1, <3>1, <1>5
        <5>3. u[c] = NODE_SPLIT
          BY <5>1, <5>2, <1>8
        <5> QED BY <4>1, <5>3, <3>1, <3>2 DEF NodeOK, Closed
      <4> QED BY <4>2, <4>3, <4>4, <3>3, <1>6
    <3> QED BY <3>2, <3>5, <3>6, <1>6
  <2>3. CASE m \notin Path(n)
    <3>1. Vis(t, m) /\ u[m] = t[m] /\ NodeOK(t, m, X) /\ m \notin X
      BY <2>3, <1>5, <1>9, <1>10 DEF Shape
    <3>2. CASE IS_LEAF(m)
      BY <3>1, <3>2 DEF NodeOK
    <3>3. CASE ~IS_LEAF(m)
      <4>1. \A c \in Kids(m) : c \in Nodes /\ c \notin Path(n)
        BY <3>3, <2>3, <1>5, KidFacts, KidAbove
      <4>2. \A c \in Kids(m) : u[c] = t[c]
        BY <4>1, <1>9
      <4> QED BY <4>2, <3>1 DEF NodeOK
    <3> QED BY <3>2, <3>3
  <2> QED BY <2>1, <2>2, <2>3, <1>5
<1>12. UsedNodes(u) = UsedNodes(t) \cup {n} /\ n \notin UsedNodes(t)
  <2>1. Vis(t, n)
    BY DEF Vis
  <2>2. ASSUME NEW m \in Nodes PROVE m \in UsedNodes(u) <=> m \in UsedNodes(t) \cup {n}
    <3>1. CASE m = n
      BY <3>1, <2>1, <1>7, <1>10 DEF UsedNodes
    <3>2. CASE m \in Above(n)
      BY <3>2, <1>5, <1>8 DEF UsedNodes
    <3>3. CASE m \notin Path(n)
      BY <3>3, <1>5, <1>9, <1>10 DEF UsedNodes
    <3> QED BY <3>1, <3>2, <3>3, <1>5
  <2>3. UsedNodes(u) \subseteq Nodes /\ UsedNodes(t) \subseteq Nodes /\ n \notin UsedNodes(t)
    BY DEF UsedNodes
  <2> QED BY <2>2, <2>3
<1> QED BY <1>4, <1>11, <1>12

-----------------------------------------------------------------------------
(***************************************************************************)
(* Releasing a node                                                        *)
(***************************************************************************)

\* Below a full node the path to a used one is full.
LEMMA FullPath ==
  ASSUME NEW t, NEW X, Shape(t, X), NEW n \in UsedNodes(t),
         NEW m \in Above(n), t[m] = NODE_FULL, NEW c \in Above(n), c > m
  PROVE  t[c] = NODE_FULL
<1> USE DEF NODE_USED, NODE_FREE, NODE_SPLIT, NODE_FULL
<1>1. n \in Nodes /\ Vis(t, n) /\ t[n] = NODE_USED
  BY DEF UsedNodes
<1>2. \A a \in Above(n) : /\ a \in Nodes /\ a \in Nat /\ a \in Path(n) /\ ~IS_LEAF(a)
                          /\ Vis(t, a) /\ t[a] \in {NODE_SPLIT, NODE_FULL}
  BY <1>1, AboveFacts, NodesNat DEF Vis
<1> DEFINE B == {a \in Above(n) : a > m /\ t[a] # NODE_FULL}
<1> SUFFICES ASSUME B # {} PROVE FALSE
  OBVIOUS
<1>3. B \subseteq Nat
  BY <1>2
<1>4. PICK d \in B : \A e \in B : d <= e
  <2> HIDE DEF B
  <2> QED BY <1>3, LeastNatural
<1>5. d \in Above(n) /\ d > m /\ t[d] # NODE_FULL /\ d \in Nodes /\ d \in Nat /\ m \in Nat
  BY <1>2, <1>4
<1>6. m \in Path(d) /\ d # 1
  <2>1. m <= d
    BY <1>5
  <2> QED BY <2>1, <1>1, <1>2, <1>5, PathLinear, NodesNat
<1> DEFINE q == PARENT(d)
<1>7. q \in Nodes /\ ~IS_LEAF(q) /\ d \in Kids(q) /\ q < d /\ q \in Nat
  BY <1>5, <1>6, ParentKid, Parent, NodesNat
<1>8. q \in Above(n)
  BY <1>1, <1>2, <1>5, <1>7, KidAbove
<1>9. m <= q
  <2>1. m \in Path(q)
    BY <1>5, <1>6, PathStep
  <2> QED BY <2>1, <1>7, PathFacts
<1>10. t[q] = NODE_FULL
  BY <1>4, <1>5, <1>7, <1>8, <1>9
<1>11. t[d] \in Closed
  BY <1>2, <1>7, <1>8, <1>10 DEF Shape, NodeOK
<1> QED BY <1>2, <1>5, <1>11 DEF Closed

\* Of two used nodes, neither is below what merges around the other.
LEMMA NotMerged ==
  ASSUME NEW t, NEW n \in UsedNodes(t), NEW m \in UsedNodes(t), m # n,
         NEW top \in Path(n), \A c \in Path(n) : c > top => t[Sibling(c)] = NODE_FREE
  PROVE  top \notin Above(m)
<1> USE DEF NODE_USED, NODE_FREE, NODE_SPLIT, NODE_FULL
<1> SUFFICES ASSUME top \in Above(m) PROVE FALSE
  OBVIOUS
<1>1. /\ n \in Nodes /\ Vis(t, n) /\ t[n] = NODE_USED
      /\ m \in Nodes /\ Vis(t, m) /\ t[m] = NODE_USED
  BY DEF UsedNodes
<1>2. n \notin Above(m) /\ m \notin Above(n)
  BY <1>1, NotVis
<1>3. n \notin Path(m) /\ m \notin Path(n)
  BY <1>2 DEF Above
<1>4. Path(m) \subseteq Nodes /\ m \in Path(m) /\ 1 \in Path(n) /\ Path(n) \subseteq Nodes
  BY <1>1, PathFacts
<1> DEFINE D == Path(m) \ Path(n)
<1>5. D \subseteq Nat /\ D # {}
  BY <1>3, <1>4, NodesNat
<1>6. PICK d \in D : \A e \in D : d <= e
  <2> HIDE DEF D
  <2> QED BY <1>5, LeastNatural
<1>7. d \in Path(m) /\ d \notin Path(n) /\ d \in Nodes /\ d # 1
  BY <1>4, <1>6
<1> DEFINE b == PARENT(d)
<1>8. b \in Nodes /\ ~IS_LEAF(b) /\ d \in Kids(b) /\ b < d /\ b \in Path(m)
  BY <1>1, <1>7, ParentKid, Parent, PathFacts
<1>9. b \in Path(n)
  <2>1. b \in Nat /\ d \in Nat
    BY <1>7, <1>8, NodesNat
  <2>2. ~(d <= b)
    BY <2>1, <1>8
  <2> QED BY <2>2, <1>6, <1>8
<1>10. b \in Above(n)
  BY <1>3, <1>8, <1>9 DEF Above
<1>11. PICK c \in Kids(b) : c \in Path(n) /\ c > b /\ Sibling(c) \notin Path(n)
  BY <1>1, <1>10, AboveKid
<1>12. d = Sibling(c)
  BY <1>7, <1>8, <1>11, KidFacts
<1>13. top \in Path(m) /\ top \in Nodes
  BY <1>4 DEF Above
<1>14. ~(top > b)
  <2> SUFFICES ASSUME top > b PROVE FALSE
    OBVIOUS
  <2>1. top >= d
    BY <1>1, <1>7, <1>13, PathGap
  <2>2. d <= top
    BY <2>1, <1>7, <1>13, NodesNat
  <2>3. d \in Path(top)
    BY <2>2, <1>1, <1>7, <1>13, PathLinear
  <2>4. d \in Path(n)
    BY <2>3, <1>1, PathTrans
  <2> QED BY <2>4, <1>7
<1>15. c > top
  <2>1. c \in Nat /\ b \in Nat /\ top \in Nat
    BY <1>4, <1>8, <1>11, <1>13, NodesNat
  <2> QED BY <2>1, <1>11, <1>14
<1>16. t[d] = NODE_FREE
  BY <1>11, <1>12, <1>15
<1>17. d # m
  BY <1>1, <1>16
<1>18. d \in Above(m)
  BY <1>7, <1>17 DEF Above
<1> QED BY <1>1, <1>16, <1>18, NotVis

\* internal_free puts the free nodes around n together and opens the full ones above.
LEMMA ReleaseTree ==
  ASSUME NEW t \in [Nodes -> States], Shape(t, {}), NEW n \in UsedNodes(t),
         NEW u, u = coalesce_free_nodes([t EXCEPT ![n] = NODE_FREE], n)
  PROVE  /\ u \in [Nodes -> States] /\ Shape(u, {})
         /\ UsedNodes(u) = UsedNodes(t) \ {n}
<1> USE DEF NODE_USED, NODE_FREE, NODE_SPLIT, NODE_FULL
<1> DEFINE v == [t EXCEPT ![n] = NODE_FREE]
           top == MergeTop(v, n, {NODE_FREE})
           w == Merge(v, n, {NODE_FREE}, NODE_FREE)
           p == PARENT(top)
           full == {a \in Path(p) : \A c \in Path(p) : c >= a => w[c] = NODE_FULL}
           InF(a) == top # 1 /\ a \in full
<1>1. n \in Nodes /\ Vis(t, n) /\ t[n] = NODE_USED
  BY DEF UsedNodes
<1>2. v \in [Nodes -> States] /\ v[n] = NODE_FREE /\ \A m \in Nodes : m # n => v[m] = t[m]
  BY <1>1 DEF States
<1>3. /\ top \in Path(n) /\ top \in Nodes /\ top <= n
      /\ \A c \in Path(n) : c > top => v[Sibling(c)] \in {NODE_FREE}
      /\ top # 1 => v[Sibling(top)] \notin {NODE_FREE}
  BY <1>1, MergeFacts
<1>4. w = [m \in Nodes |-> IF m \in Path(n) /\ m < n /\ m >= top THEN NODE_FREE ELSE v[m]]
  BY DEF Merge
<1>5. u = IF top = 1 THEN w
          ELSE [m \in Nodes |-> IF m \in full THEN NODE_SPLIT ELSE w[m]]
  BY DEF coalesce_free_nodes, mark_nodes_split
<1> HIDE DEF v, w, top
<1>6. /\ Path(n) = {n} \cup Above(n) /\ Above(n) \subseteq Nodes /\ n \notin Above(n)
      /\ \A a \in Above(n) : a < n /\ a \in Nat /\ ~IS_LEAF(a)
  BY <1>1, AboveFacts, NodesNat
<1>7. n \in Nat /\ top \in Nat
  BY <1>1, <1>3, NodesNat
<1>8. top # 1 => p \in Nodes /\ p \in Path(n) /\ p < top /\ p \in Nat /\ Path(p) \subseteq Path(n)
  BY <1>1, <1>3, Parent, PathFacts, PathTrans, NodesNat
<1>9. \A m : InF(m) => m \in Above(n) /\ m < top
  <2> SUFFICES ASSUME NEW m, InF(m) PROVE m \in Above(n) /\ m < top
    OBVIOUS
  <2>1. m \in Path(p) /\ p \in Nodes
    BY <1>8
  <2>2. m <= p /\ m \in Nodes
    BY <2>1, PathFacts
  <2>3. m < top /\ m # n
    BY <2>2, <1>3, <1>7, <1>8, NodesNat
  <2> QED BY <2>1, <2>3, <1>6, <1>8
<1>10. \A m \in Nodes : u[m] = IF InF(m) THEN NODE_SPLIT ELSE w[m]
  BY <1>4, <1>5
<1>11. u \in [Nodes -> States]
  BY <1>2, <1>4, <1>5 DEF States
<1> HIDE DEF full, InF
<1>12. \A m \in Nodes : m \notin Path(n) => u[m] = t[m]
  BY <1>2, <1>4, <1>6, <1>9, <1>10
<1>13. \A m \in Path(n) : m >= top => u[m] = NODE_FREE
  <2> SUFFICES ASSUME NEW m \in Path(n), m >= top PROVE u[m] = NODE_FREE
    OBVIOUS
  <2>1. m \in Nodes /\ ~InF(m)
    <3>1. m \in Nodes /\ m \in Nat
      BY <1>1, PathFacts, NodesNat
    <3>2. ~(m < top)
      BY <3>1, <1>7
    <3> QED BY <3>1, <3>2, <1>9
  <2>2. CASE m = n
    <3>1. w[n] = NODE_FREE
      BY <1>1, <1>2, <1>4
    <3> QED BY <3>1, <2>1, <2>2, <1>10
  <2>3. CASE m # n
    <3>1. m < n
      BY <2>3, <1>6
    <3>2. w[m] = NODE_FREE
      BY <3>1, <2>1, <1>4
    <3> QED BY <3>2, <2>1, <1>10
  <2> QED BY <2>2, <2>3
<1>14. \A m \in Path(n) : m < top => /\ m \in Above(n) /\ t[m] \in {NODE_SPLIT, NODE_FULL}
                                     /\ w[m] = t[m]
                                     /\ u[m] = IF InF(m) THEN NODE_SPLIT ELSE t[m]
  <2> SUFFICES ASSUME NEW m \in Path(n), m < top
               PROVE  /\ m \in Above(n) /\ t[m] \in {NODE_SPLIT, NODE_FULL} /\ w[m] = t[m]
                      /\ u[m] = IF InF(m) THEN NODE_SPLIT ELSE t[m]
    OBVIOUS
  <2>1. m \in Nodes /\ m \in Nat /\ m # n /\ ~(m >= top)
    BY <1>1, <1>3, <1>7, PathFacts, NodesNat
  <2>2. m \in Above(n)
    BY <2>1, <1>6
  <2>3. t[m] \in {NODE_SPLIT, NODE_FULL}
    BY <2>2, <1>1 DEF Vis
  <2>4. w[m] = t[m]
    BY <2>1, <1>2, <1>4
  <2> QED BY <2>1, <2>2, <2>3, <2>4, <1>10
\* A full node above top is in the chain of full nodes that mark_nodes_split visits.
<1>15. \A m \in Path(n) : m < top => u[m] = NODE_SPLIT
  <2> SUFFICES ASSUME NEW m \in Path(n), m < top, t[m] = NODE_FULL PROVE InF(m)
    BY <1>14
  <2>1. m \in Nodes /\ m \in Nat /\ m \in Above(n) /\ m # 0
    BY <1>1, <1>14, PathFacts, NodesNat
  <2>2. top # 1
    BY <2>1, <1>7
  <2>3. m \in Path(top) /\ m # top
    <3>1. m <= top
      BY <2>1, <1>7
    <3> QED BY <3>1, <2>1, <1>1, <1>3, <1>7, PathLinear
  <2>4. m \in Path(p)
    BY <2>2, <2>3, <1>3, PathStep
  <2>5. ASSUME NEW c \in Path(p), c >= m PROVE w[c] = NODE_FULL
    <3>1. c \in Path(n) /\ c <= p /\ c \in Nodes
      BY <2>2, <1>8, PathFacts
    <3>2. c < top /\ c \in Nat
      BY <3>1, <2>2, <1>7, <1>8, NodesNat
    <3>3. c \in Above(n) /\ w[c] = t[c]
      BY <3>1, <3>2, <1>14
    <3>4. c = m \/ c > m
      BY <3>2, <2>1, <2>5
    <3>5. t[c] = NODE_FULL
      BY <3>3, <3>4, <2>1, FullPath
    <3> QED BY <3>3, <3>5
  <2> QED BY <2>2, <2>4, <2>5 DEF InF, full
<1>16. ASSUME NEW m \in Nodes, top \in Above(m) PROVE ~Vis(u, m)
  <2>1. u[top] = NODE_FREE
    <3>1. top >= top
      BY <1>7
    <3> QED BY <3>1, <1>3, <1>13
  <2> QED BY <2>1, <1>16, NotVis
<1>17. ASSUME NEW m \in Nodes, top \notin Above(m) PROVE Vis(u, m) <=> Vis(t, m)
  <2>1. ASSUME NEW b \in Above(m)
        PROVE  u[b] \in {NODE_SPLIT, NODE_FULL} <=> t[b] \in {NODE_SPLIT, NODE_FULL}
    <3>1. b \in Nodes /\ b \in Nat /\ Path(b) = {b} \cup Above(b) /\ Above(b) \subseteq Above(m)
      BY <2>1, AboveFacts, NodesNat
    <3>2. CASE b \notin Path(n)
      BY <3>1, <3>2, <1>12
    <3>3. CASE b \in Path(n)
      <4>1. ~(top <= b)
        <5> SUFFICES ASSUME top <= b PROVE FALSE
          OBVIOUS
        <5>1. top \in Path(b)
          BY <3>3, <1>1, <1>3, PathLinear
        <5> QED BY <5>1, <3>1, <2>1, <1>17
      <4>2. b < top
        BY <4>1, <3>1, <1>7
      <4> QED BY <4>2, <3>3, <1>14, <1>15
    <3> QED BY <3>2, <3>3
  <2> QED BY <2>1 DEF Vis
<1>18. Shape(u, {})
  <2> SUFFICES ASSUME NEW m \in Nodes, Vis(u, m) PROVE NodeOK(u, m, {})
    BY DEF Shape
  <2>1. top \notin Above(m) /\ Vis(t, m)
    BY <1>16, <1>17
  <2>2. CASE m \in Path(n) /\ m >= top
    BY <2>2, <1>13 DEF NodeOK
  <2>3. CASE m \in Path(n) /\ m < top
    <3>1. m \in Above(n) /\ u[m] = NODE_SPLIT /\ ~IS_LEAF(m) /\ m \in Nat
      BY <2>3, <1>6, <1>14, <1>15
    <3>2. PICK c \in Kids(m) : c \in Path(n) /\ c > m /\ Sibling(c) \notin Path(n)
      BY <3>1, <1>1, AboveKid
    <3>3. /\ c \in Nodes /\ c # 1 /\ PARENT(c) = m /\ Kids(m) = {c, Sibling(c)}
          /\ Sibling(c) \in Nodes /\ c \in Nat
      BY <3>1, <3>2, <1>1, KidFacts, SiblingOff, NodesNat
    <3>4. top >= c
      BY <3>2, <3>3, <2>3, <1>1, <1>3, PathGap
    <3>5. CASE c = top
      <4>1. u[c] = NODE_FREE
        <5>1. c >= top
          BY <3>5, <1>7
        <5> QED BY <5>1, <3>2, <1>13
      <4>2. u[Sibling(c)] # NODE_FREE
        <5>1. v[Sibling(c)] = t[Sibling(c)] /\ u[Sibling(c)] = t[Sibling(c)]
          BY <3>2, <3>3, <1>2, <1>6, <1>12
        <5> QED BY <5>1, <3>3, <3>5, <1>3
      <4> QED BY <4>1, <4>2, <3>1, <3>3 DEF NodeOK, Closed
    <3>6. CASE c < top
      <4>1. u[c] = NODE_SPLIT
        BY <3>2, <3>6, <1>15
      <4> QED BY <4>1, <3>1, <3>2 DEF NodeOK, Closed
    <3> QED BY <3>3, <3>4, <3>5, <3>6, <1>7
  <2>4. CASE m \notin Path(n)
    <3>1. u[m] = t[m] /\ NodeOK(t, m, {})
      BY <2>1, <2>4, <1>12 DEF Shape
    <3>2. CASE IS_LEAF(m)
      BY <3>1, <3>2 DEF NodeOK
    <3>3. CASE ~IS_LEAF(m)
      <4>1. \A c \in Kids(m) : c \in Nodes /\ c \notin Path(n)
        BY <3>3, <2>4, <1>1, <1>6, KidFacts, KidAbove
      <4>2. \A c \in Kids(m) : u[c] = t[c]
        BY <4>1, <1>12
      <4> QED BY <4>2, <3>1 DEF NodeOK
    <3> QED BY <3>2, <3>3
  <2> QED BY <2>2, <2>3, <2>4, <1>7, NodesNat
<1>19. UsedNodes(u) = UsedNodes(t) \ {n}
  <2>1. \A c \in Path(n) : c > top => t[Sibling(c)] = NODE_FREE
    <3> SUFFICES ASSUME NEW c \in Path(n), c > top PROVE t[Sibling(c)] = NODE_FREE
      OBVIOUS
    <3>1. c \in Nat /\ c # 1
      BY <1>1, <1>3, <1>7, PathFacts, NodesNat
    <3>2. Sibling(c) \in Nodes /\ Sibling(c) # n
      BY <3>1, <1>1, <1>6, SiblingOff
    <3> QED BY <3>2, <1>2, <1>3
  <2>2. ASSUME NEW m \in UsedNodes(u) PROVE m \in UsedNodes(t) \ {n}
    <3>1. m \in Nodes /\ Vis(u, m) /\ u[m] = NODE_USED /\ top \notin Above(m) /\ Vis(t, m)
      BY <2>2, <1>16, <1>17 DEF UsedNodes
    <3>2. m \notin Path(n)
      <4>1. m >= top \/ m < top
        BY <3>1, <1>7, NodesNat
      <4> QED BY <4>1, <3>1, <1>13, <1>15
    <3> QED BY <3>1, <3>2, <1>6, <1>12 DEF UsedNodes
  <2>3. ASSUME NEW m \in UsedNodes(t), m # n PROVE m \in UsedNodes(u)
    <3>1. m \in Nodes /\ Vis(t, m) /\ t[m] = NODE_USED
      BY <2>3 DEF UsedNodes
    <3>2. m \notin Path(n)
      BY <3>1, <2>3, <1>1, <1>6, NotVis
    <3>3. top \notin Above(m)
      BY <2>1, <2>3, <1>3, NotMerged
    <3> QED BY <3>1, <3>2, <3>3, <1>12, <1>17 DEF UsedNodes
  <2> QED BY <2>2, <2>3
<1> QED BY <1>11, <1>18, <1>19

-----------------------------------------------------------------------------
(***************************************************************************)
(* Sizes and addresses                                                     *)
(***************************************************************************)
Offset(n) == FirstBlock(n) * LeastSize

\* A product grows with its first factor.
LEMMA MulMono ==
  ASSUME NEW a \in Nat, NEW b \in Nat, NEW k \in Nat, a <= b
  PROVE  a * k <= b * k
<1>1. b * k = a * k + (b - a) * k
  OBVIOUS
<1>2. (b - a) * k \in Nat /\ a * k \in Nat
  OBVIOUS
<1> QED BY <1>1, <1>2

\* A node is a positive number of bytes inside the memory.
LEMMA SizeFacts ==
  ASSUME NEW n \in Nodes
  PROVE  /\ LeastSize \in Nat \ {0} /\ MemSize \in Nat \ {0}
         /\ NodeSize(n) \in Nat \ {0} /\ Offset(n) \in Nat
         /\ Offset(n) + NodeSize(n) <= MemSize
         /\ IS_LEAF(n) => NodeSize(n) = LeastSize
<1>1. /\ NoBlocksOf(n) \in Nat \ {0} /\ FirstBlock(n) \in Nat
      /\ FirstBlock(n) + NoBlocksOf(n) <= NoBlocks /\ NoBlocks \in Nat \ {0}
      /\ IS_LEAF(n) => NoBlocksOf(n) = 1
  BY WidthFacts, RootNode
<1>2. LeastSize \in Nat \ {0}
  BY SizesAssumption
<1>3. \A a \in Nat \ {0} : a * LeastSize \in Nat \ {0}
  BY <1>2
<1>4. (FirstBlock(n) + NoBlocksOf(n)) * LeastSize <= NoBlocks * LeastSize
  BY <1>1, <1>2, MulMono
<1>5. (FirstBlock(n) + NoBlocksOf(n)) * LeastSize = Offset(n) + NodeSize(n)
  BY <1>1, <1>2 DEF Offset, NodeSize
<1>6. IS_LEAF(n) => NodeSize(n) = LeastSize
  BY <1>1, <1>2 DEF NodeSize
<1>7. Offset(n) \in Nat
  BY <1>1, <1>2 DEF Offset
<1> QED BY <1>1, <1>2, <1>3, <1>4, <1>5, <1>6, <1>7 DEF NodeSize, MemSize

\* The root is the whole memory.
LEMMA RootSize == NodeSize(1) = MemSize /\ Offset(1) = 0
BY RootNode, SizesAssumption DEF NodeSize, MemSize, Offset

\* A child has half of its parent, the right one the second half.
LEMMA KidSize ==
  ASSUME NEW n \in Nodes, ~IS_LEAF(n), NEW c \in Kids(n)
  PROVE  /\ c \in Nodes /\ NodeSize(n) = 2 * NodeSize(c) /\ NodeSize(n) \div 2 = NodeSize(c)
         /\ Offset(c) = IF c = 2 * n THEN Offset(n) ELSE Offset(n) + NodeSize(c)
<1>1. /\ c \in Nodes /\ NoBlocksOf(n) = 2 * NoBlocksOf(c)
      /\ FirstBlock(c) = IF c = 2 * n THEN FirstBlock(n) ELSE FirstBlock(n) + NoBlocksOf(c)
  BY Children DEF Kids
<1>2. NoBlocksOf(c) \in Nat /\ FirstBlock(n) \in Nat /\ LeastSize \in Nat
  BY <1>1, WidthFacts, SizesAssumption
<1>3. NodeSize(n) = 2 * NodeSize(c)
  BY <1>1, <1>2 DEF NodeSize
<1>4. NodeSize(c) \in Nat
  BY <1>1, SizeFacts
<1>5. Offset(c) = IF c = 2 * n THEN Offset(n) ELSE Offset(n) + NodeSize(c)
  BY <1>1, <1>2 DEF Offset, NodeSize
<1> QED BY <1>1, <1>3, <1>4, <1>5

-----------------------------------------------------------------------------
(***************************************************************************)
(* The blocks in use                                                       *)
(***************************************************************************)
\* Everything below a full node is in use.
LEMMA ClosedUsed ==
  ASSUME NEW t, NEW X, Shape(t, X), NEW n \in Nodes, Vis(t, n), t[n] \in Closed
  PROVE  BlocksOf(n) \subseteq UsedBlocks(t)
<1> USE DEF NODE_USED, NODE_FREE, NODE_SPLIT, NODE_FULL
<1> DEFINE S == {m \in Nodes : Vis(t, m) /\ t[m] \in Closed => BlocksOf(m) \subseteq UsedBlocks(t)}
<1>1. ASSUME NEW m \in Nodes, IS_LEAF(m) \/ (2 * m \in S /\ 2 * m + 1 \in S), Vis(t, m), t[m] \in Closed
      PROVE  BlocksOf(m) \subseteq UsedBlocks(t)
  <2>1. CASE t[m] = NODE_USED
    BY <2>1, <1>1 DEF UsedBlocks, UsedNodes
  <2>2. CASE t[m] = NODE_FULL
    <3>1. ~IS_LEAF(m) /\ \A c \in Kids(m) : t[c] \in Closed
      BY <2>2, <1>1 DEF Shape, NodeOK
    <3>2. \A c \in Kids(m) : Vis(t, c)
      BY <3>1, <2>2, <1>1, VisKid
    <3>3. BlocksOf(2 * m) \subseteq UsedBlocks(t) /\ BlocksOf(2 * m + 1) \subseteq UsedBlocks(t)
      BY <3>1, <3>2, <1>1 DEF Kids
    <3> QED BY <3>1, <3>3, BlocksChildren
  <2> QED BY <2>1, <2>2, <1>1 DEF Closed
<1>2. \A m \in Nodes : (IS_LEAF(m) \/ (2 * m \in S /\ 2 * m + 1 \in S)) => m \in S
  BY <1>1
<1>3. Nodes \subseteq S
  <2> HIDE DEF S
  <2> QED BY <1>2, NodeInductionUp
<1> QED BY <1>3

\* Once the search is over, a node that is not free has something in use.
LEMMA NotFreeUsed ==
  ASSUME NEW t \in [Nodes -> States], Shape(t, {}), NEW n \in Nodes, Vis(t, n), t[n] # NODE_FREE
  PROVE  BlocksOf(n) \cap UsedBlocks(t) # {}
<1> USE DEF NODE_USED, NODE_FREE, NODE_SPLIT, NODE_FULL
<1> DEFINE Meets(m) == \E b \in BlocksOf(m) : b \in UsedBlocks(t)
           S == {m \in Nodes : Vis(t, m) /\ t[m] # NODE_FREE => Meets(m)}
<1>1. ASSUME NEW m \in Nodes, IS_LEAF(m) \/ (2 * m \in S /\ 2 * m + 1 \in S), Vis(t, m), t[m] # NODE_FREE
      PROVE  Meets(m)
  <2>1. CASE t[m] \in Closed
    BY <2>1, <1>1, ClosedUsed, BlocksNonEmpty
  <2>2. CASE t[m] = NODE_SPLIT
    <3>1. ~IS_LEAF(m) /\ \E c \in Kids(m) : t[c] # NODE_FREE
      BY <2>2, <1>1 DEF Shape, NodeOK
    <3>2. PICK c \in Kids(m) : t[c] # NODE_FREE
      BY <3>1
    <3>3. Vis(t, c)
      BY <3>1, <2>2, <1>1, VisKid
    <3>4. Meets(c)
      BY <3>1, <3>2, <3>3, <1>1 DEF Kids
    <3>5. BlocksOf(c) \subseteq BlocksOf(m)
      BY <3>1, BlocksChildren DEF Kids
    <3> QED BY <3>4, <3>5
  <2> QED BY <2>1, <2>2, <1>1 DEF Closed, States
<1>2. \A m \in Nodes : (IS_LEAF(m) \/ (2 * m \in S /\ 2 * m + 1 \in S)) => m \in S
  BY <1>1
<1>3. Nodes \subseteq S
  <2> HIDE DEF S
  <2> QED BY <1>2, NodeInductionUp
<1> QED BY <1>3

\* Nothing below a free node that can be seen is in use.
LEMMA FreeUnused ==
  ASSUME NEW t, NEW n \in Nodes, Vis(t, n), t[n] = NODE_FREE
  PROVE  BlocksOf(n) \cap UsedBlocks(t) = {}
<1> USE DEF NODE_USED, NODE_FREE
<1>1. n \notin UsedNodes(t)
  BY DEF UsedNodes
<1>2. \A m \in UsedNodes(t) : BlocksOf(m) \cap BlocksOf(n) = {}
  BY <1>1, UsedDisjoint
<1> QED BY <1>2 DEF UsedBlocks

\* There are at most NoBlocks blocks in use.
LEMMA UsedFinite ==
  ASSUME NEW t
  PROVE  /\ UsedBlocks(t) \subseteq Blocks /\ IsFiniteSet(UsedBlocks(t))
         /\ Cardinality(UsedBlocks(t)) \in 0 .. NoBlocks
<1>1. UsedBlocks(t) \subseteq Blocks
  BY WidthFacts DEF UsedBlocks, UsedNodes
<1>2. NoBlocks \in Nat /\ NoBlocks >= 2
  BY RootNode
<1>3. IsFiniteSet(Blocks) /\ Cardinality(Blocks) = NoBlocks
  BY <1>2, FS_Interval DEF Blocks
<1>4. IsFiniteSet(UsedBlocks(t)) /\ Cardinality(UsedBlocks(t)) <= Cardinality(Blocks)
  BY <1>1, <1>3, FS_Subset
<1>5. Cardinality(UsedBlocks(t)) \in Nat
  BY <1>4, FS_CardinalityType
<1> QED BY <1>1, <1>2, <1>3, <1>4, <1>5

\* The blocks in use grow by those of the node that is taken.
LEMMA TakeBlocks ==
  ASSUME NEW t, NEW u, NEW n \in Nodes, Vis(t, n), t[n] = NODE_FREE,
         UsedNodes(u) = UsedNodes(t) \cup {n}
  PROVE  Cardinality(UsedBlocks(u)) = Cardinality(UsedBlocks(t)) + NoBlocksOf(n)
<1>1. UsedBlocks(u) = UsedBlocks(t) \cup BlocksOf(n)
  BY DEF UsedBlocks
<1>2. UsedBlocks(t) \cap BlocksOf(n) = {}
  BY FreeUnused
<1>3. IsFiniteSet(UsedBlocks(t)) /\ IsFiniteSet(BlocksOf(n)) /\ Cardinality(BlocksOf(n)) = NoBlocksOf(n)
  BY UsedFinite, BlocksFinite
<1>4. Cardinality(UsedBlocks(u)) = Cardinality(UsedBlocks(t)) + Cardinality(BlocksOf(n)) - Cardinality({})
  BY <1>1, <1>2, <1>3, FS_Union
<1>5. Cardinality(UsedBlocks(t)) \in Nat /\ NoBlocksOf(n) \in Nat
  BY UsedFinite, WidthFacts
<1> QED BY <1>3, <1>4, <1>5, FS_EmptySet

\* The blocks in use shrink by those of the node that is released.
LEMMA ReleaseBlocks ==
  ASSUME NEW t, NEW u, NEW n \in UsedNodes(t), UsedNodes(u) = UsedNodes(t) \ {n}
  PROVE  Cardinality(UsedBlocks(u)) = Cardinality(UsedBlocks(t)) - NoBlocksOf(n)
<1>1. n \in Nodes /\ Vis(t, n) /\ t[n] = NODE_USED
  BY DEF UsedNodes
<1>2. \A m \in UsedNodes(u) : BlocksOf(m) \cap BlocksOf(n) = {}
  BY <1>1, UsedDisjoint
<1>3. UsedBlocks(u) = UsedBlocks(t) \ BlocksOf(n)
  BY <1>2 DEF UsedBlocks
<1>4. UsedBlocks(t) \cap BlocksOf(n) = BlocksOf(n)
  BY DEF UsedBlocks
<1>5. IsFiniteSet(UsedBlocks(t)) /\ Cardinality(BlocksOf(n)) = NoBlocksOf(n)
  BY <1>1, UsedFinite, BlocksFinite
<1>6. Cardinality(UsedBlocks(t) \ BlocksOf(n))
        = Cardinality(UsedBlocks(t)) - Cardinality(UsedBlocks(t) \cap BlocksOf(n))
  BY <1>5, FS_Difference
<1> QED BY <1>3, <1>4, <1>5, <1>6

-----------------------------------------------------------------------------
(***************************************************************************)
(* The allocations of a tree                                               *)
(***************************************************************************)
LEMMA OffsetPath ==
  ASSUME NEW n \in Nodes, NEW c \in Path(n)
  PROVE  Offset(c) <= Offset(n) /\ Offset(n) < Offset(c) + NodeSize(c)
<1>1. c \in Nodes
  BY PathFacts
<1>2. FirstBlock(n) \in BlocksOf(c)
  BY BlocksPath, BlocksNonEmpty
<1> DEFINE f == FirstBlock(n)
           g == FirstBlock(c)
           w == NoBlocksOf(c)
<1>3. f \in Nat /\ g \in Nat /\ w \in Nat /\ g <= f /\ f + 1 <= g + w
  BY <1>1, <1>2, WidthFacts DEF BlocksOf
<1>4. LeastSize \in Nat \ {0}
  BY SizesAssumption
<1> HIDE DEF f, g, w
<1>5. g * LeastSize <= f * LeastSize /\ (f + 1) * LeastSize <= (g + w) * LeastSize
  BY <1>3, <1>4, MulMono
<1>6. (f + 1) * LeastSize = f * LeastSize + LeastSize /\ (g + w) * LeastSize = g * LeastSize + w * LeastSize
  BY <1>3, <1>4
<1>7. f * LeastSize \in Nat /\ g * LeastSize \in Nat /\ w * LeastSize \in Nat
  BY <1>3, <1>4
<1>8. g * LeastSize <= f * LeastSize /\ f * LeastSize < g * LeastSize + w * LeastSize
  BY <1>4, <1>5, <1>6, <1>7
<1> QED BY <1>8 DEF Offset, NodeSize, f, g, w

\* Nodes at the same offset start with the same block.
LEMMA OffsetBlock ==
  ASSUME NEW m \in Nodes, NEW n \in Nodes, Offset(m) = Offset(n)
  PROVE  FirstBlock(m) = FirstBlock(n)
<1>1. FirstBlock(m) \in Nat /\ FirstBlock(n) \in Nat /\ LeastSize \in Nat \ {0}
  BY WidthFacts, SizesAssumption
<1>2. Offset(m) \div LeastSize = FirstBlock(m) /\ Offset(n) \div LeastSize = FirstBlock(n)
  BY <1>1, MulDiv DEF Offset
<1> QED BY <1>2

\* No two nodes in use, or one in use and one free, start at the same address.
LEMMA OffsetUsed ==
  ASSUME NEW t, NEW m \in UsedNodes(t), NEW n \in Nodes, Vis(t, n),
         t[n] \in {NODE_USED, NODE_FREE}, Offset(m) = Offset(n)
  PROVE  m = n
<1>1. m \in Nodes
  BY DEF UsedNodes
<1>2. FirstBlock(m) \in BlocksOf(m) /\ FirstBlock(m) \in BlocksOf(n)
  BY <1>1, OffsetBlock, BlocksNonEmpty
<1> QED BY <1>2, UsedDisjoint

\* The allocation at the node that is taken joins the others.
LEMMA TakeLive ==
  ASSUME NEW t, NEW u, NEW n \in Nodes, Vis(t, n), t[n] = NODE_FREE, n \notin UsedNodes(t),
         UsedNodes(u) = UsedNodes(t) \cup {n},
         NEW L, LiveOK(t, L), NEW sz \in Sizes, Holds(<<Offset(n), sz>>, n)
  PROVE  LiveOK(u, L \cup {<<Offset(n), sz>>})
<1> DEFINE new == <<Offset(n), sz>>
<1>1. new \in Nat \X Sizes /\ new[1] = Offset(n)
  BY SizeFacts
<1>2. ASSUME NEW a \in L PROVE a[1] # new[1]
  <2>1. PICK m \in UsedNodes(t) : Holds(a, m)
    BY <1>2 DEF LiveOK
  <2>2. a[1] = Offset(m) /\ m # n
    BY <2>1 DEF Holds, Offset
  <2> QED BY <2>2, <1>1, OffsetUsed
<1> HIDE DEF new
<1>3. L \cup {new} \subseteq Nat \X Sizes
  BY <1>1 DEF LiveOK
<1>4. \A a \in L \cup {new} : \E m \in UsedNodes(u) : Holds(a, m)
  BY DEF LiveOK, new
<1>5. \A m \in UsedNodes(u) : \E a \in L \cup {new} : Holds(a, m)
  BY DEF LiveOK, new
<1>6. \A a, b \in L \cup {new} : a[1] = b[1] => a = b
  BY <1>2 DEF LiveOK
<1> QED BY <1>3, <1>4, <1>5, <1>6 DEF LiveOK, new

\* The allocation at the node that is released leaves, and no other.
LEMMA ReleaseLive ==
  ASSUME NEW t, NEW u, NEW n \in UsedNodes(t), UsedNodes(u) = UsedNodes(t) \ {n},
         NEW L, LiveOK(t, L)
  PROVE  LiveOK(u, {a \in L : a[1] # Offset(n)})
<1> DEFINE M == {a \in L : a[1] # Offset(n)}
<1>1. \A m \in UsedNodes(t) : Offset(m) = Offset(n) => m = n
  BY OffsetUsed DEF UsedNodes
<1>2. \A a, m : Holds(a, m) => a[1] = Offset(m)
  BY DEF Holds, Offset
<1>3. \A a \in M : \E m \in UsedNodes(u) : Holds(a, m)
  BY <1>2 DEF LiveOK
<1>4. \A m \in UsedNodes(u) : \E a \in M : Holds(a, m)
  BY <1>1, <1>2 DEF LiveOK
<1>5. M \subseteq Nat \X Sizes /\ \A a, b \in M : a[1] = b[1] => a = b
  BY DEF LiveOK
<1> QED BY <1>3, <1>4, <1>5 DEF LiveOK

\* A split changes no allocation.
LEMMA SplitLive ==
  ASSUME NEW t, NEW u, UsedNodes(u) = UsedNodes(t), NEW L, LiveOK(t, L)
  PROVE  LiveOK(u, L) /\ UsedBlocks(u) = UsedBlocks(t)
BY DEF LiveOK, UsedBlocks

-----------------------------------------------------------------------------
(***************************************************************************)
(* The invariant is inductive                                              *)
(***************************************************************************)
LEMMA ShapeMono ==
  ASSUME NEW t, NEW X, NEW Y, X \subseteq Y, Shape(t, X)
  PROVE  Shape(t, Y)
BY DEF Shape, NodeOK

\* A request is positive and at most half of the memory.
LEMMA SizeRange ==
  ASSUME NEW sz \in Sizes
  PROVE  sz \in Nat \ {0} /\ sz <= MemSize \div 2 /\ sz <= MemSize
<1>1. MemSize \in Nat \ {0}
  BY RootNode, SizeFacts
<1>2. sz \in 1 .. MemSize \div 2
  BY SizesAssumption
<1> QED BY <1>1, <1>2

\* A new root: all of its memory is one free node.
LEMMA InitIInv == Init => IInv
<1> USE DEF NODE_USED, NODE_FREE, NODE_SPLIT, NODE_FULL
<1> SUFFICES ASSUME Init PROVE IInv
  OBVIOUS
<1>1. 1 \in Nodes /\ ~IS_LEAF(1) /\ MemSize \in Nat
  BY RootNode, SizeFacts
<1>2. \A n \in Nodes : n # 1 => ~Vis(buddy_tree, n)
  <2> SUFFICES ASSUME NEW n \in Nodes, n # 1 PROVE ~Vis(buddy_tree, n)
    OBVIOUS
  <2>1. 1 \in Above(n)
    BY PathFacts DEF Above
  <2>2. buddy_tree[1] = NODE_FREE
    BY <1>1 DEF Init
  <2> QED BY <2>1, <2>2, NotVis
<1>3. TypeInv
  BY <1>1 DEF Init, TypeInv, States
<1>4. CursorExact
  BY RootSize DEF Init, CursorExact, Offset
<1>5. Shape(buddy_tree, Splitting)
  BY <1>1, <1>2 DEF Init, Shape, NodeOK
<1>6. UsedNodes(buddy_tree) = {}
  BY <1>1, <1>2 DEF Init, UsedNodes
<1>7. LiveOK(buddy_tree, live)
  BY <1>6 DEF Init, LiveOK
<1>8. MemOK
  <2>1. UsedBlocks(buddy_tree) = {}
    BY <1>6 DEF UsedBlocks
  <2>2. LeastSize \in Nat
    BY SizesAssumption
  <2> QED BY <2>1, <2>2, <1>1, FS_EmptySet DEF Init, MemOK
<1> QED BY <1>3, <1>4, <1>5, <1>7, <1>8 DEF Init, IInv, CallOK, AtRest

\* What holds whenever internal_alloc or internal_free returns.
LEMMA RestIInv ==
  ASSUME Rest, buddy_tree' \in [Nodes -> States], free_mem' \in Nat,
         Shape(buddy_tree', {}), LiveOK(buddy_tree', live'), MemOK'
  PROVE  IInv'
<1>1. TypeInv'
  BY RootNode DEF Rest, TypeInv
<1>2. CursorExact'
  BY RootSize DEF Rest, CursorExact, Offset
<1>3. CallOK'
  BY DEF Rest, CallOK, AtRest
<1>4. Splitting' = {}
  BY DEF Rest, Splitting
<1> QED BY <1>1, <1>2, <1>3, <1>4 DEF IInv

\* internal_alloc begins its search.
LEMMA AllocIInv ==
  ASSUME IInv, NEW sz \in Sizes, internal_alloc(sz)
  PROVE  IInv'
<1>1. AtRest /\ Splitting = {} /\ idx = 1 /\ size' = sz /\ free_mem' >= sz
  BY DEF IInv, internal_alloc, CallOK, AtRest, Splitting
<1>2. /\ buddy_tree' = buddy_tree /\ free_mem' = free_mem /\ dest' = dest /\ live' = live
      /\ idx' = idx /\ state' = state /\ cur_size' = cur_size /\ ptr' = ptr /\ pc' = "search"
  BY DEF internal_alloc, cursor
<1>3. TypeInv' /\ CursorExact' /\ MemOK'
  BY <1>2 DEF IInv, TypeInv, CursorExact, MemOK
<1>4. Above(idx) = {}
  BY <1>1, RootNode, AboveFacts
<1>5. sz <= cur_size
  BY <1>1, SizeRange, RootSize DEF IInv, CursorExact
<1>6. CallOK'
  BY <1>1, <1>2, <1>4, <1>5 DEF CallOK, SearchOK, AtRest
<1>7. Shape(buddy_tree', Splitting')
  BY <1>1, <1>2, <1>4 DEF IInv, Splitting
<1> QED BY <1>2, <1>3, <1>6, <1>7 DEF IInv

\* internal_free begins to look for the node at the pointer.
LEMMA FreeIInv ==
  ASSUME IInv, NEW a \in live, internal_free(a[1])
  PROVE  IInv'
<1>1. AtRest /\ Splitting = {} /\ idx = 1 /\ size' = 0 /\ dest' = a[1]
  BY DEF IInv, internal_free, CallOK, AtRest, Splitting
<1>2. /\ buddy_tree' = buddy_tree /\ free_mem' = free_mem /\ size' = size /\ live' = live
      /\ idx' = idx /\ state' = state /\ cur_size' = cur_size /\ ptr' = ptr /\ pc' = "locate"
  BY DEF internal_free, cursor
<1>3. TypeInv' /\ CursorExact' /\ MemOK'
  BY <1>2 DEF IInv, TypeInv, CursorExact, MemOK
<1>4. PICK n \in UsedNodes(buddy_tree) : Holds(a, n)
  BY DEF IInv, LiveOK
<1>5. n \in Nodes /\ 1 \in Path(n)
  BY PathFacts DEF UsedNodes
<1>6. CallOK'
  BY <1>1, <1>2, <1>4, <1>5 DEF CallOK, LocateOK, Holds
<1>7. Shape(buddy_tree', Splitting')
  BY <1>1, <1>2 DEF IInv, Splitting
<1> QED BY <1>2, <1>3, <1>6, <1>7 DEF IInv

\* The search ends without a node.
LEMMA FailsIInv ==
  ASSUME IInv, SearchFails
  PROVE  IInv'
<1>1. buddy_tree' = buddy_tree /\ free_mem' = free_mem /\ live' = live /\ Splitting = {} /\ Rest
  BY DEF SearchFails, Exhausted, Splitting
<1> QED BY <1>1, RestIInv DEF IInv, TypeInv, MemOK

\* The cursor during a search.
LEMMA SearchFacts ==
  ASSUME IInv, pc = "search"
  PROVE  /\ idx \in Nodes /\ idx \in Nat /\ buddy_tree \in [Nodes -> States]
         /\ size \in Sizes /\ size \in Nat \ {0} /\ dest = 0 /\ free_mem \in Nat /\ free_mem >= size
         /\ \A a \in Above(idx) : buddy_tree[a] = NODE_SPLIT
         /\ Vis(buddy_tree, idx)
         /\ cur_size = NodeSize(idx) /\ cur_size \in Nat \ {0} /\ ptr = Offset(idx) /\ ptr \in Nat
         /\ Splitting \subseteq Above(idx)
<1>1. SearchOK /\ TypeInv /\ CursorExact
  BY DEF IInv, CallOK
<1>2. idx \in Nodes /\ idx \in Nat /\ NodeSize(idx) \in Nat \ {0} /\ Offset(idx) \in Nat
  BY <1>1, SizeFacts, NodesNat DEF TypeInv
<1>3. size \in Sizes /\ size \in Nat \ {0}
  BY <1>1, SizeRange DEF SearchOK
<1>4. Vis(buddy_tree, idx)
  BY <1>1 DEF Vis, SearchOK
<1> QED BY <1>1, <1>2, <1>3, <1>4 DEF SearchOK, TypeInv, CursorExact, Offset, Splitting

\* The search never leaves the tree at the root: a root that is used or full leaves no
\* free memory for the request, and a request is at most half of the memory.
LEMMA RootOpen ==
  ASSUME IInv, pc = "search", idx = 1
  PROVE  buddy_tree[1] \notin Closed /\ ~Fits
<1> USE DEF NODE_USED, NODE_FREE, NODE_SPLIT, NODE_FULL
<1>1. 1 \in Nodes /\ ~IS_LEAF(1) /\ BlocksOf(1) = Blocks /\ NoBlocks \in Nat
  BY RootNode
<1>2. /\ cur_size = NodeSize(1) /\ size \in Sizes /\ size \in Nat \ {0} /\ free_mem >= size
      /\ Vis(buddy_tree, 1) /\ free_mem \in Nat
  BY SearchFacts
<1>3. ~Fits
  <2>1. size <= MemSize \div 2 /\ cur_size = MemSize /\ MemSize \in Nat
    BY <1>1, <1>2, SizeRange, RootSize, SizeFacts
  <2> QED BY <2>1, <1>2 DEF Fits
<1>4. buddy_tree[1] # NODE_USED
  <2> SUFFICES ASSUME buddy_tree[1] = NODE_USED PROVE FALSE
    OBVIOUS
  <2>1. 1 \in UsedNodes(buddy_tree)
    BY <1>1, <1>2 DEF UsedNodes
  <2>2. PICK a \in live : Holds(a, 1)
    BY <2>1 DEF IInv, LiveOK
  <2>3. NodeSize(1) \div 2 < a[2] /\ a[2] \in Sizes
    BY <2>2, <1>1 DEF Holds
  <2>4. a[2] \in Nat /\ a[2] <= MemSize \div 2 /\ NodeSize(1) = MemSize /\ MemSize \in Nat
    BY <2>3, <1>1, SizeRange, RootSize, SizeFacts
  <2>5. MemSize \div 2 \in Int
    BY <2>4
  <2> QED BY <2>3, <2>4, <2>5
<1>5. buddy_tree[1] # NODE_FULL
  <2> SUFFICES ASSUME buddy_tree[1] = NODE_FULL PROVE FALSE
    OBVIOUS
  <2>1. Blocks \subseteq UsedBlocks(buddy_tree)
    BY <1>1, <1>2, ClosedUsed DEF IInv, Closed
  <2>2. UsedBlocks(buddy_tree) = Blocks
    BY <2>1, UsedFinite
  <2>3. Cardinality(Blocks) = NoBlocks
    <3>1. NoBlocks >= 2
      BY RootNode
    <3> QED BY <3>1, <1>1, FS_Interval DEF Blocks
  <2>4. free_mem = MemSize - LeastSize * NoBlocks
    BY <2>2, <2>3 DEF IInv, MemOK
  <2>5. free_mem = 0
    BY <2>4, <1>1, SizesAssumption DEF MemSize
  <2> QED BY <2>5, <1>2
<1> QED BY <1>3, <1>4, <1>5 DEF Closed

\* The search leaves a node that cannot serve the request.
LEMMA GoUpIInv ==
  ASSUME IInv, pc = "search", idx # 1, size <= cur_size, Splitting = {}, GoUp,
         UNCHANGED <<buddy_tree, free_mem, pc, size, dest, live>>
  PROVE  IInv'
<1> USE DEF NODE_USED, NODE_FREE, NODE_SPLIT, NODE_FULL
<1> DEFINE p == PARENT(idx)
<1>1. /\ idx \in Nodes /\ \A a \in Above(idx) : buddy_tree[a] = NODE_SPLIT
      /\ size \in Sizes /\ size \in Nat /\ dest = 0 /\ free_mem >= size
      /\ cur_size = NodeSize(idx) /\ cur_size \in Nat /\ ptr = Offset(idx) /\ ptr \in Nat
  BY SearchFacts
<1>2. /\ p \in Nodes /\ ~IS_LEAF(p) /\ idx \in Kids(p) /\ p \in Nat
      /\ idx = 2 * p \/ idx = 2 * p + 1
  BY <1>1, Parent, ParentKid, NodesNat
<1>3. IS_RIGHT_CHILD(idx) <=> idx = 2 * p + 1
  BY <1>1, Parent
<1>4. Above(idx) = {p} \cup Above(p)
  BY <1>2, KidFacts
<1>5. /\ NodeSize(p) = 2 * NodeSize(idx) /\ NodeSize(p) \div 2 = NodeSize(idx)
      /\ Offset(idx) = IF idx = 2 * p THEN Offset(p) ELSE Offset(p) + NodeSize(idx)
      /\ Offset(p) \in Nat
  BY <1>2, KidSize, SizeFacts
<1>6. idx' = p /\ cur_size' = NodeSize(p) /\ state' \in {"UP_LEFT", "UP_RIGHT"}
  BY <1>1, <1>5 DEF GoUp
<1>7. ptr' = Offset(p)
  <2>1. CASE idx = 2 * p + 1
    <3>1. Offset(idx) = Offset(p) + NodeSize(idx)
      BY <2>1, <1>2, <1>5
    <3>2. ptr' = ptr - cur_size
      BY <2>1, <1>3 DEF GoUp
    <3> QED BY <3>1, <3>2, <1>1, <1>5
  <2>2. CASE idx = 2 * p /\ idx # 2 * p + 1
    <3>1. ptr' = ptr
      BY <2>2, <1>3 DEF GoUp
    <3> QED BY <3>1, <2>2, <1>1, <1>5
  <2> QED BY <2>1, <2>2, <1>2
<1> HIDE DEF p
<1>8. TypeInv' /\ CursorExact' /\ MemOK'
  BY <1>2, <1>6, <1>7 DEF IInv, TypeInv, CursorExact, MemOK, Offset
<1>9. SearchOK'
  <2>1. buddy_tree'[p] = NODE_SPLIT /\ \A a \in Above(p) : buddy_tree'[a] = NODE_SPLIT
    BY <1>1, <1>4
  <2>2. size' <= cur_size' \div 2
    BY <1>1, <1>5, <1>6
  <2> QED BY <2>1, <2>2, <1>1, <1>2, <1>6 DEF SearchOK
<1>10. CallOK'
  BY <1>9 DEF CallOK
<1>11. Splitting' = {}
  BY <1>6 DEF Splitting
<1> QED BY <1>8, <1>10, <1>11 DEF IInv

\* The search moves to a child of a split node.
LEMMA GoDownIInv ==
  ASSUME IInv, pc = "search", ~IS_LEAF(idx), buddy_tree[idx] = NODE_SPLIT, size <= cur_size \div 2,
         NEW c \in Kids(idx), idx' = c, cur_size' = cur_size \div 2, ptr' = Offset(c), state' = "DOWN",
         UNCHANGED <<buddy_tree, free_mem, pc, size, dest, live>>
  PROVE  IInv'
<1> USE DEF NODE_USED, NODE_FREE, NODE_SPLIT, NODE_FULL
<1>1. /\ idx \in Nodes /\ \A a \in Above(idx) : buddy_tree[a] = NODE_SPLIT
      /\ size \in Sizes /\ dest = 0 /\ free_mem >= size /\ cur_size = NodeSize(idx)
  BY SearchFacts
<1>2. c \in Nodes /\ NodeSize(idx) \div 2 = NodeSize(c) /\ Above(c) = {idx} \cup Above(idx)
  BY <1>1, KidSize, KidFacts
<1>3. TypeInv' /\ CursorExact' /\ MemOK'
  BY <1>1, <1>2 DEF IInv, TypeInv, CursorExact, MemOK, Offset
<1>4. SearchOK'
  BY <1>1, <1>2 DEF SearchOK
<1>5. Splitting = {}
  BY DEF Splitting
<1>6. Shape(buddy_tree, Splitting')
  <2>1. {} \subseteq Splitting'
    OBVIOUS
  <2> QED BY <2>1, <1>5, ShapeMono DEF IInv
<1> QED BY <1>3, <1>4, <1>6 DEF IInv, CallOK

\* The search comes up from a left child and turns to its sibling.
LEMMA ComeUpLeftIInv ==
  ASSUME IInv, ComeUpLeft
  PROVE  IInv'
<1>1. pc = "search" /\ ~IS_LEAF(idx) /\ state = "UP_LEFT"
  BY DEF ComeUpLeft
<1>2. buddy_tree[idx] = NODE_SPLIT /\ size <= cur_size \div 2
  BY <1>1 DEF IInv, CallOK, SearchOK
<1> DEFINE c == 2 * idx + 1
<1>3. idx \in Nodes /\ idx \in Nat /\ cur_size = NodeSize(idx) /\ ptr = Offset(idx)
  BY <1>1, SearchFacts
<1>4. c \in Kids(idx) /\ c # 2 * idx
  BY <1>3 DEF Kids
<1>5. NodeSize(idx) \div 2 = NodeSize(c) /\ Offset(c) = Offset(idx) + NodeSize(c)
  BY <1>1, <1>3, <1>4, KidSize
<1>6. idx' = c /\ cur_size' = cur_size \div 2 /\ ptr' = Offset(c) /\ state' = "DOWN"
  BY <1>3, <1>5 DEF ComeUpLeft, RIGHT_CHILD
<1>7. UNCHANGED <<buddy_tree, free_mem, pc, size, dest, live>>
  BY DEF ComeUpLeft
<1> HIDE DEF c
<1> QED BY <1>1, <1>2, <1>4, <1>6, <1>7, GoDownIInv

\* The search comes up from a right child and goes on upwards.
LEMMA ComeUpRightIInv ==
  ASSUME IInv, ComeUpRight
  PROVE  IInv'
<1>1. pc = "search" /\ state = "UP_RIGHT" /\ idx # 1 /\ GoUp
  BY DEF ComeUpRight, Exhausted
<1>2. size <= cur_size \div 2
  BY <1>1 DEF IInv, CallOK, SearchOK
<1>3. size <= cur_size
  <2>1. size \in Nat /\ cur_size \in Nat
    BY <1>1, SearchFacts
  <2> QED BY <2>1, <1>2
<1>4. Splitting = {}
  BY <1>1 DEF Splitting
<1>5. UNCHANGED <<buddy_tree, free_mem, pc, size, dest, live>>
  BY DEF ComeUpRight
<1> QED BY <1>1, <1>3, <1>4, <1>5, GoUpIInv

\* The search takes the node it is at.
LEMMA TakeIInv ==
  ASSUME IInv, pc = "search", buddy_tree[idx] = NODE_FREE, size <= cur_size,
         IS_LEAF(idx) \/ cur_size \div 2 < size, Take
  PROVE  IInv'
<1>1. /\ idx \in Nodes /\ buddy_tree \in [Nodes -> States]
      /\ \A a \in Above(idx) : buddy_tree[a] = NODE_SPLIT
      /\ Vis(buddy_tree, idx) /\ Splitting \subseteq Above(idx)
      /\ size \in Sizes /\ cur_size = NodeSize(idx) /\ ptr = Offset(idx)
  BY SearchFacts
<1>2. /\ buddy_tree' = coalesce_full_nodes([buddy_tree EXCEPT ![idx] = NODE_USED], idx)
      /\ free_mem' = free_mem - cur_size /\ live' = live \cup {<<ptr, size>>} /\ Rest
  BY DEF Take
<1>3. /\ buddy_tree' \in [Nodes -> States] /\ Shape(buddy_tree', {})
      /\ UsedNodes(buddy_tree') = UsedNodes(buddy_tree) \cup {idx}
      /\ idx \notin UsedNodes(buddy_tree)
  <2>1. Shape(buddy_tree, Splitting)
    BY DEF IInv
  <2> QED BY <2>1, <1>1, <1>2, TakeTree
<1>4. Holds(<<Offset(idx), size>>, idx)
  BY <1>1 DEF Holds, Offset
<1>5. LiveOK(buddy_tree', live')
  BY <1>1, <1>2, <1>3, <1>4, TakeLive DEF IInv
<1> DEFINE k == Cardinality(UsedBlocks(buddy_tree))
           j == Cardinality(UsedBlocks(buddy_tree'))
           w == NoBlocksOf(idx)
<1>6. j = k + w
  BY <1>1, <1>3, TakeBlocks
<1>7. k \in Nat /\ j \in 0 .. NoBlocks /\ w \in Nat /\ LeastSize \in Nat /\ NoBlocks \in Nat
  BY <1>1, UsedFinite, WidthFacts, RootNode, SizesAssumption
<1>8. free_mem = MemSize - LeastSize * k /\ free_mem' = free_mem - w * LeastSize
  BY <1>1, <1>2 DEF IInv, MemOK, NodeSize
<1>9. MemSize = NoBlocks * LeastSize
  BY DEF MemSize
<1> HIDE DEF k, j, w
<1>10. LeastSize * j = LeastSize * k + w * LeastSize
  BY <1>6, <1>7
<1>11. /\ LeastSize * j \in Nat /\ LeastSize * k \in Nat /\ w * LeastSize \in Nat
       /\ NoBlocks * LeastSize \in Nat /\ j * LeastSize = LeastSize * j
       /\ j * LeastSize <= NoBlocks * LeastSize
  BY <1>7, MulMono
<1>12. free_mem' = MemSize - LeastSize * j /\ free_mem' \in Nat
  BY <1>8, <1>9, <1>10, <1>11
<1>13. MemOK'
  BY <1>12 DEF MemOK, j
<1> QED BY <1>2, <1>3, <1>5, <1>12, <1>13, RestIInv

\* The search splits the node it is at.
LEMMA SplitIInv ==
  ASSUME IInv, pc = "search", state = "DOWN", ~IS_LEAF(idx), buddy_tree[idx] = NODE_FREE,
         size <= cur_size \div 2, Split, UNCHANGED <<free_mem, pc, size, dest, live>>
  PROVE  IInv'
<1> DEFINE c == 2 * idx
<1>1. /\ idx \in Nodes /\ buddy_tree \in [Nodes -> States] /\ Splitting \subseteq Above(idx)
      /\ \A a \in Above(idx) : buddy_tree[a] = NODE_SPLIT
      /\ size \in Sizes /\ dest = 0 /\ free_mem >= size /\ cur_size = NodeSize(idx) /\ ptr = Offset(idx)
  BY SearchFacts
<1>2. /\ buddy_tree' = SplitOf(buddy_tree, idx)
      /\ idx' = c /\ cur_size' = cur_size \div 2 /\ state' = "DOWN" /\ ptr' = ptr
  BY DEF Split, GoLeft, LEFT_CHILD, RIGHT_CHILD, SplitOf
<1>3. /\ buddy_tree' \in [Nodes -> States] /\ buddy_tree'[c] = NODE_FREE
      /\ \A a \in Above(c) : buddy_tree'[a] = NODE_SPLIT
      /\ Shape(buddy_tree', Above(c)) /\ UsedNodes(buddy_tree') = UsedNodes(buddy_tree)
  <2>1. Shape(buddy_tree, Splitting)
    BY DEF IInv
  <2> QED BY <2>1, <1>1, <1>2, SplitTree
<1>4. c \in Nodes /\ NodeSize(idx) \div 2 = NodeSize(c) /\ Offset(c) = Offset(idx)
  BY <1>1, KidSize DEF Kids
<1> HIDE DEF c
<1>5. LiveOK(buddy_tree', live') /\ UsedBlocks(buddy_tree') = UsedBlocks(buddy_tree)
  BY <1>3, SplitLive DEF IInv
<1>6. TypeInv' /\ CursorExact' /\ MemOK'
  BY <1>1, <1>2, <1>3, <1>4, <1>5 DEF IInv, TypeInv, CursorExact, MemOK, Offset
<1>7. SearchOK'
  BY <1>1, <1>2, <1>3 DEF SearchOK
<1>8. Splitting' = Above(c)
  BY <1>2, <1>3 DEF Splitting
<1> QED BY <1>3, <1>5, <1>6, <1>7, <1>8 DEF IInv, CallOK

\* A leaf is visited from above only: above it the search finds split nodes.
LEMMA VisitLeafIInv ==
  ASSUME IInv, VisitLeaf
  PROVE  IInv'
<1> USE DEF NODE_USED, NODE_FREE, NODE_SPLIT, NODE_FULL
<1>1. pc = "search" /\ IS_LEAF(idx)
  BY DEF VisitLeaf
<1>2. state = "DOWN" /\ size <= cur_size
  BY <1>1 DEF IInv, CallOK, SearchOK
<1>3. CASE buddy_tree[idx] = NODE_FREE /\ Take
  BY <1>1, <1>2, <1>3, TakeIInv
<1>4. CASE buddy_tree[idx] = NODE_USED /\ GoUp /\ UNCHANGED <<buddy_tree, free_mem, pc, size, dest, live>>
  <2>1. idx # 1
    BY <1>1, RootNode
  <2>2. Splitting = {}
    BY <1>4 DEF Splitting
  <2> QED BY <2>1, <2>2, <1>1, <1>2, <1>4, GoUpIInv
<1> QED BY <1>3, <1>4 DEF VisitLeaf

\* The search visits a node that is no leaf.
LEMMA VisitInnerIInv ==
  ASSUME IInv, VisitInner
  PROVE  IInv'
<1> USE DEF NODE_USED, NODE_FREE, NODE_SPLIT, NODE_FULL
<1>1. pc = "search" /\ ~IS_LEAF(idx) /\ state = "DOWN"
  BY DEF VisitInner
<1>2. size <= cur_size
  BY <1>1 DEF IInv, CallOK, SearchOK
<1>3. /\ idx \in Nodes /\ idx \in Nat /\ size \in Nat /\ cur_size \in Nat
      /\ cur_size = NodeSize(idx) /\ ptr = Offset(idx)
  BY <1>1, SearchFacts
<1>4. ~Fits => size <= cur_size \div 2
  BY <1>2, <1>3 DEF Fits
<1>5. CASE buddy_tree[idx] = NODE_FREE /\ Fits /\ Take
  BY <1>1, <1>2, <1>5, TakeIInv DEF Fits
<1>6. CASE buddy_tree[idx] = NODE_FREE /\ ~Fits /\ Split /\ UNCHANGED <<free_mem, pc, size, dest, live>>
  BY <1>1, <1>4, <1>6, SplitIInv
<1>7. CASE /\ buddy_tree[idx] = NODE_SPLIT /\ ~Fits /\ GoLeft
           /\ UNCHANGED <<buddy_tree, free_mem, pc, size, dest, live>>
  <2> DEFINE c == 2 * idx
  <2>1. c \in Kids(idx)
    BY DEF Kids
  <2>2. Offset(c) = Offset(idx)
    BY <2>1, <1>1, <1>3, KidSize
  <2>3. idx' = c /\ cur_size' = cur_size \div 2 /\ ptr' = Offset(c) /\ state' = "DOWN"
    BY <2>2, <1>1, <1>3, <1>7 DEF GoLeft, LEFT_CHILD
  <2> HIDE DEF c
  <2> QED BY <2>1, <2>3, <1>1, <1>4, <1>7, GoDownIInv
<1>8. CASE /\ \/ buddy_tree[idx] = NODE_SPLIT /\ Fits
              \/ buddy_tree[idx] \in {NODE_USED, NODE_FULL}
           /\ GoUp /\ UNCHANGED <<buddy_tree, free_mem, pc, size, dest, live>>
  <2>1. idx # 1
    BY <1>1, <1>8, RootOpen DEF Closed
  <2>2. Splitting = {}
    BY <1>8 DEF Splitting
  <2> QED BY <2>1, <2>2, <1>1, <1>2, <1>8, GoUpIInv
<1> QED BY <1>5, <1>6, <1>7, <1>8 DEF VisitInner

\* internal_free goes down to the node that is in use.
LEMMA DescendIInv ==
  ASSUME IInv, Descend
  PROVE  IInv'
<1>1. pc = "locate" /\ ~AtDest /\ ~IS_LEAF(idx) /\ TypeInv /\ CursorExact /\ Splitting = {}
  BY DEF Descend, IInv, Splitting
<1>2. size = 0
  BY <1>1 DEF IInv, CallOK, LocateOK
<1>3. PICK n \in UsedNodes(buddy_tree) : dest = Offset(n) /\ idx \in Path(n)
  BY <1>1 DEF IInv, CallOK, LocateOK, Offset
<1>4. /\ n \in Nodes /\ buddy_tree[n] = NODE_USED /\ idx \in Nodes /\ idx \in Nat
      /\ cur_size = NodeSize(idx) /\ ptr = Offset(idx)
  BY <1>1, NodesNat DEF UsedNodes, TypeInv, CursorExact, Offset
<1>5. idx # n
  BY <1>1, <1>3, <1>4 DEF AtDest
<1>6. idx \in Above(n)
  BY <1>3, <1>5 DEF Above
<1>7. PICK c \in Kids(idx) : c \in Path(n)
  BY <1>4, <1>6, AboveKid
<1>8. /\ c \in Nodes /\ NodeSize(idx) \div 2 = NodeSize(c) /\ NodeSize(idx) = 2 * NodeSize(c)
      /\ Offset(c) = IF c = 2 * idx THEN Offset(idx) ELSE Offset(idx) + NodeSize(c)
  BY <1>1, <1>4, <1>7, KidSize
<1>9. /\ Offset(c) <= Offset(n) /\ Offset(n) < Offset(c) + NodeSize(c)
      /\ Offset(c) \in Nat /\ Offset(n) \in Nat /\ Offset(idx) \in Nat /\ NodeSize(c) \in Nat
  BY <1>4, <1>7, <1>8, OffsetPath, SizeFacts
<1>10. cur_size' = NodeSize(c)
  BY <1>4, <1>8 DEF Descend
<1>11. idx' = c /\ ptr' = Offset(c)
  <2>1. CASE c = 2 * idx
    <3>1. ~(dest >= ptr + cur_size')
      BY <2>1, <1>3, <1>4, <1>8, <1>9, <1>10
    <3> QED BY <3>1, <2>1, <1>4, <1>8 DEF Descend, LEFT_CHILD
  <2>2. CASE c = 2 * idx + 1
    <3>1. c # 2 * idx
      BY <2>2, <1>4
    <3>2. dest >= ptr + cur_size' /\ Offset(c) = ptr + cur_size'
      BY <3>1, <1>3, <1>4, <1>8, <1>9, <1>10
    <3> QED BY <3>2, <2>2 DEF Descend, RIGHT_CHILD
  <2> QED BY <2>1, <2>2, <1>7 DEF Kids
<1>12. UNCHANGED <<buddy_tree, free_mem, pc, size, dest, state, live>>
  BY DEF Descend
<1>13. TypeInv' /\ CursorExact' /\ MemOK'
  BY <1>1, <1>8, <1>10, <1>11, <1>12 DEF IInv, TypeInv, CursorExact, MemOK, Offset
<1>14. LocateOK'
  BY <1>2, <1>3, <1>7, <1>11, <1>12 DEF LocateOK, Offset
<1>15. Splitting' = {}
  BY <1>1, <1>12 DEF Splitting
<1> QED BY <1>1, <1>12, <1>13, <1>14, <1>15 DEF IInv, CallOK

\* internal_free releases the node and merges free siblings.
LEMMA ReleaseIInv ==
  ASSUME IInv, Release
  PROVE  IInv'
<1> USE DEF NODE_USED, NODE_FREE, NODE_SPLIT, NODE_FULL
<1>1. /\ pc = "locate" /\ AtDest /\ TypeInv /\ CursorExact /\ Splitting = {}
      /\ buddy_tree' = coalesce_free_nodes([buddy_tree EXCEPT ![idx] = NODE_FREE], idx)
      /\ free_mem' = free_mem + cur_size /\ live' = {a \in live : a[1] # dest} /\ Rest
  BY DEF Release, IInv, Splitting
<1>2. PICK n \in UsedNodes(buddy_tree) : dest = Offset(n) /\ idx \in Path(n)
  BY <1>1 DEF IInv, CallOK, LocateOK, Offset
<1>3. idx = n
  <2>1. Vis(buddy_tree, n) /\ buddy_tree[idx] = NODE_USED
    BY <1>1 DEF UsedNodes, AtDest
  <2>2. idx \notin Above(n)
    BY <2>1, NotVis
  <2> QED BY <2>2, <1>2 DEF Above
<1>4. /\ buddy_tree' \in [Nodes -> States] /\ Shape(buddy_tree', {})
      /\ UsedNodes(buddy_tree') = UsedNodes(buddy_tree) \ {n}
  <2>1. Shape(buddy_tree, {}) /\ buddy_tree \in [Nodes -> States]
    BY <1>1 DEF IInv, TypeInv
  <2> QED BY <2>1, <1>1, <1>3, ReleaseTree
<1>5. LiveOK(buddy_tree', live')
  <2>1. live' = {a \in live : a[1] # Offset(n)}
    BY <1>1, <1>2
  <2>2. LiveOK(buddy_tree', {a \in live : a[1] # Offset(n)})
    BY <1>4, ReleaseLive DEF IInv
  <2> QED BY <2>1, <2>2
<1> DEFINE k == Cardinality(UsedBlocks(buddy_tree))
           j == Cardinality(UsedBlocks(buddy_tree'))
           w == NoBlocksOf(n)
<1>6. j = k - w
  BY <1>4, ReleaseBlocks
<1>7. k \in Nat /\ j \in Nat /\ w \in Nat /\ LeastSize \in Nat /\ MemSize \in Nat
  BY UsedFinite, WidthFacts, RootNode, SizeFacts, SizesAssumption DEF UsedNodes
<1>8. /\ free_mem \in Nat /\ free_mem = MemSize - LeastSize * k
      /\ free_mem' = free_mem + w * LeastSize
  BY <1>1, <1>3 DEF IInv, MemOK, NodeSize, CursorExact, TypeInv
<1> HIDE DEF k, j, w
<1>9. LeastSize * j = LeastSize * k - w * LeastSize /\ w * LeastSize \in Nat /\ LeastSize * k \in Nat
  BY <1>6, <1>7
<1>10. free_mem' = MemSize - LeastSize * j /\ free_mem' \in Nat
  BY <1>7, <1>8, <1>9
<1>11. MemOK'
  BY <1>10 DEF MemOK, j
<1> QED BY <1>1, <1>4, <1>5, <1>10, <1>11, RestIInv

\* Every step keeps the invariant.
LEMMA NextIInv == IInv /\ [Next]_vars => IInv'
<1> SUFFICES ASSUME IInv, [Next]_vars PROVE IInv'
  OBVIOUS
<1>1. ASSUME NEW sz \in Sizes, internal_alloc(sz) PROVE IInv'
  BY <1>1, AllocIInv
<1>2. ASSUME NEW a \in live, internal_free(a[1]) PROVE IInv'
  BY <1>2, FreeIInv
<1>3. CASE SearchFails
  BY <1>3, FailsIInv
<1>4. CASE VisitLeaf
  BY <1>4, VisitLeafIInv
<1>5. CASE VisitInner
  BY <1>5, VisitInnerIInv
<1>6. CASE ComeUpLeft
  BY <1>6, ComeUpLeftIInv
<1>7. CASE ComeUpRight
  BY <1>7, ComeUpRightIInv
<1>8. CASE Descend
  BY <1>8, DescendIInv
<1>9. CASE Release
  BY <1>9, ReleaseIInv
<1>10. CASE UNCHANGED vars
  BY <1>10 DEF vars, cursor, IInv, TypeInv, CursorExact, CallOK, AtRest, SearchOK, LocateOK,
               Splitting, MemOK
<1> QED BY <1>1, <1>2, <1>3, <1>4, <1>5, <1>6, <1>7, <1>8, <1>9, <1>10 DEF Next, Step

\* The invariant above holds in every state of internal_alloc and internal_free.
THEOREM Invariance == Spec => []IInv
BY InitIInv, NextIInv, PTL DEF Spec

-----------------------------------------------------------------------------
(***************************************************************************)
(* What the invariant says of the properties of InternalAllocator          *)
(***************************************************************************)

\* Every variable has its type and the cursor never leaves the tree.
THEOREM TypeCorrect == Spec => []TypeOK
<1>1. ASSUME IInv PROVE TypeOK
  <2>1. TypeInv /\ CursorExact /\ CallOK /\ MemOK /\ idx \in Nodes
    BY <1>1 DEF IInv, TypeInv
  <2>2. /\ NodeSize(idx) \in Nat \ {0} /\ Offset(idx) \in Nat /\ MemSize \in Nat \ {0}
        /\ Offset(idx) + NodeSize(idx) <= MemSize /\ LeastSize \in Nat \ {0}
    BY <2>1, SizeFacts
  <2>3. cur_size \in 1 .. MemSize /\ ptr \in 0 .. MemSize - 1
    BY <2>1, <2>2 DEF CursorExact, Offset
  <2>4. free_mem \in 0 .. MemSize
    <3> DEFINE k == Cardinality(UsedBlocks(buddy_tree))
    <3>1. k \in Nat /\ free_mem \in Nat /\ free_mem = MemSize - LeastSize * k
      BY <2>1, UsedFinite DEF MemOK, TypeInv
    <3> HIDE DEF k
    <3>2. LeastSize * k \in Nat
      BY <3>1, <2>2
    <3> QED BY <3>1, <3>2, <2>2
  <2>5. size \in Sizes \cup {0} /\ dest \in 0 .. MemSize - 1
    <3>1. CASE pc # "locate"
      BY <3>1, <2>1, <2>2 DEF CallOK, AtRest, SearchOK, TypeInv
    <3>2. CASE pc = "locate"
      <4>1. PICK n \in UsedNodes(buddy_tree) : dest = Offset(n)
        BY <3>2, <2>1 DEF CallOK, LocateOK, Offset
      <4>2. Offset(n) \in Nat /\ NodeSize(n) \in Nat \ {0} /\ Offset(n) + NodeSize(n) <= MemSize
        BY SizeFacts DEF UsedNodes
      <4>3. dest \in 0 .. MemSize - 1
        BY <4>1, <4>2, <2>2
      <4> QED BY <4>3, <3>2, <2>1 DEF CallOK, LocateOK
    <3> QED BY <3>1, <3>2
  <2> QED BY <2>1, <2>3, <2>4, <2>5 DEF TypeInv, TypeOK, States
<1> QED BY <1>1, Invariance, PTL

\* cur_size and ptr, which the loops only halve, double and add to, describe the node
\* at idx in every state of a search and of a free.
THEOREM CursorCorrect == Spec => []CursorExact
<1>1. IInv => CursorExact
  BY DEF IInv
<1> QED BY <1>1, Invariance, PTL

\* The sizes of nodes are powers of two: none is between half of another and the other.
LEMMA SizeGap ==
  ASSUME NEW m \in Nodes, NEW n \in Nodes, NodeSize(m) < NodeSize(n)
  PROVE  ~IS_LEAF(n) /\ NodeSize(m) <= NodeSize(n) \div 2
<1> DEFINE i == Depth - LevelOf(m)
           j == Depth - LevelOf(n)
<1>1. /\ NoBlocksOf(m) = Pow2[i] /\ NoBlocksOf(n) = Pow2[j] /\ NoBlocksOf(m) \in Nat /\ NoBlocksOf(n) \in Nat
      /\ LeastSize \in Nat \ {0} /\ NoBlocksOf(m) >= 1
  BY WidthFacts, SizesAssumption
<1>2. i \in Nat /\ j \in Nat
  BY LevelFacts, NodesNat DEF Levels
<1>3. ~(NoBlocksOf(n) <= NoBlocksOf(m))
  BY <1>1, MulMono, SizeFacts DEF NodeSize
<1> HIDE DEF i, j
<1>4. i < j
  <2> SUFFICES ASSUME j <= i PROVE FALSE
    BY <1>2
  <2>1. CASE j < i
    <3>1. 2 * Pow2[j] <= Pow2[i]
      BY <2>1, <1>2, Pow2Monotone
    <3> QED BY <3>1, <1>1, <1>3
  <2>2. CASE j = i
    BY <2>2, <1>1, <1>3
  <2> QED BY <2>1, <2>2, <1>2
<1>5. 2 * NoBlocksOf(m) <= NoBlocksOf(n)
  BY <1>1, <1>2, <1>4, Pow2Monotone
<1>6. ~IS_LEAF(n)
  BY <1>1, <1>5, WidthFacts
<1>7. (2 * NoBlocksOf(m)) * LeastSize <= NoBlocksOf(n) * LeastSize
  BY <1>1, <1>5, MulMono
<1>8. 2 * NodeSize(m) <= NodeSize(n)
  BY <1>1, <1>7 DEF NodeSize
<1> QED BY <1>6, <1>8, SizeFacts

\* The size of the node that is taken is the rounded size of the request.
LEMMA RoundedIs ==
  ASSUME NEW n \in Nodes, NEW sz \in Nat, sz <= NodeSize(n), IS_LEAF(n) \/ NodeSize(n) \div 2 < sz
  PROVE  Rounded(sz) = NodeSize(n)
<1> DEFINE S == {NodeSize(m) : m \in {k \in Nodes : NodeSize(k) >= sz}}
<1>1. NodeSize(n) \in Nat /\ \A m \in Nodes : NodeSize(m) \in Nat
  BY SizeFacts
<1>2. NodeSize(n) \in S /\ S \subseteq Nat
  BY <1>1
<1>3. First(S) \in S /\ First(S) <= NodeSize(n)
  <2> HIDE DEF S
  <2> QED BY <1>2, FirstFacts
<1>4. PICK m \in Nodes : NodeSize(m) >= sz /\ First(S) = NodeSize(m)
  BY <1>3
<1>5. ~(NodeSize(m) < NodeSize(n))
  <2> SUFFICES ASSUME NodeSize(m) < NodeSize(n) PROVE FALSE
    OBVIOUS
  <2>1. ~IS_LEAF(n) /\ NodeSize(m) <= NodeSize(n) \div 2
    BY SizeGap
  <2>2. NodeSize(m) \in Nat /\ NodeSize(n) \div 2 \in Int
    BY <1>1
  <2> QED BY <2>1, <2>2, <1>4
<1>6. NodeSize(m) = NodeSize(n)
  BY <1>1, <1>3, <1>4, <1>5
<1> QED BY <1>4, <1>6 DEF Rounded

\* The blocks of an allocation are those of its node.
LEMMA HoldsBlocks ==
  ASSUME NEW a, NEW n \in Nodes, Holds(a, n)
  PROVE  BlocksAt(a) = BlocksOf(n) /\ a[1] % LeastSize = 0
<1> DEFINE f == FirstBlock(n)
           w == NoBlocksOf(n)
<1>1. f \in Nat /\ w \in Nat \ {0} /\ LeastSize \in Nat \ {0} /\ a[2] \in Nat
  BY WidthFacts, SizesAssumption, SizeRange DEF Holds
<1>2. Rounded(a[2]) = w * LeastSize
  BY <1>1, RoundedIs DEF Holds, NodeSize
<1>3. a[1] = f * LeastSize
  BY DEF Holds
<1>4. BlocksOf(n) = f .. f + w - 1
  BY DEF BlocksOf
<1> HIDE DEF f, w
<1>5. a[1] \div LeastSize = f /\ a[1] % LeastSize = 0
  BY <1>1, <1>3, MulDiv
<1>6. a[1] + Rounded(a[2]) - 1 = LeastSize * (f + w - 1) + (LeastSize - 1)
  BY <1>1, <1>2, <1>3
<1>7. (a[1] + Rounded(a[2]) - 1) \div LeastSize = f + w - 1
  <2> DEFINE x == a[1] + Rounded(a[2]) - 1
             q == f + w - 1
             r == LeastSize - 1
  <2>1. q \in Int /\ r \in 0 .. LeastSize - 1 /\ x = LeastSize * q + r
    BY <1>1, <1>6
  <2> HIDE DEF x, q, r
  <2>2. x \in Int
    BY <2>1, <1>1
  <2>3. x \div LeastSize = q
    BY <2>1, <2>2, <1>1, DivModUnique
  <2> QED BY <2>3 DEF x, q
<1> QED BY <1>4, <1>5, <1>7 DEF BlocksAt

\* The blocks of the allocations are the blocks in use.
LEMMA OccupiedIs ==
  ASSUME IInv
  PROVE  Occupied = UsedBlocks(buddy_tree)
<1>1. \A a \in live : \E n \in UsedNodes(buddy_tree) : BlocksAt(a) = BlocksOf(n)
  BY HoldsBlocks DEF IInv, LiveOK, UsedNodes
<1>2. \A n \in UsedNodes(buddy_tree) : \E a \in live : BlocksAt(a) = BlocksOf(n)
  BY HoldsBlocks DEF IInv, LiveOK, UsedNodes
<1> QED BY <1>1, <1>2 DEF Occupied, UsedBlocks

\* Two pieces of metadata that the arena holds at a time have no byte in common, lie
\* at aligned addresses and inside of the memory.
THEOREM DisjointCorrect == Spec => []MetadataDisjoint
<1>1. ASSUME IInv PROVE MetadataDisjoint
  <2>1. ASSUME NEW a \in live
        PROVE  a[1] % LeastSize = 0 /\ BlocksAt(a) \subseteq Blocks
    BY <1>1, HoldsBlocks, WidthFacts DEF IInv, LiveOK, UsedNodes
  <2>2. ASSUME NEW a \in live, NEW b \in live, a # b PROVE BlocksAt(a) \cap BlocksAt(b) = {}
    <3>1. PICK m \in UsedNodes(buddy_tree) : Holds(a, m)
      BY <1>1 DEF IInv, LiveOK
    <3>2. PICK n \in UsedNodes(buddy_tree) : Holds(b, n)
      BY <1>1 DEF IInv, LiveOK
    <3>3. m # n
      BY <3>1, <3>2, <2>2, <1>1 DEF IInv, LiveOK, Holds
    <3>4. n \in Nodes /\ m \in Nodes /\ Vis(buddy_tree, n) /\ buddy_tree[n] = NODE_USED
      BY DEF UsedNodes
    <3>5. BlocksOf(m) \cap BlocksOf(n) = {}
      BY <3>3, <3>4, UsedDisjoint
    <3> QED BY <3>1, <3>2, <3>4, <3>5, HoldsBlocks
  <2> QED BY <2>1, <2>2 DEF MetadataDisjoint
<1> QED BY <1>1, Invariance, PTL

\* free_mem is exactly the memory that no allocation holds.
THEOREM FreeMemCorrect == Spec => []FreeMemExact
<1>1. ASSUME IInv PROVE FreeMemExact
  BY <1>1, OccupiedIs DEF IInv, MemOK, FreeMemExact
<1> QED BY <1>1, Invariance, PTL

\* Between calls the tree is the canonical one of the allocations: coalesce_full_nodes,
\* coalesce_free_nodes and mark_nodes_split leave no node in a stale state.
THEOREM TreeCorrect == Spec => []TreeExact
<1> USE DEF NODE_USED, NODE_FREE, NODE_SPLIT, NODE_FULL
<1>1. ASSUME IInv, pc = "idle", NEW n \in Nodes, Visible(n)
      PROVE  /\ buddy_tree[n] = NODE_USED <=> \E a \in live : BlocksAt(a) = BlocksOf(n)
             /\ buddy_tree[n] = NODE_FREE <=> BlocksOf(n) \cap Occupied = {}
             /\ buddy_tree[n] = NODE_FULL =>
                  BlocksOf(n) \subseteq Occupied /\ ~\E a \in live : BlocksAt(a) = BlocksOf(n)
  <2>1. Vis(buddy_tree, n) /\ Shape(buddy_tree, {}) /\ buddy_tree \in [Nodes -> States]
    BY <1>1 DEF Visible, Vis, Above, IInv, Splitting, TypeInv
  <2>2. Occupied = UsedBlocks(buddy_tree)
    BY <1>1, OccupiedIs
  <2>3. ASSUME buddy_tree[n] = NODE_USED PROVE \E a \in live : BlocksAt(a) = BlocksOf(n)
    <3>1. n \in UsedNodes(buddy_tree)
      BY <2>1, <2>3 DEF UsedNodes
    <3> QED BY <3>1, <1>1, HoldsBlocks DEF IInv, LiveOK
  <2>4. ASSUME NEW a \in live, BlocksAt(a) = BlocksOf(n) PROVE buddy_tree[n] = NODE_USED
    <3>1. PICK m \in UsedNodes(buddy_tree) : Holds(a, m)
      BY <1>1 DEF IInv, LiveOK
    <3>2. m \in Nodes /\ buddy_tree[m] = NODE_USED
      BY DEF UsedNodes
    <3>3. BlocksOf(m) = BlocksOf(n)
      BY <3>1, <3>2, <2>4, HoldsBlocks
    <3> QED BY <3>2, <3>3, BlocksInjective
  <2>5. buddy_tree[n] = NODE_FREE <=> BlocksOf(n) \cap Occupied = {}
    BY <2>1, <2>2, FreeUnused, NotFreeUsed
  <2>6. buddy_tree[n] = NODE_FULL => BlocksOf(n) \subseteq Occupied
    BY <2>1, <2>2, ClosedUsed DEF Closed
  <2> QED BY <2>3, <2>4, <2>5, <2>6
<1>2. IInv => TreeExact
  BY <1>1 DEF TreeExact
<1> QED BY <1>2, Invariance, PTL

-----------------------------------------------------------------------------
(***************************************************************************)
(* The search misses no room.  Its cursor goes through the blocks from     *)
(* left to right, and every node of the size that it looks for and that    *)
(* lies before Pos has something in use.                                   *)
(***************************************************************************)
Pos == CASE state = "DOWN" -> FirstBlock(idx)
         [] state = "UP_LEFT" -> FirstBlock(2 * idx + 1)
         [] state = "UP_RIGHT" -> FirstBlock(idx) + NoBlocksOf(idx)

Taken(sz, p, U) ==
  \A n \in Nodes : NodeSize(n) = Rounded(sz) /\ FirstBlock(n) + NoBlocksOf(n) <= p
                     => BlocksOf(n) \cap U # {}

PassedOK == pc = "search" => Taken(size, Pos, UsedBlocks(buddy_tree))

SearchInv == IInv /\ PassedOK

\* The search passes a node in which there is no room: all of it is in use, or it is
\* of the size wanted and something of it is in use.
LEMMA PassNode ==
  ASSUME NEW n \in Nodes, NEW sz, NEW U, Taken(sz, FirstBlock(n), U),
         \/ BlocksOf(n) \subseteq U
         \/ NodeSize(n) = Rounded(sz) /\ BlocksOf(n) \cap U # {}
  PROVE  Taken(sz, FirstBlock(n) + NoBlocksOf(n), U)
<1> SUFFICES ASSUME NEW m \in Nodes, NodeSize(m) = Rounded(sz),
                    FirstBlock(m) + NoBlocksOf(m) <= FirstBlock(n) + NoBlocksOf(n)
             PROVE  BlocksOf(m) \cap U # {}
  BY DEF Taken
<1>1. /\ FirstBlock(m) \in Nat /\ FirstBlock(n) \in Nat /\ NoBlocksOf(m) \in Nat \ {0}
      /\ NoBlocksOf(n) \in Nat \ {0}
  BY WidthFacts
<1>2. CASE FirstBlock(m) + NoBlocksOf(m) <= FirstBlock(n)
  BY <1>2 DEF Taken
<1>3. CASE ~(FirstBlock(m) + NoBlocksOf(m) <= FirstBlock(n))
  <2> DEFINE x == FirstBlock(m) + NoBlocksOf(m) - 1
  <2>1. x \in BlocksOf(m) /\ x \in BlocksOf(n)
    BY <1>1, <1>3 DEF BlocksOf
  <2>2. CASE BlocksOf(n) \subseteq U
    BY <2>1, <2>2
  <2>3. CASE NodeSize(n) = Rounded(sz) /\ BlocksOf(n) \cap U # {}
    <3>1. NodeSize(m) = NodeSize(n)
      BY <2>3
    <3>2. m \in Path(n) \/ n \in Path(m)
      BY <2>1, BlocksOverlap
    <3>3. ASSUME NEW a \in Nodes, NEW b \in Nodes, a \in Above(b) PROVE NodeSize(a) # NodeSize(b)
      <4>1. PICK c \in Kids(a) : c \in Path(b)
        BY <3>3, AboveKid
      <4>2. /\ c \in Nodes /\ NodeSize(a) = 2 * NodeSize(c) /\ NodeSize(c) \in Nat \ {0}
        BY <3>3, KidSize, AboveFacts, SizeFacts
      <4>3. BlocksOf(b) \subseteq BlocksOf(c)
        BY <4>1, BlocksPath
      <4>4. Cardinality(BlocksOf(b)) <= Cardinality(BlocksOf(c))
        BY <4>2, <4>3, BlocksFinite, FS_Subset
      <4>5. NoBlocksOf(b) <= NoBlocksOf(c)
        BY <4>2, <4>4, BlocksFinite
      <4>6. NodeSize(b) <= NodeSize(c)
        BY <4>2, <4>5, MulMono, WidthFacts, SizesAssumption DEF NodeSize
      <4> QED BY <4>2, <4>6
    <3>4. m = n
      BY <3>1, <3>2, <3>3 DEF Above
    <3> QED BY <3>4, <2>3
  <2> QED BY <2>2, <2>3
<1> QED BY <1>2, <1>3

\* Going up, the cursor is past the node that it leaves.
LEMMA PosUp ==
  ASSUME IInv, pc = "search", idx # 1, GoUp
  PROVE  Pos' = FirstBlock(idx) + NoBlocksOf(idx)
<1> DEFINE p == PARENT(idx)
<1>1. idx \in Nodes
  BY SearchFacts
<1>2. /\ p \in Nodes /\ ~IS_LEAF(p) /\ p \in Nat /\ idx' = p
      /\ idx = 2 * p \/ idx = 2 * p + 1
      /\ IS_RIGHT_CHILD(idx) <=> idx = 2 * p + 1
  BY <1>1, Parent, NodesNat DEF GoUp
<1>3. /\ NoBlocksOf(p) = 2 * NoBlocksOf(idx)
      /\ FirstBlock(idx) = IF idx = 2 * p THEN FirstBlock(p) ELSE FirstBlock(p) + NoBlocksOf(idx)
      /\ NoBlocksOf(idx) \in Nat /\ FirstBlock(p) \in Nat
  BY <1>1, <1>2, Children, WidthFacts
<1>4. CASE idx = 2 * p + 1
  <2>1. state' = "UP_RIGHT" /\ idx # 2 * p
    BY <1>2, <1>4 DEF GoUp
  <2>2. Pos' = FirstBlock(p) + NoBlocksOf(p)
    BY <2>1, <1>2 DEF Pos
  <2> QED BY <2>1, <2>2, <1>3
<1>5. CASE idx = 2 * p
  <2>1. state' = "UP_LEFT" /\ 2 * p + 1 # 2 * p
    BY <1>2, <1>5 DEF GoUp
  <2>2. Pos' = FirstBlock(2 * p + 1)
    BY <2>1, <1>2 DEF Pos
  <2>3. FirstBlock(2 * p + 1) = FirstBlock(p) + NoBlocksOf(2 * p + 1)
        /\ NoBlocksOf(p) = 2 * NoBlocksOf(2 * p + 1) /\ NoBlocksOf(2 * p + 1) \in Nat
    <3>1. 2 * p + 1 \in Nodes
      BY <1>2, Children
    <3> QED BY <3>1, <2>1, <1>2, Children, WidthFacts
  <2> QED BY <2>2, <2>3, <1>3, <1>5
<1> QED BY <1>2, <1>4, <1>5

\* The search goes up from a node below which nothing can serve the request.
LEMMA PassUp ==
  ASSUME SearchInv, pc = "search", state = "DOWN", idx # 1, GoUp,
         buddy_tree[idx] \in Closed \/ (buddy_tree[idx] = NODE_SPLIT /\ Fits),
         UNCHANGED <<buddy_tree, free_mem, pc, size, dest, live>>
  PROVE  PassedOK'
<1> USE DEF NODE_USED, NODE_FREE, NODE_SPLIT, NODE_FULL
<1> DEFINE U == UsedBlocks(buddy_tree)
<1>1. /\ idx \in Nodes /\ Vis(buddy_tree, idx) /\ buddy_tree \in [Nodes -> States]
      /\ cur_size = NodeSize(idx) /\ size \in Nat
  BY SearchFacts DEF SearchInv
<1>2. Shape(buddy_tree, {})
  BY DEF SearchInv, IInv, Splitting, Closed
<1>3. Taken(size, FirstBlock(idx), U)
  BY DEF SearchInv, PassedOK, Pos
<1>4. \/ BlocksOf(idx) \subseteq U
      \/ NodeSize(idx) = Rounded(size) /\ BlocksOf(idx) \cap U # {}
  <2>1. CASE buddy_tree[idx] \in Closed
    BY <2>1, <1>1, <1>2, ClosedUsed
  <2>2. CASE buddy_tree[idx] = NODE_SPLIT /\ Fits
    BY <2>2, <1>1, <1>2, NotFreeUsed, RoundedIs DEF Fits
  <2> QED BY <2>1, <2>2
<1> HIDE DEF U
<1>5. Taken(size, FirstBlock(idx) + NoBlocksOf(idx), U)
  BY <1>1, <1>3, <1>4, PassNode
<1>6. Pos' = FirstBlock(idx) + NoBlocksOf(idx)
  BY PosUp DEF SearchInv
<1> QED BY <1>5, <1>6 DEF PassedOK, U

\* No search has passed anything yet.
LEMMA InitPassed == Init => PassedOK
BY DEF Init, PassedOK

\* Every step keeps what is said of the nodes that the search has passed.
LEMMA NextPassed ==
  ASSUME SearchInv, [Next]_vars
  PROVE  PassedOK'
<1> USE DEF NODE_USED, NODE_FREE, NODE_SPLIT, NODE_FULL
<1>1. CASE Rest
  BY <1>1 DEF Rest, PassedOK
<1>2. ASSUME NEW sz \in Sizes, internal_alloc(sz) PROVE PassedOK'
  <2>1. idx' = 1 /\ state' = "DOWN"
    BY <1>2 DEF SearchInv, IInv, CallOK, AtRest, internal_alloc, cursor
  <2>2. Pos' = 0
    BY <2>1, RootNode DEF Pos
  <2>3. \A n \in Nodes : ~(FirstBlock(n) + NoBlocksOf(n) <= 0)
    BY WidthFacts
  <2> QED BY <2>2, <2>3 DEF PassedOK, Taken
<1>3. ASSUME NEW a \in live, internal_free(a[1]) PROVE PassedOK'
  BY <1>3 DEF internal_free, PassedOK
<1>4. CASE pc = "locate" /\ pc' = pc
  BY <1>4 DEF PassedOK
<1>5. CASE VisitLeaf /\ ~Rest
  <2>1. /\ pc = "search" /\ IS_LEAF(idx) /\ buddy_tree[idx] = NODE_USED /\ GoUp
        /\ UNCHANGED <<buddy_tree, free_mem, pc, size, dest, live>>
    BY <1>5 DEF VisitLeaf, Take
  <2>2. state = "DOWN" /\ idx # 1
    BY <2>1, RootNode DEF SearchInv, IInv, CallOK, SearchOK
  <2> QED BY <2>1, <2>2, PassUp DEF Closed
<1>6. CASE VisitInner /\ ~Rest
  <2>1. pc = "search" /\ ~IS_LEAF(idx) /\ state = "DOWN"
    BY <1>6 DEF VisitInner
  <2>2. CASE /\ GoLeft /\ UsedBlocks(buddy_tree') = UsedBlocks(buddy_tree)
             /\ UNCHANGED <<pc, size>>
    <3>1. idx \in Nodes
      BY <2>1, SearchFacts DEF SearchInv
    <3>2. FirstBlock(2 * idx) = FirstBlock(idx)
      BY <3>1, <2>1, Children
    <3>3. Pos' = Pos
      BY <3>2, <2>1, <2>2 DEF Pos, GoLeft, LEFT_CHILD
    <3> QED BY <3>3, <2>2 DEF SearchInv, PassedOK
  <2>3. CASE /\ buddy_tree[idx] = NODE_FREE /\ ~Fits /\ Split
             /\ UNCHANGED <<free_mem, pc, size, dest, live>>
    <3>1. /\ idx \in Nodes /\ buddy_tree \in [Nodes -> States] /\ Splitting \subseteq Above(idx)
          /\ \A a \in Above(idx) : buddy_tree[a] = NODE_SPLIT /\ Shape(buddy_tree, Splitting)
      BY <2>1, SearchFacts DEF SearchInv, IInv
    <3>2. buddy_tree' = SplitOf(buddy_tree, idx) /\ GoLeft
      BY <2>3 DEF Split, SplitOf, LEFT_CHILD, RIGHT_CHILD
    <3>3. Shape(buddy_tree, Splitting)
      BY DEF SearchInv, IInv
    <3>4. UsedNodes(buddy_tree') = UsedNodes(buddy_tree)
      BY <3>1, <3>2, <3>3, <2>1, <2>3, SplitTree
    <3>5. UsedBlocks(buddy_tree') = UsedBlocks(buddy_tree)
      BY <3>4 DEF UsedBlocks
    <3> QED BY <3>2, <3>5, <2>2, <2>3
  <2>4. CASE /\ buddy_tree[idx] = NODE_SPLIT /\ ~Fits /\ GoLeft
             /\ UNCHANGED <<buddy_tree, free_mem, pc, size, dest, live>>
    BY <2>2, <2>4
  <2>5. CASE /\ \/ buddy_tree[idx] = NODE_SPLIT /\ Fits
                \/ buddy_tree[idx] \in {NODE_USED, NODE_FULL}
             /\ GoUp /\ UNCHANGED <<buddy_tree, free_mem, pc, size, dest, live>>
    <3>1. idx # 1
      BY <2>1, <2>5, RootOpen DEF Closed, SearchInv
    <3> QED BY <3>1, <2>1, <2>5, PassUp DEF Closed
  <2> QED BY <2>3, <2>4, <2>5, <1>6 DEF VisitInner, Take
<1>7. CASE ComeUpLeft
  <2>1. Pos' = Pos /\ buddy_tree' = buddy_tree /\ pc' = pc /\ size' = size
    BY <1>7 DEF ComeUpLeft, Pos, RIGHT_CHILD
  <2> QED BY <2>1 DEF SearchInv, PassedOK
<1>8. CASE ComeUpRight
  <2>1. pc = "search" /\ state = "UP_RIGHT" /\ idx # 1 /\ GoUp
    BY <1>8 DEF ComeUpRight, Exhausted
  <2>2. Pos' = FirstBlock(idx) + NoBlocksOf(idx)
    BY <2>1, PosUp DEF SearchInv
  <2>3. Pos' = Pos /\ buddy_tree' = buddy_tree /\ pc' = pc /\ size' = size
    BY <2>1, <2>2, <1>8 DEF ComeUpRight, Pos
  <2> QED BY <2>3 DEF SearchInv, PassedOK
<1>9. CASE UNCHANGED vars
  BY <1>9 DEF vars, cursor, SearchInv, PassedOK, Pos
<1> QED BY <1>1, <1>2, <1>3, <1>4, <1>5, <1>6, <1>7, <1>8, <1>9
         DEF Next, Step, SearchFails, Descend, Release

\* internal_alloc returns NULL after a search only if every aligned range of the size
\* that the request is rounded up to has something allocated in it.
THEOREM FailsCorrect == Spec => FailsOnlyIfFull
<1>1. Init => SearchInv
  BY InitIInv, InitPassed DEF SearchInv
<1>2. SearchInv /\ [Next]_vars => SearchInv'
  BY NextIInv, NextPassed DEF SearchInv
<1>3. ASSUME SearchInv, SearchFails, NEW n \in Nodes, NodeSize(n) = Rounded(size)
      PROVE  BlocksOf(n) \cap Occupied # {}
  <2>1. idx = 1 /\ state = "UP_RIGHT" /\ pc = "search"
    BY <1>3 DEF SearchFails, Exhausted
  <2>2. Pos = NoBlocks
    BY <2>1, RootNode DEF Pos
  <2>3. FirstBlock(n) + NoBlocksOf(n) <= NoBlocks
    BY WidthFacts
  <2>4. Occupied = UsedBlocks(buddy_tree)
    BY <1>3, OccupiedIs DEF SearchInv
  <2> QED BY <2>1, <2>2, <2>3, <2>4, <1>3 DEF SearchInv, PassedOK, Taken
<1>4. SearchInv /\ [Next]_vars => [SearchFails => \A n \in Nodes : NodeSize(n) = Rounded(size) =>
                                                       BlocksOf(n) \cap Occupied # {}]_vars
  BY <1>3
<1> QED BY <1>1, <1>2, <1>4, PTL DEF Spec, FailsOnlyIfFull
=============================================================================
