---------------------------- MODULE ChunkProofs ----------------------------
(***************************************************************************)
(* Proofs about Chunk for every depth of the tree, every set of region     *)
(* sizes that SizesAssumption allows and every threshold.                  *)
(***************************************************************************)
EXTENDS Chunk, BuddyTreeProofs

-----------------------------------------------------------------------------
(***************************************************************************)
(* A jump list over the set F of the nodes N of a level: the distances     *)
(* lead to the next and to the previous member of F, 0 where there is none.*)
(***************************************************************************)
NextOK(nx, F, n) ==
  IF \E m \in F : m > n
  THEN nx[n] > 0 /\ n + nx[n] \in F /\ \A m \in F : m > n => m >= n + nx[n]
  ELSE nx[n] = 0
PrevOK(pv, F, n) ==
  IF \E m \in F : m < n
  THEN pv[n] > 0 /\ n - pv[n] \in F /\ \A m \in F : m < n => m <= n - pv[n]
  ELSE pv[n] = 0
NextAll(nx, N, F) ==
  (\A n \in N : nx[n] \in Nat) /\ (\A n \in N \ F : nx[n] = 0) /\ (\A n \in F : NextOK(nx, F, n))
PrevAll(pv, N, F) ==
  (\A n \in N : pv[n] \in Nat) /\ (\A n \in N \ F : pv[n] = 0) /\ (\A n \in F : PrevOK(pv, F, n))
FirstOK(x, F) == IF F = {} THEN x = 0 ELSE x \in F /\ \A m \in F : x <= m

ListOK(nx, pv, x, N, F) ==
  F \subseteq N /\ NextAll(nx, N, F) /\ PrevAll(pv, N, F) /\ FirstOK(x, F)

\* The ends and the length of an interval.
LEMMA LastFacts ==
  ASSUME NEW a \in Nat, NEW b \in Nat, a <= b
  PROVE  First(a .. b) = a /\ Last(a .. b) = b /\ Cardinality(a .. b) = b - a + 1
<1>1. First(a .. b) \in a .. b /\ \A y \in a .. b : First(a .. b) <= y
  <2>1. a .. b \subseteq Nat /\ a .. b # {}
    OBVIOUS
  <2> QED BY <2>1, FirstFacts
<1>2. Last(a .. b) \in a .. b /\ \A y \in a .. b : y <= Last(a .. b)
  <2>1. b \in a .. b /\ \A y \in a .. b : y <= b
    OBVIOUS
  <2> QED BY <2>1 DEF Last
<1>3. Cardinality(a .. b) = b - a + 1
  BY FS_Interval
<1> QED BY <1>1, <1>2, <1>3

\* A node leaves a list together with the interval S of nodes around it.
LEMMA RemoveNext ==
  ASSUME NEW N, N \subseteq Nat, NEW F, NEW x, ListOK(next, prev, x, N, F),
         NEW a \in Nat, NEW b \in Nat, a <= b, NEW S, S = a .. b, S \subseteq F,
         NEW nx, \A n \in N : nx[n] = NextAfter(n, S)
  PROVE  NextAll(nx, N, F \ S)
<1> DEFINE A == prev[a]
           B == next[b]
           p == a - A
<1>1. /\ First(S) = a /\ Last(S) = b /\ Cardinality(S) - 1 = b - a
      /\ a \in F /\ b \in F /\ a \in S /\ b \in S
  BY LastFacts
<1>2. \A m \in F : m \in N /\ m \in Nat /\ next[m] \in Nat /\ prev[m] \in Nat
  BY DEF ListOK, NextAll, PrevAll
<1>3. A \in Nat /\ B \in Nat
  BY <1>1, <1>2
<1>4. \A n \in N : nx[n] = IF n \in S THEN 0
                           ELSE IF A # 0 /\ n = p
                                THEN IF B = 0 THEN 0 ELSE next[n] + (b - a) + B
                                ELSE next[n]
  BY <1>1 DEF NextAfter
<1>5. PrevOK(prev, F, a) /\ NextOK(next, F, b)
  BY <1>1 DEF ListOK, NextAll, PrevAll
<1> HIDE DEF A, B, p
<1>6. A # 0 => /\ p \in F /\ p < a /\ p \in Nat /\ a = p + A
               /\ \A m \in F : m < a => m <= p
  BY <1>1, <1>2, <1>3, <1>5 DEF PrevOK, A, p
<1>7. A = 0 => ~\E m \in F : m < a
  BY <1>5 DEF PrevOK, A
<1>8. B # 0 => b + B \in F /\ \A m \in F : m > b => m >= b + B
  BY <1>5 DEF NextOK, B
<1>9. B = 0 => ~\E m \in F : m > b
  BY <1>5 DEF NextOK, B
\* The predecessor p of the interval leads to the node after it.
<1>10. A # 0 => p + next[p] = a
  <2> SUFFICES ASSUME A # 0 PROVE p + next[p] = a
    OBVIOUS
  <2>1. /\ p \in F /\ p < a /\ p \in Nat /\ next[p] \in Nat
        /\ \A m \in F : m < a => m <= p
    BY <1>2, <1>6
  <2>2. NextOK(next, F, p)
    BY <2>1 DEF ListOK, NextAll, PrevAll
  <2>3. next[p] > 0 /\ p + next[p] \in F /\ a >= p + next[p]
    BY <2>1, <2>2, <1>1 DEF NextOK
  <2>4. ~(p + next[p] < a)
    <3> SUFFICES ASSUME p + next[p] < a PROVE FALSE
      OBVIOUS
    <3>1. p + next[p] <= p
      BY <2>1, <2>3
    <3> QED BY <3>1, <2>1, <2>3
  <2> QED BY <2>1, <2>3, <2>4
<1>11. A # 0 => p \in N /\ p \notin S
  BY <1>2, <1>6
<1>12. ASSUME NEW n \in N \ F PROVE nx[n] = 0
  BY <1>4, <1>6 DEF ListOK, NextAll, PrevAll
<1>13. ASSUME NEW n \in S PROVE nx[n] = 0
  BY <1>2, <1>4
<1>14. ASSUME NEW n \in F \ S PROVE NextOK(nx, F \ S, n) /\ nx[n] \in Nat
  <2>1. n \in N /\ n \in Nat /\ next[n] \in Nat /\ NextOK(next, F, n) /\ (n < a \/ n > b)
    BY <1>2 DEF ListOK, NextAll, PrevAll
  <2>2. CASE A # 0 /\ n = p /\ B = 0
    <3>1. nx[n] = 0
      BY <2>1, <2>2, <1>4, <1>11
    <3>2. ASSUME NEW m \in F \ S, m > n PROVE FALSE
      <4>1. m \in Nat /\ ~(m < a)
        BY <3>2, <2>1, <2>2, <1>2, <1>6
      <4>2. m > b
        BY <4>1
      <4> QED BY <4>2, <2>2, <1>9
    <3> QED BY <3>1, <3>2 DEF NextOK
  <2>3. CASE A # 0 /\ n = p /\ B # 0
    <3>1. nx[n] = next[n] + (b - a) + B
      BY <2>1, <2>3, <1>4, <1>11
    <3>2. n + nx[n] = b + B
      BY <3>1, <2>1, <2>3, <1>3, <1>10
    <3>3. nx[n] \in Nat /\ nx[n] > 0 /\ b + B \in F \ S /\ b + B > n
      BY <3>1, <2>1, <2>3, <1>3, <1>6, <1>8
    <3>4. ASSUME NEW m \in F \ S, m > n PROVE m >= b + B
      <4>1. m \in Nat /\ ~(m < a)
        BY <3>4, <2>1, <2>3, <1>2, <1>6
      <4>2. m > b
        BY <4>1
      <4> QED BY <4>2, <2>3, <1>8
    <3> QED BY <3>2, <3>3, <3>4 DEF NextOK
  <2>4. CASE ~(A # 0 /\ n = p)
    <3>1. nx[n] = next[n]
      BY <2>1, <2>4, <1>4
    <3>2. CASE \E m \in F : m > n
      <4> DEFINE s == n + next[n]
      <4>1. s \in F /\ s > n /\ s \in Nat /\ next[n] > 0 /\ \A m \in F : m > n => m >= s
        BY <3>2, <2>1, <1>2 DEF NextOK
      <4> HIDE DEF s
      <4>2. s \notin S
        <5> SUFFICES ASSUME s \in S PROVE FALSE
          OBVIOUS
        <5>1. a <= s /\ s <= b
          OBVIOUS
        <5>2. n < a
          BY <5>1, <4>1, <2>1
        <5>3. A # 0 /\ n <= p /\ n # p
          BY <5>2, <2>4, <1>6, <1>7
        <5>4. p > n
          BY <5>3, <2>1, <1>6
        <5>5. p >= s
          BY <5>3, <5>4, <4>1, <1>6
        <5> QED BY <5>1, <5>3, <5>5, <4>1, <1>6
      <4>3. \E m \in F \ S : m > n
        BY <4>1, <4>2
      <4> QED BY <4>1, <4>2, <4>3, <3>1, <2>1 DEF NextOK, s
    <3>3. CASE ~\E m \in F : m > n
      BY <3>1, <3>3, <2>1 DEF NextOK
    <3> QED BY <3>2, <3>3
  <2> QED BY <2>2, <2>3, <2>4
<1>15. \A n \in N \ (F \ S) : nx[n] = 0
  BY <1>12, <1>13
<1>16. \A n \in N : nx[n] \in Nat
  BY <1>14, <1>15
<1> QED BY <1>14, <1>15, <1>16 DEF NextAll

\* An interval of nodes leaves a list: the distances backwards.
LEMMA RemovePrev ==
  ASSUME NEW N, N \subseteq Nat, NEW F, NEW x, ListOK(next, prev, x, N, F),
         NEW a \in Nat, NEW b \in Nat, a <= b, NEW S, S = a .. b, S \subseteq F,
         NEW pv, \A n \in N : pv[n] = PrevAfter(n, S)
  PROVE  PrevAll(pv, N, F \ S)
<1> DEFINE A == prev[a]
           B == next[b]
           q == b + B
<1>1. /\ First(S) = a /\ Last(S) = b /\ Cardinality(S) - 1 = b - a
      /\ a \in F /\ b \in F /\ a \in S /\ b \in S
  BY LastFacts
<1>2. \A m \in F : m \in N /\ m \in Nat /\ next[m] \in Nat /\ prev[m] \in Nat
  BY DEF ListOK, NextAll, PrevAll
<1>3. A \in Nat /\ B \in Nat
  BY <1>1, <1>2
<1>4. \A n \in N : pv[n] = IF n \in S THEN 0
                           ELSE IF B # 0 /\ n = q
                                THEN IF A = 0 THEN 0 ELSE prev[n] + (b - a) + A
                                ELSE prev[n]
  BY <1>1 DEF PrevAfter
<1>5. PrevOK(prev, F, a) /\ NextOK(next, F, b)
  BY <1>1 DEF ListOK, NextAll, PrevAll
<1> HIDE DEF A, B, q
<1>6. B # 0 => /\ q \in F /\ q > b /\ q \in Nat /\ q = b + B
               /\ \A m \in F : m > b => m >= q
  BY <1>1, <1>2, <1>3, <1>5 DEF NextOK, B, q
<1>7. B = 0 => ~\E m \in F : m > b
  BY <1>5 DEF NextOK, B
<1>8. A # 0 => a - A \in F /\ \A m \in F : m < a => m <= a - A
  BY <1>5 DEF PrevOK, A
<1>9. A = 0 => ~\E m \in F : m < a
  BY <1>5 DEF PrevOK, A
<1>10. B # 0 => q - prev[q] = b
  <2> SUFFICES ASSUME B # 0 PROVE q - prev[q] = b
    OBVIOUS
  <2>1. /\ q \in F /\ q > b /\ q \in Nat /\ prev[q] \in Nat
        /\ \A m \in F : m > b => m >= q
    BY <1>2, <1>6
  <2>2. PrevOK(prev, F, q)
    BY <2>1 DEF ListOK, NextAll, PrevAll
  <2>3. prev[q] > 0 /\ q - prev[q] \in F /\ b <= q - prev[q]
    BY <2>1, <2>2, <1>1 DEF PrevOK
  <2>4. ~(q - prev[q] > b)
    <3> SUFFICES ASSUME q - prev[q] > b PROVE FALSE
      OBVIOUS
    <3>1. q - prev[q] >= q
      BY <2>1, <2>3
    <3> QED BY <3>1, <2>1, <2>3
  <2> QED BY <2>1, <2>3, <2>4
<1>11. B # 0 => q \in N /\ q \notin S
  BY <1>2, <1>6
<1>12. ASSUME NEW n \in N \ F PROVE pv[n] = 0
  BY <1>4, <1>6 DEF ListOK, NextAll, PrevAll
<1>13. ASSUME NEW n \in S PROVE pv[n] = 0
  BY <1>2, <1>4
<1>14. ASSUME NEW n \in F \ S PROVE PrevOK(pv, F \ S, n) /\ pv[n] \in Nat
  <2>1. n \in N /\ n \in Nat /\ prev[n] \in Nat /\ PrevOK(prev, F, n) /\ (n < a \/ n > b)
    BY <1>2 DEF ListOK, NextAll, PrevAll
  <2>2. CASE B # 0 /\ n = q /\ A = 0
    <3>1. pv[n] = 0
      BY <2>1, <2>2, <1>4, <1>11
    <3>2. ASSUME NEW m \in F \ S, m < n PROVE FALSE
      <4>1. m \in Nat /\ ~(m > b)
        BY <3>2, <2>1, <2>2, <1>2, <1>6
      <4>2. m < a
        BY <4>1
      <4> QED BY <4>2, <2>2, <1>9
    <3> QED BY <3>1, <3>2 DEF PrevOK
  <2>3. CASE B # 0 /\ n = q /\ A # 0
    <3>1. pv[n] = prev[n] + (b - a) + A
      BY <2>1, <2>3, <1>4, <1>11
    <3>2. n - pv[n] = a - A
      BY <3>1, <2>1, <2>3, <1>3, <1>10
    <3>3. pv[n] \in Nat /\ pv[n] > 0 /\ a - A \in F \ S /\ a - A < n
      BY <3>1, <2>1, <2>3, <1>3, <1>6, <1>8
    <3>4. ASSUME NEW m \in F \ S, m < n PROVE m <= a - A
      <4>1. m \in Nat /\ ~(m > b)
        BY <3>4, <2>1, <2>3, <1>2, <1>6
      <4>2. m < a
        BY <4>1
      <4> QED BY <4>2, <2>3, <1>8
    <3> QED BY <3>2, <3>3, <3>4 DEF PrevOK
  <2>4. CASE ~(B # 0 /\ n = q)
    <3>1. pv[n] = prev[n]
      BY <2>1, <2>4, <1>4
    <3>2. CASE \E m \in F : m < n
      <4> DEFINE s == n - prev[n]
      <4>1. s \in F /\ s < n /\ s \in Nat /\ prev[n] > 0 /\ \A m \in F : m < n => m <= s
        BY <3>2, <2>1, <1>2 DEF PrevOK
      <4> HIDE DEF s
      <4>2. s \notin S
        <5> SUFFICES ASSUME s \in S PROVE FALSE
          OBVIOUS
        <5>1. a <= s /\ s <= b
          OBVIOUS
        <5>2. n > b
          BY <5>1, <4>1, <2>1
        <5>3. B # 0 /\ n >= q /\ n # q
          BY <5>2, <2>4, <1>6, <1>7
        <5>4. q < n
          BY <5>3, <2>1, <1>6
        <5>5. q <= s
          BY <5>3, <5>4, <4>1, <1>6
        <5> QED BY <5>1, <5>3, <5>5, <4>1, <1>6
      <4>3. \E m \in F \ S : m < n
        BY <4>1, <4>2
      <4> QED BY <4>1, <4>2, <4>3, <3>1, <2>1 DEF PrevOK, s
    <3>3. CASE ~\E m \in F : m < n
      BY <3>1, <3>3, <2>1 DEF PrevOK
    <3> QED BY <3>2, <3>3
  <2> QED BY <2>2, <2>3, <2>4
<1>15. \A n \in N \ (F \ S) : pv[n] = 0
  BY <1>12, <1>13
<1>16. \A n \in N : pv[n] \in Nat
  BY <1>14, <1>15
<1> QED BY <1>14, <1>15, <1>16 DEF PrevAll

\* An interval of nodes leaves a list: where the list starts.
LEMMA RemoveFirst ==
  ASSUME NEW N, N \subseteq Nat, NEW F, NEW l, ListOK(next, prev, jump_tree_first_index[l], N, F),
         NEW a \in Nat, NEW b \in Nat, a <= b, NEW S, S = a .. b, S \subseteq F
  PROVE  FirstOK(FirstAfter(l, S), F \ S)
<1> DEFINE x == jump_tree_first_index[l]
<1>1. First(S) = a /\ Last(S) = b /\ a \in F /\ b \in F /\ a \in S
  BY LastFacts
<1>2. \A m \in F : m \in N /\ m \in Nat /\ next[m] \in Nat /\ prev[m] \in Nat
  BY DEF ListOK, NextAll, PrevAll
<1>3. PrevOK(prev, F, a) /\ NextOK(next, F, b) /\ x \in F /\ \A m \in F : x <= m
  BY <1>1 DEF ListOK, NextAll, PrevAll, FirstOK
<1>4. FirstAfter(l, S) = IF prev[a] # 0 THEN x ELSE IF next[b] = 0 THEN 0 ELSE b + next[b]
  BY <1>1 DEF FirstAfter
<1> HIDE DEF x
<1>5. CASE prev[a] # 0
  <2>1. a - prev[a] \in F /\ a - prev[a] < a
    BY <1>1, <1>2, <1>3, <1>5 DEF PrevOK
  <2>2. x < a /\ x \in Nat
    BY <2>1, <1>1, <1>2, <1>3
  <2>3. x \in F \ S
    BY <2>2, <1>3
  <2> QED BY <2>3, <1>3, <1>4, <1>5 DEF FirstOK
<1>6. CASE prev[a] = 0 /\ next[b] = 0
  <2>1. F \subseteq S
    BY <1>2, <1>3, <1>6 DEF PrevOK, NextOK
  <2>2. F \ S = {}
    BY <2>1
  <2> QED BY <2>2, <1>4, <1>6 DEF FirstOK
<1>7. CASE prev[a] = 0 /\ next[b] # 0
  <2>1. b + next[b] \in F /\ next[b] > 0 /\ \A m \in F : m > b => m >= b + next[b]
    BY <1>3, <1>7 DEF NextOK
  <2>2. \A m \in F \ S : m > b
    BY <1>2, <1>3, <1>7 DEF PrevOK
  <2>3. b + next[b] \in F \ S
    BY <2>1, <1>1, <1>2
  <2> QED BY <2>1, <2>2, <2>3, <1>4, <1>7 DEF FirstOK
<1> QED BY <1>5, <1>6, <1>7

-----------------------------------------------------------------------------
(***************************************************************************)
(* Levels                                                                  *)
(***************************************************************************)
LEMMA LevelSet ==
  ASSUME NEW l \in Levels
  PROVE  /\ NodesOf(l) \subseteq Nodes
         /\ \A n \in Nodes : n \in NodesOf(l) <=> LevelOf(n) = l
         /\ \A n \in NodesOf(l) : LevelOf(n) = l
         /\ Pow2[l] \in Nat \ {0} /\ NodesOf(l) = Pow2[l] .. 2 * Pow2[l] - 1
<1>1. l \in Nat /\ Depth \in Nat /\ l <= Depth
  BY DepthAssumption DEF Levels
<1>2. Pow2[l] \in Nat \ {0} /\ Pow2[l + 1] = 2 * Pow2[l] /\ Pow2[Depth + 1] \in Nat \ {0}
  BY <1>1, Pow2Positive, Pow2Def
<1>3. NodesOf(l) = Pow2[l] .. 2 * Pow2[l] - 1
  BY <1>2 DEF NodesOf
<1>4. 2 * Pow2[l] <= Pow2[Depth + 1]
  BY <1>1, Pow2Monotone
<1>5. NodesOf(l) \subseteq Nodes
  BY <1>2, <1>3, <1>4 DEF Nodes
<1>6. ASSUME NEW n \in Nodes, n \in NodesOf(l) PROVE LevelOf(n) = l
  <2>1. Pow2[l] <= n /\ n < 2 * Pow2[l]
    BY <1>2, <1>3, <1>6
  <2> QED BY <2>1, <1>1, LevelIs
<1>7. ASSUME NEW n \in Nodes, LevelOf(n) = l PROVE n \in NodesOf(l)
  BY <1>7, LevelFacts
<1> QED BY <1>2, <1>3, <1>5, <1>6, <1>7

\* What is above a node is on a smaller level.
LEMMA PathLevel ==
  ASSUME NEW n \in Nodes
  PROVE  \A m \in Path(n) : m = n \/ LevelOf(m) < LevelOf(n)
<1> DEFINE S == {k \in Nodes : \A m \in Path(k) : m = k \/ LevelOf(m) < LevelOf(k)}
<1>1. 1 \in S
  BY PathRoot, RootNode
<1>2. ASSUME NEW k \in Nodes, k # 1, PARENT(k) \in S PROVE k \in S
  <2> DEFINE p == PARENT(k)
  <2>1. p \in Nodes /\ ~IS_LEAF(p) /\ (k = 2 * p \/ k = 2 * p + 1)
    BY <1>2, Parent
  <2>2. LevelOf(k) = LevelOf(p) + 1 /\ LevelOf(p) \in Nat
    BY <2>1, Children, LevelFacts
  <2>3. Path(k) = {k} \cup Path(p)
    BY <1>2, PathStep
  <2>4. ASSUME NEW m \in Path(p) PROVE LevelOf(m) < LevelOf(k)
    <3>1. m \in Nodes /\ LevelOf(m) \in Nat
      BY <2>1, PathFacts, LevelFacts
    <3>2. m = p \/ LevelOf(m) < LevelOf(p)
      BY <1>2
    <3> QED BY <3>1, <3>2, <2>2
  <2> QED BY <2>3, <2>4
<1>3. Nodes \subseteq S
  <2> HIDE DEF S
  <2> QED BY <1>1, <1>2, NodeInduction
<1> QED BY <1>3

\* A path has one node on each level.
LEMMA PathOne ==
  ASSUME NEW n \in Nodes, NEW a \in Path(n), NEW b \in Path(n), LevelOf(a) = LevelOf(b)
  PROVE  a = b
<1>1. a \in Nodes /\ b \in Nodes /\ a \in Nat /\ b \in Nat /\ LevelOf(a) \in Nat
  BY PathFacts, NodesNat, LevelFacts
<1>2. a \in Path(b) \/ b \in Path(a)
  <2>1. a <= b \/ b <= a
    BY <1>1
  <2> QED BY <2>1, PathLinear
<1>3. a = b \/ LevelOf(a) < LevelOf(b) \/ LevelOf(b) < LevelOf(a)
  BY <1>1, <1>2, PathLevel
<1> QED BY <1>1, <1>3

\* The nodes of a level below a node are an interval.
LEMMA BelowFacts ==
  ASSUME NEW n \in Nodes, NEW l \in Levels, l >= LevelOf(n)
  PROVE  /\ Below(n, l) = {m \in NodesOf(l) : n \in Path(m)}
         /\ \E a, b \in Nat : a <= b /\ Below(n, l) = a .. b
<1> DEFINE L == LevelOf(n)
           k == l - L
           P == Pow2[k]
<1>1. l \in Nat /\ L \in Nat /\ k \in Nat /\ l = L + k
  BY LevelFacts, NodesNat
<1>2. P \in Nat \ {0} /\ Pow2[l] = Pow2[L] * P /\ Pow2[L] \in Nat \ {0} /\ n \in Nat
  BY <1>1, Pow2Positive, Pow2Sum, NodesNat
<1>3. Pow2[L] <= n /\ n + 1 <= 2 * Pow2[L]
  BY <1>2, LevelFacts
<1>4. Below(n, l) = n * P .. (n + 1) * P - 1
  BY DEF Below
<1> HIDE DEF P
<1>5. n * P \in Nat /\ (n + 1) * P = n * P + P
  <2>1. ASSUME NEW x \in Nat, NEW p \in Nat PROVE x * p \in Nat /\ (x + 1) * p = x * p + p
    OBVIOUS
  <2> QED BY <1>2, <2>1
<1>6. Pow2[L] * P <= n * P /\ (n + 1) * P <= (2 * Pow2[L]) * P
  <2>1. ASSUME NEW x \in Nat, NEW y \in Nat, x <= y PROVE x * P <= y * P
    <3>1. y * P = x * P + (y - x) * P /\ (y - x) * P \in Nat /\ x * P \in Nat
      BY <2>1, <1>2
    <3> QED BY <3>1
  <2> QED BY <2>1, <1>2, <1>3
<1>7. (2 * Pow2[L]) * P = 2 * Pow2[l]
  BY <1>2
<1>8. Below(n, l) \subseteq NodesOf(l)
  <2>1. NodesOf(l) = Pow2[l] .. 2 * Pow2[l] - 1 /\ Pow2[l] \in Nat
    BY LevelSet
  <2> QED BY <2>1, <1>2, <1>4, <1>5, <1>6, <1>7
<1>9. ASSUME NEW m \in NodesOf(l) PROVE m \in Below(n, l) <=> n \in Path(m)
  <2>1. m \in Nodes /\ LevelOf(m) = l /\ m \in Nat
    BY <1>9, LevelSet, NodesNat
  <2>2. Path(m) = {m \div Pow2[i] : i \in 0 .. l}
    BY <2>1 DEF Path, Ancestors
  <2>3. m \in Below(n, l) => n \in Path(m)
    <3> SUFFICES ASSUME m \in Below(n, l) PROVE n \in Path(m)
      OBVIOUS
    <3>1. m \div P \in Nat /\ (m < (n + 1) * P => m \div P < n + 1) /\ (m >= n * P => m \div P >= n)
      BY <2>1, <1>2, DivBound
    <3>2. m < (n + 1) * P /\ m >= n * P
      BY <2>1, <1>4, <1>5, <1>2
    <3>3. m \div P = n
      BY <3>1, <3>2, <1>2
    <3>4. k \in 0 .. l
      BY <1>1
    <3> QED BY <3>3, <3>4, <2>2 DEF P
  <2>4. n \in Path(m) => m \in Below(n, l)
    <3> SUFFICES ASSUME n \in Path(m) PROVE m \in Below(n, l)
      OBVIOUS
    <3>1. PICK i \in 0 .. l : n = m \div Pow2[i]
      BY <2>2
    <3> DEFINE Q == Pow2[i]
               j == l - i
    <3>2. i \in Nat /\ j \in Nat /\ l = j + i /\ Q \in Nat \ {0} /\ Pow2[j] \in Nat \ {0}
      BY <1>1, Pow2Positive
    <3>3. Pow2[l] = Pow2[j] * Q
      BY <3>2, Pow2Sum
    <3>4. Pow2[l] <= m /\ m < 2 * Pow2[l]
      BY <2>1, LevelFacts
    <3> HIDE DEF Q, j
    <3>5. (2 * Pow2[j]) * Q = 2 * Pow2[l]
      BY <3>2, <3>3
    <3>6. /\ m >= Pow2[j] * Q => m \div Q >= Pow2[j]
          /\ m < (2 * Pow2[j]) * Q => m \div Q < 2 * Pow2[j]
      BY <3>2, <2>1, DivBound
    <3>7. Pow2[j] <= n /\ n < 2 * Pow2[j]
      <4>1. n = m \div Q
        BY <3>1 DEF Q
      <4> QED BY <4>1, <3>2, <3>3, <3>4, <3>5, <3>6
    <3>8. j = L
      BY <3>2, <3>7, LevelIs
    <3>9. P = Q
      BY <3>2, <3>8, <1>1 DEF P, Q, j
    <3>10. m = P * (m \div P) + (m % P) /\ m % P \in 0 .. P - 1
      BY <2>1, <1>2
    <3>11. m \div P = n
      BY <3>1, <3>9 DEF Q
    <3> DEFINE r == m % P
               y == n * P
               z == (n + 1) * P - 1
    <3>12. m = y + r /\ r \in 0 .. P - 1 /\ y \in Nat
      BY <3>10, <3>11, <1>2
    <3>13. Below(n, l) = y .. z /\ z = y + P - 1
      BY <1>2, <1>4, <1>5
    <3> HIDE DEF r, y, z
    <3> QED BY <3>12, <3>13, <1>2
  <2> QED BY <2>3, <2>4
<1>10. n * P <= (n + 1) * P - 1 /\ (n + 1) * P - 1 \in Nat
  BY <1>2, <1>5
<1> QED BY <1>4, <1>5, <1>8, <1>9, <1>10

-----------------------------------------------------------------------------
(***************************************************************************)
(* What leaves the lists                                                   *)
(***************************************************************************)
FreeN(l, tk) == {n \in NodesOf(l) : BlocksOf(n) \cap tk = {}}

\* The jump tree describes the free nodes of every level; level 0 has no list.
JumpInv ==
  /\ next \in [Nodes -> Nat] /\ prev \in [Nodes -> Nat]
  /\ jump_tree_first_index \in [Levels -> Nat] /\ avail_nodes_count \in [Levels -> Nat]
  /\ next[1] = 0 /\ prev[1] = 0 /\ jump_tree_first_index[0] = 0
  /\ \A l \in 1 .. Depth :
       /\ ListOK(next, prev, jump_tree_first_index[l], NodesOf(l), FreeN(l, taken))
       /\ avail_nodes_count[l] = Cardinality(FreeN(l, taken))

\* The levels that have a list, and the nodes on them.
LEMMA ListLevels ==
  /\ 1 .. Depth \subseteq Levels /\ 0 \in Levels /\ \A l \in Levels : l \in Nat /\ (l # 0 => l \in 1 .. Depth)
  /\ \A l \in Levels : NodesOf(l) \subseteq Nat /\ 0 \notin NodesOf(l)
  /\ NodesOf(0) = {1} /\ \A n \in Nodes : LevelOf(n) \in Levels /\ (LevelOf(n) = 0 <=> n = 1)
<1>1. Depth \in Nat \ {0} /\ Levels = 0 .. Depth
  BY DepthAssumption DEF Levels
<1>2. \A l \in Levels : NodesOf(l) \subseteq Nodes
  BY LevelSet
<1>3. NodesOf(0) = {1}
  <2>1. 0 \in Levels /\ Pow2[0] = 1
    BY <1>1, Pow2Def
  <2>2. NodesOf(0) = 1 .. 2 * 1 - 1
    BY <2>1, LevelSet
  <2> QED BY <2>2
<1>4. \A n \in Nodes : LevelOf(n) \in Levels /\ (LevelOf(n) = 0 <=> n = 1)
  BY <1>1, <1>3, LevelFacts, LevelSet
<1>5. /\ 1 .. Depth \subseteq Levels /\ 0 \in Levels
      /\ \A l \in Levels : l \in Nat /\ (l # 0 => l \in 1 .. Depth)
  BY <1>1
<1>6. \A l \in Levels : NodesOf(l) \subseteq Nat /\ 0 \notin NodesOf(l)
  BY <1>2, NodesNat
<1> QED BY <1>3, <1>4, <1>5, <1>6

\* A node is linked in the list of its level while none of its blocks was taken.
LEMMA LinkedIs ==
  ASSUME JumpInv, NEW n \in Nodes
  PROVE  Linked(n) <=> n # 1 /\ BlocksOf(n) \cap taken = {}
<1>1. CASE n = 1
  BY <1>1, RootNode DEF Linked, JumpInv
<1>2. CASE n # 1
  <2> DEFINE l == LevelOf(n)
             F == FreeN(l, taken)
  <2>1. l \in 1 .. Depth /\ n \in NodesOf(l) /\ n \in Nat /\ l \in Levels
    BY <1>2, ListLevels, LevelFacts, NodesNat
  <2>2. ListOK(next, prev, jump_tree_first_index[l], NodesOf(l), F)
    BY <2>1 DEF JumpInv
  <2>3. F \subseteq Nat /\ 0 \notin F /\ (n \in F <=> BlocksOf(n) \cap taken = {})
    BY <2>1, ListLevels DEF FreeN
  <2> HIDE DEF F
  <2>4. CASE n \in F
    <3>1. NextOK(next, F, n) /\ PrevOK(prev, F, n) /\ FirstOK(jump_tree_first_index[l], F)
      BY <2>2, <2>4 DEF ListOK, NextAll, PrevAll
    <3>2. (\E m \in F : m > n) => next[n] # 0
      BY <3>1 DEF NextOK
    <3>3. (\E m \in F : m < n) => prev[n] # 0
      BY <3>1 DEF PrevOK
    <3>4. jump_tree_first_index[l] \in F
      BY <3>1, <2>4 DEF FirstOK
    <3>5. jump_tree_first_index[l] = n \/ jump_tree_first_index[l] > n \/ jump_tree_first_index[l] < n
      <4> DEFINE x == jump_tree_first_index[l]
      <4>1. x \in Nat
        BY <3>4, <2>3
      <4> HIDE DEF x
      <4>2. x = n \/ x > n \/ x < n
        BY <4>1, <2>1
      <4> QED BY <4>2 DEF x
    <3>6. Linked(n)
      BY <3>2, <3>3, <3>4, <3>5 DEF Linked
    <3> QED BY <3>6, <2>3, <2>4, <1>2
  <2>5. CASE n \notin F
    <3>1. next[n] = 0 /\ prev[n] = 0
      BY <2>1, <2>2, <2>5 DEF ListOK, NextAll, PrevAll
    <3>2. jump_tree_first_index[l] # n
      BY <2>1, <2>2, <2>5, NodesNat DEF ListOK, NextAll, PrevAll, FirstOK
    <3> QED BY <3>1, <3>2, <2>3, <2>5 DEF Linked
  <2> QED BY <2>4, <2>5
<1> QED BY <1>1, <1>2

\* What an allocation removes from a level: the nodes that share a block with the
\* run, which are an interval.
LEMMA LeavingIs ==
  ASSUME JumpInv, NEW n \in Nodes, n # 1, BlocksOf(n) \cap taken = {}, NEW l \in Levels
  PROVE  /\ l = 0 => Leaving(n, l) = {}
         /\ l # 0 => Leaving(n, l) = {m \in FreeN(l, taken) : BlocksOf(m) \cap BlocksOf(n) # {}}
         /\ Leaving(n, l) # {} => \E a, b \in Nat : a <= b /\ Leaving(n, l) = a .. b
<1> DEFINE L == LevelOf(n)
<1>1. l \in Nat /\ L \in Nat /\ L # 0 /\ Path(n) \subseteq Nodes /\ L \in Levels
  BY ListLevels, PathFacts, NodesNat
<1>2. CASE l > L
  <2>1. Leaving(n, l) = Below(n, l)
    BY <1>2 DEF Leaving
  <2>2. l >= L
    BY <1>1, <1>2
  <2>3. /\ Below(n, l) = {m \in NodesOf(l) : n \in Path(m)}
        /\ \E a, b \in Nat : a <= b /\ Below(n, l) = a .. b
    BY <2>2, BelowFacts
  <2>4. l # 0
    BY <1>1, <1>2
  <2>5. ASSUME NEW m \in NodesOf(l), n \in Path(m)
        PROVE  BlocksOf(m) \cap taken = {} /\ BlocksOf(m) \cap BlocksOf(n) # {}
    <3>1. m \in Nodes
      BY LevelSet
    <3>2. BlocksOf(m) \subseteq BlocksOf(n) /\ FirstBlock(m) \in BlocksOf(m)
      BY <3>1, <2>5, BlocksPath, BlocksNonEmpty
    <3> QED BY <3>2
  <2>6. ASSUME NEW m \in NodesOf(l), BlocksOf(m) \cap BlocksOf(n) # {} PROVE n \in Path(m)
    <3>1. m \in Nodes /\ LevelOf(m) = l
      BY LevelSet
    <3>2. m \in Path(n) \/ n \in Path(m)
      BY <3>1, <2>6, BlocksOverlap
    <3>3. m \in Path(n) => m = n \/ l < L
      BY <3>1, PathLevel
    <3> QED BY <3>1, <3>2, <3>3, <1>1, <1>2
  <2> QED BY <2>1, <2>3, <2>4, <2>5, <2>6 DEF FreeN
<1>3. CASE ~(l > L)
  <2>1. Leaving(n, l) = {a \in Path(n) : LevelOf(a) = l /\ \A b \in Path(n) : b >= a => Linked(b)}
    BY <1>3 DEF Leaving
  <2>2. ASSUME NEW a \in Leaving(n, l)
        PROVE  /\ l # 0 /\ a \in FreeN(l, taken) /\ BlocksOf(a) \cap BlocksOf(n) # {}
               /\ a \in Path(n) /\ LevelOf(a) = l /\ a \in Nat
    <3>1. a \in Path(n) /\ LevelOf(a) = l /\ a \in Nodes /\ a \in Nat /\ \A b \in Path(n) : b >= a => Linked(b)
      BY <2>1, <2>2, <1>1, NodesNat
    <3>2. a >= a
      BY <3>1
    <3>3. a # 1 /\ BlocksOf(a) \cap taken = {}
      BY <3>1, <3>2, LinkedIs
    <3>4. l # 0 /\ a \in NodesOf(l)
      BY <3>1, <3>3, ListLevels, LevelSet
    <3>5. BlocksOf(n) \subseteq BlocksOf(a) /\ FirstBlock(n) \in BlocksOf(n)
      BY <3>1, BlocksPath, BlocksNonEmpty
    <3> QED BY <3>1, <3>3, <3>4, <3>5 DEF FreeN
  <2>3. ASSUME l # 0, NEW m \in FreeN(l, taken), BlocksOf(m) \cap BlocksOf(n) # {}
        PROVE  m \in Leaving(n, l)
    <3>1. m \in Nodes /\ LevelOf(m) = l /\ BlocksOf(m) \cap taken = {}
      BY LevelSet DEF FreeN
    <3>2. m \in Path(n)
      <4>1. m \in Path(n) \/ n \in Path(m)
        BY <3>1, <2>3, BlocksOverlap
      <4>2. n \in Path(m) => n = m \/ L < l
        BY <3>1, PathLevel
      <4> QED BY <4>1, <4>2, <1>1, <1>3
    <3>3. ASSUME NEW b \in Path(n), b >= m PROVE Linked(b)
      <4>1. b \in Nodes /\ b \in Nat /\ m \in Nat /\ LevelOf(b) \in Nat
        BY <3>1, <1>1, NodesNat, LevelFacts
      <4>2. m <= b
        BY <4>1, <3>3
      <4>3. m \in Path(b)
        BY <4>2, <3>2, PathLinear
      <4>4. BlocksOf(b) \subseteq BlocksOf(m)
        BY <4>1, <4>3, BlocksPath
      <4>5. b = m \/ l < LevelOf(b)
        BY <4>1, <4>3, <3>1, PathLevel
      <4>6. b # 1
        BY <4>1, <4>5, <3>1, <2>3, <1>1, ListLevels
      <4> QED BY <4>1, <4>4, <4>6, <3>1, LinkedIs
    <3> QED BY <3>1, <3>2, <3>3, <2>1
  <2>4. Leaving(n, l) # {} => \E a, b \in Nat : a <= b /\ Leaving(n, l) = a .. b
    <3> SUFFICES ASSUME NEW a \in Leaving(n, l) PROVE \E b, c \in Nat : b <= c /\ Leaving(n, l) = b .. c
      OBVIOUS
    <3>1. \A b \in Leaving(n, l) : b = a
      BY <2>2, PathOne
    <3>2. a \in Nat
      BY <2>2
    <3>3. a .. a = {a} /\ a <= a
      BY <3>2
    <3>4. Leaving(n, l) = a .. a
      BY <3>1, <3>3
    <3> QED BY <3>2, <3>3, <3>4
  <2> QED BY <2>2, <2>3, <2>4
<1> QED BY <1>2, <1>3

\* There are finitely many untouched nodes on a level.
LEMMA FreeFinite ==
  ASSUME NEW l \in Levels, NEW tk
  PROVE  FreeN(l, tk) \subseteq NodesOf(l) /\ IsFiniteSet(FreeN(l, tk)) /\ Cardinality(FreeN(l, tk)) \in Nat
<1>1. NodesOf(l) = Pow2[l] .. 2 * Pow2[l] - 1 /\ Pow2[l] \in Nat
  BY LevelSet
<1>2. IsFiniteSet(NodesOf(l))
  BY <1>1, FS_Interval
<1>3. FreeN(l, tk) \subseteq NodesOf(l)
  BY DEF FreeN
<1>4. IsFiniteSet(FreeN(l, tk))
  BY <1>2, <1>3, FS_Subset
<1> QED BY <1>3, <1>4, FS_CardinalityType

\* chunk_allocate_with_node leaves exact lists: on every level the nodes that left are
\* those that the allocated blocks touch.
LEMMA JumpStep ==
  ASSUME JumpInv, NEW n \in Nodes, n # 1, BlocksOf(n) \cap taken = {},
         NEW reg, chunk_allocate_with_node(n, reg), taken' = taken \cup BlocksOf(n)
  PROVE  JumpInv'
<1> DEFINE S(l) == Leaving(n, l)
           F(l) == FreeN(l, taken)
           G(l) == FreeN(l, taken')
<1>1. /\ next' = [m \in Nodes |-> IF S(LevelOf(m)) = {} THEN next[m] ELSE NextAfter(m, S(LevelOf(m)))]
      /\ prev' = [m \in Nodes |-> IF S(LevelOf(m)) = {} THEN prev[m] ELSE PrevAfter(m, S(LevelOf(m)))]
      /\ avail_nodes_count' = [l \in Levels |-> avail_nodes_count[l] - Cardinality(S(l))]
      /\ jump_tree_first_index' =
           [l \in Levels |-> IF S(l) = {} THEN jump_tree_first_index[l] ELSE FirstAfter(l, S(l))]
  BY DEF chunk_allocate_with_node
<1>2. \A l \in Levels : l = 0 => S(l) = {}
  BY LeavingIs
<1>3. \A l \in Levels : l # 0 => S(l) = {m \in F(l) : BlocksOf(m) \cap BlocksOf(n) # {}}
  BY LeavingIs
<1>4. \A l \in Levels : S(l) # {} => \E a, b \in Nat : a <= b /\ S(l) = a .. b
  BY LeavingIs
<1>5. \A l \in Levels : l # 0 => G(l) = F(l) \ S(l) /\ S(l) \subseteq F(l)
  BY <1>3 DEF FreeN
<1>6. \A l \in Levels : IsFiniteSet(F(l)) /\ F(l) \subseteq NodesOf(l) /\ Cardinality(F(l)) \in Nat
  BY FreeFinite
<1>7. \A l \in 1 .. Depth : /\ l \in Levels /\ l # 0
                            /\ ListOK(next, prev, jump_tree_first_index[l], NodesOf(l), F(l))
                            /\ avail_nodes_count[l] = Cardinality(F(l))
  BY ListLevels DEF JumpInv
<1> HIDE DEF S
<1>8. 0 \in Levels /\ 1 \in Nodes /\ LevelOf(1) = 0
  BY ListLevels, RootNode
<1>9. next'[1] = 0 /\ prev'[1] = 0 /\ jump_tree_first_index'[0] = 0 /\ avail_nodes_count'[0] \in Nat
  <2>1. S(0) = {} /\ Cardinality({}) = 0 /\ avail_nodes_count[0] \in Nat
    BY <1>2, <1>8, FS_EmptySet DEF JumpInv
  <2>2. avail_nodes_count'[0] = avail_nodes_count[0] - 0
    BY <2>1, <1>1, <1>8
  <2> QED BY <2>1, <2>2, <1>1, <1>8 DEF JumpInv
<1>10. ASSUME NEW l \in 1 .. Depth
       PROVE  /\ ListOK(next', prev', jump_tree_first_index'[l], NodesOf(l), G(l))
              /\ avail_nodes_count'[l] = Cardinality(G(l))
  <2>1. l \in Levels /\ l # 0 /\ NodesOf(l) \subseteq Nat /\ NodesOf(l) \subseteq Nodes
    BY <1>7, <1>10, ListLevels, LevelSet
  <2>2. /\ ListOK(next, prev, jump_tree_first_index[l], NodesOf(l), F(l))
        /\ avail_nodes_count[l] = Cardinality(F(l)) /\ G(l) = F(l) \ S(l) /\ S(l) \subseteq F(l)
    BY <2>1, <1>5, <1>7, <1>10
  <2> HIDE DEF F, G
  <2>3. \A m \in NodesOf(l) : m \in Nodes /\ LevelOf(m) = l
    BY <2>1, LevelSet
  <2>4. avail_nodes_count'[l] = Cardinality(G(l))
    <3>1. Cardinality(F(l) \ S(l)) = Cardinality(F(l)) - Cardinality(F(l) \cap S(l))
      BY <2>1, <1>6, FS_Difference
    <3>2. F(l) \cap S(l) = S(l)
      BY <2>2
    <3> QED BY <3>1, <3>2, <2>1, <2>2, <1>1
  <2>5. CASE S(l) = {}
    <3>1. \A m \in NodesOf(l) : next'[m] = next[m] /\ prev'[m] = prev[m]
      BY <2>3, <2>5, <1>1
    <3>2. jump_tree_first_index'[l] = jump_tree_first_index[l] /\ G(l) = F(l)
      BY <2>1, <2>2, <2>5, <1>1
    <3>3. ListOK(next', prev', jump_tree_first_index[l], NodesOf(l), F(l))
      BY <3>1, <2>2 DEF ListOK, NextAll, PrevAll, NextOK, PrevOK
    <3> QED BY <3>2, <3>3, <2>4
  <2>6. CASE S(l) # {}
    <3>1. \A m \in NodesOf(l) : next'[m] = NextAfter(m, S(l)) /\ prev'[m] = PrevAfter(m, S(l))
      BY <2>3, <2>6, <1>1
    <3>2. jump_tree_first_index'[l] = FirstAfter(l, S(l))
      BY <2>1, <2>6, <1>1
    <3>3. PICK a \in Nat, b \in Nat : a <= b /\ S(l) = a .. b
      BY <2>1, <2>6, <1>4
    <3>4. NextAll(next', NodesOf(l), F(l) \ S(l))
      BY <3>1, <3>3, <2>1, <2>2, RemoveNext
    <3>5. PrevAll(prev', NodesOf(l), F(l) \ S(l))
      BY <3>1, <3>3, <2>1, <2>2, RemovePrev
    <3>6. FirstOK(FirstAfter(l, S(l)), F(l) \ S(l))
      BY <3>3, <2>1, <2>2, RemoveFirst
    <3>7. F(l) \subseteq NodesOf(l)
      BY <2>1, <1>6
    <3> QED BY <3>2, <3>4, <3>5, <3>6, <3>7, <2>2, <2>4 DEF ListOK, NextAll, PrevAll
  <2> QED BY <2>5, <2>6
<1>11. ASSUME NEW m \in Nodes PROVE next'[m] \in Nat /\ prev'[m] \in Nat
  <2>1. CASE m = 1
    BY <2>1, <1>9
  <2>2. CASE m # 1
    <3>1. LevelOf(m) \in 1 .. Depth /\ m \in NodesOf(LevelOf(m))
      BY <2>2, ListLevels, LevelFacts
    <3> QED BY <3>1, <1>10 DEF ListOK, NextAll, PrevAll
  <2> QED BY <2>1, <2>2
<1>12. ASSUME NEW l \in Levels PROVE jump_tree_first_index'[l] \in Nat /\ avail_nodes_count'[l] \in Nat
  <2>1. CASE l = 0
    BY <2>1, <1>9
  <2>2. CASE l # 0
    <3>1. l \in 1 .. Depth
      BY <2>2, ListLevels
    <3>2. FirstOK(jump_tree_first_index'[l], G(l)) /\ G(l) \subseteq Nat
      BY <3>1, <1>10, ListLevels DEF ListOK, NextAll, PrevAll
    <3>3. jump_tree_first_index'[l] \in Nat
      BY <3>2 DEF FirstOK
    <3>4. avail_nodes_count'[l] \in Nat
      BY <3>1, <1>10, FreeFinite
    <3> QED BY <3>3, <3>4
  <2> QED BY <2>1, <2>2
<1>13. /\ next' \in [Nodes -> Nat] /\ prev' \in [Nodes -> Nat]
       /\ jump_tree_first_index' \in [Levels -> Nat] /\ avail_nodes_count' \in [Levels -> Nat]
  <2>1. /\ next' = [m \in Nodes |-> next'[m]] /\ prev' = [m \in Nodes |-> prev'[m]]
        /\ jump_tree_first_index' = [l \in Levels |-> jump_tree_first_index'[l]]
        /\ avail_nodes_count' = [l \in Levels |-> avail_nodes_count'[l]]
    BY <1>1
  <2> QED BY <2>1, <1>11, <1>12
<1> QED BY <1>9, <1>10, <1>13 DEF JumpInv

-----------------------------------------------------------------------------
(***************************************************************************)
(* Jumping along a list                                                    *)
(***************************************************************************)
Rank(F, n) == Cardinality({m \in F : m < n})

\* The number of smaller nodes of a list grows by one from a node to the next.
LEMMA RankFacts ==
  ASSUME NEW F, F \subseteq Nat, IsFiniteSet(F), NEW n \in F
  PROVE  /\ Rank(F, n) \in 0 .. Cardinality(F) - 1 /\ Rank(F, n) \in Nat
         /\ \A m \in F : m > n => Rank(F, m) > Rank(F, n)
         /\ Rank(F, n) + 1 < Cardinality(F) => \E m \in F : m > n
         /\ \A w \in F : w > n /\ (\A m \in F : m > n => m >= w) => Rank(F, w) = Rank(F, n) + 1
<1> DEFINE D(m) == {k \in F : k < m}
           E == D(n) \cup {n}
<1>1. \A m : IsFiniteSet(D(m)) /\ Cardinality(D(m)) \in Nat /\ Rank(F, m) = Cardinality(D(m))
  BY FS_Subset, FS_CardinalityType DEF Rank
<1>2. n \notin D(n) /\ E \subseteq F
  OBVIOUS
<1> HIDE DEF D
<1>3. IsFiniteSet(E) /\ Cardinality(E) = Rank(F, n) + 1
  BY <1>1, <1>2, FS_AddElement
<1>4. Cardinality(F) \in Nat /\ Cardinality(E) <= Cardinality(F)
  BY <1>2, FS_Subset, FS_CardinalityType
<1>5. ASSUME NEW m \in F, m > n PROVE Rank(F, m) > Rank(F, n)
  <2>1. E \subseteq D(m)
    <3>1. m \in Nat /\ n \in Nat /\ n < m /\ \A k \in F : k \in Nat
      BY <1>5
    <3>2. \A k \in F : k < n => k < m
      BY <3>1
    <3> QED BY <3>1, <3>2 DEF D
  <2>2. Cardinality(E) <= Cardinality(D(m))
    BY <2>1, <1>1, FS_Subset
  <2> QED BY <2>2, <1>1, <1>3
<1>6. ASSUME Rank(F, n) + 1 < Cardinality(F) PROVE \E m \in F : m > n
  <2>1. E # F
    BY <1>1, <1>3, <1>4, <1>6
  <2>2. PICK m \in F : m \notin E
    BY <2>1, <1>2
  <2>3. ~(m < n) /\ m # n
    BY <2>2 DEF D
  <2> QED BY <2>2, <2>3
<1>7. ASSUME NEW w \in F, w > n, \A m \in F : m > n => m >= w PROVE Rank(F, w) = Rank(F, n) + 1
  <2>1. D(w) = E
    <3>1. w \in Nat /\ n \in Nat /\ \A k \in F : k \in Nat
      OBVIOUS
    <3>2. \A k \in F : k < w <=> k < n \/ k = n
      BY <3>1, <1>7
    <3> QED BY <3>2 DEF D
  <2> QED BY <2>1, <1>1, <1>3
<1>8. Rank(F, n) \in 0 .. Cardinality(F) - 1 /\ Rank(F, n) \in Nat
  BY <1>1, <1>3, <1>4
<1> QED BY <1>5, <1>6, <1>7, <1>8

\* No two nodes of a list have as many smaller ones.
LEMMA RankInjective ==
  ASSUME NEW F, F \subseteq Nat, IsFiniteSet(F), NEW a \in F, NEW b \in F, Rank(F, a) = Rank(F, b)
  PROVE  a = b
<1>1. Rank(F, a) \in Nat
  BY RankFacts
<1>2. a > b \/ b > a \/ a = b
  OBVIOUS
<1>3. a > b => Rank(F, a) > Rank(F, b)
  BY RankFacts
<1>4. b > a => Rank(F, b) > Rank(F, a)
  BY RankFacts
<1> QED BY <1>1, <1>2, <1>3, <1>4

IsWalk(f, x, nx, i) == f = [j \in 0 .. i |-> IF j = 0 THEN x ELSE f[j - 1] + nx[f[j - 1]]]

\* The walk along a list, as a function of the number of jumps, exists.
LEMMA WalkExists ==
  ASSUME NEW x, NEW nx, NEW i \in Nat
  PROVE  \E f : IsWalk(f, x, nx, i)
<1> DEFINE S == {k \in Nat : \E f : IsWalk(f, x, nx, k)}
<1>1. 0 \in S
  <2> DEFINE f == [j \in 0 .. 0 |-> x]
  <2>1. f = [j \in 0 .. 0 |-> IF j = 0 THEN x ELSE f[j - 1] + nx[f[j - 1]]]
    <3>1. \A j \in 0 .. 0 : j = 0
      OBVIOUS
    <3> QED BY <3>1
  <2> QED BY <2>1 DEF IsWalk
<1>2. ASSUME NEW k \in S PROVE k + 1 \in S
  <2>1. k \in Nat
    OBVIOUS
  <2>2. PICK f : IsWalk(f, x, nx, k)
    OBVIOUS
  <2> DEFINE g == [j \in 0 .. k + 1 |-> IF j <= k THEN f[j] ELSE f[k] + nx[f[k]]]
  <2>3. \A j \in 0 .. k : f[j] = IF j = 0 THEN x ELSE f[j - 1] + nx[f[j - 1]]
    BY <2>2 DEF IsWalk
  <2>4. ASSUME NEW j \in 0 .. k + 1 PROVE g[j] = IF j = 0 THEN x ELSE g[j - 1] + nx[g[j - 1]]
    <3>1. CASE j = 0
      <4>1. j <= k /\ j \in 0 .. k
        BY <3>1, <2>1
      <4>2. g[j] = f[j]
        BY <4>1
      <4> QED BY <4>1, <4>2, <3>1, <2>3
    <3>2. CASE j # 0 /\ j <= k
      <4>1. j \in 0 .. k /\ j - 1 \in 0 .. k + 1 /\ j - 1 <= k
        BY <3>2, <2>1
      <4>2. g[j] = f[j] /\ g[j - 1] = f[j - 1]
        BY <4>1, <3>2
      <4> QED BY <4>1, <4>2, <3>2, <2>3
    <3>3. CASE j = k + 1
      <4>1. ~(j <= k) /\ j - 1 = k /\ k \in 0 .. k + 1 /\ k <= k /\ j # 0
        BY <3>3, <2>1
      <4>2. g[j] = f[k] + nx[f[k]] /\ g[k] = f[k]
        BY <4>1
      <4> QED BY <4>1, <4>2
    <3>4. j \in Nat /\ j <= k + 1
      BY <2>1
    <3> QED BY <3>1, <3>2, <3>3, <3>4, <2>1
  <2> HIDE DEF g
  <2>5. g = [j \in 0 .. k + 1 |-> g[j]]
    BY DEF g
  <2>6. IsWalk(g, x, nx, k + 1)
    BY <2>4, <2>5 DEF IsWalk
  <2>7. k + 1 \in Nat
    BY <2>1
  <2> QED BY <2>6, <2>7
<1>3. S \subseteq Nat
  OBVIOUS
<1>4. S = Nat
  <2> HIDE DEF S
  <2> QED BY <1>1, <1>2, <1>3, NatSetInduction
<1> QED BY <1>4

\* After i jumps from the first node the walk is at the free node of rank i.
LEMMA JumpedIs ==
  ASSUME JumpInv, NEW l \in 1 .. Depth, NEW i \in Nat, i < Cardinality(FreeN(l, taken))
  PROVE  Jumped(l, i) \in FreeN(l, taken) /\ Rank(FreeN(l, taken), Jumped(l, i)) = i
<1> DEFINE F == FreeN(l, taken)
           x == jump_tree_first_index[l]
           walk == CHOOSE f : IsWalk(f, x, next, i)
<1>1. Jumped(l, i) = walk[i]
  BY DEF Jumped, IsWalk
<1>2. IsWalk(walk, x, next, i)
  BY WalkExists
<1> HIDE DEF walk
<1>3. \A j \in 0 .. i : walk[j] = IF j = 0 THEN x ELSE walk[j - 1] + next[walk[j - 1]]
  BY <1>2 DEF IsWalk
<1>4. ListOK(next, prev, x, NodesOf(l), F) /\ l \in Levels
  BY ListLevels DEF JumpInv
<1>5. F \subseteq Nat /\ IsFiniteSet(F) /\ Cardinality(F) \in Nat /\ i < Cardinality(F)
  BY <1>4, FreeFinite, ListLevels
<1> HIDE DEF F, x
<1> DEFINE S == {j \in Nat : j <= i => walk[j] \in F /\ Rank(F, walk[j]) = j}
<1>6. 0 \in S
  <2>1. 0 \in 0 .. i
    OBVIOUS
  <2>2. walk[0] = x
    BY <2>1, <1>3
  <2>3. F # {}
    BY <1>5, FS_EmptySet
  <2>4. x \in F /\ \A m \in F : x <= m
    BY <2>3, <1>4 DEF ListOK, FirstOK
  <2>5. {m \in F : m < x} = {}
    <3>1. \A m \in F : m \in Nat /\ x \in Nat
      BY <2>4, <1>5
    <3>2. \A m \in F : ~(m < x)
      BY <3>1, <2>4
    <3> QED BY <3>2
  <2>6. Rank(F, x) = 0
    BY <2>5, FS_EmptySet DEF Rank
  <2> QED BY <2>2, <2>4, <2>6
<1>7. ASSUME NEW j \in S PROVE j + 1 \in S
  <2> SUFFICES ASSUME j + 1 <= i PROVE walk[j + 1] \in F /\ Rank(F, walk[j + 1]) = j + 1
    OBVIOUS
  <2> DEFINE v == walk[j]
  <2>1. j \in Nat /\ j <= i /\ j + 1 \in 0 .. i /\ (j + 1) - 1 = j /\ j + 1 # 0
    OBVIOUS
  <2>2. v \in F /\ Rank(F, v) = j
    BY <2>1
  <2>3. walk[j + 1] = v + next[v]
    BY <2>1, <1>3
  <2> HIDE DEF v
  <2>4. \E m \in F : m > v
    <3>1. Rank(F, v) + 1 < Cardinality(F)
      BY <2>1, <2>2, <1>5
    <3> QED BY <3>1, <2>2, <1>5, RankFacts
  <2>5. NextOK(next, F, v) /\ next[v] \in Nat /\ v \in Nat
    BY <2>2, <1>4, <1>5 DEF ListOK, NextAll
  <2> DEFINE w == v + next[v]
  <2>6. w \in F /\ w > v /\ \A m \in F : m > v => m >= w
    BY <2>4, <2>5 DEF NextOK
  <2> HIDE DEF w
  <2>7. Rank(F, w) = Rank(F, v) + 1
    BY <2>2, <2>6, <1>5, RankFacts
  <2> QED BY <2>2, <2>3, <2>6, <2>7 DEF w
<1>8. S \subseteq Nat
  OBVIOUS
<1>9. S = Nat
  <2> HIDE DEF S
  <2> QED BY <1>6, <1>7, <1>8, NatSetInduction
<1>10. i \in S
  BY <1>9
<1>11. walk[i] \in F /\ Rank(F, walk[i]) = i
  BY <1>10
<1> QED BY <1>1, <1>11 DEF F

\* chunk_allocate_run can choose every free node of the level, and no other.
LEMMA ChoicesIs ==
  ASSUME JumpInv, NEW l \in 1 .. Depth, FreeN(l, taken) # {}
  PROVE  Choices(l) = FreeN(l, taken)
<1> DEFINE F == FreeN(l, taken)
           k == Cardinality(F)
           jumps == {Jumped(l, i) : i \in 0 .. avail_nodes_count[l] - 1}
<1>1. ListOK(next, prev, jump_tree_first_index[l], NodesOf(l), F) /\ avail_nodes_count[l] = k /\ l \in Levels
  BY ListLevels DEF JumpInv
<1>2. F \subseteq Nat /\ IsFiniteSet(F) /\ k \in Nat /\ F \subseteq NodesOf(l)
  BY <1>1, FreeFinite, ListLevels
<1>3. ASSUME NEW i \in 0 .. k - 1 PROVE Jumped(l, i) \in F /\ Rank(F, Jumped(l, i)) = i
  <2>1. i \in Nat /\ i < k
    BY <1>2
  <2> QED BY <2>1, JumpedIs
<1>4. jumps = F
  <2>1. \A i \in 0 .. avail_nodes_count[l] - 1 : Jumped(l, i) \in F
    BY <1>1, <1>3
  <2>2. ASSUME NEW n \in F PROVE n \in jumps
    <3>1. Rank(F, n) \in 0 .. k - 1
      BY <1>2, RankFacts
    <3>2. Jumped(l, Rank(F, n)) \in F /\ Rank(F, Jumped(l, Rank(F, n))) = Rank(F, n)
      BY <3>1, <1>3
    <3>3. Jumped(l, Rank(F, n)) = n
      BY <3>2, <1>2, RankInjective
    <3> QED BY <3>1, <3>3, <1>1
  <2> QED BY <2>1, <2>2
<1>5. Hits(l) \subseteq F /\ Hits(l) \subseteq NodesOf(l)
  BY <1>1 DEF Hits, ListOK, NextAll, PrevAll
<1>6. Choices(l) = IF ~((avail_nodes_count[l] * 100) \div Pow2[l] > Threshold) THEN jumps
                   ELSE IF Hits(l) = NodesOf(l) THEN Hits(l) ELSE Hits(l) \cup jumps
  BY DEF Choices
<1> HIDE DEF F, jumps
<1>7. Choices(l) = F
  BY <1>2, <1>4, <1>5, <1>6
<1> QED BY <1>7 DEF F

-----------------------------------------------------------------------------
(***************************************************************************)
(* The inductive invariant.  No node stays depleted: chunk_deallocate_run  *)
(* turns what it merged into an unmapped node at once.                     *)
(***************************************************************************)
UsedN(t) == {n \in Nodes : t[n] = NODE_USED}

\* The states of the tree t against the blocks handed out, tk, and mapped, mp.
TreeType(t) == t \in [Nodes -> {NODE_FREE, NODE_USED, NODE_UNMAPPED}]
UsedIn(t, tk, mp) == \A n \in UsedN(t) : BlocksOf(n) \subseteq tk \cap mp
UnmappedIn(t, tk, mp) == \A n \in Nodes : t[n] = NODE_UNMAPPED => BlocksOf(n) \subseteq tk \ mp
UsedAlone(t) == \A n \in UsedN(t), m \in Nodes : n \in Above(m) => t[m] = NODE_FREE
Covered(t, tk) == \A b \in tk : \E n \in Nodes : b \in BlocksOf(n) /\ t[n] \in {NODE_USED, NODE_UNMAPPED}
Merged(t) == \A n \in Nodes : ~IS_LEAF(n) /\ (\A c \in Kids(n) : t[c] = NODE_UNMAPPED) => t[n] = NODE_UNMAPPED
SetsOK(tk, mp) == tk \subseteq Blocks /\ mp \subseteq Blocks /\ Blocks \ tk \subseteq mp

TreeOK(t, tk, mp) ==
  /\ TreeType(t) /\ UsedIn(t, tk, mp) /\ UnmappedIn(t, tk, mp)
  /\ UsedAlone(t) /\ Covered(t, tk) /\ Merged(t) /\ SetsOK(tk, mp)

\* The run of a used node, by the marks mk of the leaves.
RunOf(mk, n) ==
  [block |-> FirstBlock(n), len |-> NoBlocksOf(n),
   reg |-> IF IS_LEAF(n) /\ mk[FirstBlock(n)] # REG_MARK_BAD_VALUE
           THEN mk[FirstBlock(n)] ELSE LeafSize * NoBlocksOf(n)]

MarksOK(mk, tk) ==
  /\ mk \in [Blocks -> (RegSizes \cap 1 .. LeafSize - 1) \cup {REG_MARK_BAD_VALUE}]
  /\ \A b \in Blocks \ tk : mk[b] = REG_MARK_BAD_VALUE

LiveOK(L, t, mk) == L = {RunOf(mk, n) : n \in UsedN(t)}

GoneOK == gone \in BOOLEAN /\ (gone <=> buddy_tree[1] = NODE_UNMAPPED)

IInv ==
  /\ JumpInv
  /\ TreeOK(buddy_tree, taken, mapped)
  /\ MarksOK(reg_size_small_medium, taken)
  /\ LiveOK(live, buddy_tree, reg_size_small_medium)
  /\ GoneOK

-----------------------------------------------------------------------------
(***************************************************************************)
(* A fresh chunk                                                           *)
(***************************************************************************)

\* Before anything is allocated a list is the whole level.
LEMMA FreshList ==
  ASSUME NEW P \in Nat \ {0}, NEW N, N = P .. 2 * P - 1, NEW nx, NEW pv,
         \A n \in N : nx[n] = IF n + 1 \in N THEN 1 ELSE 0,
         \A n \in N : pv[n] = IF n - 1 \in N THEN 1 ELSE 0
  PROVE  ListOK(nx, pv, P, N, N)
<1>1. \A n \in N : n \in Nat
  OBVIOUS
<1>2. ASSUME NEW n \in N PROVE NextOK(nx, N, n)
  <2>1. CASE n + 1 \in N
    <3>1. nx[n] = 1 /\ n + 1 > n
      BY <2>1, <1>1
    <3> QED BY <2>1, <3>1, <1>1 DEF NextOK
  <2>2. CASE n + 1 \notin N
    <3>1. nx[n] = 0 /\ n = 2 * P - 1
      BY <2>2
    <3>2. ~\E m \in N : m > n
      BY <3>1
    <3> QED BY <3>1, <3>2 DEF NextOK
  <2> QED BY <2>1, <2>2
<1>3. ASSUME NEW n \in N PROVE PrevOK(pv, N, n)
  <2>1. CASE n - 1 \in N
    <3>1. pv[n] = 1 /\ n - 1 < n
      BY <2>1, <1>1
    <3> QED BY <2>1, <3>1, <1>1 DEF PrevOK
  <2>2. CASE n - 1 \notin N
    <3>1. pv[n] = 0 /\ n = P
      BY <2>2
    <3>2. ~\E m \in N : m < n
      BY <3>1
    <3> QED BY <3>1, <3>2 DEF PrevOK
  <2> QED BY <2>1, <2>2
<1>4. \A n \in N : nx[n] \in Nat /\ pv[n] \in Nat
  OBVIOUS
<1>5. FirstOK(P, N)
  BY DEF FirstOK
<1> QED BY <1>2, <1>3, <1>4, <1>5 DEF ListOK, NextAll, PrevAll

\* chunk_init links every node of a level to its neighbours.
LEMMA InitJump ==
  ASSUME Init
  PROVE  JumpInv
<1>1. /\ next = [n \in Nodes |-> IF n + 1 \in NodesOf(LevelOf(n)) THEN 1 ELSE 0]
      /\ prev = [n \in Nodes |-> IF n - 1 \in NodesOf(LevelOf(n)) THEN 1 ELSE 0]
      /\ jump_tree_first_index = [l \in Levels |-> IF l = 0 THEN 0 ELSE Pow2[l]]
      /\ avail_nodes_count = [l \in Levels |-> IF l = 0 THEN 0 ELSE Pow2[l]]
      /\ taken = {}
  BY DEF Init
<1>2. next \in [Nodes -> Nat] /\ prev \in [Nodes -> Nat]
  BY <1>1
<1>3. \A l \in Levels : Pow2[l] \in Nat
  BY LevelSet
<1>4. jump_tree_first_index \in [Levels -> Nat] /\ avail_nodes_count \in [Levels -> Nat]
  BY <1>1, <1>3
<1>5. next[1] = 0 /\ prev[1] = 0 /\ jump_tree_first_index[0] = 0
  <2>1. 1 \in Nodes /\ LevelOf(1) = 0 /\ NodesOf(0) = {1} /\ 0 \in Levels
    BY RootNode, ListLevels
  <2> QED BY <1>1, <2>1
<1>6. ASSUME NEW l \in 1 .. Depth
      PROVE  /\ ListOK(next, prev, jump_tree_first_index[l], NodesOf(l), FreeN(l, taken))
             /\ avail_nodes_count[l] = Cardinality(FreeN(l, taken))
  <2> DEFINE P == Pow2[l]
             N == NodesOf(l)
  <2>1. l \in Levels /\ l # 0
    BY ListLevels
  <2>2. N \subseteq Nodes /\ (\A n \in N : LevelOf(n) = l) /\ P \in Nat \ {0} /\ N = P .. 2 * P - 1
    BY <2>1, LevelSet
  <2>3. FreeN(l, taken) = N
    BY <1>1 DEF FreeN
  <2>4. jump_tree_first_index[l] = P /\ avail_nodes_count[l] = P
    BY <1>1, <2>1
  <2>5. /\ \A n \in N : next[n] = IF n + 1 \in N THEN 1 ELSE 0
        /\ \A n \in N : prev[n] = IF n - 1 \in N THEN 1 ELSE 0
    BY <1>1, <2>2
  <2>6. Cardinality(P .. 2 * P - 1) = P
    <3> HIDE DEF P
    <3>1. P <= 2 * P - 1 /\ 2 * P - 1 \in Nat /\ (2 * P - 1) - P + 1 = P
      BY <2>2
    <3> QED BY <2>2, <3>1, LastFacts
  <2> HIDE DEF P, N
  <2>7. ListOK(next, prev, P, N, N)
    BY <2>2, <2>5, FreshList
  <2> QED BY <2>2, <2>3, <2>4, <2>6, <2>7 DEF N
<1> QED BY <1>2, <1>4, <1>5, <1>6 DEF JumpInv

USE DEF NODE_FREE, NODE_USED, NODE_UNMAPPED, NODE_DEPLETED

\* chunk_init
LEMMA InitInv ==
  ASSUME Init
  PROVE  IInv
<1>1. /\ buddy_tree = [n \in Nodes |-> NODE_FREE] /\ taken = {} /\ mapped = Blocks /\ live = {}
      /\ gone = FALSE /\ reg_size_small_medium = [b \in Blocks |-> REG_MARK_BAD_VALUE]
  BY DEF Init
<1>2. UsedN(buddy_tree) = {} /\ \A n \in Nodes : buddy_tree[n] = NODE_FREE
  BY <1>1 DEF UsedN
<1>3. TreeOK(buddy_tree, taken, mapped)
  <2>1. TreeType(buddy_tree)
    BY <1>1 DEF TreeType
  <2>2. UsedIn(buddy_tree, taken, mapped) /\ UsedAlone(buddy_tree)
    BY <1>2 DEF UsedIn, UsedAlone
  <2>3. UnmappedIn(buddy_tree, taken, mapped)
    BY <1>2 DEF UnmappedIn
  <2>4. Covered(buddy_tree, taken)
    BY <1>1 DEF Covered
  <2>5. Merged(buddy_tree)
    <3> SUFFICES ASSUME NEW n \in Nodes, ~IS_LEAF(n), \A c \in Kids(n) : buddy_tree[c] = NODE_UNMAPPED
                 PROVE  FALSE
      BY DEF Merged
    <3>1. 2 * n \in Nodes /\ 2 * n \in Kids(n)
      BY Children DEF Kids
    <3> QED BY <1>2, <3>1
  <2>6. SetsOK(taken, mapped)
    BY <1>1 DEF SetsOK
  <2> QED BY <2>1, <2>2, <2>3, <2>4, <2>5, <2>6 DEF TreeOK
<1>4. MarksOK(reg_size_small_medium, taken)
  BY <1>1 DEF MarksOK
<1>5. LiveOK(live, buddy_tree, reg_size_small_medium)
  BY <1>1, <1>2 DEF LiveOK
<1>6. GoneOK
  BY <1>1, <1>2, RootNode DEF GoneOK
<1> QED BY <1>3, <1>4, <1>5, <1>6, InitJump DEF IInv

-----------------------------------------------------------------------------
(***************************************************************************)
(* Allocating: the node                                                    *)
(***************************************************************************)

\* Different exponents give different powers of two.
LEMMA Pow2Injective ==
  ASSUME NEW i \in Nat, NEW j \in Nat, Pow2[i] = Pow2[j]
  PROVE  i = j
<1>1. Pow2[i] \in Nat \ {0} /\ Pow2[j] \in Nat \ {0}
  BY Pow2Positive
<1>2. ~(i < j) /\ ~(j < i)
  BY <1>1, Pow2Monotone
<1> QED BY <1>2

\* The level that chunk_allocate_run computes from the length of the run.
RunLevel(len) == CHOOSE x \in Levels : Pow2[Depth - x] = len

\* What the arena asks for has a level below the root.
LEMMA RequestFacts ==
  ASSUME NEW q \in Requests
  PROVE  /\ q[2] \in RegSizes /\ q[2] \in Nat \ {0} /\ q[1] \in Nat \ {0}
         /\ RunLevel(q[1]) \in 1 .. Depth /\ Pow2[Depth - RunLevel(q[1])] = q[1]
         /\ q[2] < LeafSize => q[1] = 1 /\ RunLevel(q[1]) = Depth
         /\ ~(q[2] < LeafSize) => q[2] = LeafSize * q[1]
         /\ LeafSize \in Nat \ {0} /\ LeafSize <= REG_MARK_BAD_VALUE
<1>1. PICK reg \in RegSizes : q = <<IF reg < LeafSize THEN 1 ELSE reg \div LeafSize, reg>>
  BY DEF Requests
<1>2. q[1] = (IF reg < LeafSize THEN 1 ELSE reg \div LeafSize) /\ q[2] = reg
  BY <1>1
<1>3. LeafSize \in Nat \ {0} /\ LeafSize <= REG_MARK_BAD_VALUE /\ Depth \in Nat /\ Depth >= 1
  <2>1. LeafSize \in 1 .. REG_MARK_BAD_VALUE
    BY SizesAssumption
  <2>2. LeafSize \in Nat \ {0} /\ LeafSize <= REG_MARK_BAD_VALUE
    BY <2>1 DEF REG_MARK_BAD_VALUE
  <2> QED BY <2>2, DepthAssumption
<1>4. \A x \in Levels : Depth - x \in Nat
  BY <1>3 DEF Levels
<1>5. ASSUME NEW i \in 0 .. Depth - 1, q[1] = Pow2[i]
      PROVE  RunLevel(q[1]) = Depth - i /\ RunLevel(q[1]) \in 1 .. Depth /\ Pow2[Depth - RunLevel(q[1])] = q[1]
  <2>1. Depth - i \in Levels /\ Depth - (Depth - i) = i /\ i \in Nat /\ Depth - i \in 1 .. Depth
    BY <1>3 DEF Levels
  <2>2. RunLevel(q[1]) \in Levels /\ Pow2[Depth - RunLevel(q[1])] = q[1]
    BY <1>5, <2>1 DEF RunLevel
  <2>3. Depth - RunLevel(q[1]) = i
    BY <1>4, <1>5, <2>1, <2>2, Pow2Injective
  <2>4. RunLevel(q[1]) = Depth - i
    BY <1>3, <2>1, <2>2, <2>3 DEF Levels
  <2> QED BY <2>1, <2>2, <2>4
<1>6. CASE reg \in 1 .. LeafSize - 1
  <2>1. reg \in Nat \ {0} /\ reg < LeafSize /\ q[1] = 1
    BY <1>2, <1>3, <1>6
  <2>2. 0 \in 0 .. Depth - 1 /\ q[1] = Pow2[0] /\ Depth - 0 = Depth
    BY <1>3, <2>1, Pow2Def
  <2>3. RunLevel(q[1]) = Depth /\ RunLevel(q[1]) \in 1 .. Depth /\ Pow2[Depth - RunLevel(q[1])] = q[1]
    BY <1>5, <2>2
  <2> QED BY <1>2, <1>3, <2>1, <2>3
<1>7. CASE reg \notin 1 .. LeafSize - 1
  <2>1. PICK i \in 0 .. Depth - 1 : reg = LeafSize * Pow2[i]
    BY <1>7, SizesAssumption
  <2>2. i \in Nat
    BY <1>3
  <2>3. Pow2[i] \in Nat \ {0}
    BY <2>2, Pow2Positive
  <2>4. ASSUME NEW a \in Nat \ {0}, NEW b \in Nat \ {0}
        PROVE  a * b \in Nat \ {0} /\ a * b >= a /\ (a * b) \div a = b
    <3>1. a * b \in Nat \ {0} /\ a * b >= a
      OBVIOUS
    <3> QED BY <3>1, MulDiv
  <2>5. reg \in Nat \ {0} /\ ~(reg < LeafSize) /\ reg \div LeafSize = Pow2[i]
    BY <1>3, <2>1, <2>3, <2>4
  <2>6. q[1] = Pow2[i] /\ reg = LeafSize * q[1]
    BY <1>2, <2>1, <2>5
  <2>7. RunLevel(q[1]) \in 1 .. Depth /\ Pow2[Depth - RunLevel(q[1])] = q[1]
    BY <1>5, <2>6
  <2> QED BY <1>2, <1>3, <2>3, <2>5, <2>6, <2>7
<1> QED BY <1>6, <1>7

\* The node that is chosen was never handed out and has the size asked for.
LEMMA ChosenNode ==
  ASSUME IInv, NEW q \in Requests, avail_nodes_count[RunLevel(q[1])] # 0,
         NEW n \in Choices(RunLevel(q[1]))
  PROVE  /\ n \in Nodes /\ n # 1 /\ BlocksOf(n) \cap taken = {} /\ NoBlocksOf(n) = q[1]
         /\ q[2] < LeafSize => IS_LEAF(n)
         /\ LevelOf(n) = RunLevel(q[1])
<1> DEFINE l == RunLevel(q[1])
           F == FreeN(l, taken)
<1>1. l \in 1 .. Depth /\ Pow2[Depth - l] = q[1] /\ (q[2] < LeafSize => l = Depth)
  BY RequestFacts
<1> HIDE DEF l
<1>2. l \in Levels /\ l # 0
  BY <1>1, ListLevels
<1>3. avail_nodes_count[l] = Cardinality(F)
  BY <1>1 DEF IInv, JumpInv
<1>4. F # {}
  BY <1>3, FS_EmptySet DEF l
<1>5. n \in F
  BY <1>1, <1>4, ChoicesIs DEF IInv, l
<1>6. n \in NodesOf(l) /\ BlocksOf(n) \cap taken = {}
  BY <1>5 DEF FreeN
<1>7. n \in Nodes /\ LevelOf(n) = l /\ n # 1
  BY <1>2, <1>6, LevelSet, ListLevels
<1>8. NoBlocksOf(n) = q[1] /\ (q[2] < LeafSize => IS_LEAF(n))
  BY <1>1, <1>7, WidthFacts
<1> QED BY <1>6, <1>7, <1>8 DEF l

-----------------------------------------------------------------------------
(***************************************************************************)
(* Allocating: the tree, the marks and the runs                            *)
(***************************************************************************)

\* chunk_allocate_run: the tree after a free node was marked as used.
LEMMA AllocTree ==
  ASSUME NEW t, NEW tk, NEW mp, TreeOK(t, tk, mp), NEW n \in Nodes, BlocksOf(n) \cap tk = {},
         NEW u, u = [t EXCEPT ![n] = NODE_USED], NEW tk2, tk2 = tk \cup BlocksOf(n)
  PROVE  TreeOK(u, tk2, mp) /\ UsedN(u) = UsedN(t) \cup {n} /\ n \notin UsedN(t) /\ t[n] = NODE_FREE
<1>1. /\ TreeType(t) /\ UsedIn(t, tk, mp) /\ UnmappedIn(t, tk, mp)
      /\ UsedAlone(t) /\ Covered(t, tk) /\ Merged(t) /\ SetsOK(tk, mp)
  BY DEF TreeOK
<1>2. BlocksOf(n) \subseteq Blocks /\ \A m \in Nodes : BlocksOf(m) # {}
  BY WidthFacts, BlocksNonEmpty
<1>3. BlocksOf(n) \subseteq mp
  BY <1>1, <1>2 DEF SetsOK
<1>4. ASSUME NEW m \in Nodes, BlocksOf(m) \cap tk = {} PROVE t[m] = NODE_FREE
  <2>1. t[m] # NODE_USED
    BY <1>1, <1>2, <1>4 DEF UsedIn, UsedN
  <2>2. t[m] # NODE_UNMAPPED
    BY <1>1, <1>2, <1>4 DEF UnmappedIn
  <2> QED BY <1>1, <2>1, <2>2 DEF TreeType
<1>5. t[n] = NODE_FREE
  BY <1>4
<1>6. u[n] = NODE_USED /\ (\A m \in Nodes : m # n => u[m] = t[m]) /\ TreeType(u)
  BY <1>1 DEF TreeType
<1>7. UsedN(u) = UsedN(t) \cup {n} /\ n \notin UsedN(t)
  BY <1>5, <1>6 DEF UsedN
<1>8. UsedIn(u, tk2, mp)
  BY <1>1, <1>3, <1>7 DEF UsedIn
<1>9. UnmappedIn(u, tk2, mp)
  <2> SUFFICES ASSUME NEW m \in Nodes, u[m] = NODE_UNMAPPED PROVE BlocksOf(m) \subseteq tk2 \ mp
    BY DEF UnmappedIn
  <2>1. t[m] = NODE_UNMAPPED
    BY <1>6
  <2> QED BY <1>1, <2>1 DEF UnmappedIn
<1>10. UsedAlone(u)
  <2> SUFFICES ASSUME NEW a \in UsedN(u), NEW m \in Nodes, a \in Above(m) PROVE u[m] = NODE_FREE
    BY DEF UsedAlone
  <2>1. a \in Nodes /\ a \in Path(m) /\ a # m
    BY DEF UsedN, Above
  <2>2. BlocksOf(m) \subseteq BlocksOf(a)
    BY <2>1, BlocksPath
  <2>3. CASE m = n
    <3>1. a \in UsedN(t)
      BY <1>7, <2>1, <2>3
    <3>2. BlocksOf(n) \subseteq tk
      BY <1>1, <2>2, <2>3, <3>1 DEF UsedIn
    <3> QED BY <1>2, <3>2
  <2>4. CASE m # n /\ a = n
    <3>1. BlocksOf(m) \cap tk = {}
      BY <2>2, <2>4
    <3> QED BY <1>4, <1>6, <2>4, <3>1
  <2>5. CASE m # n /\ a # n
    <3>1. t[m] = NODE_FREE
      BY <1>1, <1>7, <2>5 DEF UsedAlone
    <3> QED BY <1>6, <2>5, <3>1
  <2> QED BY <2>3, <2>4, <2>5
<1>11. Covered(u, tk2)
  <2> SUFFICES ASSUME NEW b \in tk2
               PROVE  \E m \in Nodes : b \in BlocksOf(m) /\ u[m] \in {NODE_USED, NODE_UNMAPPED}
    BY DEF Covered
  <2>1. CASE b \in BlocksOf(n)
    BY <1>6, <2>1
  <2>2. CASE b \in tk
    <3>1. PICK m \in Nodes : b \in BlocksOf(m) /\ t[m] \in {NODE_USED, NODE_UNMAPPED}
      BY <1>1, <2>2 DEF Covered
    <3>2. u[m] \in {NODE_USED, NODE_UNMAPPED}
      BY <1>6, <3>1
    <3> QED BY <3>1, <3>2
  <2> QED BY <2>1, <2>2
<1>12. Merged(u)
  <2> SUFFICES ASSUME NEW m \in Nodes, ~IS_LEAF(m), \A c \in Kids(m) : u[c] = NODE_UNMAPPED
               PROVE  u[m] = NODE_UNMAPPED
    BY DEF Merged
  <2>1. \A c \in Kids(m) : c \in Nodes
    BY KidFacts
  <2>2. \A c \in Kids(m) : t[c] = NODE_UNMAPPED
    BY <1>6, <2>1
  <2>3. t[m] = NODE_UNMAPPED
    BY <1>1, <2>2 DEF Merged
  <2> QED BY <1>5, <1>6, <2>3
<1>13. SetsOK(tk2, mp)
  BY <1>1, <1>2 DEF SetsOK
<1> QED BY <1>5, <1>6, <1>7, <1>8, <1>9, <1>10, <1>11, <1>12, <1>13 DEF TreeOK

\* The marks of the other runs stay, and the run found at n is the one asked for.
LEMMA AllocRuns ==
  ASSUME IInv, NEW q \in Requests, NEW n \in Nodes, BlocksOf(n) \cap taken = {},
         NoBlocksOf(n) = q[1], q[2] < LeafSize => IS_LEAF(n),
         NEW u, UsedN(u) = UsedN(buddy_tree) \cup {n}
  PROVE  /\ MarksOK(Marks(n, q[2]), taken \cup BlocksOf(n))
         /\ LiveOK(live \cup {[block |-> FirstBlock(n), len |-> q[1], reg |-> q[2]]}, u, Marks(n, q[2]))
<1> DEFINE mk == reg_size_small_medium
           m2 == Marks(n, q[2])
           f == FirstBlock(n)
           RS == (RegSizes \cap 1 .. LeafSize - 1) \cup {REG_MARK_BAD_VALUE}
<1>1. /\ q[2] \in RegSizes /\ q[2] \in Nat \ {0} /\ LeafSize \in Nat \ {0} /\ LeafSize <= REG_MARK_BAD_VALUE
      /\ (q[2] < LeafSize => q[1] = 1) /\ (~(q[2] < LeafSize) => q[2] = LeafSize * q[1])
      /\ q[1] \in Nat
  BY RequestFacts
<1>2. mk \in [Blocks -> RS] /\ \A b \in Blocks \ taken : mk[b] = REG_MARK_BAD_VALUE
  BY DEF IInv, MarksOK
<1>3. f \in BlocksOf(n) /\ BlocksOf(n) \subseteq Blocks /\ f \in Blocks /\ f \notin taken
  BY BlocksNonEmpty, WidthFacts
<1>4. IS_LEAF(n) => n - NoBlocks = f
  <2>1. (IS_LEAF(n) => NoBlocksOf(n) = 1) /\ n \in Nat
    BY WidthFacts, NodesNat
  <2>2. n * 1 = n
    BY <2>1
  <2> QED BY <2>1, <2>2 DEF FirstBlock
<1>5. LevelOf(n) = Depth <=> IS_LEAF(n)
  BY WidthFacts
<1>6. REG_MARK_BAD_VALUE \in Nat
  BY DEF REG_MARK_BAD_VALUE
<1>7. IS_LEAF(n) => q[1] = 1
  BY WidthFacts
<1>8. IS_LEAF(n) /\ q[2] # LeafSize => q[2] < LeafSize
  BY <1>1, <1>7
<1>9. m2 = IF IS_LEAF(n) /\ q[2] # LeafSize THEN [mk EXCEPT ![f] = q[2]] ELSE mk
  BY <1>4, <1>5 DEF Marks
<1>10. (IS_LEAF(n) /\ q[2] # LeafSize) => q[2] \in RS
  BY <1>1, <1>8
<1> HIDE DEF RS, m2, f
<1>11. m2 \in [Blocks -> RS] /\ \A b \in Blocks : b # f => m2[b] = mk[b]
  BY <1>2, <1>3, <1>9, <1>10
<1>12. MarksOK(m2, taken \cup BlocksOf(n))
  BY <1>2, <1>3, <1>11 DEF MarksOK, RS
<1>13. ASSUME NEW a \in UsedN(buddy_tree) PROVE RunOf(m2, a) = RunOf(mk, a)
  <2>1. a \in Nodes /\ BlocksOf(a) \subseteq taken
    BY DEF IInv, TreeOK, UsedIn, UsedN
  <2>2. FirstBlock(a) \in Blocks /\ FirstBlock(a) # f
    BY <1>3, <2>1, BlocksNonEmpty, WidthFacts
  <2>3. m2[FirstBlock(a)] = mk[FirstBlock(a)]
    BY <1>11, <2>2
  <2> QED BY <2>3 DEF RunOf
<1>14. RunOf(m2, n) = [block |-> f, len |-> q[1], reg |-> q[2]]
  <2>1. CASE IS_LEAF(n) /\ q[2] # LeafSize
    <3>1. m2[f] = q[2]
      BY <1>2, <1>3, <1>9, <2>1
    <3>2. q[2] # REG_MARK_BAD_VALUE
      BY <1>1, <1>6, <1>8, <2>1
    <3> QED BY <2>1, <3>1, <3>2 DEF RunOf, f
  <2>2. CASE IS_LEAF(n) /\ q[2] = LeafSize
    <3>1. m2[f] = REG_MARK_BAD_VALUE
      BY <1>2, <1>3, <1>9, <2>2
    <3>2. LeafSize * q[1] = q[2]
      BY <1>1, <1>7, <2>2
    <3> QED BY <2>2, <3>1, <3>2 DEF RunOf, f
  <2>3. CASE ~IS_LEAF(n)
    <3>1. LeafSize * q[1] = q[2]
      BY <1>1, <2>3
    <3> QED BY <2>3, <3>1 DEF RunOf, f
  <2> QED BY <2>1, <2>2, <2>3
<1>15. live = {RunOf(mk, a) : a \in UsedN(buddy_tree)}
  BY DEF IInv, LiveOK
<1>16. {RunOf(m2, a) : a \in UsedN(u)} = live \cup {RunOf(m2, n)}
  BY <1>13, <1>15
<1> QED BY <1>12, <1>14, <1>16 DEF LiveOK, m2, f

\* chunk_allocate_run keeps the invariant.
LEMMA AllocInv ==
  ASSUME IInv, NEW q \in Requests, chunk_allocate_run(q[1], q[2])
  PROVE  IInv'
<1> DEFINE l == RunLevel(q[1])
<1>1. ~gone /\ avail_nodes_count[l] # 0 /\ mapped' = mapped /\ gone' = gone
  BY DEF chunk_allocate_run, RunLevel
<1>2. PICK n \in Choices(l) :
        /\ chunk_allocate_with_node(n, q[2])
        /\ live' = live \cup {[block |-> FirstBlock(n), len |-> q[1], reg |-> q[2]]}
        /\ taken' = taken \cup BlocksOf(n)
  BY DEF chunk_allocate_run, RunLevel
<1>3. /\ n \in Nodes /\ n # 1 /\ BlocksOf(n) \cap taken = {} /\ NoBlocksOf(n) = q[1]
      /\ q[2] < LeafSize => IS_LEAF(n)
  BY <1>1, <1>2, ChosenNode
<1> HIDE DEF l
<1>4. JumpInv'
  BY <1>2, <1>3, JumpStep DEF IInv
<1>5. buddy_tree' = [buddy_tree EXCEPT ![n] = NODE_USED] /\ reg_size_small_medium' = Marks(n, q[2])
  BY <1>2 DEF chunk_allocate_with_node
<1>6. TreeOK(buddy_tree', taken', mapped') /\ UsedN(buddy_tree') = UsedN(buddy_tree) \cup {n}
  <2>1. TreeOK(buddy_tree, taken, mapped)
    BY DEF IInv
  <2>2. taken' = taken \cup BlocksOf(n) /\ BlocksOf(n) \cap taken = {} /\ n \in Nodes
    BY <1>2, <1>3
  <2>3. TreeOK(buddy_tree', taken', mapped) /\ UsedN(buddy_tree') = UsedN(buddy_tree) \cup {n}
    BY <1>5, <2>1, <2>2, AllocTree
  <2> QED BY <1>1, <2>3
<1>7. /\ MarksOK(reg_size_small_medium', taken')
      /\ LiveOK(live', buddy_tree', reg_size_small_medium')
  BY <1>2, <1>3, <1>5, <1>6, AllocRuns
<1>8. GoneOK'
  <2>1. 1 \in Nodes /\ buddy_tree \in [Nodes -> {NODE_FREE, NODE_USED, NODE_UNMAPPED}]
    BY RootNode DEF IInv, TreeOK, TreeType
  <2>2. buddy_tree'[1] = buddy_tree[1]
    BY <1>3, <1>5, <2>1
  <2> QED BY <1>1, <2>2 DEF IInv, GoneOK
<1>9. /\ TreeOK(buddy_tree, taken, mapped)' /\ MarksOK(reg_size_small_medium, taken)'
      /\ LiveOK(live, buddy_tree, reg_size_small_medium)'
  BY <1>6, <1>7
<1> QED BY <1>4, <1>8, <1>9 DEF IInv

-----------------------------------------------------------------------------
(***************************************************************************)
(* Climbing                                                                *)
(***************************************************************************)

\* From n up to a the climb passes left children only exactly when the two have
\* the same first block.
LEMMA LeftSpine ==
  ASSUME NEW n \in Nodes, NEW a \in Path(n)
  PROVE  (\A c \in Path(n) : c > a => c % 2 = 0) <=> FirstBlock(a) = FirstBlock(n)
<1> DEFINE Left(k, x) == \A c \in Path(k) : c > x => c % 2 = 0
           S == {k \in Nodes : \A x \in Path(k) : Left(k, x) <=> FirstBlock(x) = FirstBlock(k)}
<1>1. 1 \in S
  <2>1. Left(1, 1)
    BY PathRoot
  <2> QED BY <2>1, PathRoot, RootNode
<1>2. ASSUME NEW k \in Nodes, k # 1, PARENT(k) \in S PROVE k \in S
  <2> DEFINE p == PARENT(k)
  <2>1. /\ p \in Nodes /\ p < k /\ ~IS_LEAF(p) /\ (k = 2 * p \/ k = 2 * p + 1)
    BY <1>2, Parent
  <2>2. Path(k) = {k} \cup Path(p) /\ Path(p) \subseteq Nodes /\ \A c \in Path(p) : c <= p
    BY <1>2, <2>1, PathStep, PathFacts
  <2>3. p \in Nat /\ k \in Nat /\ \A c \in Path(p) : c \in Nat
    BY <2>1, <2>2, NodesNat
  <2>4. FirstBlock(k) = IF k = 2 * p THEN FirstBlock(p) ELSE FirstBlock(p) + NoBlocksOf(k)
    BY <2>1, Children
  <2>5. NoBlocksOf(k) \in Nat \ {0} /\ FirstBlock(p) \in Nat
    BY <2>1, WidthFacts
  <2>6. \A x \in Path(p) : Left(p, x) <=> FirstBlock(x) = FirstBlock(p)
    BY <1>2
  <2> HIDE DEF p
  <2> SUFFICES ASSUME NEW x \in Path(k) PROVE Left(k, x) <=> FirstBlock(x) = FirstBlock(k)
    OBVIOUS
  <2>7. CASE x = k
    <3>1. \A c \in Path(k) : ~(c > k)
      BY <2>1, <2>2, <2>3
    <3> QED BY <2>7, <3>1
  <2>8. CASE x # k
    <3>1. x \in Path(p) /\ x <= p /\ x \in Nodes
      BY <2>2, <2>8
    <3>2. k > x
      BY <2>1, <2>3, <3>1
    <3>3. Left(k, x) <=> k % 2 = 0 /\ Left(p, x)
      BY <2>2, <3>2
    <3>4. CASE k = 2 * p
      <4>1. k % 2 = 0
        BY <2>3, <3>4
      <4> HIDE DEF Left
      <4> QED BY <2>4, <2>6, <3>1, <3>3, <3>4, <4>1
    <3>5. CASE k # 2 * p
      <4>1. k % 2 # 0
        BY <2>1, <2>3, <3>5
      <4>2. FirstBlock(p) \in BlocksOf(p) /\ BlocksOf(p) \subseteq BlocksOf(x)
        BY <2>1, <3>1, BlocksNonEmpty, BlocksPath
      <4>3. FirstBlock(p) \in BlocksOf(x)
        BY <4>2
      <4>4. FirstBlock(x) <= FirstBlock(p) /\ FirstBlock(x) \in Nat
        BY <2>5, <3>1, <4>3, WidthFacts DEF BlocksOf
      <4>5. FirstBlock(x) # FirstBlock(k)
        BY <2>4, <2>5, <3>5, <4>4
      <4> HIDE DEF Left
      <4> QED BY <3>3, <4>1, <4>5
    <3> QED BY <3>4, <3>5
  <2> QED BY <2>7, <2>8
<1> HIDE DEF S
<1>3. Nodes \subseteq S
  BY <1>1, <1>2, NodeInduction
<1> QED BY <1>3 DEF S

\* The leaf of a block.
LEMMA LeafFacts ==
  ASSUME NEW b \in Blocks
  PROVE  Leaf(b) \in Nodes /\ IS_LEAF(Leaf(b)) /\ FirstBlock(Leaf(b)) = b /\ BlocksOf(Leaf(b)) = {b}
<1>1. NoBlocks \in Nat /\ Depth \in Nat /\ Pow2[Depth + 1] = 2 * NoBlocks /\ NoBlocks >= 2
  BY RootNode, NodesNat, Pow2Def DEF NoBlocks
<1>2. b \in Nat /\ b < NoBlocks
  BY <1>1 DEF Blocks
<1>3. Leaf(b) = NoBlocks + b
  BY DEF Leaf
<1>4. Leaf(b) \in Nodes /\ IS_LEAF(Leaf(b))
  BY <1>1, <1>2, <1>3 DEF Nodes, IS_LEAF
<1>5. NoBlocksOf(Leaf(b)) = 1
  BY <1>4, WidthFacts
<1>6. FirstBlock(Leaf(b)) = b
  BY <1>1, <1>2, <1>3, <1>5 DEF FirstBlock
<1>7. BlocksOf(Leaf(b)) = b .. b + 1 - 1
  BY <1>5, <1>6 DEF BlocksOf
<1>8. b .. b + 1 - 1 = {b}
  BY <1>2
<1> QED BY <1>4, <1>6, <1>7, <1>8

\* Two used nodes have no block in common.
LEMMA UsedDistinct ==
  ASSUME NEW t, UsedAlone(t), NEW a \in UsedN(t), NEW c \in UsedN(t), BlocksOf(a) \cap BlocksOf(c) # {}
  PROVE  a = c
<1>1. a \in Nodes /\ c \in Nodes /\ t[a] = NODE_USED /\ t[c] = NODE_USED
  BY DEF UsedN
<1>2. a \in Path(c) \/ c \in Path(a)
  BY <1>1, BlocksOverlap
<1>3. ~(a \in Above(c)) /\ ~(c \in Above(a))
  BY <1>1 DEF UsedAlone
<1> QED BY <1>2, <1>3 DEF Above

\* The climb from a block ends at the used node that starts there, or nowhere.
LEMMA FoundIs ==
  ASSUME UsedAlone(buddy_tree), NEW b \in Blocks
  PROVE  Found(b) = {a \in UsedN(buddy_tree) : FirstBlock(a) = b}
<1> DEFINE n == Leaf(b)
<1>1. n \in Nodes /\ IS_LEAF(n) /\ FirstBlock(n) = b /\ BlocksOf(n) = {b}
  BY LeafFacts
<1>2. Path(n) \subseteq Nodes /\ n \in Path(n)
  BY <1>1, PathFacts
<1>3. \A a \in Path(n) : a \in Nat
  BY <1>2, NodesNat
<1>4. Found(b) = {a \in Path(n) : /\ buddy_tree[a] = NODE_USED
                                  /\ \A c \in Path(n) : c > a => buddy_tree[c] = NODE_FREE /\ c % 2 = 0}
  BY DEF Found
<1> HIDE DEF n
<1>5. ASSUME NEW a \in Found(b) PROVE a \in UsedN(buddy_tree) /\ FirstBlock(a) = b
  <2>1. a \in Path(n) /\ buddy_tree[a] = NODE_USED /\ \A c \in Path(n) : c > a => c % 2 = 0
    BY <1>4
  <2>2. FirstBlock(a) = FirstBlock(n)
    BY <1>1, <2>1, LeftSpine
  <2> QED BY <1>1, <1>2, <2>1, <2>2 DEF UsedN
<1>6. ASSUME NEW a \in UsedN(buddy_tree), FirstBlock(a) = b PROVE a \in Found(b)
  <2>1. a \in Nodes /\ buddy_tree[a] = NODE_USED /\ b \in BlocksOf(a)
    BY <1>6, BlocksNonEmpty DEF UsedN
  <2>2. a \in Path(n) \/ n \in Path(a)
    BY <1>1, <2>1, BlocksOverlap
  <2>3. a \in Path(n)
    <3>1. n \in Path(a) => n = a
      BY <1>1, <2>1, PathChild
    <3> QED BY <1>2, <2>2, <3>1
  <2>4. \A c \in Path(n) : c > a => c % 2 = 0
    BY <1>1, <1>6, <2>3, LeftSpine
  <2>5. ASSUME NEW c \in Path(n), c > a PROVE buddy_tree[c] = NODE_FREE
    <3>1. c \in Nodes /\ a \in Nat /\ c \in Nat
      BY <1>2, <1>3, <2>3
    <3>2. a <= c /\ a # c
      BY <2>5, <3>1
    <3>3. a \in Path(c)
      BY <1>1, <2>3, <3>2, PathLinear
    <3>4. a \in Above(c)
      BY <3>2, <3>3 DEF Above
    <3> QED BY <3>1, <3>4 DEF UsedAlone
  <2> QED BY <1>4, <2>1, <2>3, <2>4, <2>5
<1> QED BY <1>5, <1>6

-----------------------------------------------------------------------------
(***************************************************************************)
(* Returning a run                                                         *)
(***************************************************************************)

\* A chunk never has a depleted node between two calls, so merging the depleted
\* nodes around n leaves n alone.
LEMMA NoDepleted ==
  ASSUME NEW t, TreeType(t), NEW n \in Nodes, NEW st
  PROVE  MergeTop([t EXCEPT ![n] = st], n, {NODE_DEPLETED}) = n
<1> DEFINE w == [t EXCEPT ![n] = st]
           top == MergeTop(w, n, {NODE_DEPLETED})
<1>1. /\ top \in Path(n) /\ top \in Nodes /\ top <= n
      /\ \A c \in Path(n) : c > top => w[Sibling(c)] \in {NODE_DEPLETED}
  BY MergeFacts
<1> HIDE DEF top
<1>2. n \in Path(n) /\ n \in Nat \ {0} /\ top \in Nat \ {0}
  BY <1>1, PathFacts, NodesNat
<1>3. ASSUME n > top PROVE FALSE
  <2>1. n # 1
    BY <1>2, <1>3
  <2>2. Sibling(n) \in Nodes /\ Sibling(n) # n
    BY <2>1, Parent
  <2>3. w[Sibling(n)] = t[Sibling(n)] /\ t[Sibling(n)] # NODE_DEPLETED
    BY <2>2 DEF TreeType
  <2> QED BY <1>1, <1>2, <1>3, <2>3
<1>4. top = n
  BY <1>1, <1>2, <1>3
<1> QED BY <1>4 DEF top

\* The tree after the run of n was returned, and whether the chunk is unmapped.
Returned(t, n) == Merge([t EXCEPT ![n] = NODE_UNMAPPED], n, {NODE_UNMAPPED}, NODE_UNMAPPED)
ReachesRoot(t, n) == MergeTop([t EXCEPT ![n] = NODE_UNMAPPED], n, {NODE_UNMAPPED}) = 1

\* What chunk_deallocate_run does to the tree: n becomes unmapped and is merged
\* with the unmapped nodes around it.
LEMMA DeallocIs ==
  ASSUME TreeType(buddy_tree), NEW b, chunk_deallocate_run(b)
  PROVE  \E n \in Found(b) :
           n \in Nodes =>
             /\ mapped' = mapped \ BlocksOf(n)
             /\ buddy_tree' = Returned(buddy_tree, n)
             /\ gone' = ReachesRoot(buddy_tree, n)
<1> DEFINE D(n) == [buddy_tree EXCEPT ![n] = NODE_DEPLETED]
           T(n) == MergeTop(buddy_tree, n, {NODE_DEPLETED})
           C(n) == Merge(D(n), n, {NODE_DEPLETED}, NODE_DEPLETED)
           W(n) == [C(n) EXCEPT ![T(n)] = NODE_UNMAPPED]
<1>1. PICK n \in Found(b) :
        /\ mapped' = mapped \ BlocksOf(T(n))
        /\ buddy_tree' = Merge(W(n), T(n), {NODE_UNMAPPED}, NODE_UNMAPPED)
        /\ gone' = (MergeTop(W(n), T(n), {NODE_UNMAPPED}) = 1)
  BY DEF chunk_deallocate_run, coalesce_depleted_nodes, coalesce_unmapped_nodes
<1> SUFFICES ASSUME n \in Nodes
             PROVE  /\ mapped' = mapped \ BlocksOf(n)
                    /\ buddy_tree' = Returned(buddy_tree, n)
                    /\ gone' = ReachesRoot(buddy_tree, n)
  BY <1>1
<1>2. [buddy_tree EXCEPT ![n] = buddy_tree[n]] = buddy_tree
  BY DEF TreeType
<1>3. T(n) = n
  BY <1>2, NoDepleted
<1>4. MergeTop(D(n), n, {NODE_DEPLETED}) = n
  BY NoDepleted
<1>5. C(n) = D(n)
  <2>1. C(n) = [m \in Nodes |-> IF m \in Path(n) /\ m < n /\ m >= n THEN NODE_DEPLETED ELSE D(n)[m]]
    BY <1>4 DEF Merge
  <2>2. \A m \in Nodes : ~(m < n /\ m >= n)
    BY NodesNat
  <2>3. D(n) = [m \in Nodes |-> D(n)[m]]
    BY DEF TreeType
  <2>4. C(n) = [m \in Nodes |-> D(n)[m]]
    BY <2>1, <2>2
  <2> QED BY <2>3, <2>4
<1>6. W(n) = [buddy_tree EXCEPT ![n] = NODE_UNMAPPED]
  <2>1. W(n) = [D(n) EXCEPT ![n] = NODE_UNMAPPED]
    BY <1>3, <1>5
  <2>2. [D(n) EXCEPT ![n] = NODE_UNMAPPED] = [buddy_tree EXCEPT ![n] = NODE_UNMAPPED]
    BY DEF TreeType
  <2> QED BY <2>1, <2>2
<1> HIDE DEF T, W
<1> QED BY <1>1, <1>3, <1>6 DEF Returned, ReachesRoot

\* chunk_deallocate_run: the tree after a used node was unmapped and merged upwards.
LEMMA DeallocTree ==
  ASSUME NEW t, NEW tk, NEW mp, TreeOK(t, tk, mp), NEW n \in UsedN(t), t[1] # NODE_UNMAPPED
  PROVE  /\ TreeOK(Returned(t, n), tk, mp \ BlocksOf(n)) /\ UsedN(Returned(t, n)) = UsedN(t) \ {n}
         /\ Returned(t, n)[1] = NODE_UNMAPPED <=> ReachesRoot(t, n)
<1> DEFINE mp2 == mp \ BlocksOf(n)
           w == [t EXCEPT ![n] = NODE_UNMAPPED]
           u == Returned(t, n)
           top == MergeTop(w, n, {NODE_UNMAPPED})
           M == {m \in Path(n) : m >= top}
<1>1. /\ TreeType(t) /\ UsedIn(t, tk, mp) /\ UnmappedIn(t, tk, mp)
      /\ UsedAlone(t) /\ Covered(t, tk) /\ Merged(t) /\ SetsOK(tk, mp)
  BY DEF TreeOK
<1>2. n \in Nodes /\ t[n] = NODE_USED /\ BlocksOf(n) \subseteq tk /\ BlocksOf(n) \subseteq mp
  BY <1>1 DEF UsedN, UsedIn
<1>3. /\ top \in Path(n) /\ top \in Nodes /\ top <= n
      /\ \A c \in Path(n) : c > top => w[Sibling(c)] = NODE_UNMAPPED
      /\ top # 1 => w[Sibling(top)] # NODE_UNMAPPED
  <2>1. /\ top \in Path(n) /\ top \in Nodes /\ top <= n
        /\ \A c \in Path(n) : c > top => w[Sibling(c)] \in {NODE_UNMAPPED}
        /\ top # 1 => w[Sibling(top)] \notin {NODE_UNMAPPED}
    BY <1>2, MergeFacts
  <2> HIDE DEF top
  <2> QED BY <2>1
<1>4. /\ Path(n) \subseteq Nodes /\ n \in Path(n) /\ 1 \in Path(n)
      /\ \A m \in Path(n) : m <= n /\ m \in Nat /\ m \in Nodes
  BY <1>2, PathFacts, NodesNat
<1>5. w[n] = NODE_UNMAPPED /\ \A m \in Nodes : m # n => w[m] = t[m]
  BY <1>1, <1>2 DEF TreeType
<1>6. u = [m \in Nodes |-> IF m \in Path(n) /\ m < n /\ m >= top THEN NODE_UNMAPPED ELSE w[m]]
  BY DEF Merge, Returned
<1>0. ReachesRoot(t, n) <=> top = 1
  BY DEF ReachesRoot
<1> HIDE DEF top, w, u
<1>7. n \in M /\ M \subseteq Nodes
  BY <1>3, <1>4
<1>8. ASSUME NEW m \in M PROVE u[m] = NODE_UNMAPPED
  <2>1. m \in Nodes /\ m \in Path(n) /\ m >= top /\ m <= n
    BY <1>4
  <2>2. CASE m = n
    BY <1>2, <1>4, <1>5, <1>6, <2>2
  <2>3. CASE m # n
    <3>1. m < n
      BY <1>4, <2>1, <2>3
    <3> QED BY <1>6, <2>1, <3>1
  <2> QED BY <2>2, <2>3
<1>9. ASSUME NEW m \in Nodes, m \notin M PROVE u[m] = t[m] /\ m # n /\ w[m] = t[m]
  <2>1. m # n
    BY <1>7, <1>9
  <2>2. u[m] = w[m]
    BY <1>6, <1>9
  <2> QED BY <1>5, <2>1, <2>2
<1>10. TreeType(u)
  BY <1>1, <1>5, <1>6 DEF TreeType
<1>11. ASSUME NEW a \in Above(n) PROVE t[a] = NODE_FREE
  <2>1. a \in Path(n) /\ a \in Nodes
    BY <1>4 DEF Above
  <2>2. BlocksOf(n) \subseteq BlocksOf(a) /\ BlocksOf(n) # {}
    BY <1>2, <2>1, BlocksPath, BlocksNonEmpty
  <2>3. t[a] # NODE_USED
    BY <1>1, <1>2, <2>1 DEF UsedAlone, UsedN
  <2>4. t[a] # NODE_UNMAPPED
    BY <1>1, <1>2, <2>1, <2>2 DEF UnmappedIn
  <2> QED BY <1>1, <2>1, <2>3, <2>4 DEF TreeType
<1>12. \A m \in M : m = n \/ t[m] = NODE_FREE
  BY <1>11 DEF Above
<1>13. UsedN(u) = UsedN(t) \ {n}
  <2>1. ASSUME NEW m \in Nodes PROVE u[m] = NODE_USED <=> t[m] = NODE_USED /\ m # n
    <3>1. CASE m \in M
      BY <1>8, <1>12, <3>1
    <3>2. CASE m \notin M
      BY <1>9, <3>2
    <3> QED BY <3>1, <3>2
  <2> QED BY <2>1 DEF UsedN
<1>14. ASSUME NEW m \in M PROVE BlocksOf(m) \subseteq tk \ mp2
  <2> DEFINE S == {k \in Nodes : k \in M => BlocksOf(k) \subseteq tk \ mp2}
  <2>1. ASSUME NEW k \in Nodes, IS_LEAF(k) \/ (2 * k \in S /\ 2 * k + 1 \in S) PROVE k \in S
    <3> SUFFICES ASSUME k \in M PROVE BlocksOf(k) \subseteq tk \ mp2
      OBVIOUS
    <3>1. CASE k = n
      BY <1>2, <3>1
    <3>2. CASE k # n
      <4>1. k \in Above(n) /\ k \in Path(n) /\ k >= top /\ k \in Nat
        BY <1>4, <3>2 DEF Above
      <4>2. ~IS_LEAF(k)
        BY <1>2, <4>1, AboveFacts
      <4>3. PICK c \in Kids(k) : c \in Path(n) /\ c > k /\ Sibling(c) \notin Path(n)
        BY <1>2, <4>1, AboveKid
      <4>4. c \in S
        BY <2>1, <4>2, <4>3 DEF Kids
      <4>5. c > top /\ c \in M
        BY <1>3, <1>4, <4>1, <4>3
      <4>6. BlocksOf(c) \subseteq tk \ mp2
        BY <4>4, <4>5
      <4>7. c \in Nodes /\ c # 1 /\ PARENT(c) = k
        BY <4>2, <4>3, KidFacts
      <4>8. Sibling(c) \in Nodes /\ Sibling(c) # n
        BY <1>4, <4>3, <4>7, Parent
      <4>9. t[Sibling(c)] = NODE_UNMAPPED
        BY <1>3, <1>5, <4>3, <4>5, <4>8
      <4>10. BlocksOf(Sibling(c)) \subseteq tk \ mp
        BY <1>1, <4>8, <4>9 DEF UnmappedIn
      <4>11. BlocksOf(k) = BlocksOf(c) \cup BlocksOf(Sibling(c))
        BY <4>7, BlocksParent
      <4> QED BY <4>6, <4>10, <4>11
    <3> QED BY <3>1, <3>2
  <2> HIDE DEF S
  <2>2. Nodes \subseteq S
    BY <2>1, NodeInductionUp
  <2> QED BY <1>7, <2>2 DEF S
<1>15. UsedIn(u, tk, mp2)
  <2> SUFFICES ASSUME NEW m \in UsedN(u) PROVE BlocksOf(m) \subseteq tk \cap mp2
    BY DEF UsedIn
  <2>1. m \in UsedN(t) /\ m # n
    BY <1>13
  <2>2. BlocksOf(m) \subseteq tk \cap mp /\ BlocksOf(m) \cap BlocksOf(n) = {}
    BY <1>1, <2>1, UsedDistinct DEF UsedIn
  <2> QED BY <2>2
<1>16. UnmappedIn(u, tk, mp2)
  <2> SUFFICES ASSUME NEW m \in Nodes, u[m] = NODE_UNMAPPED PROVE BlocksOf(m) \subseteq tk \ mp2
    BY DEF UnmappedIn
  <2>1. CASE m \in M
    BY <1>14, <2>1
  <2>2. CASE m \notin M
    <3>1. BlocksOf(m) \subseteq tk \ mp
      BY <1>1, <1>9, <2>2 DEF UnmappedIn
    <3> QED BY <3>1
  <2> QED BY <2>1, <2>2
<1>17. UsedAlone(u)
  <2> SUFFICES ASSUME NEW a \in UsedN(u), NEW m \in Nodes, a \in Above(m) PROVE u[m] = NODE_FREE
    BY DEF UsedAlone
  <2>1. a \in UsedN(t) /\ a # n /\ t[a] = NODE_USED
    BY <1>13 DEF UsedN
  <2>2. t[m] = NODE_FREE
    BY <1>1, <2>1 DEF UsedAlone
  <2>3. m \notin M
    <3> SUFFICES ASSUME m \in Path(n) PROVE FALSE
      OBVIOUS
    <3>1. a \in Path(n)
      BY <1>2, PathTrans DEF Above
    <3>2. a \in Above(n)
      BY <2>1, <3>1 DEF Above
    <3> QED BY <1>11, <2>1, <3>2
  <2> QED BY <1>9, <2>2, <2>3
<1>18. Covered(u, tk)
  <2> SUFFICES ASSUME NEW b \in tk
               PROVE  \E m \in Nodes : b \in BlocksOf(m) /\ u[m] \in {NODE_USED, NODE_UNMAPPED}
    BY DEF Covered
  <2>1. PICK m \in Nodes : b \in BlocksOf(m) /\ t[m] \in {NODE_USED, NODE_UNMAPPED}
    BY <1>1 DEF Covered
  <2>2. u[m] \in {NODE_USED, NODE_UNMAPPED}
    BY <1>8, <1>9, <2>1
  <2> QED BY <2>1, <2>2
<1>19. Merged(u)
  <2> SUFFICES ASSUME NEW k \in Nodes, ~IS_LEAF(k), \A c \in Kids(k) : u[c] = NODE_UNMAPPED, k \notin M
               PROVE  u[k] = NODE_UNMAPPED
    BY <1>8 DEF Merged
  <2>1. \A c \in Kids(k) : c \in Nodes
    BY KidFacts
  <2>2. ASSUME NEW c \in Kids(k), c \in M PROVE FALSE
    <3>1. c \in Nodes /\ c # 1 /\ PARENT(c) = k /\ Sibling(c) \in Kids(k)
      BY <2>2, KidFacts
    <3>2. c \in Path(n) /\ c >= top /\ k \in Path(n)
      BY <1>2, <2>2, <3>1, PathFacts
    <3>3. ~(k >= top)
      BY <3>2
    <3>4. top > k
      BY <1>3, <1>4, <3>2, <3>3
    <3>5. top >= c
      BY <1>2, <1>3, <3>1, <3>2, <3>4, PathGap
    <3>6. top = c
      BY <1>3, <1>4, <3>2, <3>5
    <3>7. Sibling(c) \notin Path(n) /\ Sibling(c) \in Nodes
      BY <1>2, <3>1, <3>2, SiblingOff
    <3>8. u[Sibling(c)] = w[Sibling(c)]
      BY <1>9, <3>7
    <3> QED BY <1>3, <3>1, <3>6, <3>8
  <2>3. \A c \in Kids(k) : t[c] = NODE_UNMAPPED
    BY <1>9, <2>1, <2>2
  <2>4. t[k] = NODE_UNMAPPED
    BY <1>1, <2>3 DEF Merged
  <2> QED BY <1>9, <2>4
<1>20. SetsOK(tk, mp2)
  BY <1>1, <1>2 DEF SetsOK
<1>21. u[1] = NODE_UNMAPPED <=> top = 1
  <2>1. CASE top = 1
    <3>1. 1 \in M
      BY <1>4, <2>1
    <3> QED BY <1>8, <2>1, <3>1
  <2>2. CASE top # 1
    <3>1. top \in Nat \ {0} /\ 1 \in Nodes
      BY <1>3, NodesNat, RootNode
    <3>2. 1 \notin M
      BY <2>2, <3>1
    <3> QED BY <1>9, <2>2, <3>1, <3>2
  <2> QED BY <2>1, <2>2
<1>22. TreeOK(u, tk, mp2)
  BY <1>10, <1>15, <1>16, <1>17, <1>18, <1>19, <1>20 DEF TreeOK
<1> QED BY <1>0, <1>13, <1>21, <1>22 DEF u

\* A run in use is the run of a used node, which the climb from its block finds.
LEMMA LiveFacts ==
  ASSUME IInv
  PROVE  /\ live = {RunOf(reg_size_small_medium, a) : a \in UsedN(buddy_tree)}
         /\ \A a \in UsedN(buddy_tree) :
              /\ a \in Nodes /\ FirstBlock(a) \in Blocks
              /\ RunOf(reg_size_small_medium, a).block = FirstBlock(a)
              /\ RunOf(reg_size_small_medium, a).len = NoBlocksOf(a)
         /\ \A a, c \in UsedN(buddy_tree) : FirstBlock(a) = FirstBlock(c) => a = c
         /\ \A b \in Blocks : Found(b) = {a \in UsedN(buddy_tree) : FirstBlock(a) = b}
         /\ \A run \in live : run.block \in Blocks
<1>1. live = {RunOf(reg_size_small_medium, a) : a \in UsedN(buddy_tree)}
  BY DEF IInv, LiveOK
<1>2. UsedAlone(buddy_tree)
  BY DEF IInv, TreeOK
<1>3. \A a \in UsedN(buddy_tree) : a \in Nodes
  BY DEF UsedN
<1>4. \A a \in UsedN(buddy_tree) : FirstBlock(a) \in BlocksOf(a) /\ FirstBlock(a) \in Blocks
  BY <1>3, BlocksNonEmpty, WidthFacts
<1>5. \A a \in UsedN(buddy_tree) : /\ RunOf(reg_size_small_medium, a).block = FirstBlock(a)
                                   /\ RunOf(reg_size_small_medium, a).len = NoBlocksOf(a)
  BY DEF RunOf
<1>6. ASSUME NEW a \in UsedN(buddy_tree), NEW c \in UsedN(buddy_tree), FirstBlock(a) = FirstBlock(c)
      PROVE  a = c
  <2>1. BlocksOf(a) \cap BlocksOf(c) # {}
    BY <1>4, <1>6
  <2> QED BY <1>2, <2>1, UsedDistinct
<1>7. \A b \in Blocks : Found(b) = {a \in UsedN(buddy_tree) : FirstBlock(a) = b}
  BY <1>2, FoundIs
<1>8. \A run \in live : run.block \in Blocks
  BY <1>1, <1>4, <1>5
<1> QED BY <1>1, <1>3, <1>4, <1>5, <1>6, <1>7, <1>8

\* chunk_deallocate_run keeps the invariant.
LEMMA DeallocInv ==
  ASSUME IInv, NEW run \in live, chunk_deallocate_run(run.block)
  PROVE  IInv'
<1> DEFINE b == run.block
           mk == reg_size_small_medium
           t == buddy_tree
<1>1. /\ ~gone /\ live' = {r \in live : r.block # b} /\ taken' = taken
      /\ jump' = jump /\ mk' = mk
  BY DEF chunk_deallocate_run
<1>2. TreeOK(t, taken, mapped) /\ TreeType(t)
  BY DEF IInv, TreeOK
<1>3. PICK n \in Found(b) :
        n \in Nodes =>
          mapped' = mapped \ BlocksOf(n) /\ t' = Returned(t, n) /\ gone' = ReachesRoot(t, n)
  BY <1>2, DeallocIs
<1>4. b \in Blocks /\ n \in UsedN(t) /\ FirstBlock(n) = b /\ n \in Nodes
  BY LiveFacts
<1>5. t[1] # NODE_UNMAPPED
  BY <1>1 DEF IInv, GoneOK
<1>6. mapped' = mapped \ BlocksOf(n) /\ t' = Returned(t, n) /\ gone' = ReachesRoot(t, n)
  BY <1>3, <1>4
<1>7. /\ TreeOK(t', taken, mapped') /\ UsedN(t') = UsedN(t) \ {n}
      /\ t'[1] = NODE_UNMAPPED <=> ReachesRoot(t, n)
  BY <1>2, <1>4, <1>5, <1>6, DeallocTree
<1>8. live' = {RunOf(mk, a) : a \in UsedN(t')}
  <2>1. /\ live = {RunOf(mk, a) : a \in UsedN(t)}
        /\ \A a \in UsedN(t) : RunOf(mk, a).block = FirstBlock(a)
        /\ \A a \in UsedN(t) : FirstBlock(a) = FirstBlock(n) => a = n
    BY <1>4, LiveFacts
  <2>2. \A a \in UsedN(t) : RunOf(mk, a).block # b <=> a # n
    BY <1>4, <2>1
  <2> QED BY <1>1, <1>7, <2>1, <2>2
<1>9. LiveOK(live', t', mk')
  BY <1>1, <1>8 DEF LiveOK
<1>10. GoneOK'
  BY <1>6, <1>7 DEF GoneOK, ReachesRoot
<1>11. JumpInv'
  BY <1>1 DEF IInv, JumpInv, jump
<1>12. MarksOK(mk', taken')
  BY <1>1 DEF IInv
<1>13. TreeOK(t', taken', mapped')
  BY <1>1, <1>7
<1>14. /\ TreeOK(buddy_tree, taken, mapped)' /\ MarksOK(reg_size_small_medium, taken)'
       /\ LiveOK(live, buddy_tree, reg_size_small_medium)'
  BY <1>9, <1>12, <1>13
<1> QED BY <1>10, <1>11, <1>14 DEF IInv

\* The invariant is inductive: every operation of the chunk keeps the jump lists,
\* the buddy tree, the marks of the leaves and the mapped blocks in agreement.
THEOREM Invariance == Spec => []IInv
<1>1. Init => IInv
  BY InitInv
<1>2. IInv /\ [Next]_vars => IInv'
  <2> SUFFICES ASSUME IInv, [Next]_vars PROVE IInv'
    OBVIOUS
  <2>1. ASSUME NEW q \in Requests, chunk_allocate_run(q[1], q[2]) PROVE IInv'
    BY <2>1, AllocInv
  <2>2. ASSUME NEW run \in live, chunk_deallocate_run(run.block) PROVE IInv'
    BY <2>2, DeallocInv
  <2>3. CASE UNCHANGED vars
    <3>1. JumpInv'
      BY <2>3 DEF IInv, JumpInv, vars, jump
    <3>2. GoneOK'
      BY <2>3 DEF IInv, GoneOK, vars
    <3>3. /\ TreeOK(buddy_tree, taken, mapped)' /\ MarksOK(reg_size_small_medium, taken)'
          /\ LiveOK(live, buddy_tree, reg_size_small_medium)'
      BY <2>3 DEF IInv, vars
    <3> QED BY <3>1, <3>2, <3>3 DEF IInv
  <2> QED BY <2>1, <2>2, <2>3 DEF Next
<1> QED BY <1>1, <1>2, PTL DEF Spec

-----------------------------------------------------------------------------
(***************************************************************************)
(* What the invariant implies                                              *)
(***************************************************************************)

\* The jump lists hold the untouched nodes.
LEMMA InvLists == IInv => ListsExact
<1> SUFFICES ASSUME IInv, NEW l \in 1 .. Depth
             PROVE  /\ avail_nodes_count[l] = Cardinality(FreeNodes(l))
                    /\ FreeNodes(l) # {} => Choices(l) = FreeNodes(l)
                    /\ FreeNodes(l) = {} => jump_tree_first_index[l] = 0
                    /\ \A n \in FreeNodes(l) : next[n] # 0 => prev[n + next[n]] = next[n]
  BY DEF ListsExact
<1> DEFINE F == FreeN(l, taken)
<1>1. FreeNodes(l) = F
  BY DEF FreeNodes, FreeN
<1>2. JumpInv
  BY DEF IInv
<1>3. /\ ListOK(next, prev, jump_tree_first_index[l], NodesOf(l), F)
      /\ avail_nodes_count[l] = Cardinality(F)
  BY <1>2 DEF JumpInv
<1>4. F # {} => Choices(l) = F
  BY <1>2, ChoicesIs
<1>5. F = {} => jump_tree_first_index[l] = 0
  BY <1>3 DEF ListOK, FirstOK
<1>6. \A n \in F : n \in Nat /\ n \in Nodes
  BY ListLevels, LevelSet, FreeFinite
<1> HIDE DEF F
<1>7. ASSUME NEW n \in F, next[n] # 0 PROVE prev[n + next[n]] = next[n]
  <2> DEFINE m == n + next[n]
  <2>1. NextOK(next, F, n) /\ next[n] \in Nat
    BY <1>2, <1>3, <1>6 DEF ListOK, NextAll, JumpInv
  <2>2. m \in F /\ \A k \in F : k > n => k >= m
    BY <1>7, <2>1 DEF NextOK
  <2>3. m \in Nat /\ n \in Nat /\ n < m
    BY <1>6, <1>7, <2>1
  <2> HIDE DEF m
  <2>4. PrevOK(prev, F, m) /\ prev[m] \in Nat
    BY <1>2, <1>3, <1>6, <2>2 DEF ListOK, PrevAll, JumpInv
  <2>5. m - prev[m] \in F /\ n <= m - prev[m] /\ prev[m] > 0
    BY <2>2, <2>3, <2>4 DEF PrevOK
  <2>6. ~(m - prev[m] > n)
    BY <2>2, <2>3, <2>4, <2>5
  <2>7. m - prev[m] = n
    BY <2>3, <2>4, <2>5, <2>6
  <2>8. prev[m] = m - n
    BY <2>3, <2>4, <2>7
  <2> QED BY <2>1, <2>3, <2>8 DEF m
<1> QED BY <1>1, <1>3, <1>4, <1>5, <1>7

\* What is mapped is what the tree says.
LEMMA InvMapped == IInv => MappedExact
<1> SUFFICES ASSUME IInv PROVE MappedExact
  OBVIOUS
<1> DEFINE Sp(run) == run.block .. run.block + run.len - 1
           U == UNION {Sp(run) : run \in live}
           V == UsedN(buddy_tree)
           R(a) == RunOf(reg_size_small_medium, a)
<1>1. live = {R(a) : a \in V} /\ \A a \in V : R(a).block = FirstBlock(a) /\ R(a).len = NoBlocksOf(a)
  BY LiveFacts
<1>2. \A a \in V : Sp(R(a)) = BlocksOf(a)
  BY <1>1 DEF BlocksOf
<1> HIDE DEF R, V, Sp
<1>3. U = UNION {BlocksOf(a) : a \in V}
  <2>1. {Sp(run) : run \in live} = {BlocksOf(a) : a \in V}
    BY <1>1, <1>2
  <2> QED BY <2>1
<1>4. TreeOK(buddy_tree, taken, mapped)
  BY DEF IInv
<1>5. SetsOK(taken, mapped) /\ (\A a \in V : BlocksOf(a) \subseteq mapped)
  BY <1>4 DEF TreeOK, UsedIn, V
<1>6. ASSUME NEW b \in mapped, b \in taken PROVE \E a \in V : b \in BlocksOf(a)
  <2>1. PICK n \in Nodes : b \in BlocksOf(n) /\ buddy_tree[n] \in {NODE_USED, NODE_UNMAPPED}
    BY <1>4, <1>6 DEF TreeOK, Covered
  <2>2. buddy_tree[n] # NODE_UNMAPPED
    BY <1>4, <2>1 DEF TreeOK, UnmappedIn
  <2> QED BY <2>1, <2>2 DEF V, UsedN
<1>7. mapped = (Blocks \ taken) \cup U
  BY <1>3, <1>5, <1>6 DEF SetsOK
<1> QED BY <1>7 DEF MappedExact, Sp

\* chunk_get_run_ptr finds the run of a first block, and no other.
LEMMA InvLookup == IInv => LookupExact
<1> SUFFICES ASSUME IInv, NEW b \in Blocks PROVE chunk_get_run_ptr(b) = {run \in live : run.block = b}
  BY DEF LookupExact
<1> DEFINE mk == reg_size_small_medium
           V == UsedN(buddy_tree)
           R(a) == RunOf(mk, a)
           W(n) == [block |-> b, len |-> NoBlocksOf(n),
                    reg |-> IF n = Leaf(b) /\ mk[b] # REG_MARK_BAD_VALUE
                            THEN mk[b] ELSE LeafSize * NoBlocksOf(n)]
<1>1. /\ live = {R(a) : a \in V} /\ (\A a \in V : R(a).block = FirstBlock(a) /\ a \in Nodes)
      /\ Found(b) = {a \in V : FirstBlock(a) = b}
  BY LiveFacts
<1>2. ASSUME NEW n \in Found(b) PROVE W(n) = R(n)
  <2>1. n \in Nodes /\ FirstBlock(n) = b
    BY <1>1
  <2>2. n = Leaf(b) <=> IS_LEAF(n)
    <3>1. Leaf(b) \in Nodes /\ IS_LEAF(Leaf(b))
      BY LeafFacts
    <3>2. ASSUME IS_LEAF(n) PROVE n = Leaf(b)
      <4>1. NoBlocksOf(n) = 1 /\ n \in Nat /\ NoBlocks \in Nat
        BY <2>1, <3>2, WidthFacts, NodesNat, RootNode
      <4>2. b = n * 1 - NoBlocks
        BY <2>1, <4>1 DEF FirstBlock
      <4> QED BY <4>1, <4>2 DEF Leaf
    <3> QED BY <3>1, <3>2
  <2> QED BY <2>1, <2>2 DEF RunOf
<1>3. chunk_get_run_ptr(b) = {W(n) : n \in Found(b)}
  BY DEF chunk_get_run_ptr
<1> HIDE DEF W, R, V
<1>4. chunk_get_run_ptr(b) = {R(n) : n \in Found(b)}
  BY <1>2, <1>3
<1>5. {R(n) : n \in Found(b)} = {run \in live : run.block = b}
  BY <1>1
<1> QED BY <1>4, <1>5

\* Without a mapped block the merging has reached the root.
LEMMA UnmappedRoot ==
  ASSUME NEW t, NEW tk, TreeOK(t, tk, {})
  PROVE  t[1] = NODE_UNMAPPED
<1> DEFINE U(k) == t[k] = NODE_UNMAPPED
           S == {k \in Nodes : U(k) \/ \E a \in Above(k) : U(a)}
<1>1. TreeType(t) /\ Covered(t, tk) /\ Merged(t) /\ UsedIn(t, tk, {}) /\ SetsOK(tk, {})
  BY DEF TreeOK
<1>2. Blocks \subseteq tk
  BY <1>1 DEF SetsOK
<1>3. \A n \in Nodes : t[n] # NODE_USED
  BY <1>1, BlocksNonEmpty DEF UsedIn, UsedN
<1>4. ASSUME NEW k \in Nodes, IS_LEAF(k) \/ (2 * k \in S /\ 2 * k + 1 \in S) PROVE k \in S
  <2>1. CASE IS_LEAF(k)
    <3>1. FirstBlock(k) \in BlocksOf(k) /\ FirstBlock(k) \in tk
      BY <1>2, BlocksNonEmpty, WidthFacts
    <3>2. PICK n \in Nodes : FirstBlock(k) \in BlocksOf(n) /\ t[n] \in {NODE_USED, NODE_UNMAPPED}
      BY <1>1, <3>1 DEF Covered
    <3>3. U(n)
      BY <1>3, <3>2
    <3>4. n \in Path(k) \/ k \in Path(n)
      BY <3>1, <3>2, BlocksOverlap
    <3>5. k \in Path(n) => k = n
      BY <2>1, PathChild
    <3> QED BY <3>3, <3>4, <3>5 DEF Above
  <2>2. CASE ~IS_LEAF(k) /\ 2 * k \in S /\ 2 * k + 1 \in S
    <3>1. \A c \in Kids(k) : c \in S /\ Above(c) = {k} \cup Above(k)
      BY <2>2, KidFacts DEF Kids
    <3>2. CASE \A c \in Kids(k) : U(c)
      BY <1>1, <2>2, <3>2 DEF Merged
    <3>3. CASE \E c \in Kids(k) : ~U(c)
      <4>1. PICK c \in Kids(k) : ~U(c)
        BY <3>3
      <4>2. \E a \in {k} \cup Above(k) : U(a)
        BY <3>1, <4>1
      <4> QED BY <4>2
    <3> QED BY <3>2, <3>3
  <2> QED BY <1>4, <2>1, <2>2
<1> HIDE DEF S
<1>5. Nodes \subseteq S
  BY <1>4, NodeInductionUp
<1>6. 1 \in S /\ Above(1) = {}
  BY <1>5, RootNode, AboveFacts
<1> QED BY <1>6 DEF S

\* The root is unmapped with the last block.
LEMMA InvGone == IInv => GoneWhenUnmapped
<1> SUFFICES ASSUME IInv PROVE GoneWhenUnmapped
  OBVIOUS
<1>1. TreeOK(buddy_tree, taken, mapped) /\ SetsOK(taken, mapped) /\ UnmappedIn(buddy_tree, taken, mapped)
  BY DEF IInv, TreeOK
<1>2. gone \in BOOLEAN /\ (gone <=> buddy_tree[1] = NODE_UNMAPPED)
  BY DEF IInv, GoneOK
<1>3. ASSUME buddy_tree[1] = NODE_UNMAPPED PROVE mapped = {}
  BY <1>1, <1>3, RootNode DEF UnmappedIn, SetsOK
<1>4. ASSUME mapped = {} PROVE buddy_tree[1] = NODE_UNMAPPED
  BY <1>1, <1>4, UnmappedRoot
<1>5. gone = (buddy_tree[1] = NODE_UNMAPPED) /\ gone = (mapped = {})
  BY <1>2, <1>3, <1>4
<1> QED BY <1>5 DEF GoneWhenUnmapped, chunk_is_unmapped

\* The invariant gives the types.
LEMMA InvType == IInv => TypeOK
<1> SUFFICES ASSUME IInv PROVE TypeOK
  OBVIOUS
<1>1. buddy_tree \in [Nodes -> {NODE_FREE, NODE_USED, NODE_DEPLETED, NODE_UNMAPPED}]
  BY DEF IInv, TreeOK, TreeType
<1>2. /\ next \in [Nodes -> Nat] /\ prev \in [Nodes -> Nat]
      /\ jump_tree_first_index \in [Levels -> Nat] /\ avail_nodes_count \in [Levels -> Nat]
  BY DEF IInv, JumpInv
<1>3. reg_size_small_medium \in [Blocks -> (RegSizes \cap 1 .. LeafSize - 1) \cup {REG_MARK_BAD_VALUE}]
  BY DEF IInv, MarksOK
<1>4. mapped \subseteq Blocks /\ gone \in BOOLEAN
  BY DEF IInv, TreeOK, SetsOK, GoneOK
<1> QED BY <1>1, <1>2, <1>3, <1>4 DEF TypeOK

-----------------------------------------------------------------------------
(***************************************************************************)
(* The theorems                                                            *)
(***************************************************************************)

\* The variables of a chunk always have the types of chunk_t.
THEOREM TypeCorrect == Spec => []TypeOK
BY Invariance, InvType, PTL

\* The distances that chunk_allocate_with_node updates keep linking exactly the
\* nodes that can be allocated, on every level of a tree of any depth.
THEOREM ListsCorrect == Spec => []ListsExact
BY Invariance, InvLists, PTL

\* chunk_deallocate_run unmaps a block exactly when its run is returned.
THEOREM MappedCorrect == Spec => []MappedExact
BY Invariance, InvMapped, PTL

\* chunk_get_run_ptr finds every run from its first block with the region size it
\* was allocated for, and nothing from any other block.
THEOREM LookupCorrect == Spec => []LookupExact
BY Invariance, InvLookup, PTL

\* coalesce_unmapped_nodes reaches the root in the step that unmaps the last
\* block, so the assertion of arena_deallocate_chunk holds.
THEOREM GoneCorrect == Spec => []GoneWhenUnmapped
BY Invariance, InvGone, PTL

-----------------------------------------------------------------------------
(***************************************************************************)
(* The chunk implements a space of runs                                    *)
(***************************************************************************)

\* A node starts at a multiple of its number of blocks.
LEMMA Aligned ==
  ASSUME NEW n \in Nodes
  PROVE  FirstBlock(n) % NoBlocksOf(n) = 0
<1> DEFINE l == LevelOf(n)
           P == Pow2[l]
           W == NoBlocksOf(n)
<1>1. l \in Nat /\ P <= n /\ l <= Depth /\ Depth \in Nat /\ n \in Nat
  BY LevelFacts, NodesNat DEF Levels
<1>2. W = Pow2[Depth - l] /\ W \in Nat \ {0}
  BY WidthFacts
<1>3. P \in Nat
  BY <1>1, Pow2Positive
<1>4. Depth - l \in Nat /\ l + (Depth - l) = Depth
  BY <1>1
<1>5. NoBlocks = P * W
  BY <1>1, <1>2, <1>4, Pow2Sum DEF NoBlocks
<1>6. FirstBlock(n) = n * W - P * W
  BY <1>5 DEF FirstBlock
<1> HIDE DEF l, P, W
<1>7. n * W - P * W = (n - P) * W /\ n - P \in Nat
  BY <1>1, <1>2, <1>3
<1>8. ((n - P) * W) % W = 0
  BY <1>2, <1>7, MulDiv
<1> QED BY <1>6, <1>7, <1>8 DEF W

\* chunk_allocate_run takes blocks that no run ever had.
LEMMA AllocRefines ==
  ASSUME IInv, NEW q \in Requests, chunk_allocate_run(q[1], q[2])
  PROVE  Space!Next
<1>1. ~gone /\ avail_nodes_count[RunLevel(q[1])] # 0 /\ gone' = gone
  BY DEF chunk_allocate_run, RunLevel
<1>2. PICK n \in Choices(RunLevel(q[1])) :
        /\ live' = live \cup {[block |-> FirstBlock(n), len |-> q[1], reg |-> q[2]]}
        /\ taken' = taken \cup BlocksOf(n)
  BY DEF chunk_allocate_run, RunLevel
<1>3. n \in Nodes /\ BlocksOf(n) \cap taken = {} /\ NoBlocksOf(n) = q[1]
  BY <1>1, ChosenNode
<1> DEFINE b == FirstBlock(n)
<1>4. b % q[1] = 0 /\ b \in Blocks /\ BlocksOf(n) \subseteq Blocks
  BY <1>3, Aligned, BlocksNonEmpty, WidthFacts
<1>5. Space!Span(b, q[1]) = BlocksOf(n) /\ Space!Blocks = Blocks
  BY <1>3 DEF Space!Span, BlocksOf, Space!Blocks, Blocks
<1> HIDE DEF b
<1>6. Space!Fits(b, q[1])
  BY <1>3, <1>4, <1>5 DEF Space!Fits
<1>7. Space!Allocate(b, q[1], q[2])
  BY <1>1, <1>2, <1>5, <1>6 DEF Space!Allocate, b
<1> QED BY <1>4, <1>5, <1>7 DEF Space!Next

\* chunk_deallocate_run gives back one run.
LEMMA DeallocRefines ==
  ASSUME IInv, IInv', NEW run \in live, chunk_deallocate_run(run.block)
  PROVE  Space!Next
<1>1. ~gone /\ live' = {r \in live : r.block # run.block} /\ taken' = taken
  BY DEF chunk_deallocate_run
<1>2. live' = live \ {run}
  <2>1. /\ live = {RunOf(reg_size_small_medium, a) : a \in UsedN(buddy_tree)}
        /\ \A a \in UsedN(buddy_tree) : RunOf(reg_size_small_medium, a).block = FirstBlock(a)
        /\ \A a, c \in UsedN(buddy_tree) : FirstBlock(a) = FirstBlock(c) => a = c
    BY LiveFacts
  <2>2. \A r \in live : r.block = run.block => r = run
    BY <2>1
  <2> QED BY <1>1, <2>2
<1>3. gone' = (live' = {} /\ taken = Blocks)
  <2>1. IInv' => MappedExact' /\ GoneWhenUnmapped'
    BY InvMapped, InvGone, PTL
  <2>2. gone' = (mapped' = {})
    BY <2>1 DEF GoneWhenUnmapped
  <2>3. mapped' = (Blocks \ taken) \cup UNION {r.block .. r.block + r.len - 1 : r \in live'}
    BY <1>1, <2>1 DEF MappedExact
  <2>4. ASSUME NEW r \in live PROVE r.block \in r.block .. r.block + r.len - 1
    <3>1. PICK a \in UsedN(buddy_tree) : r = RunOf(reg_size_small_medium, a)
      BY LiveFacts
    <3>2. a \in Nodes /\ r.block = FirstBlock(a) /\ r.len = NoBlocksOf(a)
      BY <3>1, LiveFacts
    <3>3. FirstBlock(a) \in Nat /\ NoBlocksOf(a) \in Nat \ {0}
      BY <3>2, WidthFacts
    <3> QED BY <3>2, <3>3
  <2>5. live' # {} => mapped' # {}
    <3> SUFFICES ASSUME NEW r \in live' PROVE mapped' # {}
      OBVIOUS
    <3>1. r.block \in r.block .. r.block + r.len - 1
      BY <1>1, <2>4
    <3>2. r.block \in UNION {x.block .. x.block + x.len - 1 : x \in live'}
      BY <3>1
    <3> QED BY <2>3, <3>2
  <2>6. live' = {} => mapped' = Blocks \ taken
    BY <2>3
  <2>7. taken \subseteq Blocks
    BY DEF IInv, TreeOK, SetsOK
  <2>8. (mapped' = {}) <=> live' = {} /\ taken = Blocks
    BY <2>3, <2>5, <2>6, <2>7
  <2> QED BY <2>2, <2>8
<1>4. Space!Blocks = Blocks
  BY DEF Space!Blocks, Blocks
<1>5. Space!Deallocate(run)
  BY <1>1, <1>2, <1>3, <1>4 DEF Space!Deallocate
<1> QED BY <1>5 DEF Space!Next

\* A chunk is a row of blocks that are handed out once, in aligned runs, and it
\* goes away exactly when every block was handed out and returned.
THEOREM RefinesRunSpace == Spec => ImplementsRunSpace
<1>1. Init => Space!Init
  BY DEF Init, Space!Init
<1>2. IInv /\ IInv' /\ [Next]_vars => [Space!Next]_<<live, taken, gone>>
  <2> SUFFICES ASSUME IInv, IInv', [Next]_vars PROVE [Space!Next]_<<live, taken, gone>>
    OBVIOUS
  <2>1. ASSUME NEW q \in Requests, chunk_allocate_run(q[1], q[2]) PROVE Space!Next
    BY <2>1, AllocRefines
  <2>2. ASSUME NEW run \in live, chunk_deallocate_run(run.block) PROVE Space!Next
    BY <2>2, DeallocRefines
  <2>3. CASE UNCHANGED vars
    BY <2>3 DEF vars
  <2> QED BY <2>1, <2>2, <2>3 DEF Next
<1> QED BY <1>1, <1>2, Invariance, PTL DEF Spec, ImplementsRunSpace, Space!Spec

=============================================================================
