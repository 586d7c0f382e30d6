-------------------------- MODULE BuddyTreeProofs --------------------------
(***************************************************************************)
(* The geometry of the buddy tree for every depth: powers of two, levels,  *)
(* paths and blocks, and what the coalescing loops compute.  Its first two *)
(* sections are about the natural numbers alone; the proofs of the other   *)
(* components take them from an instance of this module.                   *)
(***************************************************************************)
EXTENDS BuddyTree, TLAPS, WellFoundedInduction, FiniteSetTheorems

-----------------------------------------------------------------------------
(***************************************************************************)
(* Natural numbers: \div and % by an arbitrary positive number, on which   *)
(* region indices and offsets (run.c) rest, and the least element of a     *)
(* set, which is how the other proofs reason by induction: the set of      *)
(* counterexamples has a least one.                                        *)
(***************************************************************************)

\* Every set of naturals that is not empty has a least element.
LEMMA LeastNatural ==
  ASSUME NEW S, S \subseteq Nat, S # {}
  PROVE  \E n \in S : \A m \in S : n <= m
<1> DEFINE R == OpToRel(<, Nat)
<1>1. IsWellFoundedOn(R, Nat)
  BY NatLessThanWellFounded, Zenon
<1>2. PICK n \in S : \A m \in S : ~ (<<m, n>> \in R)
  <2> HIDE DEF R
  <2> QED BY <1>1, WFMin
<1>3. \A m \in S : ~(m < n)
  BY <1>2 DEF OpToRel
<1> QED BY <1>3

\* A set of naturals with 0 that has the successor of each of its members is Nat.
LEMMA NatSetInduction ==
  ASSUME NEW S, S \subseteq Nat, 0 \in S, \A n \in S : n + 1 \in S
  PROVE  S = Nat
<1> SUFFICES ASSUME Nat \ S # {} PROVE FALSE
  OBVIOUS
<1>1. PICK n \in Nat \ S : \A m \in Nat \ S : n <= m
  BY LeastNatural
<1>2. n - 1 \in Nat /\ n - 1 \notin Nat \ S
  BY <1>1
<1> QED BY <1>1, <1>2


\* Quotient and remainder are unique.
LEMMA DivModUnique ==
  ASSUME NEW b \in Nat \ {0}, NEW q \in Int, NEW r \in 0 .. b - 1, NEW a \in Int, a = b * q + r
  PROVE  a \div b = q /\ a % b = r
<1>1. a = b * (a \div b) + (a % b) /\ a % b \in 0 .. b-1 /\ a \div b \in Int
  OBVIOUS
<1> DEFINE d == a \div b
           m == a % b
<1>2. d \in Int /\ m \in 0 .. b-1 /\ a = b * d + m
  BY <1>1
<1> HIDE DEF d, m
<1>3. b * (d - q) = r - m
  BY <1>2
<1>4. ~(d > q)
  <2>1. SUFFICES ASSUME d > q PROVE FALSE
    OBVIOUS
  <2>2. d - q >= 1 BY <2>1, <1>2
  <2>3. b * (d-q) >= b BY <2>2, <1>2
  <2> QED BY <2>3, <1>3, <1>2
<1>5. ~(d < q)
  <2>1. SUFFICES ASSUME d < q PROVE FALSE
    OBVIOUS
  <2>2. q - d >= 1 BY <2>1, <1>2
  <2>3. b * (q - d) >= b BY <2>2, <1>2
  <2>4. b * (q - d) = m - r BY <1>3, <1>2
  <2> QED BY <2>3, <2>4, <1>2
<1>6. d = q BY <1>4, <1>5, <1>2
<1>7. m = r BY <1>6, <1>2
<1> QED BY <1>6, <1>7 DEF d, m

\* Reducing before adding makes no difference: run_allocate reduces current_idx
\* modulo elems at every step of the walk.
LEMMA ModStep ==
  ASSUME NEW n \in Nat \ {0}, NEW x \in Nat, NEW g \in Nat
  PROVE  (g + (x % n)) % n = (x + g) % n
<1> DEFINE d == x \div n
           m == x % n
           e == (g + m) \div n
           l == (g + m) % n
<1>1. d \in Int /\ m \in 0 .. n - 1 /\ x = n * d + m
  OBVIOUS
<1> HIDE DEF d, m
<1>2. e \in Int /\ l \in 0 .. n - 1 /\ g + m = n * e + l
  BY <1>1
<1> HIDE DEF e, l
<1>3. x + g = n * (d + e) + l
  BY <1>1, <1>2
<1>4. d + e \in Int /\ x + g \in Int
  BY <1>1, <1>2
<1>5. (x + g) % n = l
  <2> DEFINE a == x + g
             q == d + e
  <2>1. a \in Int /\ q \in Int /\ a = n * q + l
    BY <1>3, <1>4
  <2> HIDE DEF a, q
  <2>2. a % n = l
    BY <2>1, <1>2, DivModUnique
  <2> QED BY <2>2 DEF a
<1> QED BY <1>5 DEF l, m

\* An offset that is a multiple of the region size has that multiple as index, as
\* run_validate_ptr computes it.
LEMMA MulDiv ==
  ASSUME NEW n \in Nat \ {0}, NEW i \in Nat
  PROVE  (i * n) \div n = i /\ (i * n) % n = 0
<1>1. i * n = n * i + 0 OBVIOUS
<1> QED BY <1>1, DivModUnique

\* An aligned offset is its index times the region size.
LEMMA DivMul ==
  ASSUME NEW n \in Nat \ {0}, NEW a \in Nat, a % n = 0
  PROVE  a = (a \div n) * n /\ a \div n \in Nat
<1>1. a = n * (a \div n) + (a % n) /\ a \div n \in Int  OBVIOUS
<1> QED BY <1>1

\* The index of an offset below k regions is below k, of one past k regions at
\* least k.
LEMMA DivBound ==
  ASSUME NEW n \in Nat \ {0}, NEW a \in Nat, NEW k \in Nat
  PROVE  /\ a \div n \in Nat
         /\ a < k * n => a \div n < k
         /\ a >= k * n => a \div n >= k
<1> DEFINE d == a \div n
           m == a % n
<1>1. d \in Int /\ m \in 0 .. n - 1 /\ a = n * d + m
  OBVIOUS
<1> HIDE DEF d, m
<1>2. d \in Nat 
  <2> SUFFICES ASSUME d <= -1 PROVE FALSE BY <1>1
  <2>1. n * d <= -n BY <1>1
  <2> QED BY <2>1, <1>1
<1>3. ASSUME a < k * n PROVE d < k
  <2> SUFFICES ASSUME d >= k PROVE FALSE BY <1>2
  <2>1. n * d >= n * k BY <1>2
  <2> QED BY <2>1, <1>1, <1>3
<1>4. ASSUME a >= k * n PROVE d >= k
  <2> SUFFICES ASSUME d + 1 <= k PROVE FALSE BY <1>2
  <2>1. n * (d + 1) <= n * k BY <1>2
  <2> QED BY <2>1, <1>1, <1>4
<1> QED BY <1>2, <1>3, <1>4 DEF d

-----------------------------------------------------------------------------
(***************************************************************************)
(* Powers of two                                                           *)
(***************************************************************************)

\* f solves the equations of Pow2 up to n.
IsPow(f, n) == f[0] = 1 /\ \A i \in 1 .. n : f[i] = 2 * f[i - 1]

\* There is a table of the powers of two up to any bound.
LEMMA PowExists ==
  ASSUME NEW n \in Nat
  PROVE  \E f \in [0 .. n -> Nat] : IsPow(f, n)
<1> DEFINE S == {k \in Nat : \E f \in [0 .. k -> Nat] : IsPow(f, k)}
<1>1. 0 \in S
  <2>1. [i \in 0 .. 0 |-> 1] \in [0 .. 0 -> Nat] /\ IsPow([i \in 0 .. 0 |-> 1], 0)
    BY DEF IsPow
  <2> QED BY <2>1
<1>2. ASSUME NEW k \in S PROVE k + 1 \in S
  <2>1. PICK f \in [0 .. k -> Nat] : IsPow(f, k)
    OBVIOUS
  <2> DEFINE g == [i \in 0 .. k + 1 |-> IF i = k + 1 THEN 2 * f[k] ELSE f[i]]
  <2>2. g \in [0 .. k + 1 -> Nat]
    OBVIOUS
  <2>3. IsPow(g, k + 1)
    <3>1. g[0] = 1
      BY <2>1 DEF IsPow
    <3>2. ASSUME NEW i \in 1 .. k + 1 PROVE g[i] = 2 * g[i - 1]
      BY <2>1 DEF IsPow
    <3> HIDE DEF g
    <3> QED BY <3>1, <3>2 DEF IsPow
  <2> QED BY <2>2, <2>3
<1> HIDE DEF S
<1>3. S \subseteq Nat
  BY DEF S
<1>4. S = Nat
  BY <1>1, <1>2, <1>3, NatSetInduction
<1> QED BY <1>4 DEF S

\* Two tables of powers agree where both are defined.
LEMMA PowUnique ==
  ASSUME NEW n \in Nat, NEW m \in Nat, m <= n,
         NEW f \in [0 .. n -> Nat], IsPow(f, n), NEW g \in [0 .. m -> Nat], IsPow(g, m)
  PROVE  f[m] = g[m]
<1> DEFINE S == {k \in Nat : k <= m => f[k] = g[k]}
<1>1. 0 \in S
  BY DEF IsPow
<1>2. ASSUME NEW k \in S PROVE k + 1 \in S
  BY DEF IsPow
<1> HIDE DEF S
<1>3. S \subseteq Nat
  BY DEF S
<1>4. S = Nat
  BY <1>1, <1>2, <1>3, NatSetInduction
<1> QED BY <1>4 DEF S

\* Pow2 satisfies its equations.
LEMMA Pow2Def ==
  /\ Pow2 \in [Nat -> Nat] /\ Pow2[0] = 1
  /\ \A i \in Nat : Pow2[i + 1] = 2 * Pow2[i]
<1> DEFINE F(n) == CHOOSE f \in [0 .. n -> Nat] : IsPow(f, n)
           g == [n \in Nat |-> F(n)[n]]
<1>1. \A n \in Nat : F(n) \in [0 .. n -> Nat] /\ IsPow(F(n), n)
  BY PowExists
<1> HIDE DEF F
<1>2. g \in [Nat -> Nat]
  BY <1>1
<1>3. g[0] = 1
  BY <1>1 DEF IsPow
<1>4. ASSUME NEW n \in Nat PROVE g[n + 1] = 2 * g[n]
  <2>1. F(n + 1) \in [0 .. n + 1 -> Nat] /\ IsPow(F(n + 1), n + 1)
    BY <1>1
  <2>2. F(n) \in [0 .. n -> Nat] /\ IsPow(F(n), n)
    BY <1>1
  <2>3. F(n + 1)[n + 1] = 2 * F(n + 1)[n]
    BY <2>1 DEF IsPow
  <2>4. F(n + 1)[n] = F(n)[n]
    <3>1. n + 1 \in Nat /\ n <= n + 1
      OBVIOUS
    <3> QED BY <3>1, <2>1, <2>2, PowUnique, Zenon
  <2> QED BY <2>3, <2>4
<1> HIDE DEF g
<1>5. \A n \in Nat : g[n] = IF n = 0 THEN 1 ELSE 2 * g[n - 1]
  <2> SUFFICES ASSUME NEW n \in Nat, n # 0 PROVE g[n] = 2 * g[n - 1]
    BY <1>3
  <2> DEFINE m == n - 1
  <2>1. m \in Nat /\ n = m + 1
    OBVIOUS
  <2> HIDE DEF m
  <2>2. g[n] = 2 * g[m]
    BY <2>1, <1>4
  <2> QED BY <2>2 DEF m
<1>6. g = [n \in Nat |-> IF n = 0 THEN 1 ELSE 2 * g[n - 1]]
  BY <1>2, <1>5
<1>7. Pow2 = [n \in Nat |-> IF n = 0 THEN 1 ELSE 2 * Pow2[n - 1]]
  BY <1>6 DEF Pow2
<1>8. \A n \in Nat : Pow2[n] = IF n = 0 THEN 1 ELSE 2 * Pow2[n - 1]
  BY <1>7
<1> DEFINE S == {n \in Nat : Pow2[n] \in Nat}
<1>9. S = Nat
  <2>1. 0 \in S
    BY <1>8
  <2>2. ASSUME NEW n \in S PROVE n + 1 \in S
    <3>1. Pow2[n + 1] = 2 * Pow2[n]
      BY <1>8
    <3> QED BY <3>1
  <2>3. S \subseteq Nat
    OBVIOUS
  <2> HIDE DEF S
  <2> QED BY <2>1, <2>2, <2>3, NatSetInduction
<1>10. Pow2 \in [Nat -> Nat]
  BY <1>7, <1>9
<1>11. \A i \in Nat : Pow2[i + 1] = 2 * Pow2[i]
  BY <1>8
<1> QED BY <1>8, <1>10, <1>11

\* A power of two is a positive number.
LEMMA Pow2Positive ==
  ASSUME NEW i \in Nat
  PROVE  Pow2[i] \in Nat \ {0}
<1> DEFINE S == {k \in Nat : Pow2[k] > 0}
<1>1. 0 \in S
  BY Pow2Def
<1>2. ASSUME NEW k \in S PROVE k + 1 \in S
  BY Pow2Def
<1>3. S \subseteq Nat
  OBVIOUS
<1> HIDE DEF S
<1>4. S = Nat
  BY <1>1, <1>2, <1>3, NatSetInduction
<1> QED BY <1>4, Pow2Def DEF S

\* The power of a sum is the product of the powers.
LEMMA Pow2Sum ==
  ASSUME NEW i \in Nat, NEW j \in Nat
  PROVE  Pow2[i + j] = Pow2[i] * Pow2[j]
<1> DEFINE S == {k \in Nat : Pow2[i + k] = Pow2[i] * Pow2[k]}
<1>1. 0 \in S
  BY Pow2Def
<1>2. ASSUME NEW k \in S PROVE k + 1 \in S
  <2>1. Pow2[i + k] = Pow2[i] * Pow2[k] /\ i + k \in Nat /\ k \in Nat
    OBVIOUS
  <2>2. Pow2[i + k + 1] = 2 * Pow2[i + k] /\ Pow2[k + 1] = 2 * Pow2[k]
    BY <2>1, Pow2Def
  <2>3. Pow2[i] \in Nat /\ Pow2[k] \in Nat
    BY <2>1, Pow2Def
  <2>4. Pow2[i] * (2 * Pow2[k]) = 2 * (Pow2[i] * Pow2[k])
    BY <2>3
  <2>5. i + (k + 1) = i + k + 1
    BY <2>1
  <2> QED BY <2>1, <2>2, <2>4, <2>5
<1>3. S \subseteq Nat
  OBVIOUS
<1> HIDE DEF S
<1>4. S = Nat
  BY <1>1, <1>2, <1>3, NatSetInduction
<1> QED BY <1>4 DEF S

\* A larger exponent gives at least twice the power.
LEMMA Pow2Monotone ==
  ASSUME NEW i \in Nat, NEW j \in Nat, i < j
  PROVE  2 * Pow2[i] <= Pow2[j]
<1> DEFINE d == j - i - 1
<1>1. d \in Nat /\ j = i + 1 + d
  OBVIOUS
<1> HIDE DEF d
<1>2. Pow2[j] = Pow2[i + 1] * Pow2[d] /\ Pow2[i + 1] = 2 * Pow2[i]
  <2>1. i + 1 \in Nat /\ Pow2[(i + 1) + d] = Pow2[i + 1] * Pow2[d]
    BY <1>1, Pow2Sum
  <2> QED BY <2>1, <1>1, Pow2Def
<1>3. Pow2[i + 1] \in Nat \ {0} /\ Pow2[d] \in Nat \ {0} /\ Pow2[i] \in Nat
  BY <1>1, Pow2Positive
<1>4. ASSUME NEW a \in Nat, NEW b \in Nat \ {0} PROVE a <= a * b
  OBVIOUS
<1> QED BY <1>2, <1>3, <1>4

-----------------------------------------------------------------------------
(***************************************************************************)
(* Levels                                                                  *)
(***************************************************************************)

\* A node is on exactly one level.
LEMMA LevelUnique ==
  ASSUME NEW n \in Nat, NEW k \in Nat, NEW l \in Nat, n \in NodesOf(k), n \in NodesOf(l)
  PROVE  k = l
<1>1. ASSUME NEW i \in Nat, NEW j \in Nat, i < j, n \in NodesOf(i), n \in NodesOf(j) PROVE FALSE
  <2>1. Pow2[i + 1] = 2 * Pow2[i] /\ 2 * Pow2[i] <= Pow2[j]
    BY <1>1, Pow2Def, Pow2Monotone
  <2>2. Pow2[j] \in Nat /\ Pow2[i] \in Nat /\ Pow2[i + 1] \in Nat
    BY Pow2Def
  <2>3. n < Pow2[i + 1] /\ Pow2[j] <= n
    BY <1>1, <2>2 DEF NodesOf
  <2> QED BY <2>1, <2>2, <2>3
<1> QED BY <1>1

\* Nodes and levels are numbers.
LEMMA NodesNat == Nodes \subseteq Nat \ {0} /\ Depth \in Nat \ {0} /\ Levels \subseteq Nat
BY DepthAssumption DEF Nodes, Levels

\* Every node is on a level.
LEMMA LevelExists ==
  ASSUME NEW n \in Nodes
  PROVE  \E l \in Levels : n \in NodesOf(l)
<1> DEFINE S == {i \in Nat : n < Pow2[i + 1]}
<1>1. n \in Nat \ {0} /\ Depth \in Nat
  BY NodesNat
<1>2. Pow2[Depth + 1] \in Nat
  BY <1>1, Pow2Def
<1>3. Depth \in S
  BY <1>1, <1>2 DEF Nodes
<1>4. PICK l \in S : \A m \in S : l <= m
  <2> HIDE DEF S
  <2>1. S \subseteq Nat /\ S # {}
    BY <1>3 DEF S
  <2> QED BY <2>1, LeastNatural
<1>5. l \in Levels
  BY <1>1, <1>3, <1>4 DEF Levels
<1>6. Pow2[l] <= n
  <2>1. CASE l = 0
    BY <2>1, <1>1, Pow2Def
  <2>2. CASE l # 0
    <3> DEFINE k == l - 1
    <3>1. k \in Nat /\ k + 1 = l /\ k < l
      BY <2>2, <1>4
    <3> HIDE DEF k
    <3>2. k \notin S
      BY <3>1, <1>4
    <3> QED BY <3>1, <3>2, <1>1, Pow2Def
  <2> QED BY <2>1, <2>2
<1>7. Pow2[l] \in Nat /\ Pow2[l + 1] \in Nat
  BY <1>4, Pow2Def
<1>8. n \in NodesOf(l)
  BY <1>1, <1>4, <1>6, <1>7 DEF NodesOf
<1> QED BY <1>5, <1>8

\* The level of a node is where the node lies between two powers.
LEMMA LevelFacts ==
  ASSUME NEW n \in Nodes
  PROVE  /\ LevelOf(n) \in Levels /\ LevelOf(n) \in Nat
         /\ n \in NodesOf(LevelOf(n))
         /\ Pow2[LevelOf(n)] <= n /\ n < 2 * Pow2[LevelOf(n)]
<1>1. LevelOf(n) = CHOOSE l \in Levels : n \in NodesOf(l)
  BY DEF LevelOf, Level
<1>2. LevelOf(n) \in Levels /\ n \in NodesOf(LevelOf(n))
  BY <1>1, LevelExists
<1>3. LevelOf(n) \in Nat /\ n \in Nat
  BY <1>2, NodesNat
<1>4. Pow2[LevelOf(n)] \in Nat /\ Pow2[LevelOf(n) + 1] = 2 * Pow2[LevelOf(n)]
  BY <1>3, Pow2Def
<1>5. Pow2[LevelOf(n)] <= n /\ n < 2 * Pow2[LevelOf(n)]
  BY <1>2, <1>3, <1>4 DEF NodesOf
<1> QED BY <1>2, <1>3, <1>5

\* The level of a node is the level it is on.
LEMMA LevelIs ==
  ASSUME NEW n \in Nodes, NEW l \in Nat, Pow2[l] <= n, n < 2 * Pow2[l]
  PROVE  LevelOf(n) = l
<1>1. n \in Nat /\ Pow2[l] \in Nat /\ Pow2[l + 1] = 2 * Pow2[l]
  BY NodesNat, Pow2Def
<1>2. n \in NodesOf(l)
  BY <1>1 DEF NodesOf
<1>3. LevelOf(n) \in Nat /\ n \in NodesOf(LevelOf(n))
  BY LevelFacts
<1> QED BY <1>1, <1>2, <1>3, LevelUnique

\* The root is no leaf and has all blocks.
LEMMA RootNode ==
  /\ 1 \in Nodes /\ LevelOf(1) = 0 /\ ~IS_LEAF(1)
  /\ NoBlocksOf(1) = NoBlocks /\ FirstBlock(1) = 0 /\ BlocksOf(1) = Blocks
  /\ NoBlocks \in Nat /\ NoBlocks >= 2
<1>1. Depth \in Nat /\ 0 < Depth /\ Depth < Depth + 1
  BY NodesNat
<1>2. Pow2[0] = 1 /\ Pow2[Depth] \in Nat /\ Pow2[Depth + 1] = 2 * Pow2[Depth]
  BY <1>1, Pow2Def
<1>3. Pow2[Depth] >= 2
  BY <1>1, <1>2, Pow2Monotone
<1>4. 1 \in Nodes
  BY <1>2, <1>3 DEF Nodes
<1>5. LevelOf(1) = 0
  BY <1>2, <1>4, LevelIs
<1>6. Depth - 0 = Depth
  BY <1>1
<1>7. NoBlocksOf(1) = NoBlocks
  BY <1>4, <1>5, <1>6 DEF NoBlocksOf, Width, NoBlocks
<1>8. NoBlocks \in Nat /\ NoBlocks >= 2 /\ 1 * NoBlocks - NoBlocks = 0
  BY <1>2, <1>3 DEF NoBlocks
<1>9. FirstBlock(1) = 0
  BY <1>7, <1>8 DEF FirstBlock
<1>10. BlocksOf(1) = Blocks
  BY <1>7, <1>8, <1>9 DEF BlocksOf, Blocks
<1> QED BY <1>4, <1>5, <1>7, <1>8, <1>9, <1>10 DEF IS_LEAF

\* The leaves are the nodes of the last level, one block each.
LEMMA WidthFacts ==
  ASSUME NEW n \in Nodes
  PROVE  /\ NoBlocksOf(n) \in Nat \ {0}
         /\ NoBlocksOf(n) = Pow2[Depth - LevelOf(n)]
         /\ IS_LEAF(n) <=> LevelOf(n) = Depth
         /\ IS_LEAF(n) <=> NoBlocksOf(n) = 1
         /\ FirstBlock(n) \in Nat
         /\ FirstBlock(n) + NoBlocksOf(n) <= NoBlocks
         /\ BlocksOf(n) \subseteq Blocks
<1> DEFINE l == LevelOf(n)
           d == Depth - l
           P == Pow2[l]
           W == Pow2[d]
<1>1. n \in Nat /\ Depth \in Nat
  BY NodesNat
<1>2. l \in Levels /\ l \in Nat /\ P <= n /\ n < 2 * P
  BY LevelFacts
<1>3. d \in Nat /\ l + d = Depth
  BY <1>1, <1>2 DEF Levels
<1>4. NoBlocksOf(n) = W
  BY DEF NoBlocksOf, Width
<1> HIDE DEF l, d
<1>5. P \in Nat \ {0} /\ W \in Nat \ {0} /\ NoBlocks = P * W
  <2>1. Pow2[l + d] = P * W
    BY <1>2, <1>3, Pow2Sum
  <2> QED BY <2>1, <1>2, <1>3, Pow2Positive DEF NoBlocks
<1>6. d = 0 => W = 1
  BY Pow2Def
<1>7. d # 0 => W >= 2
  BY <1>3, Pow2Def, Pow2Monotone
<1> HIDE DEF P, W
<1>8. P * W <= n * W /\ (n + 1) * W <= (2 * P) * W
  <2>1. ASSUME NEW a \in Nat, NEW b \in Nat, a <= b PROVE a * W <= b * W
    BY <2>1, <1>5
  <2> QED BY <2>1, <1>1, <1>2, <1>5
<1>9. n * W \in Nat /\ P * W \in Nat /\ (n + 1) * W = n * W + W /\ (2 * P) * W = 2 * (P * W)
  BY <1>1, <1>5
<1>10. FirstBlock(n) = n * W - NoBlocks
  BY <1>4 DEF FirstBlock
<1>11. FirstBlock(n) \in Nat /\ FirstBlock(n) + W <= NoBlocks
  BY <1>5, <1>8, <1>9, <1>10
<1>12. BlocksOf(n) \subseteq Blocks
  BY <1>4, <1>5, <1>11 DEF BlocksOf, Blocks
<1>13. IS_LEAF(n) <=> d = 0
  <2>1. CASE d = 0
    BY <2>1, <1>1, <1>2, <1>5, <1>6 DEF IS_LEAF
  <2>2. CASE d # 0
    <3>1. P * 2 <= P * W
      <4>1. ASSUME NEW a \in Nat, a >= 2 PROVE P * 2 <= P * a
        BY <4>1, <1>5
      <4> QED BY <4>1, <2>2, <1>5, <1>7
    <3> QED BY <3>1, <2>2, <1>1, <1>2, <1>5 DEF IS_LEAF
  <2> QED BY <2>1, <2>2
<1>14. IS_LEAF(n) <=> l = Depth
  BY <1>1, <1>2, <1>3, <1>13
<1>15. IS_LEAF(n) <=> W = 1
  BY <1>5, <1>6, <1>7, <1>13
<1>16. NoBlocksOf(n) = Pow2[Depth - LevelOf(n)]
  BY DEF NoBlocksOf, Width
<1> QED BY <1>4, <1>5, <1>11, <1>12, <1>14, <1>15, <1>16 DEF l

-----------------------------------------------------------------------------
(***************************************************************************)
(* Children and parents                                                    *)
(***************************************************************************)
LEMMA Children ==
  ASSUME NEW n \in Nodes, ~IS_LEAF(n), NEW c, c = 2 * n \/ c = 2 * n + 1
  PROVE  /\ c \in Nodes /\ c > n /\ c # 1 /\ PARENT(c) = n
         /\ LevelOf(c) = LevelOf(n) + 1
         /\ NoBlocksOf(n) = 2 * NoBlocksOf(c)
         /\ FirstBlock(c) = IF c = 2 * n THEN FirstBlock(n) ELSE FirstBlock(n) + NoBlocksOf(c)
<1> DEFINE l == LevelOf(n)
<1>1. n \in Nat \ {0} /\ Depth \in Nat
  BY NodesNat
<1>2. l \in Levels /\ l \in Nat /\ Pow2[l] <= n /\ n < 2 * Pow2[l]
  BY LevelFacts
<1>3. l + 1 \in Nat /\ l < Depth
  BY <1>1, <1>2, WidthFacts DEF Levels
<1> HIDE DEF l
<1>4. Pow2[l] \in Nat /\ Pow2[l + 1] = 2 * Pow2[l] /\ Pow2[Depth + 1] = 2 * Pow2[Depth]
  BY <1>1, <1>2, Pow2Def
<1>5. 2 * Pow2[l] <= Pow2[Depth] /\ Pow2[Depth] \in Nat
  BY <1>1, <1>2, <1>3, Pow2Monotone, Pow2Def
<1>6. c \in Nodes
  BY <1>1, <1>2, <1>4, <1>5 DEF Nodes
<1>7. LevelOf(c) = l + 1
  <2>1. Pow2[l + 1] <= c /\ c < 2 * Pow2[l + 1]
    BY <1>1, <1>2, <1>4
  <2> QED BY <2>1, <1>3, <1>6, LevelIs
<1> DEFINE d == Depth - (l + 1)
           W == NoBlocksOf(c)
           V == NoBlocksOf(n)
<1>8. d \in Nat /\ d + 1 = Depth - l
  BY <1>1, <1>2, <1>3
<1>9. V = 2 * W /\ W \in Nat
  <2>1. W = Pow2[d]
    BY <1>6, <1>7, WidthFacts
  <2>2. V = Pow2[d + 1]
    BY <1>8, WidthFacts DEF l
  <2> HIDE DEF d, W, V
  <2> QED BY <2>1, <2>2, <1>8, Pow2Def
<1>10. FirstBlock(c) = c * W - NoBlocks /\ FirstBlock(n) = n * V - NoBlocks
  BY DEF FirstBlock
<1>11. NoBlocks \in Nat
  BY RootNode
<1>12. c = 2 * n => c * W = n * V
  <2> HIDE DEF W, V
  <2> QED BY <1>1, <1>9
<1>13. c = 2 * n + 1 => c * W = n * V + W
  <2> HIDE DEF W, V
  <2> QED BY <1>1, <1>9
<1>14. FirstBlock(c) = IF c = 2 * n THEN FirstBlock(n) ELSE FirstBlock(n) + W
  <2>1. n * V \in Nat
    <3> HIDE DEF V, W
    <3> QED BY <1>1, <1>9
  <2> HIDE DEF W, V
  <2> QED BY <2>1, <1>9, <1>10, <1>11, <1>12, <1>13
<1>15. c \div 2 = n
  BY <1>1
<1> QED BY <1>1, <1>6, <1>7, <1>9, <1>14, <1>15 DEF l, PARENT

\* The parent of a node, and its sibling, are nodes; they are found by halving.
LEMMA Parent ==
  ASSUME NEW n \in Nodes, n # 1
  PROVE  /\ PARENT(n) \in Nodes /\ PARENT(n) < n /\ ~IS_LEAF(PARENT(n))
         /\ n = 2 * PARENT(n) \/ n = 2 * PARENT(n) + 1
         /\ IS_RIGHT_CHILD(n) <=> n = 2 * PARENT(n) + 1
         /\ Sibling(n) = IF n = 2 * PARENT(n) THEN 2 * PARENT(n) + 1 ELSE 2 * PARENT(n)
         /\ Sibling(n) \in Nodes /\ Sibling(n) # 1 /\ PARENT(Sibling(n)) = PARENT(n)
         /\ Sibling(n) # n /\ Sibling(Sibling(n)) = n
<1> DEFINE p == n \div 2
<1>1. n \in Nat \ {0} /\ Depth \in Nat /\ n < Pow2[Depth + 1] /\ Pow2[Depth + 1] = 2 * Pow2[Depth]
      /\ Pow2[Depth] \in Nat
  BY NodesNat, Pow2Def DEF Nodes
<1>2. p \in Nat \ {0} /\ (n = 2 * p \/ n = 2 * p + 1) /\ (n % 2 = 1 <=> n = 2 * p + 1)
      /\ p < n
  BY <1>1
<1>3. PARENT(n) = p
  BY DEF PARENT
<1> HIDE DEF p
<1>4. p \in Nodes /\ ~IS_LEAF(p)
  BY <1>1, <1>2 DEF Nodes, IS_LEAF, NoBlocks
<1>5. Sibling(n) = IF n = 2 * p THEN 2 * p + 1 ELSE 2 * p
  BY <1>1, <1>2 DEF Sibling, IS_RIGHT_CHILD
<1>6. Sibling(n) \in Nodes /\ Sibling(n) # 1 /\ PARENT(Sibling(n)) = p
  BY <1>4, <1>5, Children
<1>7. Sibling(Sibling(n)) = n
  <2>1. CASE n = 2 * p
    <3>1. Sibling(n) = 2 * p + 1
      BY <2>1, <1>5
    <3>2. (2 * p + 1) % 2 = 1 /\ (2 * p + 1) - 1 = 2 * p
      BY <1>2
    <3> QED BY <2>1, <3>1, <3>2 DEF Sibling, IS_RIGHT_CHILD
  <2>2. CASE n = 2 * p + 1
    <3>1. Sibling(n) = 2 * p
      BY <2>2, <1>2, <1>5
    <3>2. (2 * p) % 2 # 1
      BY <1>2
    <3> QED BY <2>2, <3>1, <3>2 DEF Sibling, IS_RIGHT_CHILD
  <2> QED BY <2>1, <2>2, <1>2
<1> QED BY <1>2, <1>3, <1>4, <1>5, <1>6, <1>7 DEF IS_RIGHT_CHILD

\* A set of nodes with the root and the children of its inner nodes has all nodes.
LEMMA NodeInduction ==
  ASSUME NEW S, 1 \in S, \A n \in Nodes : n # 1 /\ PARENT(n) \in S => n \in S
  PROVE  Nodes \subseteq S
<1> SUFFICES ASSUME Nodes \ S # {} PROVE FALSE
  OBVIOUS
<1>1. PICK n \in Nodes \ S : \A m \in Nodes \ S : n <= m
  <2>1. Nodes \ S \subseteq Nat
    BY NodesNat
  <2> QED BY <2>1, LeastNatural
<1>2. n \in Nodes /\ n # 1
  BY <1>1
<1>3. PARENT(n) \in Nodes /\ PARENT(n) < n
  BY <1>2, Parent
<1>4. PARENT(n) \in Nat /\ n \in Nat
  BY <1>2, <1>3, NodesNat
<1>5. PARENT(n) \in S
  BY <1>1, <1>3, <1>4
<1> QED BY <1>1, <1>2, <1>5

-----------------------------------------------------------------------------
(***************************************************************************)
(* Paths                                                                   *)
(***************************************************************************)
LEMMA HalfDiv ==
  ASSUME NEW n \in Nat, NEW c, c = 2 * n \/ c = 2 * n + 1, NEW P \in Nat \ {0}
  PROVE  c \div (2 * P) = n \div P
<1> DEFINE q == n \div P
           r == n % P
           s == c - 2 * n
           Q == 2 * P
           t == 2 * r + s
<1>1. q \in Int /\ r \in 0 .. P - 1 /\ n = P * q + r
  OBVIOUS
<1>2. s \in 0 .. 1 /\ c = 2 * n + s /\ c \in Int
  OBVIOUS
<1> HIDE DEF q, r, s
<1>3. c = Q * q + t
  BY <1>1, <1>2
<1>4. t \in 0 .. Q - 1 /\ Q \in Nat \ {0}
  BY <1>1, <1>2
<1> HIDE DEF Q, t
<1>5. c \div Q = q
  BY <1>1, <1>2, <1>3, <1>4, DivModUnique
<1> QED BY <1>5 DEF Q, q

\* The way from the root to itself.
LEMMA PathRoot == Path(1) = {1}
<1>1. 1 \in Nodes /\ LevelOf(1) = 0
  BY RootNode
<1>2. Path(1) = {1 \div Pow2[i] : i \in 0 .. 0}
  BY <1>1 DEF Path, Ancestors
<1>3. 1 \div Pow2[0] = 1
  BY Pow2Def
<1> QED BY <1>2, <1>3

\* The way to a node goes over its parent.
LEMMA PathStep ==
  ASSUME NEW n \in Nodes, n # 1
  PROVE  Path(n) = {n} \cup Path(PARENT(n))
<1> DEFINE p == PARENT(n)
           l == LevelOf(p)
<1>1. /\ p \in Nodes /\ ~IS_LEAF(p) /\ (n = 2 * p \/ n = 2 * p + 1)
  BY Parent
<1>2. LevelOf(n) = l + 1
  BY <1>1, Children
<1>3. p \in Nat /\ n \in Nat /\ l \in Nat
  BY <1>1, NodesNat, LevelFacts
<1>4. Path(n) = {n \div Pow2[i] : i \in 0 .. l + 1}
  BY <1>2 DEF Path, Ancestors
<1>5. Path(p) = {p \div Pow2[i] : i \in 0 .. l}
  BY <1>1 DEF Path, Ancestors
<1> HIDE DEF p, l
<1>6. n \div Pow2[0] = n
  BY <1>3, Pow2Def
<1>7. ASSUME NEW i \in Nat PROVE n \div Pow2[i + 1] = p \div Pow2[i]
  <2>1. Pow2[i + 1] = 2 * Pow2[i] /\ Pow2[i] \in Nat \ {0}
    BY Pow2Def, Pow2Positive
  <2> QED BY <2>1, <1>1, <1>3, HalfDiv
<1>8. ASSUME NEW x \in Path(n) PROVE x \in {n} \cup Path(p)
  <2>1. PICK i \in 0 .. l + 1 : x = n \div Pow2[i]
    BY <1>4
  <2>2. CASE i = 0
    BY <2>1, <2>2, <1>6
  <2>3. CASE i # 0
    <3> DEFINE j == i - 1
    <3>1. j \in 0 .. l /\ j \in Nat /\ i = j + 1
      BY <2>3, <1>3
    <3> HIDE DEF j
    <3> QED BY <3>1, <2>1, <1>5, <1>7
  <2> QED BY <2>2, <2>3
<1>9. n \in Path(n)
  BY <1>3, <1>4, <1>6
<1>10. ASSUME NEW x \in Path(p) PROVE x \in Path(n)
  <2>1. PICK i \in 0 .. l : x = p \div Pow2[i]
    BY <1>5
  <2>2. i \in Nat /\ i + 1 \in 0 .. l + 1
    BY <1>3
  <2>3. x = n \div Pow2[i + 1]
    BY <2>1, <2>2, <1>7
  <2> QED BY <2>2, <2>3, <1>4
<1> QED BY <1>8, <1>9, <1>10 DEF p

\* The way to a node starts at the root, and is closed under parents.
LEMMA PathFacts ==
  ASSUME NEW n \in Nodes
  PROVE  /\ n \in Path(n) /\ 1 \in Path(n) /\ Path(n) \subseteq Nodes
         /\ \A m \in Path(n) : m <= n
         /\ \A m \in Path(n) : m # 1 => PARENT(m) \in Path(n)
<1> DEFINE S == {k \in Nodes : /\ k \in Path(k) /\ 1 \in Path(k) /\ Path(k) \subseteq Nodes
                               /\ \A m \in Path(k) : m <= k
                               /\ \A m \in Path(k) : m # 1 => PARENT(m) \in Path(k)}
<1>1. 1 \in S
  BY RootNode, PathRoot
<1>2. ASSUME NEW k \in Nodes, k # 1, PARENT(k) \in S PROVE k \in S
  <2> DEFINE p == PARENT(k)
  <2>1. p < k /\ p \in Nat /\ k \in Nat
    BY <1>2, Parent, NodesNat
  <2>2. Path(k) = {k} \cup Path(p)
    BY <1>2, PathStep
  <2>3. \A m \in Path(p) : m \in Nat /\ m <= p
    BY <1>2, NodesNat
  <2> QED BY <1>2, <2>1, <2>2, <2>3
<1> HIDE DEF S
<1>3. Nodes \subseteq S
  BY <1>1, <1>2, NodeInduction
<1> QED BY <1>3 DEF S

\* The way to a node of a way is part of it.
LEMMA PathTrans ==
  ASSUME NEW n \in Nodes, NEW m \in Path(n)
  PROVE  Path(m) \subseteq Path(n)
<1> DEFINE S == {k \in Nodes : \A a \in Path(k) : Path(a) \subseteq Path(k)}
<1>1. 1 \in S
  BY RootNode, PathRoot
<1>2. ASSUME NEW k \in Nodes, k # 1, PARENT(k) \in S PROVE k \in S
  <2>1. Path(k) = {k} \cup Path(PARENT(k))
    BY <1>2, PathStep
  <2> QED BY <1>2, <2>1
<1> HIDE DEF S
<1>3. Nodes \subseteq S
  BY <1>1, <1>2, NodeInduction
<1> QED BY <1>3 DEF S

\* Below an ancestor of n the path goes on with one of its children.
LEMMA PathChild ==
  ASSUME NEW n \in Nodes, NEW m \in Path(n), m # n
  PROVE  /\ ~IS_LEAF(m) /\ m < n
         /\ \E c \in Path(n) : c # 1 /\ PARENT(c) = m /\ c > m /\ Sibling(c) \notin Path(n)
<1> DEFINE Good(k, a) == \E c \in Path(k) : c # 1 /\ PARENT(c) = a /\ c > a /\ Sibling(c) \notin Path(k)
           S == {k \in Nodes : \A a \in Path(k) : a # k => ~IS_LEAF(a) /\ Good(k, a)}
<1>1. 1 \in S
  BY RootNode, PathRoot
<1>2. ASSUME NEW k \in Nodes, k # 1, PARENT(k) \in S PROVE k \in S
  <2> DEFINE p == PARENT(k)
  <2>1. p < k /\ p \in Nodes /\ p \in Nat /\ k \in Nat /\ ~IS_LEAF(p)
    BY <1>2, Parent, NodesNat
  <2>2. Path(k) = {k} \cup Path(p)
    BY <1>2, PathStep
  <2>3. /\ Sibling(k) \in Nodes /\ PARENT(Sibling(k)) = p /\ Sibling(k) # k /\ Sibling(k) # 1
    BY <1>2, Parent
  <2>4. Sibling(k) > p /\ Sibling(k) \in Nat
    BY <2>3, Parent, NodesNat
  <2>5. Path(p) \subseteq Nodes /\ \A a \in Path(p) : a <= p
    BY <2>1, PathFacts
  <2>6. Sibling(k) \notin Path(k)
    BY <2>1, <2>2, <2>3, <2>4, <2>5
  <2>7. ASSUME NEW a \in Path(k), a # k PROVE ~IS_LEAF(a) /\ Good(k, a)
    <3>1. a \in Path(p)
      BY <2>2, <2>7
    <3>2. CASE a = p
      <4>1. k \in Path(k) /\ k # 1 /\ PARENT(k) = a /\ k > a
        BY <3>2, <1>2, <2>1, <2>2
      <4> QED BY <4>1, <3>2, <2>1, <2>6
    <3>3. CASE a # p
      <4>1. ~IS_LEAF(a) /\ Good(p, a)
        BY <3>1, <3>3, <1>2
      <4>2. PICK c \in Path(p) : c # 1 /\ PARENT(c) = a /\ c > a /\ Sibling(c) \notin Path(p)
        BY <4>1
      <4>3. c \in Nodes /\ c <= p
        BY <2>5
      <4>4. Sibling(c) # k
        <5>1. PARENT(Sibling(c)) = a
          BY <4>2, <4>3, Parent
        <5> QED BY <5>1, <3>3
      <4>5. c \in Path(k) /\ Sibling(c) \notin Path(k)
        BY <2>2, <4>2, <4>4
      <4> QED BY <4>1, <4>2, <4>5
    <3> QED BY <3>2, <3>3
  <2> HIDE DEF Good, p
  <2> QED BY <2>7
<1> HIDE DEF S
<1>3. Nodes \subseteq S
  BY <1>1, <1>2, NodeInduction
<1>4. ~IS_LEAF(m) /\ Good(n, m)
  BY <1>3 DEF S
<1>5. m < n
  <2>1. m \in Nodes /\ m <= n
    BY PathFacts
  <2> QED BY <2>1, NodesNat
<1> QED BY <1>4, <1>5

\* The ancestors of n are on each other's paths.
LEMMA PathLinear ==
  ASSUME NEW n \in Nodes, NEW a \in Path(n), NEW b \in Path(n), a <= b
  PROVE  a \in Path(b)
<1> DEFINE S == {k \in Nodes : \A x, y \in Path(k) : x <= y => x \in Path(y)}
<1>1. 1 \in S
  BY RootNode, PathRoot
<1>2. ASSUME NEW k \in Nodes, k # 1, PARENT(k) \in S PROVE k \in S
  <2> DEFINE p == PARENT(k)
  <2>1. p < k /\ p \in Nodes /\ p \in Nat /\ k \in Nat
    BY <1>2, Parent, NodesNat
  <2>2. Path(k) = {k} \cup Path(p)
    BY <1>2, PathStep
  <2>3. \A x \in Path(p) : x \in Nat /\ x <= p
    BY <2>1, PathFacts, NodesNat
  <2>4. \A x, y \in Path(p) : x <= y => x \in Path(y)
    BY <1>2
  <2> HIDE DEF p
  <2>5. ASSUME NEW x \in Path(k), NEW y \in Path(k), x <= y PROVE x \in Path(y)
    BY <2>1, <2>2, <2>3, <2>4, <2>5
  <2> QED BY <2>5
<1> HIDE DEF S
<1>3. Nodes \subseteq S
  BY <1>1, <1>2, NodeInduction
<1> QED BY <1>3 DEF S

-----------------------------------------------------------------------------
(***************************************************************************)
(* Blocks                                                                  *)
(***************************************************************************)
LEMMA BlocksChildren ==
  ASSUME NEW n \in Nodes, ~IS_LEAF(n)
  PROVE  /\ BlocksOf(n) = BlocksOf(2 * n) \cup BlocksOf(2 * n + 1)
         /\ BlocksOf(2 * n) \cap BlocksOf(2 * n + 1) = {}
<1>1. /\ 2 * n \in Nodes /\ NoBlocksOf(n) = 2 * NoBlocksOf(2 * n)
      /\ FirstBlock(2 * n) = FirstBlock(n)
  BY Children
<1>2. /\ 2 * n + 1 \in Nodes /\ NoBlocksOf(n) = 2 * NoBlocksOf(2 * n + 1)
      /\ FirstBlock(2 * n + 1) = FirstBlock(n) + NoBlocksOf(2 * n + 1)
  <2>1. 2 * n + 1 # 2 * n
    BY NodesNat
  <2> QED BY <2>1, Children
<1>3. /\ NoBlocksOf(2 * n) \in Nat /\ NoBlocksOf(2 * n + 1) \in Nat /\ FirstBlock(n) \in Nat
  BY <1>1, <1>2, WidthFacts
<1> QED BY <1>1, <1>2, <1>3 DEF BlocksOf

\* A node has a block.
LEMMA BlocksNonEmpty ==
  ASSUME NEW n \in Nodes
  PROVE  FirstBlock(n) \in BlocksOf(n)
BY WidthFacts DEF BlocksOf

\* The blocks of a node are those of its two children, which share none.
LEMMA BlocksParent ==
  ASSUME NEW n \in Nodes, n # 1
  PROVE  /\ BlocksOf(n) \subseteq BlocksOf(PARENT(n))
         /\ BlocksOf(n) \cap BlocksOf(Sibling(n)) = {}
         /\ BlocksOf(PARENT(n)) = BlocksOf(n) \cup BlocksOf(Sibling(n))
<1> DEFINE p == PARENT(n)
<1>1. /\ p \in Nodes /\ ~IS_LEAF(p) /\ (n = 2 * p \/ n = 2 * p + 1)
      /\ Sibling(n) = IF n = 2 * p THEN 2 * p + 1 ELSE 2 * p
  BY Parent
<1>2. /\ BlocksOf(p) = BlocksOf(2 * p) \cup BlocksOf(2 * p + 1)
      /\ BlocksOf(2 * p) \cap BlocksOf(2 * p + 1) = {}
  BY <1>1, BlocksChildren
<1> HIDE DEF p
<1>3. CASE n = 2 * p
  <2>1. Sibling(n) = 2 * p + 1
    BY <1>1, <1>3
  <2> QED BY <2>1, <1>2, <1>3 DEF p
<1>4. CASE n = 2 * p + 1
  <2>1. Sibling(n) = 2 * p
    BY <1>1, <1>4, NodesNat
  <2> QED BY <2>1, <1>2, <1>4 DEF p
<1> QED BY <1>1, <1>3, <1>4

\* The blocks of a node are among those of the nodes above it.
LEMMA BlocksPath ==
  ASSUME NEW n \in Nodes, NEW m \in Path(n)
  PROVE  BlocksOf(n) \subseteq BlocksOf(m)
<1> DEFINE S == {k \in Nodes : \A a \in Path(k) : BlocksOf(k) \subseteq BlocksOf(a)}
<1>1. 1 \in S
  BY RootNode, PathRoot
<1>2. ASSUME NEW k \in Nodes, k # 1, PARENT(k) \in S PROVE k \in S
  <2>1. Path(k) = {k} \cup Path(PARENT(k)) /\ BlocksOf(k) \subseteq BlocksOf(PARENT(k))
    BY <1>2, PathStep, BlocksParent
  <2> QED BY <1>2, <2>1
<1> HIDE DEF S
<1>3. Nodes \subseteq S
  BY <1>1, <1>2, NodeInduction
<1> QED BY <1>3 DEF S

\* Two nodes share a block only if one is above the other.
LEMMA BlocksOverlap ==
  ASSUME NEW m \in Nodes, NEW n \in Nodes, BlocksOf(m) \cap BlocksOf(n) # {}
  PROVE  m \in Path(n) \/ n \in Path(m)
<1> DEFINE S == {k \in Nodes : BlocksOf(m) \cap BlocksOf(k) # {} => m \in Path(k) \/ k \in Path(m)}
<1>1. 1 \in S
  BY RootNode, PathFacts
<1>2. ASSUME NEW k \in Nodes, k # 1, PARENT(k) \in S PROVE k \in S
  <2> DEFINE p == PARENT(k)
  <2>1. /\ Path(k) = {k} \cup Path(p) /\ BlocksOf(k) \subseteq BlocksOf(p)
        /\ BlocksOf(k) \cap BlocksOf(Sibling(k)) = {} /\ p \in Nodes
    BY <1>2, PathStep, BlocksParent, Parent
  <2> SUFFICES ASSUME BlocksOf(m) \cap BlocksOf(k) # {} PROVE m \in Path(k) \/ k \in Path(m)
    OBVIOUS
  <2>2. m \in Path(p) \/ p \in Path(m)
    BY <1>2, <2>1
  <2>3. CASE m \in Path(p)
    BY <2>1, <2>3
  <2>4. CASE p \in Path(m) /\ p # m
    <3>1. PICK c \in Path(m) : c # 1 /\ PARENT(c) = p /\ c > p /\ Sibling(c) \notin Path(m)
      BY <2>4, PathChild
    <3>2. c \in Nodes
      BY PathFacts
    <3>3. c = k \/ c = Sibling(k)
      <4>1. /\ c = 2 * p \/ c = 2 * p + 1
        BY <3>1, <3>2, Parent
      <4>2. /\ k = 2 * p \/ k = 2 * p + 1
            /\ Sibling(k) = IF k = 2 * p THEN 2 * p + 1 ELSE 2 * p
        BY <1>2, Parent
      <4> HIDE DEF p
      <4> QED BY <4>1, <4>2
    <3>4. BlocksOf(m) \subseteq BlocksOf(c)
      BY <3>1, BlocksPath
    <3>5. c # Sibling(k)
      BY <3>4, <2>1
    <3> QED BY <3>1, <3>3, <3>5
  <2>5. CASE p = m
    BY <2>5, <2>1, PathFacts
  <2> QED BY <2>2, <2>3, <2>4, <2>5
<1> HIDE DEF S
<1>3. Nodes \subseteq S
  BY <1>1, <1>2, NodeInduction
<1> QED BY <1>3 DEF S

\* A set of nodes with the leaves and every node whose children it has has all nodes.
LEMMA NodeInductionUp ==
  ASSUME NEW S, \A n \in Nodes : (IS_LEAF(n) \/ (2 * n \in S /\ 2 * n + 1 \in S)) => n \in S
  PROVE  Nodes \subseteq S
<1> SUFFICES ASSUME Nodes \ S # {} PROVE FALSE
  OBVIOUS
<1> DEFINE N == Pow2[Depth + 1]
           T == {N - n : n \in Nodes \ S}
<1>1. N \in Nat
  BY Pow2Def, NodesNat
<1>2. T \subseteq Nat /\ T # {}
  <2>1. \A n \in Nodes : N - n \in Nat
    BY <1>1 DEF Nodes
  <2> HIDE DEF N
  <2> QED BY <2>1
<1> HIDE DEF T
<1>3. PICK d \in T : \A e \in T : d <= e
  BY <1>2, LeastNatural
<1>4. PICK n \in Nodes \ S : d = N - n
  BY <1>3 DEF T
<1>5. ~IS_LEAF(n)
  BY <1>4
<1>6. 2 * n \in Nodes /\ 2 * n + 1 \in Nodes /\ 2 * n > n /\ 2 * n + 1 > n
  BY <1>5, Children, NodesNat
<1>7. ASSUME NEW c \in Nodes, c > n PROVE c \in S
  <2>1. CASE c \notin S
    <3>1. N - c \in T
      BY <2>1, <1>7 DEF T
    <3>2. d <= N - c
      BY <3>1, <1>3
    <3> QED BY <3>2, <1>1, <1>4, <1>7, NodesNat
  <2> QED BY <2>1
<1> HIDE DEF N
<1>8. 2 * n \in S /\ 2 * n + 1 \in S
  BY <1>6, <1>7
<1> QED BY <1>4, <1>8

-----------------------------------------------------------------------------
(***************************************************************************)
(* Merging                                                                 *)
(***************************************************************************)
LEMMA FirstFacts ==
  ASSUME NEW S, S \subseteq Nat, S # {}
  PROVE  First(S) \in S /\ \A y \in S : First(S) <= y
<1>1. \E x \in S : \A y \in S : x <= y
  BY LeastNatural
<1> QED BY <1>1 DEF First

\* Between a node and its parent there is no other node of a path.
LEMMA PathGap ==
  ASSUME NEW n \in Nodes, NEW a \in Path(n), a # 1, NEW c \in Path(n), c > PARENT(a)
  PROVE  c >= a
<1>1. a \in Nodes /\ c \in Nodes
  BY PathFacts
<1>2. PARENT(a) \in Nodes
  BY <1>1, Parent
<1>3. a \in Nat /\ c \in Nat /\ PARENT(a) \in Nat
  BY <1>1, <1>2, NodesNat
<1> SUFFICES ASSUME c < a PROVE FALSE
  BY <1>3
<1>4. c \in Path(a)
  BY <1>3, PathLinear
<1>5. c \in Path(PARENT(a))
  BY <1>1, <1>3, <1>4, PathStep
<1>6. c <= PARENT(a)
  BY <1>2, <1>5, PathFacts
<1> QED BY <1>3, <1>6

\* Merging passes the siblings in the states sts and stops below the first other one.
LEMMA MergeFacts ==
  ASSUME NEW n \in Nodes, NEW tree, NEW sts
  PROVE  LET top == MergeTop(tree, n, sts)
         IN /\ top \in Path(n) /\ top \in Nodes /\ top <= n
            /\ \A c \in Path(n) : c > top => tree[Sibling(c)] \in sts
            /\ top # 1 => tree[Sibling(top)] \notin sts
<1> DEFINE top == MergeTop(tree, n, sts)
           A == {a \in Path(n) : \A c \in Path(n) : c > a => tree[Sibling(c)] \in sts}
<1>1. Path(n) \subseteq Nodes /\ n \in Path(n) /\ \A c \in Path(n) : c <= n
  BY PathFacts
<1>2. \A c \in Path(n) : c \in Nat
  BY <1>1, NodesNat
<1>3. n \in A
  BY <1>1, <1>2
<1>4. A \subseteq Nat /\ A # {}
  BY <1>2, <1>3
<1>5. top = First(A)
  BY DEF MergeTop
<1> HIDE DEF A, top
<1>6. top \in A /\ \A y \in A : top <= y
  BY <1>4, <1>5, FirstFacts
<1>7. top \in Path(n) /\ \A c \in Path(n) : c > top => tree[Sibling(c)] \in sts
  BY <1>6 DEF A
<1>8. top \in Nodes /\ top <= n
  BY <1>1, <1>7
<1>9. ASSUME top # 1, tree[Sibling(top)] \in sts PROVE FALSE
  <2>1. PARENT(top) \in Path(n) /\ PARENT(top) < top
    BY <1>7, <1>8, <1>9, PathFacts, Parent
  <2>2. ASSUME NEW c \in Path(n), c > PARENT(top) PROVE tree[Sibling(c)] \in sts
    <3>1. c >= top
      BY <2>2, <1>7, <1>9, PathGap
    <3> QED BY <3>1, <1>2, <1>7, <1>9
  <2>3. PARENT(top) \in A
    BY <2>1, <2>2 DEF A
  <2>4. PARENT(top) \in Nat /\ top \in Nat
    BY <2>1, <1>2, <1>7
  <2> QED BY <2>1, <2>3, <2>4, <1>6
<1> QED BY <1>7, <1>8, <1>9 DEF top

-----------------------------------------------------------------------------
(***************************************************************************)
(* Ancestors and children                                                  *)
(***************************************************************************)
Kids(n) == {2 * n, 2 * n + 1}
Above(n) == Path(n) \ {n}

\* A child, its sibling and what is above them.
LEMMA KidFacts ==
  ASSUME NEW p \in Nodes, ~IS_LEAF(p), NEW c \in Kids(p)
  PROVE  /\ c \in Nodes /\ c # 1 /\ PARENT(c) = p /\ c # p
         /\ Above(c) = {p} \cup Above(p) /\ Above(c) = Path(p)
         /\ Kids(p) = {c, Sibling(c)} /\ Sibling(c) # c
<1>1. c = 2 * p \/ c = 2 * p + 1
  BY DEF Kids
<1>2. c \in Nodes /\ c > p /\ c # 1 /\ PARENT(c) = p
  BY <1>1, Children
<1>3. Path(c) = {c} \cup Path(p)
  BY <1>2, PathStep
<1>4. \A a \in Path(p) : a <= p
  BY PathFacts
<1>5. c \notin Path(p) /\ p \in Path(p) /\ c # p
  BY <1>2, <1>4, NodesNat, PathFacts
<1>6. Kids(p) = {c, Sibling(c)} /\ Sibling(c) # c
  BY <1>1, <1>2, Parent DEF Kids
<1> QED BY <1>2, <1>3, <1>5, <1>6 DEF Above

\* A node other than the root is a child of its parent.
LEMMA ParentKid ==
  ASSUME NEW c \in Nodes, c # 1
  PROVE  /\ PARENT(c) \in Nodes /\ ~IS_LEAF(PARENT(c)) /\ c \in Kids(PARENT(c))
         /\ Sibling(c) \in Kids(PARENT(c))
BY Parent DEF Kids

\* The nodes above a node are smaller, no leaves, and not below it.
LEMMA AboveFacts ==
  ASSUME NEW n \in Nodes
  PROVE  /\ n \notin Above(n) /\ Path(n) = {n} \cup Above(n) /\ Above(n) \subseteq Nodes
         /\ Above(1) = {}
         /\ \A a \in Above(n) : a < n /\ ~IS_LEAF(a) /\ Above(a) \subseteq Above(n) /\ n \notin Path(a)
<1>1. n \in Path(n) /\ Path(n) \subseteq Nodes
  BY PathFacts
<1>2. ASSUME NEW a \in Above(n)
      PROVE  a < n /\ ~IS_LEAF(a) /\ Above(a) \subseteq Above(n) /\ n \notin Path(a)
  <2>1. a \in Path(n) /\ a # n /\ a \in Nodes
    BY <1>1 DEF Above
  <2>2. a < n /\ ~IS_LEAF(a)
    BY <2>1, PathChild
  <2>3. Path(a) \subseteq Path(n)
    BY <2>1, PathTrans
  <2>4. \A b \in Path(a) : b <= a /\ b \in Nat
    BY <2>1, PathFacts, NodesNat
  <2>5. n \notin Path(a)
    BY <2>1, <2>2, <2>4, NodesNat
  <2> QED BY <2>2, <2>3, <2>5 DEF Above
<1> QED BY <1>1, <1>2, PathRoot DEF Above

\* From a node above, one child leads to the node and the other does not.
LEMMA AboveKid ==
  ASSUME NEW n \in Nodes, NEW a \in Above(n)
  PROVE  \E c \in Kids(a) : c \in Path(n) /\ c > a /\ Sibling(c) \notin Path(n)
<1>1. a \in Path(n) /\ a # n
  BY DEF Above
<1>2. PICK c \in Path(n) : c # 1 /\ PARENT(c) = a /\ c > a /\ Sibling(c) \notin Path(n)
  BY <1>1, PathChild
<1>3. c \in Kids(a)
  BY <1>2, ParentKid, PathFacts
<1> QED BY <1>2, <1>3

\* Whoever is on the path to m has its parent above m.
LEMMA KidAbove ==
  ASSUME NEW m \in Nodes, NEW n \in Nodes, ~IS_LEAF(n), NEW c \in Kids(n), c \in Path(m)
  PROVE  n \in Above(m)
<1>1. c \in Nodes /\ Above(c) = {n} \cup Above(n)
  BY KidFacts
<1>2. CASE c = m
  BY <1>1, <1>2
<1>3. CASE c # m
  <2>1. c \in Above(m)
    BY <1>3 DEF Above
  <2> QED BY <2>1, <1>1, AboveFacts
<1> QED BY <1>2, <1>3

\* A path has one child of each node.
LEMMA SiblingOff ==
  ASSUME NEW n \in Nodes, NEW c \in Path(n), c # 1
  PROVE  Sibling(c) \notin Path(n) /\ Sibling(c) \in Nodes
<1> DEFINE p == PARENT(c)
<1>1. c \in Nodes
  BY PathFacts
<1>2. p \in Nodes /\ ~IS_LEAF(p) /\ c \in Kids(p)
  BY <1>1, ParentKid
<1>3. p \in Above(n)
  BY <1>2, KidAbove
<1>4. PICK d \in Kids(p) : d \in Path(n) /\ Sibling(d) \notin Path(n)
  BY <1>3, AboveKid
<1>5. Kids(p) = {d, Sibling(d)}
  BY <1>2, KidFacts
<1>6. c = d
  BY <1>2, <1>4, <1>5
<1> QED BY <1>1, <1>4, <1>6, Parent

\* A node is known by its blocks.
LEMMA BlocksInjective ==
  ASSUME NEW m \in Nodes, NEW n \in Nodes, BlocksOf(m) = BlocksOf(n)
  PROVE  m = n
<1>1. ASSUME NEW a \in Nodes, NEW b \in Nodes, a \in Above(b) PROVE BlocksOf(a) # BlocksOf(b)
  <2>1. PICK c \in Kids(a) : c \in Path(b) /\ Sibling(c) \notin Path(b)
    BY <1>1, AboveKid
  <2>2. ~IS_LEAF(a)
    BY <1>1, AboveFacts
  <2>3. c \in Nodes /\ c # 1 /\ PARENT(c) = a
    BY <2>2, KidFacts
  <2>4. /\ BlocksOf(c) \cap BlocksOf(Sibling(c)) = {} /\ BlocksOf(a) = BlocksOf(c) \cup BlocksOf(Sibling(c))
        /\ Sibling(c) \in Nodes
    BY <2>3, BlocksParent, Parent
  <2>5. BlocksOf(b) \subseteq BlocksOf(c)
    BY <2>1, BlocksPath
  <2>6. FirstBlock(Sibling(c)) \in BlocksOf(Sibling(c))
    BY <2>4, BlocksNonEmpty
  <2> QED BY <2>4, <2>5, <2>6
<1>2. BlocksOf(m) \cap BlocksOf(n) # {}
  BY BlocksNonEmpty
<1>3. m \in Path(n) \/ n \in Path(m)
  BY <1>2, BlocksOverlap
<1> QED BY <1>1, <1>3 DEF Above

\* A node has finitely many blocks, as many as NoBlocksOf says.
LEMMA BlocksFinite ==
  ASSUME NEW n \in Nodes
  PROVE  IsFiniteSet(BlocksOf(n)) /\ Cardinality(BlocksOf(n)) = NoBlocksOf(n)
<1>1. NoBlocksOf(n) \in Nat \ {0} /\ FirstBlock(n) \in Nat
  BY WidthFacts
<1> DEFINE a == FirstBlock(n)
           b == FirstBlock(n) + NoBlocksOf(n) - 1
<1>2. a \in Int /\ b \in Int /\ ~(a > b) /\ b - a + 1 = NoBlocksOf(n) /\ BlocksOf(n) = a .. b
  BY <1>1 DEF BlocksOf
<1> HIDE DEF a, b
<1>3. IsFiniteSet(a .. b) /\ Cardinality(a .. b) = IF a > b THEN 0 ELSE b - a + 1
  BY <1>2, FS_Interval
<1> QED BY <1>2, <1>3
=============================================================================
