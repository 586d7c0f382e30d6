----------------------------- MODULE BuddyTree -----------------------------
(***************************************************************************)
(* The binary tree that chunk.c and internal_allocator.c keep in an array: *)
(* the root is 1, the children of n are 2n and 2n + 1, level l has the     *)
(* nodes 2^l .. 2^(l+1) - 1, and the leaves stand for equal blocks.  The   *)
(* powers are a function that the proofs can reason about.                 *)
(***************************************************************************)
EXTENDS Integers, FiniteSets

CONSTANT Depth   \* the level of the leaves

ASSUME DepthAssumption == Depth \in Nat \ {0}

Pow2[i \in Nat] == IF i = 0 THEN 1 ELSE 2 * Pow2[i - 1]

Levels == 0 .. Depth
Nodes == 1 .. Pow2[Depth + 1] - 1
NoBlocks == Pow2[Depth]
Blocks == 0 .. NoBlocks - 1

NodesOf(l) == Pow2[l] .. Pow2[l + 1] - 1
Level == [n \in Nodes |-> CHOOSE l \in Levels : n \in NodesOf(l)]
LevelOf(n) == Level[n]

PARENT(n) == n \div 2
LEFT_CHILD(n) == 2 * n
RIGHT_CHILD(n) == 2 * n + 1
IS_RIGHT_CHILD(n) == n % 2 = 1
IS_LEAF(n) == n >= NoBlocks
Sibling(n) == IF IS_RIGHT_CHILD(n) THEN n - 1 ELSE n + 1

\* n and its ancestors; the descendants of n on level l.
Ancestors == [n \in Nodes |-> {n \div Pow2[i] : i \in 0 .. LevelOf(n)}]
Path(n) == Ancestors[n]
Below(n, l) == n * Pow2[l - LevelOf(n)] .. (n + 1) * Pow2[l - LevelOf(n)] - 1

\* The blocks that node n stands for.
Width == [n \in Nodes |-> Pow2[Depth - LevelOf(n)]]
NoBlocksOf(n) == Width[n]
FirstBlock(n) == n * NoBlocksOf(n) - NoBlocks
BlocksOf(n) == FirstBlock(n) .. FirstBlock(n) + NoBlocksOf(n) - 1

First(S) == CHOOSE x \in S : \A y \in S : x <= y
Last(S) == CHOOSE x \in S : \A y \in S : y <= x

(***************************************************************************)
(* The coalescing loops climb from n while the sibling of the node they    *)
(* are at is in one of the states sts and set its parent to state st.      *)
(***************************************************************************)
MergeTop(tree, n, sts) ==
  First({a \in Path(n) : \A c \in Path(n) : c > a => tree[Sibling(c)] \in sts})
Merge(tree, n, sts, st) ==
  [m \in Nodes |-> IF m \in Path(n) /\ m < n /\ m >= MergeTop(tree, n, sts)
                   THEN st ELSE tree[m]]
=============================================================================
