------------------------------- MODULE Chunk -------------------------------
(***************************************************************************)
(* A chunk: a binary buddy tree over the blocks of one mapping, from which *)
(* the arena allocates the memory of runs (chunk.c).                       *)
(*                                                                         *)
(* Two structures describe the same blocks and are updated separately:     *)
(*   - buddy_tree has the state of each node and is what chunk_get_run_ptr *)
(*     and chunk_deallocate_run climb;                                     *)
(*   - the jump tree links, on each level, the nodes that can still be     *)
(*     allocated by distances to the previous and the next one, with the   *)
(*     first one and the number of them.  A node leaves its list when it,  *)
(*     an ancestor or a descendant of it is allocated and never returns.   *)
(*                                                                         *)
(* Nodes are numbered as in the code: the root is 1, the children of n are *)
(* 2n and 2n + 1, level l has the nodes 2^l .. 2^(l+1) - 1.                *)
(*                                                                         *)
(* A definition like LeavingNoDown is a faulty variant of the one          *)
(* that follows it, which some property has to reject.                     *)
(***************************************************************************)
EXTENDS BuddyTree

CONSTANTS
  LeafSize,    \* CHUNK_LEAST_REGION_SIZE_BYTES
  RegSizes,    \* the region sizes in use
  Threshold,   \* RANDOM_LOOKUP_TRESHOLD_PERCENTAGE
  MaxMarked    \* bound on the leaves of small and medium regions

REG_MARK_BAD_VALUE == 65535

\* The region size of a leaf is kept in 16 bits.
ASSUME SizesAssumption ==
  /\ LeafSize \in 1 .. REG_MARK_BAD_VALUE
  /\ RegSizes \subseteq (1 .. LeafSize - 1) \cup {LeafSize * Pow2[i] : i \in 0 .. Depth - 1}
  /\ Threshold \in 0 .. 99
  /\ MaxMarked \in Nat

VARIABLES
  buddy_tree,              \* state of each node
  next, prev,              \* jump_tree: distance to the neighbour, 0 for none
  jump_tree_first_index,
  avail_nodes_count,
  reg_size_small_medium,   \* region size of each leaf
  mapped,                  \* the blocks the kernel has mapped
  gone,                    \* chunk_deallocate_run returned true
  live, taken              \* history: the runs in use, the blocks ever handed out

jump == <<next, prev, jump_tree_first_index, avail_nodes_count>>
vars == <<buddy_tree, jump, reg_size_small_medium, mapped, gone, live, taken>>

Leaf(b) == NoBlocks + b

NODE_FREE == "NODE_FREE"
NODE_USED == "NODE_USED"
NODE_DEPLETED == "NODE_DEPLETED"
NODE_UNMAPPED == "NODE_UNMAPPED"

\* chunk_init.  The arena never asks for a whole chunk: level 0 has no list.
Init ==
  /\ buddy_tree = [n \in Nodes |-> NODE_FREE]
  /\ next = [n \in Nodes |-> IF n + 1 \in NodesOf(LevelOf(n)) THEN 1 ELSE 0]
  /\ prev = [n \in Nodes |-> IF n - 1 \in NodesOf(LevelOf(n)) THEN 1 ELSE 0]
  /\ jump_tree_first_index = [l \in Levels |-> IF l = 0 THEN 0 ELSE Pow2[l]]
  /\ avail_nodes_count = [l \in Levels |-> IF l = 0 THEN 0 ELSE Pow2[l]]
  /\ reg_size_small_medium = [b \in Blocks |-> REG_MARK_BAD_VALUE]
  /\ mapped = Blocks
  /\ gone = FALSE
  /\ live = {} /\ taken = {}

-----------------------------------------------------------------------------
(***************************************************************************)
(* chunk_allocate_run                                                      *)
(***************************************************************************)

Linked(n) ==
  next[n] # 0 \/ prev[n] # 0 \/ jump_tree_first_index[LevelOf(n)] = n

\* On each level, the nodes that leave the list when n is allocated: below n all
\* of its descendants, from n up the ancestors until one that left before.
LeavingNoDown(n, l) ==
  {a \in Path(n) : LevelOf(a) = l /\ \A b \in Path(n) : b >= a => Linked(b)}
Leaving(n, l) ==
  IF l > LevelOf(n)
  THEN Below(n, l)
  ELSE {a \in Path(n) : LevelOf(a) = l /\ \A b \in Path(n) : b >= a => Linked(b)}

\* The distances after the interval S of nodes left the list of its level: the
\* nodes before and after S are joined.
NextAfter(n, S) ==
  CASE n \in S -> 0
    [] n \notin S /\ prev[First(S)] # 0 /\ n = First(S) - prev[First(S)] ->
         IF next[Last(S)] = 0 THEN 0
         ELSE next[n] + (Cardinality(S) - 1) + next[Last(S)]
    [] OTHER -> next[n]
PrevAfterNoSpan(n, S) ==
  CASE n \in S -> 0
    [] n \notin S /\ next[Last(S)] # 0 /\ n = Last(S) + next[Last(S)] ->
         IF prev[First(S)] = 0 THEN 0
         ELSE prev[n] + prev[First(S)]
    [] OTHER -> prev[n]
PrevAfter(n, S) ==
  CASE n \in S -> 0
    [] n \notin S /\ next[Last(S)] # 0 /\ n = Last(S) + next[Last(S)] ->
         IF prev[First(S)] = 0 THEN 0
         ELSE prev[n] + (Cardinality(S) - 1) + prev[First(S)]
    [] OTHER -> prev[n]
FirstAfter(l, S) ==
  IF prev[First(S)] # 0 THEN jump_tree_first_index[l]
  ELSE IF next[Last(S)] = 0 THEN 0 ELSE Last(S) + next[Last(S)]

\* The leaf of a run of small or medium regions remembers their size.
MarksEveryLeaf(n, reg) ==
  IF LevelOf(n) = Depth
  THEN [reg_size_small_medium EXCEPT ![n - NoBlocks] = reg]
  ELSE reg_size_small_medium
Marks(n, reg) ==
  IF LevelOf(n) = Depth /\ reg # LeafSize
  THEN [reg_size_small_medium EXCEPT ![n - NoBlocks] = reg]
  ELSE reg_size_small_medium

chunk_allocate_with_node(n, reg) ==
  LET gone_from(l) == Leaving(n, l) IN
  /\ next' = [m \in Nodes |-> IF gone_from(LevelOf(m)) = {} THEN next[m]
                              ELSE NextAfter(m, gone_from(LevelOf(m)))]
  /\ prev' = [m \in Nodes |-> IF gone_from(LevelOf(m)) = {} THEN prev[m]
                              ELSE PrevAfter(m, gone_from(LevelOf(m)))]
  /\ avail_nodes_count' =
       [l \in Levels |-> avail_nodes_count[l] - Cardinality(gone_from(l))]
  /\ jump_tree_first_index' =
       [l \in Levels |-> IF gone_from(l) = {} THEN jump_tree_first_index[l]
                         ELSE FirstAfter(l, gone_from(l))]
  /\ reg_size_small_medium' = Marks(n, reg)
  /\ buddy_tree' = [buddy_tree EXCEPT ![n] = NODE_USED]

\* The node reached from the first one of level l after i jumps.
Jumped(l, i) ==
  LET walk[j \in 0 .. i] == IF j = 0 THEN jump_tree_first_index[l]
                            ELSE walk[j - 1] + next[walk[j - 1]]
  IN walk[i]

\* The nodes chunk_allocate_run may choose: with enough of them available it
\* tries a few random nodes of the level, if all tries fail (or there are few)
\* it jumps along the list.
Hits(l) == {n \in NodesOf(l) : next[n] # 0 \/ prev[n] # 0}
Choices(l) ==
  LET random == (avail_nodes_count[l] * 100) \div Pow2[l] > Threshold
      jumps == {Jumped(l, i) : i \in 0 .. avail_nodes_count[l] - 1}
  IN IF ~random THEN jumps
     ELSE IF Hits(l) = NodesOf(l) THEN Hits(l) ELSE Hits(l) \cup jumps

\* What the arena asks for: a run is one block for small and medium regions, and
\* the blocks of the region itself for a large one.
Requests ==
  {<<IF reg < LeafSize THEN 1 ELSE reg \div LeafSize, reg>> : reg \in RegSizes}

Marked == {b \in Blocks : reg_size_small_medium[b] # REG_MARK_BAD_VALUE}

\* A run of len blocks; NULL when avail_nodes_count is 0, and nothing changes.
chunk_allocate_run(len, reg) ==
  LET l == CHOOSE x \in Levels : Pow2[Depth - x] = len IN
  /\ ~gone
  /\ avail_nodes_count[l] # 0
  /\ reg < LeafSize => Cardinality(Marked) < MaxMarked
  /\ \E n \in Choices(l) :
       /\ chunk_allocate_with_node(n, reg)
       /\ live' = live \cup {[block |-> FirstBlock(n), len |-> len, reg |-> reg]}
       /\ taken' = taken \cup BlocksOf(n)
  /\ UNCHANGED <<mapped, gone>>

-----------------------------------------------------------------------------
(***************************************************************************)
(* Climbing the buddy tree                                                 *)
(***************************************************************************)

\* The used node that the climb from block b ends at: it passes free nodes that
\* are left children.  Empty if it is given up before.
Found(b) ==
  {a \in Path(Leaf(b)) :
     /\ buddy_tree[a] = NODE_USED
     /\ \A c \in Path(Leaf(b)) : c > a => buddy_tree[c] = NODE_FREE /\ c % 2 = 0}

\* chunk_get_run_ptr for a pointer into block b: the run it finds, and the region
\* size that selects its bin (reg_size, or run_size when reg_size stays 0).
chunk_get_run_ptrNoReg(b) ==
  {[block |-> b, len |-> NoBlocksOf(n), reg |-> LeafSize * NoBlocksOf(n)] : n \in Found(b)}
chunk_get_run_ptr(b) ==
  {[block |-> b, len |-> NoBlocksOf(n),
    reg |-> IF n = Leaf(b) /\ reg_size_small_medium[b] # REG_MARK_BAD_VALUE
            THEN reg_size_small_medium[b]
            ELSE LeafSize * NoBlocksOf(n)] : n \in Found(b)}

\* The tree with n and the depleted nodes around it merged.
coalesce_depleted_nodes(n) ==
  Merge([buddy_tree EXCEPT ![n] = NODE_DEPLETED], n, {NODE_DEPLETED}, NODE_DEPLETED)

\* coalesce_unmapped_nodes: top and the unmapped nodes around it merged.
coalesce_unmapped_nodesNot(tree, top) == tree
coalesce_unmapped_nodes(tree, top) == Merge(tree, top, {NODE_UNMAPPED}, NODE_UNMAPPED)

\* chunk_deallocate_run: the merged range is unmapped at once; the result tells
\* whether the merging reached the root.
chunk_deallocate_run(b) ==
  /\ ~gone
  /\ \E n \in Found(b) :
       LET depleted == coalesce_depleted_nodes(n)
           top == MergeTop(buddy_tree, n, {NODE_DEPLETED})
           unmapped == [depleted EXCEPT ![top] = NODE_UNMAPPED]
       IN /\ mapped' = mapped \ BlocksOf(top)
          /\ buddy_tree' = coalesce_unmapped_nodes(unmapped, top)
          /\ gone' = (MergeTop(unmapped, top, {NODE_UNMAPPED}) = 1)
  /\ live' = {run \in live : run.block # b}
  /\ UNCHANGED <<jump, reg_size_small_medium, taken>>

chunk_is_unmapped == buddy_tree[1] = NODE_UNMAPPED

-----------------------------------------------------------------------------
\* The arena returns a run that it has.
Next ==
  \/ \E q \in Requests : chunk_allocate_run(q[1], q[2])
  \/ \E run \in live : chunk_deallocate_run(run.block)
  \/ gone /\ UNCHANGED vars

Spec == Init /\ [][Next]_vars

-----------------------------------------------------------------------------
(***************************************************************************)
(* Properties                                                              *)
(***************************************************************************)

\* The variables have the types of chunk_t.
TypeOK ==
  /\ buddy_tree \in [Nodes -> {NODE_FREE, NODE_USED, NODE_DEPLETED, NODE_UNMAPPED}]
  /\ next \in [Nodes -> Nat] /\ prev \in [Nodes -> Nat]
  /\ jump_tree_first_index \in [Levels -> Nat]
  /\ avail_nodes_count \in [Levels -> Nat]
  /\ reg_size_small_medium \in
       [Blocks -> (RegSizes \cap 1 .. LeafSize - 1) \cup {REG_MARK_BAD_VALUE}]
  /\ mapped \subseteq Blocks /\ gone \in BOOLEAN

\* On each level, the nodes none of whose blocks was ever handed out.
FreeNodes(l) == {n \in NodesOf(l) : BlocksOf(n) \cap taken = {}}

\* The jump lists, updated distance by distance on every level an allocation
\* touches, hold exactly the nodes that can be allocated: chunk_allocate_run
\* returns NULL only if no node of the size is free, every free node can be
\* chosen, and the two directions of a list agree.
ListsExact ==
  \A l \in 1 .. Depth :
    /\ avail_nodes_count[l] = Cardinality(FreeNodes(l))
    /\ FreeNodes(l) # {} => Choices(l) = FreeNodes(l)
    /\ FreeNodes(l) = {} => jump_tree_first_index[l] = 0
    /\ \A n \in FreeNodes(l) : next[n] # 0 => prev[n + next[n]] = next[n]

\* A block is unmapped exactly when its run was returned: no run in use and no
\* block that may still be handed out loses its memory, and none is kept.
MappedExact ==
  mapped = (Blocks \ taken) \cup UNION {run.block .. run.block + run.len - 1 : run \in live}

\* chunk_get_run_ptr finds a run from its first block, with the region size it
\* was allocated for, and finds nothing from a block where no run in use starts;
\* so chunk_deallocate_run never ends in "No run found".
LookupExact ==
  \A b \in Blocks : chunk_get_run_ptr(b) = {run \in live : run.block = b}

\* The chunk is a space of blocks handed out once, which goes away when all of
\* them were returned.
Space == INSTANCE RunSpace
ImplementsRunSpace == Space!Spec

\* arena_deallocate_chunk asserts chunk_is_unmapped: the metadata is dropped in
\* the very step that unmaps the last block, and in no other.
GoneWhenUnmapped == gone = chunk_is_unmapped /\ gone = (mapped = {})
=============================================================================
