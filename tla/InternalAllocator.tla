------------------------- MODULE InternalAllocator -------------------------
(***************************************************************************)
(* The allocator of metadata (internal_allocator.c): a buddy tree over the *)
(* memory of one mapping, from which the arena takes run_t, chunk_t and    *)
(* huge_chunk_t.  Unlike a chunk it reuses what is freed.                  *)
(*                                                                         *)
(* internal_alloc searches the tree depth first with a cursor (idx, state, *)
(* cur_size, ptr) that it updates at every move, and splits nodes on its   *)
(* way; one iteration of its loop is one step here.  So is one iteration   *)
(* of the loop of internal_free that looks for the node of a pointer.      *)
(* Only the states of nodes whose ancestors are split are meaningful: the  *)
(* other items keep what was written there last.                           *)
(*                                                                         *)
(* A definition like GoUpNoPtr is a faulty variant of the one              *)
(* that follows it, which some property has to reject.                     *)
(***************************************************************************)
EXTENDS BuddyTree

CONSTANTS
  LeastSize,   \* INTERNAL_ALLOC_LEAST_REGION_SIZE_BYTES
  Sizes        \* the sizes the arena asks for

MemSize == NoBlocks * LeastSize   \* sizeof(ia->memory)

\* The largest metadata, chunk_t, fits into half of the memory.
ASSUME SizesAssumption ==
  /\ LeastSize \in Nat \ {0} /\ LeastSize % 2 = 0
  /\ Sizes \subseteq 1 .. MemSize \div 2

VARIABLES
  buddy_tree,
  free_mem,
  pc,          \* "idle", "search" (internal_alloc), "locate" (internal_free)
  size,        \* argument of internal_alloc
  dest,        \* argument of internal_free
  idx, state, cur_size, ptr,   \* the cursor
  live         \* history: the allocations, <<offset, size asked for>>

cursor == <<idx, state, cur_size, ptr>>
vars == <<buddy_tree, free_mem, pc, size, dest, cursor, live>>

NODE_FULL == "NODE_FULL"
NODE_SPLIT == "NODE_SPLIT"
NODE_USED == "NODE_USED"
NODE_FREE == "NODE_FREE"

NodeSize(n) == NoBlocksOf(n) * LeastSize

\* The values that the arguments and the cursor have between two calls.
Rest == /\ pc' = "idle" /\ size' = 0 /\ dest' = 0
        /\ idx' = 1 /\ state' = "DOWN" /\ cur_size' = MemSize /\ ptr' = 0

\* internal_allocator_init on a fresh mapping, whose zero bytes are NODE_FULL.
Init ==
  /\ buddy_tree = [n \in Nodes |-> IF n = 1 THEN NODE_FREE ELSE NODE_FULL]
  /\ free_mem = MemSize
  /\ pc = "idle" /\ size = 0 /\ dest = 0
  /\ idx = 1 /\ state = "DOWN" /\ cur_size = MemSize /\ ptr = 0
  /\ live = {}

-----------------------------------------------------------------------------
(***************************************************************************)
(* internal_alloc                                                          *)
(***************************************************************************)

internal_alloc(sz) ==
  /\ pc = "idle"
  /\ free_mem >= sz    \* otherwise NULL at once
  /\ pc' = "search" /\ size' = sz
  /\ UNCHANGED <<buddy_tree, free_mem, dest, cursor, live>>

\* The node at the cursor is the smallest that holds the request.
Fits == cur_size \div 2 < size /\ size <= cur_size

\* The cursor moves to the parent.
GoUpNoPtr ==
  /\ state' = IF IS_RIGHT_CHILD(idx) THEN "UP_RIGHT" ELSE "UP_LEFT"
  /\ UNCHANGED ptr
  /\ idx' = PARENT(idx)
  /\ cur_size' = cur_size * 2
GoUp ==
  /\ state' = IF IS_RIGHT_CHILD(idx) THEN "UP_RIGHT" ELSE "UP_LEFT"
  /\ ptr' = IF IS_RIGHT_CHILD(idx) THEN ptr - cur_size ELSE ptr
  /\ idx' = PARENT(idx)
  /\ cur_size' = cur_size * 2

GoLeft ==
  /\ idx' = LEFT_CHILD(idx)
  /\ cur_size' = cur_size \div 2
  /\ UNCHANGED <<state, ptr>>

coalesce_full_nodes(tree, n) == Merge(tree, n, {NODE_FULL, NODE_USED}, NODE_FULL)

\* The node at the cursor is allocated and internal_alloc returns ptr.
TakeAskedSize ==
  /\ buddy_tree' = coalesce_full_nodes([buddy_tree EXCEPT ![idx] = NODE_USED], idx)
  /\ free_mem' = free_mem - size
  /\ live' = live \cup {<<ptr, size>>}
  /\ Rest
Take ==
  /\ buddy_tree' = coalesce_full_nodes([buddy_tree EXCEPT ![idx] = NODE_USED], idx)
  /\ free_mem' = free_mem - cur_size
  /\ live' = live \cup {<<ptr, size>>}
  /\ Rest

\* A free node that is too large is split and the search goes on to the left.
SplitNoRight ==
  /\ buddy_tree' = [buddy_tree EXCEPT ![idx] = NODE_SPLIT,
                                      ![LEFT_CHILD(idx)] = NODE_FREE]
  /\ GoLeft
Split ==
  /\ buddy_tree' = [buddy_tree EXCEPT ![idx] = NODE_SPLIT,
                                      ![LEFT_CHILD(idx)] = NODE_FREE,
                                      ![RIGHT_CHILD(idx)] = NODE_FREE]
  /\ GoLeft

\* The search came back to the root from the right child and returns NULL.
ExhaustedNever == FALSE
Exhausted == idx = 1 /\ state = "UP_RIGHT"

SearchFails ==
  /\ pc = "search" /\ Exhausted
  /\ Rest
  /\ UNCHANGED <<buddy_tree, free_mem, live>>

\* A leaf, reached from above: take it or go up.
VisitLeaf ==
  /\ pc = "search" /\ ~Exhausted /\ IS_LEAF(idx)
  /\ \/ buddy_tree[idx] = NODE_FREE /\ Take
     \/ /\ buddy_tree[idx] = NODE_USED /\ GoUp
        /\ UNCHANGED <<buddy_tree, free_mem, pc, size, dest, live>>

\* An inner node, reached from above.
VisitInner ==
  /\ pc = "search" /\ ~Exhausted /\ ~IS_LEAF(idx) /\ state = "DOWN"
  /\ \/ buddy_tree[idx] = NODE_FREE /\ Fits /\ Take
     \/ /\ buddy_tree[idx] = NODE_FREE /\ ~Fits /\ Split
        /\ UNCHANGED <<free_mem, pc, size, dest, live>>
     \/ /\ buddy_tree[idx] = NODE_SPLIT /\ ~Fits /\ GoLeft
        /\ UNCHANGED <<buddy_tree, free_mem, pc, size, dest, live>>
     \/ /\ \/ buddy_tree[idx] = NODE_SPLIT /\ Fits
           \/ buddy_tree[idx] \in {NODE_USED, NODE_FULL}
        /\ GoUp
        /\ UNCHANGED <<buddy_tree, free_mem, pc, size, dest, live>>

\* An inner node, reached from its left child: visit the right one.
ComeUpLeftAgain ==
  /\ pc = "search" /\ ~IS_LEAF(idx) /\ state = "UP_LEFT"
  /\ cur_size' = cur_size \div 2
  /\ state' = "DOWN"
  /\ idx' = LEFT_CHILD(idx)
  /\ UNCHANGED <<buddy_tree, free_mem, pc, size, dest, ptr, live>>
ComeUpLeftSwapped ==
  /\ pc = "search" /\ ~IS_LEAF(idx) /\ state = "UP_LEFT"
  /\ ptr' = ptr + cur_size
  /\ cur_size' = cur_size \div 2
  /\ state' = "DOWN"
  /\ idx' = RIGHT_CHILD(idx)
  /\ UNCHANGED <<buddy_tree, free_mem, pc, size, dest, live>>
ComeUpLeft ==
  /\ pc = "search" /\ ~IS_LEAF(idx) /\ state = "UP_LEFT"
  /\ cur_size' = cur_size \div 2
  /\ ptr' = ptr + cur_size'
  /\ state' = "DOWN"
  /\ idx' = RIGHT_CHILD(idx)
  /\ UNCHANGED <<buddy_tree, free_mem, pc, size, dest, live>>

\* An inner node, reached from its right child: go up.
ComeUpRight ==
  /\ pc = "search" /\ ~Exhausted /\ ~IS_LEAF(idx) /\ state = "UP_RIGHT"
  /\ GoUp
  /\ UNCHANGED <<buddy_tree, free_mem, pc, size, dest, live>>

-----------------------------------------------------------------------------
(***************************************************************************)
(* internal_free                                                           *)
(***************************************************************************)

\* Full ancestors of the node at which merging stopped become split.
mark_nodes_split(tree, n) ==
  LET full == {a \in Path(n) : \A c \in Path(n) : c >= a => tree[c] = NODE_FULL}
  IN [m \in Nodes |-> IF m \in full THEN NODE_SPLIT ELSE tree[m]]

coalesce_free_nodesNoMark(tree, n) == Merge(tree, n, {NODE_FREE}, NODE_FREE)
coalesce_free_nodes(tree, n) ==
  LET top == MergeTop(tree, n, {NODE_FREE})
      merged == Merge(tree, n, {NODE_FREE}, NODE_FREE)
  IN IF top = 1 THEN merged ELSE mark_nodes_split(merged, PARENT(top))

internal_free(p) ==
  /\ pc = "idle"
  /\ pc' = "locate" /\ dest' = p
  /\ UNCHANGED <<buddy_tree, free_mem, size, cursor, live>>

AtDest == ptr = dest /\ buddy_tree[idx] = NODE_USED

\* One step down towards the node of dest; "No chunk found" at a leaf.
Descend ==
  /\ pc = "locate" /\ ~AtDest /\ ~IS_LEAF(idx)
  /\ cur_size' = cur_size \div 2
  /\ IF dest >= ptr + cur_size'
     THEN idx' = RIGHT_CHILD(idx) /\ ptr' = ptr + cur_size'
     ELSE idx' = LEFT_CHILD(idx) /\ UNCHANGED ptr
  /\ UNCHANGED <<buddy_tree, free_mem, pc, size, dest, state, live>>

Release ==
  /\ pc = "locate" /\ AtDest
  /\ buddy_tree' = coalesce_free_nodes([buddy_tree EXCEPT ![idx] = NODE_FREE], idx)
  /\ free_mem' = free_mem + cur_size
  /\ live' = {a \in live : a[1] # dest}
  /\ Rest

-----------------------------------------------------------------------------
Step == \/ SearchFails \/ VisitLeaf \/ VisitInner \/ ComeUpLeft \/ ComeUpRight
        \/ Descend \/ Release

\* The arena frees what it allocated.
Next ==
  \/ \E sz \in Sizes : internal_alloc(sz)
  \/ \E a \in live : internal_free(a[1])
  \/ Step

Spec == Init /\ [][Next]_vars

\* A call, once made, goes on: there is one thread and nothing to wait for.
FairSpec == Spec /\ WF_vars(Step)

-----------------------------------------------------------------------------
(***************************************************************************)
(* Properties                                                              *)
(***************************************************************************)

\* The variables have the types of int_alloc_t and of the locals of the loops;
\* the cursor stays in the tree.
TypeOK ==
  /\ buddy_tree \in [Nodes -> {NODE_FULL, NODE_SPLIT, NODE_USED, NODE_FREE}]
  /\ free_mem \in 0 .. MemSize
  /\ pc \in {"idle", "search", "locate"}
  /\ size \in Sizes \cup {0} /\ dest \in 0 .. MemSize - 1
  /\ idx \in Nodes /\ state \in {"DOWN", "UP_LEFT", "UP_RIGHT"}
  /\ cur_size \in 1 .. MemSize /\ ptr \in 0 .. MemSize - 1

\* The smallest node size that holds sz bytes, and the blocks of an allocation.
Rounded(sz) ==
  First({NodeSize(n) : n \in {m \in Nodes : NodeSize(m) >= sz}})
BlocksAt(a) == a[1] \div LeastSize .. (a[1] + Rounded(a[2]) - 1) \div LeastSize

\* Two pieces of metadata never share a byte, and none leaves the memory.
MetadataDisjoint ==
  /\ \A a \in live : a[1] % LeastSize = 0 /\ BlocksAt(a) \subseteq Blocks
  /\ \A a, b \in live : a # b => BlocksAt(a) \cap BlocksAt(b) = {}

\* A node whose state means something: all its ancestors are split or full.
Visible(n) == \A a \in Path(n) \ {n} : buddy_tree[a] \in {NODE_SPLIT, NODE_FULL}

Occupied == UNION {BlocksAt(a) : a \in live}

\* Between calls the tree is the canonical one for what is allocated: used nodes
\* are the allocations, a node is free iff nothing of it is allocated (freeing
\* merged it as far as possible), full iff nothing of it is free.  So a search
\* neither misses room nor enters a leaf in a state that ends in se_error.
TreeExact ==
  pc = "idle" =>
    \A n \in {m \in Nodes : Visible(m)} :
      /\ buddy_tree[n] = NODE_USED <=> \E a \in live : BlocksAt(a) = BlocksOf(n)
      /\ buddy_tree[n] = NODE_FREE <=> BlocksOf(n) \cap Occupied = {}
      /\ buddy_tree[n] = NODE_FULL =>
           BlocksOf(n) \subseteq Occupied /\ ~\E a \in live : BlocksAt(a) = BlocksOf(n)

\* free_mem, by which internal_alloc gives up without a search, is what is not
\* allocated, during a call as well.
FreeMemExact == free_mem = MemSize - LeastSize * Cardinality(Occupied)

\* The cursor, moved by halving, doubling and adding, always describes the node
\* it is at; the pointer returned is the address of that node.
CursorExact == cur_size = NodeSize(idx) /\ ptr = FirstBlock(idx) * LeastSize

\* The search fails only if there is no aligned free range for the request.
FailsOnlyIfFull ==
  [][SearchFails => \A n \in Nodes : NodeSize(n) = Rounded(size) =>
                                       BlocksOf(n) \cap Occupied # {}]_vars

\* Every call returns: the search visits each node a bounded number of times, and
\* the way to an allocated node does not end in "No chunk found".
CallReturns == pc # "idle" ~> pc = "idle"
=============================================================================
