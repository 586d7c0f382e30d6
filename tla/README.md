# sealloc in TLA+

A verification project for sealloc, a malloc replacement that keeps its metadata
away from the memory it hands out, hands every region out only once and chooses
regions at random.  The modules are translated from `src/src/*.c`; "the map"
below is the table in `PROJECT.json` that gives the source lines of every
definition.

## 1. The system

| part | state it keeps | operations | uses |
|---|---|---|---|
| malloc API (`malloc_api.c`) | one global arena | malloc, free, calloc, realloc | Sealloc |
| Sealloc (`sealloc.c`) | none | malloc, free, realloc, calloc: dispatch on the size class, locate the metadata of a pointer | arena, bin, run, chunk |
| Arena (`arena.c`) | lists of chunks, metadata mappings and huge mappings; the bins; three probe addresses; the program break | allocate and drop chunks, supply runs, metadata, huge mappings | platform, chunk, internal allocator |
| Bin (`bin.c`) | active and inactive list of runs, number of active runs, free regions | add, pick, retire, delete and find a run | list |
| Run (`run.c`) | two-bit state per region, generator, current index, counters | init, allocate, validate, deallocate | random numbers |
| Chunk (`chunk.c`) | buddy tree; jump tree with first index and count per level; region size per leaf | allocate and return the memory of a run, find the run of a pointer | platform |
| Internal allocator (`internal_allocator.c`) | buddy tree over 8 MB, free memory | alloc, free | |
| List (`container_ll.c`), size classes (`size_class.c`), generator table (`generator.h`) | none of their own | add, delete, find; round up, index | |
| Platform, random numbers, logging | | system calls, a generator, output | |

A malloc of a small, medium or large size goes Sealloc -> bin; when the bin has
too few free regions to choose from (`BIN_MINIMUM_REGIONS`) a run is added: a
chunk gives memory, the internal allocator gives a `run_t`.  A free goes the other
way: chunk and bin are found from the address, the run marks the region, and when
every region of a run was handed out and returned the run is deleted and its
memory unmapped, and with the last run of a chunk the chunk.

There is one thread, and no message or timeout.  What is hard here is that the
same facts are kept in several places and updated one by one over long sequences
of calls: bitmap, counters and lists of a bin; buddy tree, jump lists and the
kernel's view of a chunk; cursor and tree of the internal allocator.  A test sees
few of those sequences, and each random draw multiplies them.  The hazards, at
the lines where they bite, are listed in `PROJECT.json`.

What makes each part correct:

* **run and bin**: no region is handed out twice while its run is mapped; free
  succeeds for exactly the live regions; a run is unmapped exactly when all its
  regions were used and returned; counters and lists agree with the bitmaps; there
  is always enough to choose from; adjacent allocated regions differ in their tag;
* **chunk**: runs never overlap; a run's memory stays mapped while the run is in
  use and not longer; every free node of a level can be chosen; the lookup finds
  the run and its region size; the chunk is dropped when all is unmapped;
* **arena**: its lists account for exactly the pages the kernel mapped for it;
  metadata is neither leaked nor shared; keys are unique in a list; with memory left a
  call returns;
* **list**: the links are those of one sequence per list in both directions, and
  a lookup makes each list a map;
* **size classes**: a size gets the least class that holds it, a class one bin, and
  a run leads back to its bin;
* **Sealloc**: the program's pointers own disjoint memory of the size asked for;
  free and realloc accept exactly those pointers; realloc copies what it should;
* **internal allocator**: pieces of metadata never overlap; the tree is canonical
  between calls; a search fails only when there is no room, and always ends.

## 2. The modules

| module | what it is |
|---|---|
| `Run` | operators on a `run_t`: `run_init`, `run_allocate`, `run_validate_ptr`, `run_deallocate`, `run_is_depleted`, `run_is_freeable` |
| `Bin` | malloc and free on one bin, from those operators; properties and the inductive invariant `IInv` |
| `RegionHeap` | what a bin promises: live regions, regions given out, process status |
| `BuddyTree` | the array tree that chunk and internal allocator share, and the climbing merge loop |
| `Chunk` | `chunk_allocate_run`, `chunk_deallocate_run`, `chunk_get_run_ptr` |
| `RunSpace` | what a chunk promises: aligned ranges of blocks taken once |
| `InternalAllocator` | `internal_alloc` and `internal_free`, one loop iteration per step |
| `ContainerLL` | the linked list, with its links |
| `Index` | what the lists promise: each a map from keys to items |
| `SizeClass` | operators: rounding, indices, bins, run sizes, leaf marks, with wrapping arithmetic |
| `Generators` | the generator table, and what can be drawn from it |
| `SizePath` | the way of one size from malloc or realloc to the run, its generator, and the lookup in free |
| `Arena` | `arena_morecore`, `platform_map_probe`, metadata roots, chunks and huge mappings over an address space |
| `Sealloc` | malloc, free, realloc and calloc over chunks, runs, bins and huge mappings |
| `Allocator` | what malloc, free, realloc and calloc promise the program |
| `BuddyTreeProofs` | lemmas: quotient and remainder, induction over the naturals, powers of two, which the other proof modules take from an instance of it; paths, blocks and merging in the array tree |
| `BinProofs`, `ChunkProofs`, `InternalAllocatorProofs`, `ContainerLLProofs`, `ArenaProofs`, `SizePathProofs`, `SeallocProofs` | one proof module per component |
| `MCBin`, `MCChunk`, `MCInternalAllocator`, `MCContainerLL`, `MCSizePath`, `MCArena`, `MCSealloc` | instances for TLC |

How they fit together: `Sealloc` composes the parts at the level of what they
promise.  A chunk is `RunSpace`, which `Chunk` implements; the regions of a run are
`RegionHeap`, which `Bin` with `Run` implements; a list is `Index`, which
`ContainerLL` implements; a mapping lies wherever the address space is free, as in
`Arena`; the size arithmetic is `SizeClass` itself.

**Bin.**  `runs` maps the address of a run to its record; `active` and `inactive`
are the two lists as sets of addresses, because runs are picked by a random index
and found by address.  A malloc is up to four kinds of steps (`Malloc`,
`SupplyRun` once per iteration of `arena_supply_runs`, `AddRun`, `Allocate`), so
that the state between them can be talked about; a free is one (`FreeValid` with
the deletion of a freeable run, `FreeInvalid` for the abort).  Pointers are
address and offset, and every offset of every run may be freed.  Random draws are
choices.  `live` and `given` are history variables.  The address of the tail of a
run has a bitmap item beyond the last region; where `run_init` does not clear it,
its value is any of the three.  `OutOfMemory` is the endless retry of
`arena_morecore`: the call never returns.

**Chunk.**  A call is one step.  The loop that unlinks a node, its ancestors and
its subtree is modelled by the set of nodes that leave each level (`Leaving`) and
by the new distances and first index of that level (`NextAfter`, `PrevAfter`,
`FirstAfter`); the choice of a node follows the random tries and the jumps along
the list.  `mapped` is the kernel's view.

**InternalAllocator.**  `idx`, `state`, `cur_size` and `ptr` are the locals of the
C function; a step is one iteration.  Tree items below an ancestor that is not
split keep their old values, as in the array.  Requests are at most half of the
memory: the largest metadata (`chunk_t`, about 22 KB of 8 MB) is far below, and
above it the search would climb past the root.

**ContainerLL.**  `ll`, `fd`, `bk` and `key` are the C fields.  `Add` is `ll_add` for
an item that is in no list, `Del` is `ll_del`, and `Rekey` is the assignment by
which `arena_reallocate_huge_mapping` changes the key of a linked entry.  `order` is
a history variable.

**SizeClass, SizePath.**  The operators are the macros and functions of
`size_class.h` and `size_class.c`; `npow2` works on sets of bits.  `SizePath` takes
one size through them, one step per call on the way.  The constants are parameters,
of which `SizeClassAssumption` states what the headers fix; the run `size_classes` has
those of the code.  `WordBits` is the width of `unsigned`, in which classes are computed,
and `SizeBits` that of `size_t`, in which sizes are asked for and rounded to pages.  TLC
computes with 32-bit integers, so in the run they are 24 and 28.

**Generators.**  The rows of the table are written as what they list: the numbers
up to a last one that no listed prime divides.  `run_init` of `SizePath` draws an
element below the stored length, which reads zeroes if the length exceeds the row.
As the draw depends on the region size alone, it is made for one size of each class.

**Arena.**  Addresses are pages.  One `mmap` is one step (`Placed`, `Occupied`,
`Refused`, `Relocated` for the kernel that ignores `MAP_FIXED_NOREPLACE`), so that an
endless retry is a behaviour; `CeilingHit` draws a probe again.  The kernel (`mmap`)
is modelled from how `platform.c` uses it: occupied, out of memory, below
`mmap_min_addr`, zero length, or mapped.  A root of the internal allocator is a set
of slots, a chunk is the pages left of it.

**Sealloc.**  A call is one step; the operators give the set of outcomes over all
random choices.  `chunks` keeps the order of the list, because a run goes to the
first chunk with room and a lookup tries one chunk after the other.  The program
may pass any address of `Addresses` to free and realloc.  A run keeps the bitmap items
that are or were ALLOC (`given`, `freed`); items that `run_init` does not clear
(`StaleItems`) may be among them from the start, so that free may accept the tail of a
run, as in `Bin`.  The classes of the run `sealloc` have no tail.  A call for which no
memory can be mapped never returns ("exhausted"); the division by zero of a realloc
to size 0 ends the process ("crashed"), as it does on x86-64; on AArch64 the
quotient would be zero.

A definition such as `run_allocateNoMark` in front of `run_allocate` is a faulty
variant; `PROJECT.json` ("mutants") pairs each with the property that rejects it.

## 3. What TLC checks

| run | instance | result |
|---|---|---|
| `bin_small` | 3 runs of 3 regions with a tail, minimum 4; 144 497 states | `TypeOK`, `IInv`, `CountersAgree`, `ListsAgree`, `EnoughChoice`, `LiveAccepted`, `FreeAcceptsOnlyLive`; implements `RegionHeap` |
| `bin_tags` | 2 runs of 3 regions, tags 0..3, minimum 2; 748 677 states up to symmetry | `AdjacentTagsDiffer`, `SuppliedOnce` |
| `bin_tail` | 1 run of 4 regions and a tail | `FreeAcceptsOnlyLive` is **violated** |
| `chunk_deep` | 8 blocks, 4 levels, runs of 1, 2 and 4 blocks, at most 2 leaves of small regions; 206 841 states | `TypeOK`, `ListsExact`, `MappedExact`, `LookupExact`, `GoneWhenUnmapped`; implements `RunSpace` |
| `internal` | 8 blocks, requests of 1, 2 and 4 of them; 73 497 states | `TypeOK`, `MetadataDisjoint`, `TreeExact`, `FreeMemExact`, `CursorExact`, `FailsOnlyIfFull`, `CallReturns` |
| `list_links` | 4 items, 2 lists, 5 keys; 133 states up to symmetry | `TypeOK`, `LinksExact`; implements `Index` |
| `size_classes` | the real constants and generators, every size to 16 400 and around each class; 168 340 states | `LeastClass`, `BinExact`, `RunFits`, `LookupExact`, `VisitsAll` |
| `size_realloc` | realloc to size 0 | `BinPrecondition` is **violated** |
| `arena` | 6 pages, one foreign, at most 5 mapped; every call, kernel may refuse and relocate, program break redrawn; 202 714 states | `TypeOK`, `MappedExact`, `KeysUnique`, `MetadataExact` |
| `arena_live` | 8 pages below the ceiling, 6 of them mappable, room for every call; program break redrawn; 12 275 states | `ReturnsOrUnmappable` |
| `arena_no_memory` | 4 pages of memory | `CallReturns` is **violated** |
| `sealloc` | 2 places whose chunks overlap, a class of each kind and huge sizes; 7 286 states | `MappedExact`, `AcceptsExactly`, `CopyExact`; implements `Allocator` |

**Bounds.**  With three runs and a minimum above one run's regions, the first
malloc supplies two runs, a later one adds a third, runs retire in every order
and are deleted and mapped again at the same address, and the address space runs
out.  Runs are interchangeable, hence the symmetry in `bin_small` and `bin_tags`.  In
`bin_tags` three regions and four tags leave one tag for a middle region that is
allocated between two others.  The minimum of two is the least at which
`SuppliedOnce` says something; with two runs a bin down to one region is refilled
(`AddRun`), runs are deleted and mapped again, and only then is there no memory.  Three levels
with lists let a chunk unlink a subtree of two levels with neighbours on both
sides; `MaxMarked` bounds the leaves of small regions, so that they lie among large
ones in every way without every leaf having two kinds.  Eight blocks give the
internal allocator requests on three levels, splits of splits and merges of merges.

Four items and two lists have a first, two middle and a last item, and moves between
lists; with a fifth key an entry can always be given another one.  The arena has too
few pages for everything it is asked: probes hit foreign pages, ceilings and their own mappings, roots fill up,
chunks are unmapped in every order and their addresses used again.  `arena_live` has
the layout of Linux on x86-64: the last page below `MAX_USERSPACE_ADDR64` cannot be
mapped, and neither can page 0; the chunk probe may be drawn
there, huge and metadata probes may come to either end, and the break starts too small.  In
`sealloc` the places are one leaf apart and chunks two leaves long, so that a chunk
or a huge mapping comes to lie in the unmapped half of an older chunk, which is
still listed.  Runs hold four small, two medium or one large region: a run is
shared, retired with live regions, and unmapped; a realloc may retire the run it
then frees from.
`MaxItems` and `MaxLive` bound what is held at a time, not the number of calls.

**Fairness.**  `internal`: weak fairness of `Step`, the next iteration of a
call in progress.  One thread runs the call and nothing in it waits.
`arena_live` and `arena_no_memory`: weak fairness of `morecore` for the same reason, strong fairness of
each mappable page a probe can be redrawn to, and of a redrawn program break of more
than 44 bits.  The generators are a counter followed by a bijection, and nothing else
draws from them during the call, so what is drawn again and again takes every value.
Fairness of the draws that cannot be mapped is not assumed: a call that needs one
to come to its end would be an error.

**Deadlock** is checked in every run: a state in which the code would stop in
`se_error` or on an assertion has no successor in the models and would show.

### Disagreements found

* **The tail of a run** (`bin_tail`).  `run_validate_ptr` (run.c:197-205) computes
  the bitmap item of any aligned address of the run.  If the region size does not
  divide the run size, the tail's item is one past the last region's; if besides
  the number of regions is a multiple of four, that item is in a byte that
  `run_init` does not clear, so it holds what earlier metadata left.  If that reads
  as allocated, free accepts an address malloc never returned and counts it,
  against run.h:70 ("Validate if ptr points to allocated region.").  Region sizes
  80, 240, 272, 288, 336, 368, 400 and 448 are exposed.  All other sizes satisfy the
  hypotheses `BitmapCoversRun` and `BitmapsCoverRuns` of the proofs.
* **realloc to size 0** (`size_realloc`).  malloc replaces size 0, realloc does not;
  the size is rounded to 0 as a large one (sealloc.c:236-239), against arena.h:179
  ("@pre 1 <= reg_size <= LARGE_SIZE_MAX_REGION").  `bin_init` then divides by zero, or
  a 16 KB region is returned if its bin is in use.  A huge mapping is not affected.
* **Out of memory** (`arena_no_memory`).  arena.h says that calls terminate, fail or
  return NULL (lines 87, 135, 208); `arena_morecore` repeats the same `mmap` for ever.
* **Probes no mapping can have** (`arena_live`, where `CallReturns` does not hold).
  `platform_map_probe` compares the probe with the ceiling (platform.c:102, 116), not
  the end of the mapping.  A huge or metadata probe that comes within the length of the
  mapping from the last address gets ENOMEM; the probe does not move, and the call never
  returns although there is memory.  The chunk probe is any 32-bit page (arena.c:41), and
  below `mmap_min_addr` the same happens with EPERM.  Both are rare draws.  What remains
  true is `ReturnsOrUnmappable`: with memory left these two ends of the address space are
  the only places where a call is held up for ever.

Others, without a run:

* Lookup inside a run: chunk.h:142 promises a lookup for a pointer "inside some run";
  chunk.c:413 gives up at a right child, so a run of several blocks is found from its
  first block only, which is what `LookupExact` says.  Such runs hold one region, and
  only its start may be freed: the outcome of free is the same abort.
* The program break: "at least 45 bits" (arena.c:37), but the replacement is masked to
  45 bits and may be any smaller number.
* The gap between huge mappings: "Leave one page space in between" (arena.c:350) holds
  after a mapping, not before one, once the probe was redrawn.
* The bin ranges in the comments of `arena_get_bin_by_reg_size` (32..34 and 35..43) are
  32..35 and 36..42; chunk.h says that a leaf stores reg_size / 16, it stores
  reg_size; arena.h speaks of a guard page behind a chunk, and none is made.

## 4. What is proved

Everything the runs check, except what rests on fairness and the table of generators,
is a theorem for every value of the constants that the assumptions named below allow.

| module | theorems, with the property each states |
|---|---|
| `BinProofs` | `Invariance` (`IInv`), `TypeCorrect` (`TypeOK`), `CountersCorrect` (`CountersAgree`), `ListsCorrect` (`ListsAgree`), `ChoiceCorrect` (`EnoughChoice`), `FreeSound` (`FreeAcceptsOnlyLive`), `FreeComplete` (`LiveAccepted`), `SupplyOnce` (`SuppliedOnce`), `TagsDiffer` (`AdjacentTagsDiffer`), `RefinesHeap` (implements `RegionHeap`) |
| `ChunkProofs` | `TypeCorrect` (`TypeOK`), `ListsCorrect` (`ListsExact`), `MappedCorrect` (`MappedExact`), `LookupCorrect` (`LookupExact`), `GoneCorrect` (`GoneWhenUnmapped`), `RefinesRunSpace` (implements `RunSpace`) |
| `InternalAllocatorProofs` | `TypeCorrect` (`TypeOK`), `CursorCorrect` (`CursorExact`), `DisjointCorrect` (`MetadataDisjoint`), `TreeCorrect` (`TreeExact`), `FreeMemCorrect` (`FreeMemExact`), `FailsCorrect` (`FailsOnlyIfFull`) |
| `ContainerLLProofs` | `TypeCorrect` (`TypeOK`), `LinksCorrect` (`LinksExact`), `RefinesIndex` (implements `Index`) |
| `ArenaProofs` | `TypeCorrect` (`TypeOK`), `KeysCorrect` (`KeysUnique`), `MappedCorrect` (`MappedExact`), `MetadataCorrect` (`MetadataExact`) |
| `SizePathProofs` | `LeastClassCorrect` (`LeastClass`), `BinCorrect` (`BinExact`), `RunFitsCorrect` (`RunFits`), `LookupCorrect` (`LookupExact`) |
| `SeallocProofs` | `MappedCorrect` (`MappedExact`), `AcceptsCorrect` (`AcceptsExactly`), `CopyCorrect` (`CopyExact`), `RefinesAllocator` (implements `Allocator`) |

Each of these modules has a theorem `Invariance` for an inductive invariant of its
own, `IInv` (in `SizePathProofs`, `PathInv`), from which the others follow.

### Bin

**Assumptions.**  `SizeAssumption` (a run holds at least one region),
`GeneratorAssumption` (a walk of a run visits no region twice: what generator.h is
generated for, and what `VisitsAll` checks of the real table), `TagAssumption` (a
tag is left after excluding zero and two neighbours; sixteen on the hardware),
`MinAssumption`, `KeysAssumption` (finitely many addresses).  TLC evaluates the
assumptions of every module in the runs.  Every theorem but `TagsDiffer` has the
hypothesis `BitmapCoversRun`: `run_init` clears the item of every offset of a run.
`bin_tail` shows what happens without.

**Argument.**  The counters are not inductive: `navail` stays right only if the
next region is free, and that depends on the whole walk.  `WalkInv` says that for
some start s the first `Elems - navail` regions of s + gen, s + 2 gen, ... are
those not free; `GeneratorAssumption` then gives that the next one is free
(`RunAllocate`).  `HistoryInv` ties the history variables to the bitmaps, which
yields both the counter of freed regions and the refinement.  `StepInv` says what
each step of malloc still has to add; with `CeilDiv` the minimum is reached after
one more run.  One lemma per action (`NewRunInv`, `AllocateInv`, `FreeValidInv`)
shows that the metadata stays consistent and what the action does to the history.
The tags need only that a region has one of the tags `TagChoices` left for it when
it was allocated, and that its neighbours choose later with regard to it.

### The tree in an array

`BuddyTreeProofs` has what the two users of the tree need.  `Pow2` is the power
function by recursion; `Pow2Def` shows that it is one, `Pow2Sum` and
`Pow2Monotone` the rest.  `Parent`, `Children`, `PathStep`, `PathLinear` and
`PathGap` describe paths, `BlocksParent`, `BlocksPath` and `BlocksOverlap` the blocks
(two nodes that share a block lie on one path), and `MergeFacts` says where the
coalescing loop stops.  `NodeInduction` goes down the tree, `NodeInductionUp` up.

### Chunk

**Assumptions.**  `SizesAssumption`: the region sizes are below a leaf or a leaf
times a power of two smaller than the chunk; a leaf is at most
`REG_MARK_BAD_VALUE` units (16384 in the code), so that no region size is taken for
the missing mark.

**Argument.**  `JumpInv` says that on each level the distances lead from each node
that was never touched to the next and the previous one.  What an allocation
removes from a level is an interval of such nodes (`LeavingIs`: the subtree below,
the ancestors that are still linked above), and `RemoveNext`, `RemovePrev` and
`RemoveFirst` show that joining the ends of an interval keeps the list.  Each node of
a list is reached by as many jumps as there are smaller ones (`JumpedIs`), so the
choices are the free nodes (`ChoicesIs`).  `TreeOK` relates the buddy tree to the
blocks handed out and mapped; it needs `UsedAlone` (below a used node everything is
free, so the climb from a block passes exactly the left children of the run that
starts there, `LeftSpine`), `Covered` and `Merged` (two unmapped children have an
unmapped parent, hence the root is unmapped with the last block, `UnmappedRoot`).
There never is a depleted node between two calls (`NoDepleted`): the first of the two
merging loops of `chunk_deallocate_run` does nothing, and each run is unmapped alone.

### InternalAllocator

**Assumptions.**  `SizesAssumption`: the least size is even, requests are at most
half of the memory.

**Argument.**  `IInv` holds in every iteration.  Every visible node agrees with its
children, except on the way the search is splitting; the search has come by split
nodes; and `free_mem` is what the tree leaves.  They need each other: the cursor
stays in the tree only because the search never goes up from the root, which would
need a full root, and that needs `free_mem` 0, which was tested.  `MetadataDisjoint`
and `TreeExact` follow.  `FailsOnlyIfFull` needs an invariant of the search on top:
all nodes to the left of the cursor that could serve the request were in use.

### ContainerLL

**Assumptions.**  `NULLAssumption`, and `ItemsAssumption`: finitely many items, so
that a walk along a list ends.

**Argument.**  `IInv` adds to `TypeOK` and `LinksExact` that the keys of a list
differ, which the guards give.  `ll_add` and `ll_del` change links of items of one
list only; for the refinement, the walk of `ll_find` visits the list in order.

### Arena

**Assumptions.**  `ArenaAssumption`: sizes are positive, page 0 cannot be mapped
(`MinPage`, Linux's `mmap_min_addr`), foreign pages are in the address space, the
program break is below the ceiling.

**Argument.**  The mappings are a family of disjoint sets of pages, and a listed
chunk has a page left; so a key that the kernel returns is new in its list.
`CallInv` says what a call in progress holds: metadata that no list has yet, and for
a reallocation the old mapping, until the new one is there.

### SizePath

**Assumptions.**  `SizeClassAssumption` is what `size_class.h` and `run.h` fix:
`unsigned` has at most 32 bits, for which `npow2` is written, and `size_t` at least as
many; the classes of each kind end at its largest region and no two kinds overlap; a run
of small or of medium regions is one leaf of whole pages; medium regions are below
`REG_MARK_BAD_VALUE`, since a leaf mark is a `uint16_t`; twice the largest class is at
most 2^`WordBits`.  Rounding to pages or to the alignment of small sizes is by
remainder, which is the mask of the code for a power of two.  `SizesAssumption`: no size
lies in the last page below 2^`SizeBits`, where `ALIGNUP_PAGE` wraps around.  All
theorems have the hypothesis that realloc is not asked for size 0; `size_realloc` shows
what happens then.

**Argument.**  The hard part is `npow2`.  A number below 2^`WordBits` has a top
bit (`TopBit`), and its bits are that one and smaller ones (`BitsTop`).  After a shift by
k, the bits from the top down are set twice as far (`SmearStep`); after 1, 2, 4, 8 and 16
all 32 are (`SmearFull`), and their value is a power of two less one (`ValueFull`).
So `npow2` is the least power of two that is not smaller (`Npow2Least`), and
with `CeilDiv` and `RoundPow` a medium or large size is rounded to the least of its
classes; `AlignedLeast` adds the small ones and the gaps between the kinds.
`BinOrder` and `BinOnto` say that the index of the bin keeps the order of the classes
and leaves none out, so that it is the number of smaller classes (`BinCount`).
`LookupBack`: from the run size and the leaf mark comes the region size again, because
a region below a leaf fits in 16 bits and is not the missing mark.  `PathInv` says what
each stage has computed so far.

### Sealloc

**Assumptions.**  Every theorem has the hypothesis `BitmapsCoverRuns`: no region size that
the program asks for has a run with a tail whose bitmap item `run_init` does not clear
(of the real sizes, eight have; see "The tail of a run").  Without it free accepts
the tail, the counter of freed regions is wrong, and a run may be deleted with regions
in use; what the lists of the bin look like after that is not modelled.
`SizeClassAssumption` as above.  `RequestAssumption`: no size and no
product that the program asks for lies in the last page below 2^`SizeBits` or beyond
it.  `SeallocAssumption`: `NoBlocks`, `MinRegions`, `MaxLive` and the places are
numbers, NULL is no place.  `AddressAssumption`: the program may pass every address at
which a region can start.  What matters here of sizes and runs is not assumed but
follows from an instance of `SizePathProofs` (section "Sizes" of `SeallocProofs`): what
malloc or realloc rounds a size to holds it (`RoundingFacts`); a run is a number of
leaves and holds at least one region, a run of several leaves only one, as a lookup
finds a run from its first leaf (`RunsFacts`).

**Argument.**  `SInv` is about four things that the operations change one at a time:
the set of chunks, the table of runs, the set of huge mappings, the mapped addresses.
It says that the runs of a chunk lie in different blocks it has taken, that the
mapped addresses are the disjoint union of what the chunks have not unmapped and the
huge mappings (`MapInv`), and that there is metadata for exactly the runs of the
chunks (`RunsInv`).  Ranges of chunks may overlap; what is mapped of them may not, and
that is why the first block of at most one run holds a pointer (`LocatedUnique`),
whichever chunk the search comes to first.  `Regions` is the memory in use, and
`LiveInv` relates it to what the program holds; no address is in two regions
(`RegionsDisjoint`).  Each operation then is one of three: it changes no region
(`Same`: new chunks, runs and bins), adds one that overlaps none (`Adds`), or drops the one
at the pointer (`Drops`).  A realloc adds and then drops, with metadata located
before; `Ext` says what an allocation leaves in place, so that the metadata is still
right (`RegularStays`).  `CopyExact` and the refinement follow from the sizes of the
old and the new region.

### Induction, and what is only model-checked

`BuddyTreeProofs` derives induction over the naturals for sets from the library's
well-founded minimum (`LeastNatural`, `NatSetInduction`), a form the provers can
instantiate; so facts about recursive functions (`Pow2`, the sum in `Value`, the walks
along jump lists and linked lists) are proved like the others.

Only model-checked are:

* `CallReturns` of `InternalAllocator` and `ReturnsOrUnmappable` of `Arena`: liveness
  under fairness, out of the prover's reach;
* `VisitsAll` of `SizePath`: it is about the table of generators, which is what it is;
  the run `size_classes` draws every generator of every row, which settles it.
  (`BinProofs` takes it as `GeneratorAssumption`.)

## 5. Not modelled

* Random numbers are choices; logging, statistics, the parsing of the seed, tests
  and scripts keep no state of the allocator.
* Of the platform, `platform_map`, `platform_guard` and `platform_unguard` are not
  called by the allocator; `prctl`, `getrandom` and error strings keep no state.
* Several threads: the arena has no lock and the repository makes no claim for them.
* `munmap` failing ends the process with `se_error` and is left out.
* Products and sizes that wrap in `size_t` (`calloc`, sizes in the last page below
  `SIZE_MAX`): the operators wrap, but the instances stay below, as the repository
  says nothing about such calls.  A huge mapping of length 0, which such a size
  asks for, is in the run `arena`: the call never returns.
* Memory tags beyond `Run` and `Bin`.
