------------------------------ MODULE SizePath ------------------------------
(***************************************************************************)
(* The way of a requested size through the allocator: sealloc_malloc or    *)
(* sealloc_realloc rounds it up and selects a bin, the bin fixes the size  *)
(* of its runs, a chunk remembers the run, run_init draws the generator it *)
(* hands its regions out by, and a later free finds the bin again from the *)
(* run alone.                                                              *)
(*                                                                         *)
(*    asked --Align--> aligned --GetBin--> bin --Place--> placed           *)
(*    asked --Align--> huge       placed --run_init--> drawn               *)
(*                                placed --Lookup--> found                 *)
(*                                                                         *)
(* What run_init draws depends on the region size alone: as a bound it is  *)
(* drawn for one size of each class, and the lookup does not wait for it.  *)
(***************************************************************************)
EXTENDS Generators

CONSTANTS
  MallocSizes,   \* the sizes asked of malloc
  ReallocSizes,  \* the new sizes asked of realloc for a regular region
  Draws          \* the values of splitmix32 that choose where a walk starts

\* A size in the last page below SIZE_WORD has no number of pages that holds it.
ASSUME SizesAssumption == MallocSizes \cup ReallocSizes \subseteq 0 .. SIZE_WORD - PAGE_SIZE

VARIABLES
  stage,
  call,       \* <<function, size>>
  reg_size,   \* the rounded size
  bin,        \* the index of its bin
  run,        \* what the chunk knows: run size and leaf mark
  gen, current_idx,   \* of the run that was drawn
  found       \* the index of the bin that a lookup of the run selects

walk == <<gen, current_idx>>
vars == <<stage, call, reg_size, bin, run, walk, found>>

Size == call[2]

Init ==
  /\ stage = "asked"
  /\ call \in ({"malloc"} \X MallocSizes) \cup ({"realloc"} \X ReallocSizes)
  /\ reg_size = 0 /\ bin = 0 /\ found = 0 /\ gen = 0 /\ current_idx = 0
  /\ run = [size |-> 0, mark |-> REG_MARK_BAD_VALUE]

\* sealloc_malloc replaces size 0, sealloc_realloc does not.
Align ==
  LET n == IF call[1] = "malloc" /\ Size = 0 THEN SMALL_SIZE_MIN_REGION ELSE Size
  IN /\ stage = "asked"
     /\ stage' = IF IS_SIZE_HUGE(n) THEN "huge" ELSE "aligned"
     /\ reg_size' = IF IS_SIZE_HUGE(n) THEN ALIGNUP_PAGE(n) ELSE AlignedSize(n)
     /\ UNCHANGED <<call, bin, run, walk, found>>

GetBin ==
  /\ stage = "aligned"
  /\ bin' = arena_get_bin_by_reg_size(reg_size)
  /\ stage' = "bin"
  /\ UNCHANGED <<call, reg_size, run, walk, found>>

\* arena_allocate_run: bin_init's run size goes to chunk_allocate_run.
Place ==
  /\ stage = "bin"
  /\ run' = [size |-> RunSizeOf(reg_size),
             mark |-> IF RunSizeOf(reg_size) = LARGE_SIZE_MIN_REGION
                      THEN LeafMark(reg_size) ELSE REG_MARK_BAD_VALUE]
  /\ stage' = "placed"
  /\ UNCHANGED <<call, reg_size, bin, walk, found>>

\* A random generator of the class and a random start.
StartOf(r) == r % ElemsOf(reg_size)

run_init ==
  /\ stage = "placed" /\ call = <<"malloc", reg_size>>
  /\ gen' \in GeneratorsOf(reg_size)
  /\ \E r \in Draws : current_idx' = StartOf(r)
  /\ stage' = "drawn"
  /\ UNCHANGED <<call, reg_size, bin, run, found>>

Lookup ==
  /\ stage = "placed"
  /\ found' = arena_get_bin_by_reg_size(LookupSize(run.size, run.mark))
  /\ stage' = "found"
  /\ UNCHANGED <<call, reg_size, bin, run, walk>>

Done == stage \in {"huge", "drawn", "found"} /\ UNCHANGED vars

Next == Align \/ GetBin \/ Place \/ run_init \/ Lookup \/ Done

Spec == Init /\ [][Next]_vars

-----------------------------------------------------------------------------
(***************************************************************************)
(* Properties                                                              *)
(***************************************************************************)

\* The region sizes that the comment at the top of size_class.h lists.
Classes ==
  {i * SMALL_SIZE_CLASS_ALIGNMENT : i \in 1 .. NO_SMALL_SIZE_CLASSES}
  \cup {MEDIUM_SIZE_MIN_REGION * Pow2[i] : i \in 0 .. NO_MEDIUM_SIZE_CLASSES - 1}
  \cup {LARGE_SIZE_MIN_REGION * Pow2[i] : i \in 0 .. NO_LARGE_SIZE_CLASSES - 1}

\* A size is rounded up to the least class that holds it, across the gaps between
\* small, medium and large sizes; what is larger than every class gets the least
\* number of pages that holds it.
LeastClass ==
  /\ stage \in {"aligned", "bin", "placed", "found"} =>
       reg_size = Min({c \in Classes : c >= Size})
  /\ stage = "huge" => /\ \A c \in Classes : c < Size
                       /\ reg_size % PAGE_SIZE = 0
                       /\ Size <= reg_size /\ reg_size < Size + PAGE_SIZE

\* The bins are indexed without gaps and without overlap, in the order of their
\* region sizes: no two classes share a bin (the assertion bin->reg_size ==
\* reg_size at the end of arena_get_bin_by_reg_size), no bin is out of the array.
BinExact ==
  stage = "bin" => bin = Cardinality({c \in Classes : c < reg_size})

\* Every run is a power of two of leaves, as chunk_allocate_run needs, and holds
\* at least one region.
RunFits ==
  stage = "placed" =>
    /\ \E i \in 0 .. NO_LARGE_SIZE_CLASSES - 1 : run.size = LARGE_SIZE_MIN_REGION * Pow2[i]
    /\ ElemsOf(reg_size) >= 1

\* The bin that free finds from the run (leaf mark or run size) is the bin the run
\* was allocated for.
LookupExact == stage = "found" => found = bin

\* Whichever generator and start run_init draws, the walk current_idx + gen,
\* current_idx + 2 * gen, ... (mod elems) of run_allocate reaches every region of
\* the run before it repeats one.  A row of generator.h that does not belong to its
\* size class, or a length that exceeds its row, would break it for some draws only.
VisitsAll ==
  LET elems == ElemsOf(reg_size)
  IN stage = "drawn" =>
       /\ current_idx < elems
       /\ {(current_idx + j * gen) % elems : j \in 1 .. elems} = 0 .. elems - 1

\* arena.h, "@pre 1 <= reg_size <= LARGE_SIZE_MAX_REGION" and "reg_size is
\* initialied to size in its class": what arena_get_bin_by_reg_size asserts.
BinPrecondition ==
  stage = "aligned" =>
    /\ 1 <= reg_size /\ reg_size <= LARGE_SIZE_MAX_REGION
    /\ is_size_aligned(reg_size)
=============================================================================
