-------------------------------- MODULE Run --------------------------------
(***************************************************************************)
(* A run: a contiguous piece of the heap cut into regions of one size,     *)
(* with its metadata kept elsewhere (run.c, run.h).  This module has no    *)
(* state; its operators are functions from a run_t to a run_t and are the  *)
(* operations that Bin.tla composes into malloc and free.                  *)
(*                                                                         *)
(* A region is handed out at most once: the walk                           *)
(*     current_idx := (gen + current_idx) % elems                          *)
(* visits the regions in an order fixed by the generator and the random    *)
(* start, and a freed region becomes STATE_ALLOC_FREE, never STATE_FREE.   *)
(*                                                                         *)
(* A definition like run_allocateNoMark is a faulty variant of the one     *)
(* that follows it, which some property has to reject.                     *)
(***************************************************************************)
EXTENDS Integers, FiniteSets

CONSTANTS
  RegSize,   \* bin->reg_size
  RunSize,   \* bin->run_size_pages * PAGE_SIZE, in the unit of RegSize
  Gens,      \* the generators generator.h lists for this region size
  Tags,      \* the memory tags, 0 .. 15 on the hardware
  MTE        \* is_mte_enabled

ASSUME SizeAssumption ==
  /\ RegSize \in Nat \ {0}
  /\ RunSize \in Nat
  /\ RunSize >= RegSize

\* bin->reg_mask_size_bits / 2, the number of regions of a run.
Elems == RunSize \div RegSize

RegionIdx == 0 .. Elems - 1

\* A walk of Elems steps visits no region twice, from any start: the elements
\* of generator.h generate the group (Z_n, +).
ASSUME GeneratorAssumption ==
  /\ Gens \subseteq Nat \ {0}
  /\ \A g \in Gens, s \in RegionIdx, i, j \in 1 .. Elems :
       (s + i * g) % Elems = (s + j * g) % Elems => i = j

\* Tag 0 marks untagged memory; excluding it and the tags of two neighbours
\* leaves a tag to choose.
ASSUME TagAssumption ==
  /\ MTE \in BOOLEAN
  /\ 0 \in Tags
  /\ MTE => \A a, b \in Tags : Tags \ {0, a, b} # {}

FREE == "STATE_FREE"
ALLOC == "STATE_ALLOC"
ALLOC_FREE == "STATE_ALLOC_FREE"
STATES == {FREE, ALLOC, ALLOC_FREE}

(***************************************************************************)
(* The bitmap.  run_validate_ptr indexes it with rel_ptr / reg_size for    *)
(* any rel_ptr of the run, which is the index Elems in the tail that       *)
(* remains when RegSize does not divide RunSize.  run_init clears whole    *)
(* bytes of four items; an item beyond them holds whatever the internal    *)
(* allocator left there.                                                   *)
(***************************************************************************)
ItemIdx == 0 .. (RunSize - 1) \div RegSize

\* 4 items in each of the BITS2BYTES_CEIL(reg_mask_size_bits) bytes.
ClearedItems == 4 * ((2 * Elems + 7) \div 8)

StaleItems == {i \in ItemIdx : i >= ClearedItems}

RunState ==
  [navail : 0 .. Elems, nfreed : Nat, gen : Gens, current_idx : RegionIdx,
   reg_bitmap : [ItemIdx -> STATES], tag : [RegionIdx -> Tags]]

\* A new run with generator g and start s.  Its memory was just mapped: tag 0.
run_init(g, s, stale) ==
  [navail |-> Elems, nfreed |-> 0, gen |-> g, current_idx |-> s,
   reg_bitmap |-> [i \in ItemIdx |-> IF i \in StaleItems THEN stale[i] ELSE FREE],
   tag |-> [i \in RegionIdx |-> 0]]

\* The region the next run_allocate hands out.
NextIdxTimes(r) == (r.gen * r.current_idx) % Elems
NextIdx(r) == (r.gen + r.current_idx) % Elems

\* Neighbours of region i that are allocated; their tags are excluded.
LeftNeighbour(r, i) == {i - 1} \cap {j \in RegionIdx : r.reg_bitmap[j] = ALLOC}
AllocNeighbours(r, i) == {i - 1, i + 1} \cap {j \in RegionIdx : r.reg_bitmap[j] = ALLOC}

\* What tag_pointer may return for the region being allocated.
TagChoices(r) ==
  IF MTE THEN Tags \ ({0} \cup {r.tag[j] : j \in AllocNeighbours(r, NextIdx(r))})
         ELSE {0}

run_allocateNoMark(r, t) ==
  [r EXCEPT !.current_idx = NextIdx(r), !.navail = @ - 1, !.tag[NextIdx(r)] = t]
run_allocate(r, t) ==
  [r EXCEPT !.current_idx = NextIdx(r),
            !.reg_bitmap[NextIdx(r)] = ALLOC,
            !.navail = @ - 1,
            !.tag[NextIdx(r)] = t]

INVALID == -1   \* SIZE_MAX

\* The bitmap index of the region at offset rel, INVALID if there is none.
run_validate_ptrNoAlign(r, rel) ==
  IF r.reg_bitmap[rel \div RegSize] # ALLOC THEN INVALID ELSE rel \div RegSize
run_validate_ptrNoDouble(r, rel) ==
  IF rel % RegSize # 0 \/ r.reg_bitmap[rel \div RegSize] = FREE
  THEN INVALID ELSE rel \div RegSize
run_validate_ptrZero(r, rel) ==
  IF rel % RegSize # 0 \/ r.reg_bitmap[rel \div RegSize] # ALLOC \/ rel \div RegSize = 0
  THEN INVALID ELSE rel \div RegSize
run_validate_ptr(r, rel) ==
  IF rel % RegSize # 0 \/ r.reg_bitmap[rel \div RegSize] # ALLOC
  THEN INVALID ELSE rel \div RegSize

\* run_deallocate on a valid offset.
run_deallocate(r, rel) ==
  [r EXCEPT !.reg_bitmap[run_validate_ptr(r, rel)] = ALLOC_FREE, !.nfreed = @ + 1]

run_is_depletedEarly(r) == r.navail <= 1
run_is_depleted(r) == r.navail = 0

run_is_freeableAlmost(r) == r.nfreed >= Elems - 1
run_is_freeable(r) == r.nfreed = Elems
=============================================================================
