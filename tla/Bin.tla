-------------------------------- MODULE Bin --------------------------------
(***************************************************************************)
(* A bin: the runs that serve one region size (bin.c), with the part of    *)
(* malloc and free that works on one bin (sealloc_malloc from the test of  *)
(* avail_regs on, sealloc_allocate_with_bin, arena_supply_runs,            *)
(* sealloc_free_with_metadata).                                            *)
(*                                                                         *)
(* A malloc is several steps, so that what holds between them can be       *)
(* stated:                                                                 *)
(*                                                                         *)
(*    idle --Malloc--> supply --SupplyRun*--> alloc --AddRun--> pick       *)
(*      |                                     ^   |               |        *)
(*      +-------------- Malloc ---------------+   +---Allocate----+-> idle *)
(*                                                                         *)
(* The two run lists are sets of keys: a run is picked by a random index   *)
(* and found by its key, so their order cannot be observed.  live and      *)
(* given are history variables for the refinement of RegionHeap.           *)
(*                                                                         *)
(* A definition like bin_add_runNoCount is a faulty variant of the one     *)
(* that follows it, which some property has to reject.                     *)
(***************************************************************************)
EXTENDS Run

CONSTANTS
  Keys,         \* the addresses (entry.key) at which a run can be mapped
  MinRegions    \* BIN_MINIMUM_REGIONS

ASSUME MinAssumption == MinRegions \in Nat \ {0}

ASSUME KeysAssumption == IsFiniteSet(Keys)

VARIABLES
  runs,                 \* run metadata by key
  active,               \* run_list_active
  inactive,             \* run_list_inactive
  run_list_active_cnt,
  avail_regs,
  pc,                   \* where the current call is
  runs_to_allocate,     \* what is left of the loop in arena_supply_runs
  live,                 \* pointers malloc returned and the program did not free
  given                 \* pointers malloc returned since their run was mapped

lists == <<runs, active, inactive, run_list_active_cnt, avail_regs>>
history == <<live, given>>
vars == <<lists, pc, runs_to_allocate, history>>

Ptr == Keys \X (0 .. RunSize - 1)

Running == {"idle", "supply", "alloc", "pick"}

\* bin_init
Init ==
  /\ runs = [k \in {} |-> 0]
  /\ active = {} /\ inactive = {}
  /\ run_list_active_cnt = 0
  /\ avail_regs = 0
  /\ pc = "idle"
  /\ runs_to_allocate = 0
  /\ live = {} /\ given = {}

-----------------------------------------------------------------------------
(***************************************************************************)
(* malloc                                                                  *)
(***************************************************************************)

ceil_div(a, b) == (a \div b) + (IF a % b = 0 THEN 0 ELSE 1)

\* sealloc_malloc: the first malloc of a bin supplies it with runs.
Malloc ==
  /\ pc = "idle"
  /\ IF avail_regs = 0
     THEN /\ runs_to_allocate' = ceil_div(MinRegions - avail_regs, Elems)
          /\ pc' = "supply"
     ELSE /\ UNCHANGED runs_to_allocate
          /\ pc' = "alloc"
  /\ UNCHANGED <<lists, history>>

bin_add_runNoCount(k, r) ==
  /\ runs' = [x \in DOMAIN runs \cup {k} |-> IF x = k THEN r ELSE runs[x]]
  /\ avail_regs' = avail_regs + r.navail
  /\ active' = active \cup {k}
  /\ UNCHANGED <<inactive, run_list_active_cnt>>
bin_add_run(k, r) ==
  /\ runs' = [x \in DOMAIN runs \cup {k} |-> IF x = k THEN r ELSE runs[x]]
  /\ avail_regs' = avail_regs + r.navail
  /\ run_list_active_cnt' = run_list_active_cnt + 1
  /\ active' = active \cup {k}
  /\ UNCHANGED inactive

\* arena_allocate_run: a run at an address no run of the bin has, with a random
\* generator and a random start.
NewRun ==
  \E k \in Keys \ DOMAIN runs, g \in Gens, s \in RegionIdx,
     stale \in [StaleItems -> STATES] : bin_add_run(k, run_init(g, s, stale))

\* One iteration of the loop of arena_supply_runs.
SupplyRun ==
  /\ pc = "supply" /\ NewRun
  /\ runs_to_allocate' = runs_to_allocate - 1
  /\ pc' = IF runs_to_allocate = 1 THEN "alloc" ELSE "supply"
  /\ UNCHANGED history

\* sealloc_allocate_with_bin: too few regions to choose from, add one run.
TooFewNone == avail_regs = 0
TooFew == avail_regs < MinRegions

AddRun ==
  /\ pc = "alloc" /\ TooFew
  /\ NewRun
  /\ pc' = "pick"
  /\ UNCHANGED <<runs_to_allocate, history>>

\* A run is needed and the process may map no more: arena_morecore asks the kernel
\* again and again, and the call does not return.
OutOfMemory ==
  /\ pc = "supply" \/ (pc = "alloc" /\ TooFew)
  /\ Keys \ DOMAIN runs = {}
  /\ pc' = "exhausted"
  /\ UNCHANGED <<lists, runs_to_allocate, history>>

\* The random index picks run k of the active list.
bin_get_run_for_allocation(k) == k \in active /\ avail_regs' = avail_regs - 1

\* bin_retire_run if the run is depleted.
Retire(k, r) ==
  IF run_is_depleted(r)
  THEN /\ active' = active \ {k}
       /\ inactive' = inactive \cup {k}
       /\ run_list_active_cnt' = run_list_active_cnt - 1
  ELSE UNCHANGED <<active, inactive, run_list_active_cnt>>

\* sealloc_allocate_with_bin: pick a run, allocate in it, retire it if depleted.
Allocate(k) ==
  /\ pc = "pick" \/ (pc = "alloc" /\ ~TooFew)
  /\ bin_get_run_for_allocation(k)
  /\ \E t \in TagChoices(runs[k]) :
       LET r == run_allocate(runs[k], t)
           p == <<k, r.current_idx * RegSize>>
       IN /\ runs' = [runs EXCEPT ![k] = r]
          /\ Retire(k, r)
          /\ live' = live \cup {p}
          /\ given' = given \cup {p}
  /\ pc' = "idle"
  /\ UNCHANGED runs_to_allocate

-----------------------------------------------------------------------------
(***************************************************************************)
(* free                                                                    *)
(***************************************************************************)

\* The run of p exists and run_validate_ptr accepts p.
Accepts(p) ==
  /\ p[1] \in DOMAIN runs
  /\ run_validate_ptr(runs[p[1]], p[2]) # INVALID

\* The lists are not searched for the run: it must be on the inactive one.
bin_delete_run(k) == inactive' = inactive \ {k}

\* sealloc_free_with_metadata; a freeable run is deleted from the inactive list
\* and its memory is unmapped.
FreeValid(p) ==
  /\ pc = "idle" /\ Accepts(p)
  /\ LET k == p[1]
         r == run_deallocate(runs[k], p[2])
     IN IF run_is_freeable(r)
        THEN /\ runs' = [x \in DOMAIN runs \ {k} |-> runs[x]]
             /\ bin_delete_run(k)
             /\ given' = {q \in given : q[1] # k}
        ELSE /\ runs' = [runs EXCEPT ![k] = r]
             /\ UNCHANGED <<inactive, given>>
  /\ live' = live \ {p}
  /\ UNCHANGED <<active, run_list_active_cnt, avail_regs, pc, runs_to_allocate>>

\* "Invalid call to free()", abort().
FreeInvalid(p) ==
  /\ pc = "idle" /\ ~Accepts(p)
  /\ pc' = "aborted"
  /\ UNCHANGED <<lists, runs_to_allocate, history>>

\* The process has ended, or is in the loop of arena_morecore for good.
Ended == pc \in {"aborted", "exhausted"} /\ UNCHANGED vars

-----------------------------------------------------------------------------
Next ==
  \/ Malloc \/ SupplyRun \/ AddRun \/ OutOfMemory
  \/ \E k \in active : Allocate(k)
  \/ \E p \in Ptr : FreeValid(p) \/ FreeInvalid(p)
  \/ Ended

Spec == Init /\ [][Next]_vars

-----------------------------------------------------------------------------
(***************************************************************************)
(* Properties                                                              *)
(***************************************************************************)

\* The regions in state st of run k, and the free regions the bin can choose from.
InState(k, st) == {i \in RegionIdx : runs[k].reg_bitmap[i] = st}
FreeRegions == {q \in active \X RegionIdx : runs[q[1]].reg_bitmap[q[2]] = FREE}

\* The variables have the types of bin_t and run_t, and there is metadata for
\* exactly the runs on the two lists.
TypeOK ==
  /\ active \subseteq Keys /\ inactive \subseteq Keys
  /\ runs \in [active \cup inactive -> RunState]
  /\ run_list_active_cnt \in Nat
  /\ avail_regs \in Nat
  /\ pc \in Running \cup {"aborted", "exhausted"}
  /\ runs_to_allocate \in Nat
  /\ live \subseteq Ptr /\ given \subseteq Ptr

\* The counters that malloc and free update one by one agree with the bitmaps
\* and the list they summarise: bin_get_run_for_allocation walks at most
\* run_list_active_cnt entries and never runs off the list, avail_regs is what
\* the active runs can still serve.
CountersAgree ==
  /\ run_list_active_cnt = Cardinality(active)
  /\ avail_regs = Cardinality(FreeRegions)
  /\ \A k \in DOMAIN runs :
       /\ runs[k].navail = Cardinality(InState(k, FREE))
       /\ runs[k].nfreed = Cardinality(InState(k, ALLOC_FREE))

\* A run is on the active list iff it can serve an allocation (so run_allocate's
\* assertion navail > 0 holds for whichever run the random index picks), and a
\* run that is still listed has a region that is not freed (so bin_delete_run,
\* which looks on the inactive list only, is called in time and on that list).
ListsAgree ==
  /\ active \cap inactive = {}
  /\ \A k \in active : runs[k].navail > 0
  /\ \A k \in inactive : runs[k].navail = 0 /\ runs[k].nfreed < Elems

\* Whenever a region is picked there are at least BIN_MINIMUM_REGIONS to pick
\* from (the assertion of sealloc_allocate_with_bin: "adding one run should be
\* enough"), and the sanity check of run_allocate succeeds in every run.
EnoughChoice ==
  /\ pc = "pick" => Cardinality(FreeRegions) >= MinRegions
  /\ \A k \in active : runs[k].reg_bitmap[NextIdx(runs[k])] = FREE

\* With memory tagging, two adjacent regions that are both allocated have
\* different tags, whatever was freed around them in between.
AdjacentTagsDiffer ==
  \A k \in DOMAIN runs, i \in RegionIdx :
    runs[k].reg_bitmap[i] = ALLOC =>
      /\ MTE => runs[k].tag[i] # 0
      /\ MTE /\ i + 1 \in RegionIdx /\ runs[k].reg_bitmap[i + 1] = ALLOC =>
           runs[k].tag[i] # runs[k].tag[i + 1]

\* sealloc.c, "initialize bin with enugh runs, needed only once": a bin that has
\* regions is never drained again, so arena_supply_runs is not called for it twice.
\* (With a minimum of 1 the only region may be handed out.)
SuppliedOnce == [][MinRegions > 1 /\ avail_regs > 0 => avail_regs' > 0]_vars

\* free accepts every pointer the program holds, in every state of its run: the call
\* never aborts a program that frees what malloc gave it.
LiveAccepted == \A p \in live : Accepts(p)

(***************************************************************************)
(* The inductive invariant.  The properties above are not inductive: that  *)
(* a counter stays right needs the next region to be free, which needs the *)
(* whole walk of the generator; that a freed run is inactive needs the     *)
(* counters; that avail_regs suffices needs what each step of malloc still *)
(* has to add.                                                             *)
(***************************************************************************)

\* The run started at some s and has handed out the first Elems - navail regions
\* of the walk s + gen, s + 2 * gen, ...; the rest of the walk is free.
WalkInv(r) ==
  \E s \in RegionIdx :
    /\ r.current_idx = (s + (Elems - r.navail) * r.gen) % Elems
    /\ \A j \in 1 .. Elems :
         r.reg_bitmap[(s + j * r.gen) % Elems] = FREE <=> j > Elems - r.navail

\* live and given are what the bitmaps say, and no item of the tail is set.
HistoryInv ==
  /\ \A p \in given : p[1] \in DOMAIN runs /\ \E i \in RegionIdx : p[2] = i * RegSize
  /\ live \subseteq given
  /\ \A k \in DOMAIN runs, i \in RegionIdx :
       /\ <<k, i * RegSize>> \in live <=> runs[k].reg_bitmap[i] = ALLOC
       /\ <<k, i * RegSize>> \in given <=> runs[k].reg_bitmap[i] # FREE
  /\ \A k \in DOMAIN runs, i \in ItemIdx \ RegionIdx : runs[k].reg_bitmap[i] = FREE

\* What each step of malloc can rely on.
StepInv ==
  /\ pc = "idle" => avail_regs = 0 \/ avail_regs >= MinRegions - 1
  /\ pc = "supply" => /\ runs_to_allocate >= 1
                      /\ avail_regs + runs_to_allocate * Elems >= MinRegions
  /\ pc = "alloc" => avail_regs >= MinRegions - 1
  /\ pc = "pick" => avail_regs >= MinRegions

IInv ==
  /\ TypeOK
  /\ CountersAgree
  /\ ListsAgree
  /\ \A k \in DOMAIN runs : WalkInv(runs[k])
  /\ HistoryInv
  /\ StepInv

\* The bin is a heap whose regions are handed out once, whose live regions are
\* never lost and whose free accepts live regions only.
Heap == INSTANCE RegionHeap WITH
          Offsets <- {i * RegSize : i \in RegionIdx},
          Offs <- 0 .. RunSize - 1,
          status <- IF pc \in Running THEN "running" ELSE pc
ImplementsHeap == Heap!Spec

\* run.h, "Validate if ptr points to allocated region": free goes through only
\* for a pointer that malloc returned and that was not freed since.
FreeAcceptsOnlyLive == [][\A p \in Ptr : FreeValid(p) => p \in live]_vars
=============================================================================
