------------------------------ MODULE Sealloc ------------------------------
(***************************************************************************)
(* The whole allocator: malloc, free, realloc and calloc (sealloc.c,       *)
(* malloc_api.c) over the arena's lists of chunks, runs and huge mappings. *)
(*                                                                         *)
(* The parts are at the level of what they promise: a chunk is RunSpace    *)
(* (Chunk.tla implements it), the regions of a run are RegionHeap (Bin.tla *)
(* implements it), a mapping lies anywhere the address space is free       *)
(* (Arena.tla).  What this module adds is how they work together: one      *)
(* address space, in which mappings come to lie inside the unmapped parts  *)
(* of chunks, and calls that use several parts one after the other.        *)
(*                                                                         *)
(* A call is one step.  Its operators take the arena as a record a and     *)
(* give the set of its possible outcomes, one for each random choice; no   *)
(* outcome means that arena_morecore never returns.                        *)
(*                                                                         *)
(* A definition like DeallocateRunKeep is a faulty variant of the one that *)
(* follows it, which some property has to reject.                          *)
(***************************************************************************)
EXTENDS SizeClass, Sequences

CONSTANTS
  NoBlocks,       \* CHUNK_NO_NODES_LAST_LAYER
  MinRegions,     \* BIN_MINIMUM_REGIONS
  Places,         \* the addresses at which the kernel may place a mapping
  MallocSizes, ReallocSizes, CallocArgs,   \* what the program asks for
  MaxLive,        \* bound on the pointers the program holds at a time
  Addresses       \* every address the program may pass to free and realloc

VARIABLES
  arena,    \* the arena and the address space
  status,   \* "running", "aborted", "exhausted" or "crashed"
  live,     \* history: the pointers the program holds, with the sizes asked for
  copied    \* history: what this call copied, if it is a realloc

vars == <<arena, status, live, copied>>

LEAF == LARGE_SIZE_MIN_REGION
CHUNK_SIZE_BYTES == NoBlocks * LEAF
Blocks == 0 .. NoBlocks - 1
NULL == 0
Span(p, len) == p .. p + len - 1

\* The size that malloc rounds: 0 is replaced.
NonZero(size) == IF size = 0 THEN SMALL_SIZE_MIN_REGION ELSE size

\* The size that realloc rounds a size below the huge ones to: 0 is rounded to 0,
\* which has the index of the first large bin.
NewRegSize(size) == IF AlignedSize(size) = 0 THEN LARGE_SIZE_MIN_REGION ELSE AlignedSize(size)

(***************************************************************************)
(* The sizes that malloc is asked for, by the program, by calloc and by    *)
(* realloc of a huge mapping, and the regions that result.                 *)
(***************************************************************************)
MallocArgs ==
  MallocSizes \cup {SizeWord(c[1] * c[2]) : c \in CallocArgs}
  \cup {ALIGNUP_PAGE(n) : n \in {m \in ReallocSizes : ~IS_SIZE_HUGE(ALIGNUP_PAGE(m))}}

RegSizes ==
  {AlignedSize(NonZero(n)) : n \in {m \in MallocArgs : ~IS_SIZE_HUGE(NonZero(m))}}
  \cup {NewRegSize(n) : n \in {m \in ReallocSizes : ~IS_SIZE_HUGE(m)}}

\* What the program asks for neither wraps around nor lies in the last page below
\* SIZE_WORD.
ASSUME RequestAssumption ==
  /\ MallocSizes \cup ReallocSizes \subseteq 0 .. SIZE_WORD - PAGE_SIZE
  /\ CallocArgs \subseteq Nat \X Nat /\ \A c \in CallocArgs : c[1] * c[2] <= SIZE_WORD - PAGE_SIZE

ASSUME SeallocAssumption ==
  /\ NoBlocks \in Nat \ {0} /\ MinRegions \in Nat \ {0} /\ MaxLive \in Nat
  /\ Places \subseteq Nat \ {0}

\* The program may pass every address that it can get, and not NULL.
ASSUME AddressAssumption ==
  /\ Addresses \subseteq Nat \ {NULL} /\ Places \subseteq Addresses
  /\ \A p \in Places, b \in Blocks, reg \in RegSizes :
       \A i \in 0 .. ElemsOf(reg) - 1 :
         b + (RunSizeOf(reg) \div LEAF) <= NoBlocks => p + b * LEAF + i * reg \in Addresses

(***************************************************************************)
(* The arena:                                                              *)
(*   chunks   chunk_list, newest first: address, runs in use by their      *)
(*            first block, blocks that were ever used;                     *)
(*   runs     the run metadata by address: region size, the bitmap items   *)
(*            that were ever ALLOC (handed out, or left over from earlier  *)
(*            metadata) and those of them that were freed;                 *)
(*   bins     the region sizes whose bin is initialised;                   *)
(*   huges    huge_alloc_list: address and length;                         *)
(*   mapped   the pages that the kernel has mapped.                        *)
(***************************************************************************)
arena_init ==
  [chunks |-> <<>>, runs |-> [k \in {} |-> 0], bins |-> {}, huges |-> {}, mapped |-> {}]

NoCopy == [n |-> 0, from |-> 0, to |-> 0, need |-> 0]

Init ==
  /\ arena = arena_init
  /\ status = "running"
  /\ live = [p \in {} |-> 0]
  /\ copied = NoCopy

-----------------------------------------------------------------------------
(***************************************************************************)
(* Memory for the arena                                                    *)
(***************************************************************************)

\* Where arena_morecore can map len > 0.
Mappable(a, len) == {p \in Places : len > 0 /\ Span(p, len) \cap a.mapped = {}}

arena_allocate_chunk(a) ==
  {[a EXCEPT !.chunks = <<[key |-> p, live |-> {}, taken |-> {}]>> \o @,
             !.mapped = @ \cup Span(p, CHUNK_SIZE_BYTES)] :
     p \in Mappable(a, CHUNK_SIZE_BYTES)}

\* The first blocks of the runs that chunk c can still give.
Fitting(c, len) ==
  {b \in Blocks : b % len = 0 /\ Span(b, len) \subseteq Blocks \ c.taken}

\* The bitmap items that run_validate_ptr may read for an address of a run and that
\* run_init does not clear: it clears whole bytes of four items up to the last
\* region's, and the tail of a run that its region size does not divide has one more.
StaleItems(reg) ==
  {i \in 0 .. (RunSizeOf(reg) - 1) \div reg : i >= 4 * ((2 * ElemsOf(reg) + 7) \div 8)}

\* chunk_allocate_run in the n-th chunk, and run_init; any of the stale items may read
\* as ALLOC.
AllocateRunIn(a, n, reg) ==
  LET len == RunSizeOf(reg) \div LEAF
      c == a.chunks[n]
      Key(b) == c.key + b * LEAF
      New(b) == [c EXCEPT !.live = @ \cup {[block |-> b, len |-> len, reg |-> reg]},
                          !.taken = @ \cup Span(b, len)]
      With(b, stale) ==
        [a EXCEPT !.chunks[n] = New(b),
                  !.runs = [k \in DOMAIN a.runs \cup {Key(b)} |->
                              IF k = Key(b) THEN [reg |-> reg, given |-> stale, freed |-> {}]
                                            ELSE a.runs[k]]]
  IN UNION {{With(b, stale) : stale \in SUBSET StaleItems(reg)} : b \in Fitting(c, len)}

\* The first chunk of the list that has room, or a new one.  bin_add_run is part of
\* it: the runs of a bin are the runs of its region size.
arena_allocate_run(a, reg) ==
  LET len == RunSizeOf(reg) \div LEAF
      roomy == {n \in DOMAIN a.chunks : Fitting(a.chunks[n], len) # {}}
  IN IF roomy # {}
     THEN AllocateRunIn(a, Min(roomy), reg)
     ELSE UNION {AllocateRunIn(b, 1, reg) : b \in arena_allocate_chunk(a)}

\* The regions a run or a bin can still give (bin->avail_regs).
FreeIn(r) == (0 .. ElemsOf(r.reg) - 1) \ r.given
Available(a, reg) ==
  MapThenSumSet(LAMBDA k : Cardinality(FreeIn(a.runs[k])),
                {k \in DOMAIN a.runs : a.runs[k].reg = reg})

arena_supply_runs(a, reg) ==
  LET supplied[n \in 0 .. MinRegions] ==
        IF n = 0 THEN {a}
        ELSE UNION {arena_allocate_run(b, reg) : b \in supplied[n - 1]}
  IN supplied[ceil_div(MinRegions - Available(a, reg), ElemsOf(reg))]

-----------------------------------------------------------------------------
(***************************************************************************)
(* malloc: the outcomes are pairs <<arena, pointer>>.                      *)
(***************************************************************************)
sealloc_allocate_with_bin(a, reg) ==
  LET Pick(b) ==
        UNION {{<<[b EXCEPT !.runs[k].given = @ \cup {i}], k + i * reg>> :
                  i \in FreeIn(b.runs[k])} :
               k \in {j \in DOMAIN b.runs : b.runs[j].reg = reg}}
  IN UNION {Pick(b) : b \in IF Available(a, reg) < MinRegions
                            THEN arena_allocate_run(a, reg) ELSE {a}}

\* The bin of a region size: initialised on first use, supplied when empty.
AllocateRegion(a, reg) ==
  LET b == [a EXCEPT !.bins = @ \cup {reg}]
  IN UNION {sealloc_allocate_with_bin(c, reg) :
              c \in IF Available(b, reg) = 0 THEN arena_supply_runs(b, reg) ELSE {b}}

arena_allocate_huge_mapping(a, len) ==
  {<<[a EXCEPT !.huges = @ \cup {[key |-> p, len |-> len]},
               !.mapped = @ \cup Span(p, len)], p>> : p \in Mappable(a, len)}

sealloc_malloc(a, size) ==
  LET n == NonZero(size)
  IN IF IS_SIZE_HUGE(n) THEN arena_allocate_huge_mapping(a, ALIGNUP_PAGE(n))
                        ELSE AllocateRegion(a, AlignedSize(n))

-----------------------------------------------------------------------------
(***************************************************************************)
(* free                                                                    *)
(***************************************************************************)

\* chunk_get_run_ptr: the run whose first block holds ptr, if there is one.
RunAt(c, ptr) == {r \in c.live : r.block = (ptr - c.key) \div LEAF}

\* arena_get_chunk_from_ptr: the chunks whose range holds ptr.
Holding(a, ptr) ==
  {n \in DOMAIN a.chunks : ptr \in Span(a.chunks[n].key, CHUNK_SIZE_BYTES)}

\* locate_metadata_for_ptr.  A chunk that holds ptr and has no run there may have
\* unmapped that part, in which another chunk or a huge mapping lies by now: the
\* search goes on.
INVALID == [type |-> "METADATA_INVALID"]
LocateIn(a, ptr, candidates) ==
  LET n == Min(candidates)
      c == a.chunks[n]
      r == CHOOSE r \in RunAt(c, ptr) : TRUE
      huge == {h \in a.huges : h.key = ptr}
  IN IF candidates # {}
     THEN [type |-> "METADATA_REGULAR", chunk |-> c.key, run |-> c.key + r.block * LEAF]
     ELSE IF huge # {}
          THEN [type |-> "METADATA_HUGE", huge |-> CHOOSE h \in huge : TRUE]
          ELSE INVALID

locate_metadata_for_ptrFirst(a, ptr) ==
  LET first == {n \in Holding(a, ptr) : \A m \in Holding(a, ptr) : n <= m}
  IN IF first # {} /\ \A n \in first : RunAt(a.chunks[n], ptr) = {}
     THEN INVALID ELSE LocateIn(a, ptr, first)
locate_metadata_for_ptr(a, ptr) ==
  LocateIn(a, ptr, {n \in Holding(a, ptr) : RunAt(a.chunks[n], ptr) # {}})

\* run_validate_ptr: the address is a multiple of the region size, and its bitmap item,
\* which is one past the last region's for the tail of a run, is ALLOC.  (Once a tail
\* has been freed the counters of its run are wrong, and the list of a run deleted too
\* early is too; what comes after that is not modelled.)
Validates(a, k, ptr) ==
  LET r == a.runs[k]
      i == (ptr - k) \div r.reg
  IN (ptr - k) % r.reg = 0 /\ i \in r.given \ r.freed

\* chunk_deallocate_run, and arena_deallocate_chunk if that was the last run of a
\* chunk that has no block left to give.
DeallocateRunKeep(a, ck, k) ==
  LET n == CHOOSE m \in DOMAIN a.chunks : a.chunks[m].key = ck
      c == a.chunks[n]
      run == CHOOSE r \in c.live : ck + r.block * LEAF = k
  IN [a EXCEPT !.runs = [j \in DOMAIN a.runs \ {k} |-> a.runs[j]],
               !.mapped = @ \ Span(k, run.len * LEAF),
               !.chunks[n].live = @ \ {run}]
DeallocateRun(a, ck, k) ==
  LET n == CHOOSE m \in DOMAIN a.chunks : a.chunks[m].key = ck
      c == a.chunks[n]
      run == CHOOSE r \in c.live : ck + r.block * LEAF = k
      rest == [c EXCEPT !.live = @ \ {run}]
      gone == rest.live = {} /\ rest.taken = Blocks
  IN [a EXCEPT
        !.runs = [j \in DOMAIN a.runs \ {k} |-> a.runs[j]],
        !.mapped = @ \ Span(k, run.len * LEAF),
        !.chunks = IF gone THEN SubSeq(@, 1, n - 1) \o SubSeq(@, n + 1, Len(@))
                           ELSE [@ EXCEPT ![n] = rest]]

\* For metadata m that was located earlier, and a pointer it validates.
sealloc_free_with_metadata(a, m, ptr) ==
  LET r == a.runs[m.run]
      freed == r.freed \cup {(ptr - m.run) \div r.reg}
  IN IF Cardinality(freed) = ElemsOf(r.reg)
     THEN DeallocateRun(a, m.chunk, m.run)
     ELSE [a EXCEPT !.runs[m.run].freed = freed]

arena_deallocate_huge_mapping(a, h) ==
  [a EXCEPT !.huges = @ \ {h}, !.mapped = @ \ Span(h.key, h.len)]

\* Whether free and realloc accept a pointer.
Accepted(a, ptr) ==
  LET m == locate_metadata_for_ptr(a, ptr)
  IN \/ m.type = "METADATA_HUGE"
     \/ m.type = "METADATA_REGULAR" /\ Validates(a, m.run, ptr)

sealloc_free(a, ptr) ==
  LET m == locate_metadata_for_ptr(a, ptr)
  IN IF m.type = "METADATA_HUGE" THEN arena_deallocate_huge_mapping(a, m.huge)
                                 ELSE sealloc_free_with_metadata(a, m, ptr)

-----------------------------------------------------------------------------
(***************************************************************************)
(* realloc: the outcomes are records of the arena, the pointer and what    *)
(* was copied: n units, from a region of size from to one of size to.      *)
(* In every case memory is allocated first, the data copied, and the old   *)
(* memory freed with the metadata located before all that.                 *)
(***************************************************************************)
Smaller(m, n) == IF m < n THEN m ELSE n

realloc_huge(a, h, size) ==
  IF IS_SIZE_HUGE(size)
  THEN {[arena |-> [arena_deallocate_huge_mapping(a, h) EXCEPT
                      !.huges = @ \cup {[key |-> p, len |-> size]},
                      !.mapped = @ \cup Span(p, size)],
         ptr |-> p, n |-> Smaller(h.len, size), from |-> h.len, to |-> size] :
          p \in Mappable(a, size)}
  ELSE {[arena |-> arena_deallocate_huge_mapping(o[1], h),
         ptr |-> o[2], n |-> size, from |-> h.len,
         to |-> AlignedSize(NonZero(size))] :
          o \in sealloc_malloc(a, size)}

\* bin_init divides by the region size.
DividesByZero(a, ptr, size) ==
  /\ locate_metadata_for_ptr(a, ptr).type = "METADATA_REGULAR"
  /\ ~IS_SIZE_HUGE(size) /\ AlignedSize(size) = 0
  /\ LARGE_SIZE_MIN_REGION \notin a.bins

CopyLengthNew(old, new) == new
CopyLength(old, new) == IF new > old THEN old ELSE new

realloc_regularFreeFirst(a, m, ptr, size) ==
  LET old == a.runs[m.run].reg
      new == NewRegSize(size)
      b == sealloc_free_with_metadata(a, m, ptr)
  IN IF IS_SIZE_HUGE(size)
     THEN {[arena |-> o[1], ptr |-> o[2], n |-> old, from |-> old, to |-> ALIGNUP_PAGE(size)] :
             o \in arena_allocate_huge_mapping(b, ALIGNUP_PAGE(size))}
     ELSE {[arena |-> o[1], ptr |-> o[2], n |-> CopyLength(old, new), from |-> old, to |-> new] :
             o \in AllocateRegion(b, new)}
realloc_regular(a, m, ptr, size) ==
  LET old == a.runs[m.run].reg
      new == NewRegSize(size)
  IN IF IS_SIZE_HUGE(size)
     THEN {[arena |-> sealloc_free_with_metadata(o[1], m, ptr), ptr |-> o[2],
            n |-> old, from |-> old, to |-> ALIGNUP_PAGE(size)] :
             o \in arena_allocate_huge_mapping(a, ALIGNUP_PAGE(size))}
     ELSE {[arena |-> sealloc_free_with_metadata(o[1], m, ptr), ptr |-> o[2],
            n |-> CopyLength(old, new), from |-> old, to |-> new] :
             o \in AllocateRegion(a, new)}

sealloc_realloc(a, ptr, size) ==
  LET m == locate_metadata_for_ptr(a, ptr)
  IN IF m.type = "METADATA_HUGE" THEN realloc_huge(a, m.huge, ALIGNUP_PAGE(size))
                                 ELSE realloc_regular(a, m, ptr, size)

-----------------------------------------------------------------------------
(***************************************************************************)
(* The calls of the program (malloc_api.c).  free(NULL) and calloc with a  *)
(* zero return at once, realloc(NULL, n) is malloc(n).                     *)
(***************************************************************************)
Ends(s) == status' = s /\ copied' = NoCopy /\ UNCHANGED <<arena, live>>

\* The program holds p, of which it asked for n units, and no longer old.
Holds(p, n, old) ==
  live' = [q \in (DOMAIN live \ old) \cup {p} |-> IF q = p THEN n ELSE live[q]]

malloc(n) ==
  /\ status = "running" /\ Cardinality(DOMAIN live) < MaxLive
  /\ \E o \in sealloc_malloc(arena, n) : arena' = o[1] /\ Holds(o[2], n, {})
  /\ copied' = NoCopy
  /\ UNCHANGED status

calloc(m, n) ==
  /\ status = "running" /\ Cardinality(DOMAIN live) < MaxLive /\ m # 0 /\ n # 0
  /\ \E o \in sealloc_malloc(arena, SizeWord(m * n)) : arena' = o[1] /\ Holds(o[2], m * n, {})
  /\ copied' = NoCopy
  /\ UNCHANGED status

free(p) ==
  /\ status = "running"
  /\ arena' = sealloc_free(arena, p)
  /\ live' = [q \in DOMAIN live \ {p} |-> live[q]]
  /\ copied' = NoCopy
  /\ UNCHANGED status

realloc(p, n) ==
  /\ status = "running" /\ ~DividesByZero(arena, p, n)
  /\ \E o \in sealloc_realloc(arena, p, n) :
       /\ arena' = o.arena
       /\ Holds(o.ptr, n, {p})
       /\ copied' = [n |-> o.n, from |-> o.from, to |-> o.to,
                     need |-> IF p \in DOMAIN live THEN Smaller(live[p], n) ELSE 0]
  /\ UNCHANGED status

\* "Invalid call to free()", "Invalid call to realloc()", abort().
Abort(p) == status = "running" /\ Ends("aborted")

\* The call needs memory and no place can be mapped.
Exhausted ==
  /\ status = "running"
  /\ \/ \E n \in MallocSizes : sealloc_malloc(arena, n) = {}
     \/ \E c \in CallocArgs : c[1] # 0 /\ c[2] # 0 /\ sealloc_malloc(arena, SizeWord(c[1] * c[2])) = {}
     \/ \E p \in DOMAIN live, n \in ReallocSizes :
          /\ Accepted(arena, p) /\ ~DividesByZero(arena, p, n)
          /\ sealloc_realloc(arena, p, n) = {}
  /\ Ends("exhausted")

Crash(p, n) ==
  /\ status = "running" /\ DividesByZero(arena, p, n)
  /\ Ends("crashed")

Ended == status # "running" /\ UNCHANGED vars

\* The arguments of free and realloc that get past their checks.
Valid == {p \in Addresses : Accepted(arena, p)}

Next ==
  \/ \E n \in MallocSizes : malloc(n)
  \/ \E c \in CallocArgs : calloc(c[1], c[2])
  \/ \E p \in Valid :
       free(p) \/ \E n \in ReallocSizes : realloc(p, n) \/ Crash(p, n)
  \/ \E p \in Addresses \ Valid : Abort(p)
  \/ Exhausted
  \/ Ended

Spec == Init /\ [][Next]_vars

-----------------------------------------------------------------------------
(***************************************************************************)
(* Properties                                                              *)
(***************************************************************************)

\* What a chunk has not unmapped: the blocks in use and those never used.
StillMapped(c) ==
  UNION {Span(c.key + b * LEAF, LEAF) :
           b \in (Blocks \ c.taken) \cup UNION {Span(r.block, r.len) : r \in c.live}}

Owned ==
  {[of |-> [key |-> arena.chunks[n].key, len |-> n], mem |-> StillMapped(arena.chunks[n])] :
     n \in DOMAIN arena.chunks}
  \cup {[of |-> h, mem |-> Span(h.key, h.len)] : h \in arena.huges}

\* Chunks and huge mappings account for all mapped memory and share none of it,
\* although their address ranges may overlap; each run of a chunk has its metadata,
\* and a chunk is dropped when it has nothing mapped.
MappedExact ==
  /\ arena.mapped = UNION {o.mem : o \in Owned}
  /\ \A o, q \in Owned : o # q => o.mem \cap q.mem = {}
  /\ \A o \in Owned : o.mem # {}
  /\ DOMAIN arena.runs = UNION {{arena.chunks[n].key + r.block * LEAF : r \in arena.chunks[n].live} :
                                  n \in DOMAIN arena.chunks}

\* Every realloc copies no more than either region holds, and no less than the
\* program can expect: the smaller of the old and the new size.
CopyExact ==
  /\ copied.n <= copied.from /\ copied.n <= copied.to
  /\ copied.n >= copied.need

\* free and realloc accept exactly the pointers the program holds: also a pointer to
\* a chunk or huge mapping that lies in the unmapped part of another chunk, and no
\* pointer into the middle of a region, to a freed region, or to a region that
\* malloc has not returned yet.
AcceptsExactly ==
  status = "running" => \A p \in Addresses : Accepted(arena, p) <=> p \in DOMAIN live

\* Together the parts are an allocator: a pointer comes with memory of the asked
\* size that no other pointer has, whatever was unmapped and mapped again around
\* it, and a realloc never moves data within memory that is already given back.
Heap == INSTANCE Allocator WITH
          Sizes <- MallocSizes \cup ReallocSizes \cup {c[1] * c[2] : c \in CallocArgs}
ImplementsAllocator == Heap!Spec
=============================================================================
