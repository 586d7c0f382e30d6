------------------------------- MODULE Arena -------------------------------
(***************************************************************************)
(* The arena and the address space (arena.c, platform.c): where metadata   *)
(* roots, chunks and huge mappings come from.  Addresses are page numbers. *)
(*                                                                         *)
(* arena_morecore asks the kernel for one place after another, from a      *)
(* probe that is one of three (chunks, huge mappings, metadata) and is     *)
(* drawn again when it reaches its ceiling.  One mmap is one step, so that *)
(* a call that never returns is a behaviour of the model.  A call that     *)
(* needs metadata gets it first, which may itself be an arena_morecore.    *)
(*                                                                         *)
(*    uninit --arena_init--> idle --Call--> core --Placed--> (core|idle)   *)
(*                                                                         *)
(* A metadata root is a set of equal slots here (InternalAllocator models  *)
(* it); a chunk is what is left of its mapping (Chunk models it).          *)
(*                                                                         *)
(* A definition like ResultProbe is a faulty variant of the one that       *)
(* follows it, which some property has to reject.                          *)
(***************************************************************************)
EXTENDS Integers, FiniteSets, Sequences

CONSTANTS
  \* The process and the kernel.
  Ceiling,      \* MAX_USERSPACE_ADDR64: the first page at or above it
  TaskSize,     \* the kernel maps below this page
  MinPage,      \* ... and not below this one (mmap_min_addr)
  Foreign,      \* pages the program itself has mapped
  Limit,        \* ENOMEM above this number of pages
  Relocates,    \* the kernel may ignore MAP_FIXED_NOREPLACE
  Breaks,       \* the possible initial program breaks
  \* The allocator.
  ChunkDraws,   \* what ALIGNUP_PAGE(splitmix32()) can be
  Pages44, Pages45,   \* MASK_44_BITS and MASK_45_BITS
  ChunkLen,     \* CHUNK_SIZE_BYTES
  RootLen,      \* ALIGNUP_PAGE(sizeof(int_alloc_t))
  Slots,        \* the metadata slots of a root
  \* The calls.
  Ops,          \* which of "run", "chunk", "huge", "realloc" are called
  HugeLens,     \* the lengths of huge mappings
  MaxItems      \* bound on what is allocated at a time

NONE == -1

ASSUME ArenaAssumption ==
  /\ {Ceiling, TaskSize, Limit, Pages44, Pages45, MaxItems} \subseteq Nat
  /\ {ChunkLen, RootLen, MinPage} \subseteq Nat \ {0}
  /\ Foreign \subseteq 0 .. TaskSize - 1
  /\ Slots # {} /\ Slots \subseteq Nat
  /\ Relocates \in BOOLEAN
  /\ Breaks \subseteq 0 .. Ceiling - 1
  /\ ChunkDraws \subseteq Nat /\ HugeLens \subseteq Nat

VARIABLES
  brk,         \* arena->brk
  probe,       \* chunk_alloc_ptr, huge_alloc_ptr, internal_alloc_ptr
  roots,       \* internal_alloc_list: key and used slots, newest first
  chunks,      \* chunk_list: key, pages still mapped, metadata
  huges,       \* huge_alloc_list: key, len, metadata
  runs,        \* the metadata of runs
  mapped,      \* the mapped pages of the process
  pc,
  call,        \* the current call: operation, length, mapping it reallocates, metadata
  job,         \* the probe arena_morecore works on
  new_probe    \* of platform_map_probe, NONE outside its loop

lists == <<roots, chunks, huges, runs>>
control == <<pc, call, job, new_probe>>
vars == <<brk, probe, lists, mapped, control>>

Jobs == {"chunk", "huge", "internal"}
Span(p, len) == p .. p + len - 1
Request(op, len, old) == [op |-> op, len |-> len, old |-> old, meta |-> <<NONE, NONE>>]
NoCall == Request("none", 0, NONE)

(***************************************************************************)
(* The reset functions: the probe and the program break they may give.     *)
(***************************************************************************)
reset_ia_ptr_start(p, b) == p \in b .. Ceiling
reset_huge_alloc_ptr_start(p, b) == p \in b .. Ceiling
reset_chunk_ptr_startKeep(p, b) == p \in ChunkDraws /\ b = brk
reset_chunk_ptr_start(p, b) ==
  /\ p \in ChunkDraws
  /\ b \in IF brk < Pages44 THEN 0 .. Pages45 ELSE {brk}

reset(j, p, b) ==
  CASE j = "chunk" -> reset_chunk_ptr_start(p, b)
    [] j = "huge" -> b = brk /\ reset_huge_alloc_ptr_start(p, b)
    [] j = "internal" -> b = brk /\ reset_ia_ptr_start(p, b)

Init ==
  /\ brk \in Breaks
  /\ probe = [j \in Jobs |-> 0]
  /\ roots = <<>> /\ chunks = {} /\ huges = {} /\ runs = {}
  /\ mapped = Foreign
  /\ pc = "uninit" /\ call = NoCall /\ job = "internal" /\ new_probe = NONE

\* The first malloc, calloc or realloc (malloc_api.c).
arena_init ==
  /\ pc = "uninit"
  /\ \E c, i, h \in 0 .. Ceiling, b \in 0 .. Ceiling :
       /\ reset_chunk_ptr_start(c, b)
       /\ reset_ia_ptr_start(i, b)
       /\ reset_huge_alloc_ptr_start(h, b)
       /\ probe' = [chunk |-> c, internal |-> i, huge |-> h]
       /\ brk' = b
  /\ pc' = "idle"
  /\ UNCHANGED <<lists, mapped, call, job, new_probe>>

-----------------------------------------------------------------------------
(***************************************************************************)
(* The kernel.                                                             *)
(***************************************************************************)
mmap(p, len) ==
  CASE len = 0 -> "EINVAL"
    [] len > 0 /\ p + len > TaskSize -> "ENOMEM"
    [] len > 0 /\ p + len <= TaskSize /\ p < MinPage -> "EPERM"
    [] OTHER -> IF Span(p, len) \cap mapped # {} THEN "EEXIST"
                ELSE IF Cardinality(mapped) + len > Limit THEN "ENOMEM" ELSE "OK"

-----------------------------------------------------------------------------
(***************************************************************************)
(* Metadata                                                                *)
(***************************************************************************)

\* The roots that can serve a request, by position, and the slot they give.
Roomy == {n \in DOMAIN roots : roots[n].used # Slots}
FreeSlot(r) == CHOOSE s \in Slots \ r.used : \A t \in Slots \ r.used : s <= t
FirstRoomy == CHOOSE n \in Roomy : \A m \in Roomy : n <= m

\* arena_internal_free, for metadata m = <<root, slot>>.
arena_internal_freeLeak(m) == roots' = roots
arena_internal_free(m) ==
  roots' = [n \in DOMAIN roots |->
              IF roots[n].key = m[1] THEN [roots[n] EXCEPT !.used = @ \ {m[2]}]
                                     ELSE roots[n]]

\* A call that has its metadata c.meta goes on to its mapping; the metadata of a
\* run is all that a run needs here.
WithMetadata(c) ==
  IF c.op = "run"
  THEN /\ runs' = runs \cup {c.meta}
       /\ pc' = "idle" /\ call' = NoCall
       /\ UNCHANGED <<job, chunks, huges>>
  ELSE /\ pc' = "core" /\ call' = c /\ job' = c.op
       /\ UNCHANGED <<runs, chunks, huges>>

-----------------------------------------------------------------------------
(***************************************************************************)
(* The calls.                                                              *)
(***************************************************************************)
NoItems == Cardinality(chunks) + Cardinality(huges) + Cardinality(runs)

\* arena_allocate_chunk, arena_allocate_huge_mapping, and the metadata of
\* arena_allocate_run: arena_internal_alloc takes a slot of the first root that has
\* one, or asks for a new root.
Allocate(op, len) ==
  /\ pc = "idle" /\ op \in Ops /\ NoItems < MaxItems
  /\ LET c == Request(op, len, NONE)
     IN IF Roomy # {}
        THEN LET n == FirstRoomy
                 s == FreeSlot(roots[n])
             IN /\ roots' = [roots EXCEPT ![n].used = @ \cup {s}]
                /\ WithMetadata([c EXCEPT !.meta = <<roots[n].key, s>>])
        ELSE /\ pc' = "core" /\ call' = c /\ job' = "internal"
             /\ UNCHANGED lists
  /\ UNCHANGED <<brk, probe, mapped, new_probe>>

\* arena_reallocate_huge_mapping, up to its arena_morecore.
Reallocate(h, len) ==
  /\ pc = "idle" /\ "realloc" \in Ops
  /\ pc' = "core" /\ job' = "huge"
  /\ call' = Request("realloc", len, h.key)
  /\ UNCHANGED <<brk, probe, lists, mapped, new_probe>>

arena_deallocate_huge_mapping(h) ==
  /\ pc = "idle"
  /\ mapped' = mapped \ Span(h.key, h.len)
  /\ huges' = huges \ {h}
  /\ arena_internal_free(h.meta)
  /\ UNCHANGED <<brk, probe, chunks, runs, control>>

\* A freeable run: its metadata is freed.
FreeRun(m) ==
  /\ pc = "idle"
  /\ runs' = runs \ {m}
  /\ arena_internal_free(m)
  /\ UNCHANGED <<brk, probe, chunks, huges, mapped, control>>

\* chunk_deallocate_run unmaps a part of chunk c; arena_deallocate_chunk drops the
\* chunk with its last part.
UnmapPartKeep(c, p) ==
  /\ pc = "idle" /\ p \in c.left
  /\ mapped' = mapped \ {p}
  /\ chunks' = (chunks \ {c}) \cup {[c EXCEPT !.left = @ \ {p}]}
  /\ UNCHANGED <<brk, probe, roots, huges, runs, control>>
UnmapPart(c, p) ==
  /\ pc = "idle" /\ p \in c.left
  /\ mapped' = mapped \ {p}
  /\ IF c.left = {p}
     THEN chunks' = chunks \ {c} /\ arena_internal_free(c.meta)
     ELSE chunks' = (chunks \ {c}) \cup {[c EXCEPT !.left = @ \ {p}]} /\ UNCHANGED roots
  /\ UNCHANGED <<brk, probe, huges, runs, control>>

-----------------------------------------------------------------------------
(***************************************************************************)
(* arena_morecore and platform_map_probe.                                  *)
(***************************************************************************)
MapLen == IF job = "internal" THEN RootLen ELSE IF job = "chunk" THEN ChunkLen ELSE call.len
CeilEntry == IF new_probe # NONE THEN TaskSize ELSE IF job = "chunk" THEN brk ELSE Ceiling
Ceil == IF job = "chunk" THEN brk ELSE Ceiling
At == IF new_probe = NONE THEN probe[job] ELSE new_probe

\* PLATFORM_STATUS_CEILING_HIT: the probe is drawn again.
CeilingHit(p, b) ==
  /\ pc = "core" /\ At >= Ceil
  /\ reset(job, p, b)
  /\ probe' = [probe EXCEPT ![job] = p]
  /\ brk' = b
  /\ new_probe' = NONE
  /\ UNCHANGED <<lists, mapped, pc, call, job>>

\* EEXIST: the next page.
Occupied ==
  /\ pc = "core" /\ At < Ceil
  /\ mmap(At, MapLen) = "EEXIST"
  /\ new_probe' = At + 1
  /\ UNCHANGED <<brk, probe, lists, mapped, pc, call, job>>

\* Any other error: arena_morecore calls again with the probe it had.
Refused ==
  /\ pc = "core" /\ At < Ceil
  /\ mmap(At, MapLen) \notin {"EEXIST", "OK"}
  /\ new_probe' = NONE
  /\ UNCHANGED <<brk, probe, lists, mapped, pc, call, job>>

\* What the caller does with the address map that arena_morecore returns, when the
\* probe is then p: it moves the probe on if it still points at the mapping, and
\* lists the mapping.
Bump(map, p) ==
  IF map = p THEN p + MapLen + (IF job = "internal" THEN 0 ELSE 1) ELSE p

List(map) ==
  CASE job = "internal" ->
         LET s == FreeSlot([used |-> {}])
         IN /\ roots' = <<[key |-> map, used |-> {s}]>> \o roots
            /\ WithMetadata([call EXCEPT !.meta = <<map, s>>])
    [] job = "chunk" ->
         /\ chunks' = chunks \cup {[key |-> map, left |-> Span(map, ChunkLen), meta |-> call.meta]}
         /\ pc' = "idle" /\ call' = NoCall
         /\ UNCHANGED <<roots, huges, runs, job>>
    [] job = "huge" /\ call.op = "huge" ->
         /\ huges' = huges \cup {[key |-> map, len |-> call.len, meta |-> call.meta]}
         /\ pc' = "idle" /\ call' = NoCall
         /\ UNCHANGED <<roots, chunks, runs, job>>
    [] job = "huge" /\ call.op = "realloc" ->
         /\ huges' = {IF h.key = call.old THEN [key |-> map, len |-> call.len, meta |-> h.meta]
                                         ELSE h : h \in huges}
         /\ pc' = "idle" /\ call' = NoCall
         /\ UNCHANGED <<roots, chunks, runs, job>>

\* What a reallocation unmaps once it has copied the data.
Unmapped == UNION {Span(h.key, h.len) : h \in {g \in huges : g.key = call.old}}

\* The kernel maps the pages it was asked for.
Placed ==
  /\ pc = "core" /\ At < Ceil
  /\ mmap(At, MapLen) = "OK"
  /\ mapped' = (mapped \cup Span(At, MapLen)) \ Unmapped
  /\ probe' = [probe EXCEPT ![job] = Bump(At, At)]
  /\ new_probe' = NONE
  /\ List(At)
  /\ UNCHANGED brk

\* PLATFORM_DIFFERENT_ADDRESS: the kernel maps at page map instead.  The probe is
\* drawn again (p); the address saved before that is the result.
ResultProbe(map, p) == p
Result(map, p) == map

Relocated(map, p, b) ==
  /\ pc = "core" /\ At < Ceil
  /\ Relocates /\ map # At /\ mmap(map, MapLen) = "OK"
  /\ mapped' = (mapped \cup Span(map, MapLen)) \ Unmapped
  /\ reset(job, p, b)
  /\ probe' = [probe EXCEPT ![job] = Bump(Result(map, p), p)]
  /\ brk' = b
  /\ new_probe' = NONE
  /\ List(Result(map, p))

-----------------------------------------------------------------------------
Calls ==
  \/ \E op \in {"run", "chunk"} : Allocate(op, 0)
  \/ \E len \in HugeLens : Allocate("huge", len)
  \/ \E h \in huges, len \in HugeLens \ {0} : Reallocate(h, len)
  \/ \E h \in huges : arena_deallocate_huge_mapping(h)
  \/ \E m \in runs : FreeRun(m)
  \/ \E c \in chunks : \E p \in c.left : UnmapPart(c, p)

Redraw(p) == \E b \in 0 .. Ceiling : CeilingHit(p, b)

morecore ==
  \/ \E p \in 0 .. Ceiling : Redraw(p)
  \/ Occupied \/ Refused \/ Placed
  \/ \E map \in MinPage .. TaskSize, p, b \in 0 .. Ceiling : Relocated(map, p, b)

Next == arena_init \/ Calls \/ morecore

Spec == Init /\ [][Next]_vars

\* A call takes its next step.  splitmix32 and splitmix64 run through all values (they
\* are a bijection of a counter): of a probe that is drawn again and again every page
\* that can be mapped is drawn, and of such a program break one above 44 bits.  That
\* the pages beyond are drawn too is not assumed: no call may depend on it.
Fairness ==
  /\ WF_vars(morecore)
  /\ \A p \in MinPage .. TaskSize - 1 : SF_vars(Redraw(p))
  /\ SF_vars(\E p, b \in 0 .. Ceiling : b >= Pages44 /\ CeilingHit(p, b))

LiveSpec == Spec /\ Fairness

-----------------------------------------------------------------------------
(***************************************************************************)
(* Properties                                                              *)
(***************************************************************************)
Metas == runs \cup {c.meta : c \in chunks} \cup {h.meta : h \in huges}
           \cup ({call.meta} \ {NoCall.meta})

TypeOK ==
  /\ brk \in 0 .. Ceiling
  /\ probe \in [Jobs -> Nat]
  /\ \A n \in DOMAIN roots : roots[n].used \subseteq Slots
  /\ mapped \subseteq 0 .. TaskSize - 1
  /\ pc \in {"uninit", "idle", "core"}
  /\ call.op \in Ops \cup {"none"}
  /\ job \in Jobs
  /\ new_probe \in {NONE} \cup (1 .. IF job = "chunk" THEN brk ELSE Ceiling)

\* What the arena believes it owns.
Owned ==
  {[of |-> r, pages |-> Span(r.key, RootLen)] : r \in {roots[n] : n \in DOMAIN roots}}
  \cup {[of |-> c, pages |-> c.left] : c \in chunks}
  \cup {[of |-> h, pages |-> Span(h.key, h.len)] : h \in huges}

\* The lists of the arena account for every page that the kernel mapped for it and
\* for no other, and no page twice: nothing leaks, nothing overlaps, whether a
\* mapping was placed at its probe, after a ceiling was hit, or where the kernel
\* chose; and a new mapping may lie in what a chunk has unmapped.
MappedExact ==
  /\ mapped = Foreign \cup UNION {o.pages : o \in Owned}
  /\ \A o \in Owned : o.pages \cap Foreign = {}
  /\ \A o, q \in Owned : o # q => o.pages \cap q.pages = {}

\* ll_add's assertions: a key is not NULL and is new in its list.  For chunks this
\* needs a chunk to leave the list with its last page.
KeysUnique ==
  /\ \A m, n \in DOMAIN roots : m # n => roots[m].key # roots[n].key
  /\ \A c, d \in chunks : c # d => c.key # d.key
  /\ \A g, h \in huges : g # h => g.key # h.key
  /\ \A x \in {roots[n] : n \in DOMAIN roots} \cup chunks \cup huges : x.key # 0

\* Every metadata slot in use belongs to exactly one run, chunk, huge mapping or
\* call, and the reverse: metadata is neither leaked nor freed while it is in use.
MetadataExact ==
  /\ Metas = UNION {{<<roots[n].key, s>> : s \in roots[n].used} : n \in DOMAIN roots}
  /\ Cardinality(Metas) = NoItems + (IF call.meta = NoCall.meta THEN 0 ELSE 1)

\* arena.h, "@warning Terminates if could not allocate", "@return NULL if EOM",
\* "@warning fails if mapping could not be allocated": every call of the arena
\* returns or ends the process.
CallReturns == pc = "core" ~> pc = "idle"

\* A place that no mapping of this length can have.  platform_map_probe compares the
\* probe with the ceiling, not the end of the mapping, and with no lower bound.
Unmappable == At < Ceil /\ (At < MinPage \/ At + MapLen > TaskSize)

\* What is true of CallReturns: with memory left, a call returns or comes to a place
\* at either end of the address space, where the kernel refuses it for ever.  It is
\* held up by nothing else: neither by occupied pages, nor by a ceiling hit again
\* and again, nor by a program break that was drawn below the chunk probes.
ReturnsOrUnmappable == pc = "core" ~> (pc = "idle" \/ Unmappable)
=============================================================================
