----------------------------- MODULE BinProofs -----------------------------
(***************************************************************************)
(* Proofs about Bin for every region size, number of runs, generator set   *)
(* and minimum of regions.                                                 *)
(*                                                                         *)
(* They need one hypothesis beyond the assumptions of Run and Bin:         *)
(* BitmapCoversRun, that run_init clears the bitmap item of every offset   *)
(* of a run.  Without it free can be taken in by the tail of a run (see    *)
(* FreeAcceptsOnlyLive), and the counters no longer tell when a run may be *)
(* unmapped.                                                               *)
(***************************************************************************)
EXTENDS Bin, TLAPS, FiniteSetTheorems

\* The facts about natural numbers that the proofs share.
Lib == INSTANCE BuddyTreeProofs WITH Depth <- 1

BitmapCoversRun == StaleItems = {}

-----------------------------------------------------------------------------
(***************************************************************************)
(* Indices and offsets                                                     *)
(***************************************************************************)

\* A run has at least one region, the bitmap has an item for each, and offsets of
\* regions are offsets of the run.
LEMMA RegionFacts ==
  /\ Elems \in Nat \ {0}
  /\ Elems * RegSize <= RunSize
  /\ RegionIdx \subseteq ItemIdx
  /\ \A i \in RegionIdx : i * RegSize \in 0 .. RunSize - 1
<1>1. RegSize \in Nat \ {0} /\ RunSize \in Nat /\ RunSize >= 1 * RegSize
  BY SizeAssumption
<1>2. Elems \in Nat /\ Elems >= 1
  BY <1>1, Lib!DivBound DEF Elems
<1>3. RunSize = RegSize * Elems + (RunSize % RegSize) /\ RunSize % RegSize \in 0 .. RegSize - 1
  BY <1>1 DEF Elems
<1>4. Elems * RegSize <= RunSize
  BY <1>1, <1>2, <1>3
<1>5. RunSize - 1 \in Nat /\ RunSize - 1 >= (Elems - 1) * RegSize /\ Elems - 1 \in Nat
  BY <1>1, <1>2, <1>4
<1>6. (RunSize - 1) \div RegSize \in Nat /\ (RunSize - 1) \div RegSize >= Elems - 1
  BY <1>1, <1>5, Lib!DivBound
<1>7. RegionIdx \subseteq ItemIdx
  BY <1>2, <1>6 DEF RegionIdx, ItemIdx
<1>8. ASSUME NEW i \in RegionIdx PROVE i * RegSize \in 0 .. RunSize - 1
  <2>1. i \in Nat /\ i + 1 <= Elems
    BY <1>2 DEF RegionIdx
  <2>2. (i + 1) * RegSize <= Elems * RegSize /\ i * RegSize \in Nat
    BY <2>1, <1>1, <1>2
  <2>3. (i + 1) * RegSize = i * RegSize + RegSize
    BY <2>1, <1>1
  <2> DEFINE x == i * RegSize
             y == Elems * RegSize
  <2>4. x \in Nat /\ x + RegSize <= y /\ y <= RunSize
    BY <2>2, <2>3, <1>4
  <2> HIDE DEF x, y
  <2>5. x \in 0 .. RunSize - 1
    BY <2>4, <1>1, <1>2 DEF y
  <2> QED BY <2>5 DEF x
<1> QED BY <1>2, <1>4, <1>7, <1>8

\* Every offset of a run has an item in the bitmap, and an aligned offset with an
\* index below Elems is the offset of that region.
LEMMA OffsetFacts ==
  ASSUME NEW rel \in 0 .. RunSize - 1
  PROVE  /\ rel \div RegSize \in ItemIdx
         /\ rel % RegSize = 0 => rel = (rel \div RegSize) * RegSize
<1>1. RegSize \in Nat \ {0} /\ RunSize \in Nat /\ RunSize >= RegSize
  BY SizeAssumption
<1>2. rel % RegSize = 0 => rel = (rel \div RegSize) * RegSize
  BY <1>1, Lib!DivMul
<1> DEFINE top == (RunSize - 1) \div RegSize
<1>3. top \in Nat /\ rel \div RegSize \in Nat
  BY <1>1, Lib!DivBound
<1>4. RunSize - 1 = RegSize * top + ((RunSize - 1) % RegSize)
      /\ (RunSize - 1) % RegSize \in 0 .. RegSize - 1
  BY <1>1
<1>5. rel < (top + 1) * RegSize
  BY <1>1, <1>3, <1>4
<1>6. rel \div RegSize < top + 1
  BY <1>1, <1>3, <1>5, Lib!DivBound
<1> QED BY <1>2, <1>3, <1>6 DEF ItemIdx

\* The offset of region i is aligned and has index i.
LEMMA RegionOffset ==
  ASSUME NEW i \in RegionIdx
  PROVE  (i * RegSize) \div RegSize = i /\ (i * RegSize) % RegSize = 0
<1>1. i \in Nat /\ RegSize \in Nat \ {0}
  BY RegionFacts, SizeAssumption DEF RegionIdx
<1> QED BY <1>1, Lib!MulDiv

-----------------------------------------------------------------------------
(***************************************************************************)
(* The operations of a run                                                 *)
(***************************************************************************)

\* The regions of a run in state st.
Having(r, st) == {i \in RegionIdx : r.reg_bitmap[i] = st}

\* There are at most Elems regions in a state, and all of them are in it if there
\* are Elems.
LEMMA HavingFacts ==
  ASSUME NEW r, NEW st
  PROVE  /\ IsFiniteSet(Having(r, st))
         /\ Cardinality(Having(r, st)) \in 0 .. Elems
         /\ Cardinality(Having(r, st)) = Elems => Having(r, st) = RegionIdx
         /\ Having(r, st) = RegionIdx => Cardinality(Having(r, st)) = Elems
         /\ Cardinality(Having(r, st)) = 0 <=> Having(r, st) = {}
<1>1. IsFiniteSet(RegionIdx) /\ Cardinality(RegionIdx) = Elems
  BY RegionFacts, FS_Interval DEF RegionIdx
<1>2. Having(r, st) \in SUBSET RegionIdx
  BY DEF Having
<1>3. /\ IsFiniteSet(Having(r, st))
      /\ Cardinality(Having(r, st)) <= Cardinality(RegionIdx)
      /\ Cardinality(RegionIdx) = Cardinality(Having(r, st)) => RegionIdx = Having(r, st)
  BY <1>1, <1>2, FS_Subset
<1>4. Cardinality(Having(r, st)) \in Nat
  BY <1>3, FS_CardinalityType
<1>5. Cardinality(Having(r, st)) = 0 <=> Having(r, st) = {}
  BY <1>3, FS_EmptySet
<1> QED BY <1>1, <1>3, <1>4, <1>5, RegionFacts

\* A new run is free everywhere.
LEMMA RunInit ==
  ASSUME BitmapCoversRun, NEW g \in Gens, NEW s \in RegionIdx, NEW stale
  PROVE  /\ run_init(g, s, stale) \in RunState
         /\ \A i \in ItemIdx : run_init(g, s, stale).reg_bitmap[i] = FREE
         /\ run_init(g, s, stale).navail = Elems
         /\ run_init(g, s, stale).nfreed = 0
         /\ WalkInv(run_init(g, s, stale))
<1> DEFINE r == run_init(g, s, stale)
<1>1. /\ r.navail = Elems /\ r.nfreed = 0 /\ r.gen = g /\ r.current_idx = s
      /\ r.reg_bitmap = [i \in ItemIdx |-> FREE]
      /\ r.tag = [i \in RegionIdx |-> 0]
      /\ r = [navail |-> Elems, nfreed |-> 0, gen |-> g, current_idx |-> s,
              reg_bitmap |-> [i \in ItemIdx |-> FREE], tag |-> [i \in RegionIdx |-> 0]]
  BY DEF run_init, BitmapCoversRun
<1>2. r \in RunState
  BY <1>1, RegionFacts, TagAssumption DEF RunState, STATES
<1>3. s \in Nat /\ s < Elems /\ g \in Nat
  BY RegionFacts, GeneratorAssumption DEF RegionIdx
<1>4. (s + 0 * g) % Elems = s
  <2>1. s = Elems * 0 + s /\ s \in 0 .. Elems - 1 /\ s \in Int
    BY <1>3, RegionFacts
  <2>2. s % Elems = s
    BY <2>1, RegionFacts, Lib!DivModUnique
  <2>3. s + 0 * g = s
    BY <1>3
  <2> QED BY <2>2, <2>3
<1>5. ASSUME NEW j \in 1 .. Elems PROVE (s + j * g) % Elems \in ItemIdx
  <2>1. s + j * g \in Nat
    BY <1>3, RegionFacts
  <2>2. (s + j * g) % Elems \in 0 .. Elems - 1
    BY <2>1, RegionFacts
  <2> QED BY <2>2, RegionFacts DEF RegionIdx
<1>6. WalkInv(r)
  <2>1. r.current_idx = (s + (Elems - r.navail) * r.gen) % Elems
    BY <1>1, <1>4, RegionFacts
  <2>2. \A j \in 1 .. Elems :
          r.reg_bitmap[(s + j * r.gen) % Elems] = FREE <=> j > Elems - r.navail
    BY <1>1, <1>5, RegionFacts
  <2> QED BY <2>1, <2>2 DEF WalkInv
<1> QED BY <1>1, <1>2, <1>6

\* An allocation takes the next region of the walk, which is free, and leaves the
\* rest of the walk free.
LEMMA RunAllocate ==
  ASSUME NEW r \in RunState, WalkInv(r), r.navail > 0, NEW t \in Tags
  PROVE  /\ NextIdx(r) \in RegionIdx
         /\ r.reg_bitmap[NextIdx(r)] = FREE
         /\ run_allocate(r, t) \in RunState
         /\ run_allocate(r, t).current_idx = NextIdx(r)
         /\ run_allocate(r, t).navail = r.navail - 1
         /\ run_allocate(r, t).nfreed = r.nfreed
         /\ run_allocate(r, t).reg_bitmap = [r.reg_bitmap EXCEPT ![NextIdx(r)] = ALLOC]
         /\ WalkInv(run_allocate(r, t))
<1> DEFINE i == NextIdx(r)
           q == run_allocate(r, t)
           n == Elems - r.navail
<1>0. r.navail \in 0 .. Elems
  BY DEF RunState
<1>1. /\ r.navail \in 1 .. Elems /\ r.gen \in Gens /\ r.gen \in Nat
      /\ r.current_idx \in RegionIdx
      /\ r.reg_bitmap \in [ItemIdx -> STATES] /\ r.tag \in [RegionIdx -> Tags]
      /\ r.nfreed \in Nat
  <2>1. r.navail \in 1 .. Elems
    BY <1>0, RegionFacts
  <2>2. /\ r.gen \in Gens /\ r.gen \in Nat /\ r.current_idx \in RegionIdx
        /\ r.reg_bitmap \in [ItemIdx -> STATES] /\ r.tag \in [RegionIdx -> Tags]
        /\ r.nfreed \in Nat
    BY GeneratorAssumption DEF RunState
  <2> QED BY <2>1, <2>2
<1>2. n \in 0 .. Elems - 1
  BY <1>1, RegionFacts
<1>3. PICK s \in RegionIdx :
        /\ r.current_idx = (s + n * r.gen) % Elems
        /\ \A j \in 1 .. Elems :
             r.reg_bitmap[(s + j * r.gen) % Elems] = FREE <=> j > n
  BY DEF WalkInv
<1>4. s \in Nat
  BY RegionFacts DEF RegionIdx
<1>5. i = (s + (n + 1) * r.gen) % Elems
  <2> DEFINE x == s + n * r.gen
  <2>1. x \in Nat /\ x + r.gen = s + (n + 1) * r.gen
    BY <1>1, <1>2, <1>4, RegionFacts
  <2> HIDE DEF x
  <2>2. (r.gen + (x % Elems)) % Elems = (x + r.gen) % Elems
    <3>1. 1 \in Nat \ {0} /\ Elems \in Nat \ {0} /\ r.gen \in Nat
      BY <1>1, RegionFacts
    <3> QED BY <3>1, <2>1, Lib!ModStep, Zenon
  <2>3. i = (r.gen + (x % Elems)) % Elems
    BY <1>3 DEF NextIdx, x
  <2> QED BY <2>1, <2>2, <2>3
<1>6. i \in RegionIdx /\ r.reg_bitmap[i] = FREE
  <2>1. r.gen + r.current_idx \in Nat
    BY <1>1, RegionFacts DEF RegionIdx
  <2>2. i \in RegionIdx
    BY <2>1, RegionFacts DEF NextIdx, RegionIdx
  <2>3. n + 1 \in 1 .. Elems /\ n + 1 > n
    BY <1>2, RegionFacts
  <2> HIDE DEF n
  <2> QED BY <2>2, <2>3, <1>3, <1>5
<1>7. q \in RunState
  <2>1. [r.reg_bitmap EXCEPT ![i] = ALLOC] \in [ItemIdx -> STATES]
    BY <1>1, <1>6 DEF STATES
  <2>2. [r.tag EXCEPT ![i] = t] \in [RegionIdx -> Tags]
    BY <1>1, <1>6
  <2>3. r.navail - 1 \in 0 .. Elems
    BY <1>1, RegionFacts
  <2> QED BY <2>1, <2>2, <2>3, <1>6 DEF run_allocate, RunState
<1>8. /\ q.navail = r.navail - 1
      /\ q.reg_bitmap = [r.reg_bitmap EXCEPT ![i] = ALLOC]
      /\ q.current_idx = i /\ q.nfreed = r.nfreed /\ q.gen = r.gen
  <2>1. q.navail = r.navail - 1
    BY DEF run_allocate, RunState
  <2>2. q.reg_bitmap = [r.reg_bitmap EXCEPT ![i] = ALLOC]
    BY DEF run_allocate, RunState
  <2>3. q.current_idx = i /\ q.nfreed = r.nfreed /\ q.gen = r.gen
    BY DEF run_allocate, RunState
  <2> QED BY <2>1, <2>2, <2>3
<1> HIDE DEF i, q
<1>9. WalkInv(q)
  <2>1. Elems - q.navail = n + 1
    BY <1>1, <1>8, RegionFacts
  <2>2. q.current_idx = (s + (Elems - q.navail) * q.gen) % Elems
    BY <2>1, <1>5, <1>8
  <2>3. ASSUME NEW j \in 1 .. Elems
        PROVE  q.reg_bitmap[(s + j * q.gen) % Elems] = FREE <=> j > n + 1
    <3> DEFINE m == (s + j * r.gen) % Elems
    <3>1. s + j * r.gen \in Nat
      BY <1>1, <1>4, RegionFacts
    <3>2. m \in ItemIdx
      BY <3>1, RegionFacts DEF RegionIdx
    <3>3. m = i <=> j = n + 1
      <4>1. n + 1 \in 1 .. Elems
        BY <1>2, RegionFacts
      <4> HIDE DEF n
      <4>2. (s + j * r.gen) % Elems = (s + (n + 1) * r.gen) % Elems => j = n + 1
        BY <4>1, <1>1, GeneratorAssumption
      <4> QED BY <4>2, <1>5
    <3>4. r.reg_bitmap[m] = FREE <=> j > n
      BY <1>3
    <3>5. q.reg_bitmap[m] = FREE <=> m # i /\ r.reg_bitmap[m] = FREE
      BY <1>1, <1>8, <3>2 DEF FREE, ALLOC
    <3> HIDE DEF m
    <3>6. q.reg_bitmap[m] = FREE <=> j > n + 1
      BY <3>3, <3>4, <3>5, <1>2, RegionFacts
    <3> QED BY <3>6, <1>8 DEF m
  <2> QED BY <2>1, <2>2, <2>3 DEF WalkInv
<1> QED BY <1>6, <1>7, <1>8, <1>9 DEF i, q

\* An offset that run_validate_ptr accepts is the offset of an allocated region,
\* provided that no item of the tail is set; freeing it leaves the walk alone.
LEMMA RunDeallocate ==
  ASSUME NEW r \in RunState, NEW rel \in 0 .. RunSize - 1,
         \A i \in ItemIdx \ RegionIdx : r.reg_bitmap[i] = FREE,
         run_validate_ptr(r, rel) # INVALID
  PROVE  LET i == rel \div RegSize
             q == run_deallocate(r, rel)
         IN /\ i \in RegionIdx /\ rel = i * RegSize /\ r.reg_bitmap[i] = ALLOC
            /\ q \in RunState
            /\ q.navail = r.navail
            /\ q.nfreed = r.nfreed + 1
            /\ q.reg_bitmap = [r.reg_bitmap EXCEPT ![i] = ALLOC_FREE]
            /\ WalkInv(r) => WalkInv(q)
<1> DEFINE i == rel \div RegSize
           q == run_deallocate(r, rel)
<1>1. /\ r.navail \in 0 .. Elems /\ r.gen \in Gens /\ r.gen \in Nat
      /\ r.current_idx \in RegionIdx
      /\ r.reg_bitmap \in [ItemIdx -> STATES] /\ r.tag \in [RegionIdx -> Tags]
      /\ r.nfreed \in Nat
  BY GeneratorAssumption DEF RunState
<1>2. rel % RegSize = 0 /\ r.reg_bitmap[i] = ALLOC /\ run_validate_ptr(r, rel) = i
  BY DEF run_validate_ptr
<1>3. i \in ItemIdx /\ rel = i * RegSize
  BY <1>2, OffsetFacts
<1>4. i \in RegionIdx
  BY <1>2, <1>3 DEF FREE, ALLOC
<1> HIDE DEF i
<1>5. /\ q.navail = r.navail /\ q.nfreed = r.nfreed + 1
      /\ q.current_idx = r.current_idx /\ q.gen = r.gen
      /\ q.reg_bitmap = [r.reg_bitmap EXCEPT ![i] = ALLOC_FREE]
  <2>1. q.navail = r.navail /\ q.current_idx = r.current_idx /\ q.gen = r.gen
    BY <1>2 DEF run_deallocate, RunState
  <2>2. q.reg_bitmap = [r.reg_bitmap EXCEPT ![i] = ALLOC_FREE]
    BY <1>2 DEF run_deallocate, RunState
  <2>3. q.nfreed = r.nfreed + 1
    BY <1>2 DEF run_deallocate, RunState
  <2> QED BY <2>1, <2>2, <2>3
<1>6. q \in RunState
  <2>1. [r.reg_bitmap EXCEPT ![i] = ALLOC_FREE] \in [ItemIdx -> STATES]
    BY <1>1, <1>3 DEF STATES
  <2> DEFINE m == [r.reg_bitmap EXCEPT ![i] = ALLOC_FREE]
  <2>2. q = [r EXCEPT !.reg_bitmap = m, !.nfreed = r.nfreed + 1]
    BY <1>2 DEF run_deallocate, RunState
  <2>3. m \in [ItemIdx -> STATES] /\ r.nfreed + 1 \in Nat
    BY <2>1, <1>1
  <2> HIDE DEF m, q
  <2> QED BY <2>2, <2>3 DEF RunState
<1> HIDE DEF q
<1>7. ASSUME NEW m \in ItemIdx PROVE q.reg_bitmap[m] = FREE <=> r.reg_bitmap[m] = FREE
  BY <1>1, <1>2, <1>5 DEF FREE, ALLOC, ALLOC_FREE
<1>8. ASSUME WalkInv(r) PROVE WalkInv(q)
  <2>1. PICK s \in RegionIdx :
          /\ r.current_idx = (s + (Elems - r.navail) * r.gen) % Elems
          /\ \A j \in 1 .. Elems :
               r.reg_bitmap[(s + j * r.gen) % Elems] = FREE <=> j > Elems - r.navail
    BY <1>8 DEF WalkInv
  <2>2. ASSUME NEW j \in 1 .. Elems PROVE (s + j * r.gen) % Elems \in ItemIdx
    <3>1. s \in Nat /\ j \in Nat /\ r.gen \in Nat
      BY <1>1, RegionFacts DEF RegionIdx
    <3>2. s + j * r.gen \in Nat
      BY <3>1
    <3> QED BY <3>2, RegionFacts DEF RegionIdx
  <2>3. \A j \in 1 .. Elems :
          q.reg_bitmap[(s + j * r.gen) % Elems] = FREE <=> j > Elems - r.navail
    BY <2>1, <2>2, <1>7
  <2> QED BY <2>1, <2>3, <1>5 DEF WalkInv
<1> QED BY <1>2, <1>3, <1>4, <1>5, <1>6, <1>8 DEF i, q

-----------------------------------------------------------------------------
(***************************************************************************)
(* The steps of a bin                                                      *)
(***************************************************************************)

\* The part of the inductive invariant that does not mention where a call is.
CoreInv ==
  /\ active \subseteq Keys /\ inactive \subseteq Keys
  /\ runs \in [active \cup inactive -> RunState]
  /\ run_list_active_cnt \in Nat
  /\ avail_regs \in Nat
  /\ live \subseteq Ptr /\ given \subseteq Ptr
  /\ CountersAgree
  /\ ListsAgree
  /\ \A k \in DOMAIN runs : WalkInv(runs[k])
  /\ HistoryInv

\* The regions a bin can choose from are finitely many.
LEMMA FreeRegionsFinite ==
  ASSUME CoreInv
  PROVE  IsFiniteSet(active) /\ IsFiniteSet(FreeRegions)
<1>1. IsFiniteSet(active)
  BY KeysAssumption, FS_Subset DEF CoreInv
<1>2. IsFiniteSet(RegionIdx)
  BY RegionFacts, FS_Interval DEF RegionIdx
<1>3. IsFiniteSet(active \X RegionIdx)
  BY <1>1, <1>2, FS_Product
<1>4. FreeRegions \in SUBSET (active \X RegionIdx)
  BY DEF FreeRegions
<1> QED BY <1>1, <1>3, <1>4, FS_Subset

\* bin_add_run of a new run keeps the counters and the lists right and makes
\* Elems more regions available.
LEMMA NewRunInv ==
  ASSUME BitmapCoversRun, CoreInv, NewRun, UNCHANGED history
  PROVE  CoreInv' /\ avail_regs' = avail_regs + Elems
<1>1. PICK k \in Keys \ DOMAIN runs, g \in Gens, s \in RegionIdx,
           stale \in [StaleItems -> STATES] : bin_add_run(k, run_init(g, s, stale))
  BY DEF NewRun
<1> DEFINE r == run_init(g, s, stale)
<1>2. /\ r \in RunState
      /\ \A i \in ItemIdx : r.reg_bitmap[i] = FREE
      /\ r.navail = Elems /\ r.nfreed = 0 /\ WalkInv(r)
  BY RunInit
<1>3. /\ runs' = [x \in DOMAIN runs \cup {k} |-> IF x = k THEN r ELSE runs[x]]
      /\ avail_regs' = avail_regs + r.navail
      /\ run_list_active_cnt' = run_list_active_cnt + 1
      /\ active' = active \cup {k} /\ inactive' = inactive
      /\ live' = live /\ given' = given
  BY <1>1 DEF bin_add_run, history
<1> HIDE DEF r
<1>4. /\ DOMAIN runs = active \cup inactive
      /\ DOMAIN runs' = DOMAIN runs \cup {k}
      /\ runs'[k] = r
      /\ \A x \in DOMAIN runs : runs'[x] = runs[x] /\ x # k
      /\ k \notin active /\ k \notin inactive
  BY <1>1, <1>3 DEF CoreInv
<1>5. avail_regs' = avail_regs + Elems
  BY <1>2, <1>3
<1>6. /\ active' \subseteq Keys /\ inactive' \subseteq Keys
      /\ runs' \in [active' \cup inactive' -> RunState]
  BY <1>1, <1>2, <1>3, <1>4 DEF CoreInv
<1>7. run_list_active_cnt' \in Nat /\ avail_regs' \in Nat
  BY <1>3, <1>5, RegionFacts DEF CoreInv
<1>8. live' \subseteq Ptr /\ given' \subseteq Ptr
  BY <1>3 DEF CoreInv, Ptr
<1>9. CountersAgree'
  <2>1. run_list_active_cnt' = Cardinality(active')
    BY <1>3, <1>4, FreeRegionsFinite, FS_AddElement DEF CoreInv, CountersAgree
  <2>2. avail_regs' = Cardinality(FreeRegions')
    <3> DEFINE N == {k} \X RegionIdx
    <3>1. IsFiniteSet(N) /\ Cardinality(N) = Elems
      <4>1. IsFiniteSet(RegionIdx) /\ Cardinality(RegionIdx) = Elems
        BY RegionFacts, FS_Interval DEF RegionIdx
      <4>2. IsFiniteSet({k}) /\ Cardinality({k}) = 1
        BY FS_Singleton
      <4>3. IsFiniteSet(N) /\ Cardinality(N) = 1 * Elems
        BY <4>1, <4>2, FS_Product
      <4> QED BY <4>3, RegionFacts
    <3>2. FreeRegions' = FreeRegions \cup N
      <4>1. ASSUME NEW x \in active, NEW i \in RegionIdx
            PROVE  runs'[x].reg_bitmap[i] = runs[x].reg_bitmap[i]
        BY <1>4
      <4>2. \A i \in RegionIdx : runs'[k].reg_bitmap[i] = FREE
        BY <1>2, <1>4, RegionFacts
      <4>3. ASSUME NEW x \in active \cup {k}, NEW i \in RegionIdx
            PROVE  <<x, i>> \in FreeRegions' <=> <<x, i>> \in FreeRegions \cup N
        <5>1. <<x, i>> \in FreeRegions' <=> runs'[x].reg_bitmap[i] = FREE
          BY <1>3 DEF FreeRegions
        <5>2. <<x, i>> \in FreeRegions <=> x \in active /\ runs[x].reg_bitmap[i] = FREE
          BY DEF FreeRegions
        <5>3. <<x, i>> \in N <=> x = k
          OBVIOUS
        <5> QED BY <5>1, <5>2, <5>3, <4>1, <4>2
      <4>4. FreeRegions' \subseteq (active \cup {k}) \X RegionIdx
        BY <1>3 DEF FreeRegions
      <4>5. FreeRegions \cup N \subseteq (active \cup {k}) \X RegionIdx
        BY DEF FreeRegions
      <4> HIDE DEF N
      <4> QED BY <4>3, <4>4, <4>5
    <3>3. FreeRegions \cap N = {}
      BY <1>4 DEF FreeRegions
    <3>4. Cardinality(FreeRegions \cup N) = Cardinality(FreeRegions) + Elems
      <4> HIDE DEF N
      <4>1. Cardinality(FreeRegions \cup N)
              = Cardinality(FreeRegions) + Cardinality(N) - Cardinality(FreeRegions \cap N)
        BY <3>1, FreeRegionsFinite, FS_Union
      <4>2. Cardinality(FreeRegions \cap N) = 0
        BY <3>3, FS_EmptySet
      <4>3. Cardinality(FreeRegions) \in Nat
        BY FreeRegionsFinite, FS_CardinalityType
      <4> QED BY <4>1, <4>2, <4>3, <3>1, RegionFacts
    <3> QED BY <3>2, <3>4, <1>5 DEF CoreInv, CountersAgree
  <2>3. ASSUME NEW x \in DOMAIN runs'
        PROVE  /\ runs'[x].navail = Cardinality(Having(runs'[x], FREE))
               /\ runs'[x].nfreed = Cardinality(Having(runs'[x], ALLOC_FREE))
    <3>1. CASE x \in DOMAIN runs
      <4>1. /\ runs[x].navail = Cardinality(Having(runs[x], FREE))
            /\ runs[x].nfreed = Cardinality(Having(runs[x], ALLOC_FREE))
        BY <3>1 DEF CoreInv, CountersAgree, InState, Having
      <4> QED BY <3>1, <4>1, <1>4
    <3>2. CASE x = k
      <4>1. Having(r, FREE) = RegionIdx
        BY <1>2, RegionFacts DEF Having
      <4>2. Having(r, ALLOC_FREE) = {}
        BY <1>2, RegionFacts DEF Having, FREE, ALLOC_FREE
      <4> QED BY <3>2, <4>1, <4>2, <1>2, <1>4, HavingFacts
    <3> QED BY <3>1, <3>2, <1>4
  <2> QED BY <2>1, <2>2, <2>3 DEF CountersAgree, InState, Having
<1>10. ListsAgree'
  BY <1>2, <1>3, <1>4, RegionFacts DEF CoreInv, ListsAgree
<1>11. (\A x \in DOMAIN runs : WalkInv(runs[x]))'
  <2>1. ASSUME NEW x \in DOMAIN runs' PROVE WalkInv(runs'[x])
    BY <1>2, <1>4 DEF CoreInv
  <2> QED BY <2>1
<1>12. HistoryInv'
  <2>1. \A p \in given : p[1] \in DOMAIN runs
    BY DEF CoreInv, HistoryInv
  <2>2. \A i \in RegionIdx : <<k, i * RegSize>> \notin given /\ <<k, i * RegSize>> \notin live
    BY <2>1, <1>1 DEF CoreInv, HistoryInv
  <2>3. \A i \in ItemIdx : runs'[k].reg_bitmap[i] = FREE
    BY <1>2, <1>4
  <2>4. \A p \in given : p[1] \in DOMAIN runs' /\ \E i \in RegionIdx : p[2] = i * RegSize
    BY <1>4 DEF CoreInv, HistoryInv
  <2>5. ASSUME NEW x \in DOMAIN runs', NEW i \in RegionIdx
        PROVE  /\ <<x, i * RegSize>> \in live' <=> runs'[x].reg_bitmap[i] = ALLOC
               /\ <<x, i * RegSize>> \in given' <=> runs'[x].reg_bitmap[i] # FREE
    <3>1. CASE x \in DOMAIN runs
      BY <3>1, <1>3, <1>4 DEF CoreInv, HistoryInv
    <3>2. CASE x = k
      BY <3>2, <2>2, <2>3, <1>3, RegionFacts DEF FREE, ALLOC
    <3> QED BY <3>1, <3>2, <1>4
  <2>6. \A x \in DOMAIN runs', i \in ItemIdx \ RegionIdx : runs'[x].reg_bitmap[i] = FREE
    BY <2>3, <1>4 DEF CoreInv, HistoryInv
  <2>7. live' \subseteq given'
    BY <1>3 DEF CoreInv, HistoryInv
  <2> QED BY <2>4, <2>5, <2>6, <2>7, <1>3 DEF HistoryInv
<1> QED BY <1>5, <1>6, <1>7, <1>8, <1>9, <1>10, <1>11, <1>12 DEF CoreInv

\* Allocate hands out a region that was never given and keeps the invariant; a run
\* that is depleted by it has no region to lose by moving to the inactive list.
LEMMA AllocateInv ==
  ASSUME CoreInv, NEW k \in active, Allocate(k)
  PROVE  /\ CoreInv'
         /\ avail_regs' = avail_regs - 1
         /\ \E i \in RegionIdx :
              /\ <<k, i * RegSize>> \notin given
              /\ live' = live \cup {<<k, i * RegSize>>}
              /\ given' = given \cup {<<k, i * RegSize>>}
<1> DEFINE r == runs[k]
           i == NextIdx(r)
           p == <<k, i * RegSize>>
<1>1. PICK t \in TagChoices(r) :
        LET q == run_allocate(r, t)
        IN /\ runs' = [runs EXCEPT ![k] = q]
           /\ avail_regs' = avail_regs - 1
           /\ Retire(k, q)
           /\ live' = live \cup {<<k, q.current_idx * RegSize>>}
           /\ given' = given \cup {<<k, q.current_idx * RegSize>>}
  BY DEF Allocate, bin_get_run_for_allocation
<1> DEFINE q == run_allocate(r, t)
<1>2. t \in Tags
  BY TagAssumption DEF TagChoices
<1>3. /\ DOMAIN runs = active \cup inactive /\ k \in DOMAIN runs
      /\ r \in RunState /\ WalkInv(r) /\ r.navail > 0
      /\ k \in Keys /\ k \notin inactive
  BY DEF CoreInv, ListsAgree
<1> HIDE DEF r
<1>4. /\ i \in RegionIdx /\ r.reg_bitmap[i] = FREE
      /\ q \in RunState /\ q.current_idx = i
      /\ q.navail = r.navail - 1 /\ q.nfreed = r.nfreed
      /\ q.reg_bitmap = [r.reg_bitmap EXCEPT ![i] = ALLOC]
      /\ WalkInv(q)
  BY <1>2, <1>3, RunAllocate
<1>5. /\ runs' = [runs EXCEPT ![k] = q]
      /\ avail_regs' = avail_regs - 1
      /\ Retire(k, q)
      /\ live' = live \cup {p} /\ given' = given \cup {p}
  BY <1>1, <1>4
<1> HIDE DEF i, q
<1>6. /\ DOMAIN runs' = DOMAIN runs /\ runs'[k] = q
      /\ \A x \in DOMAIN runs : x # k => runs'[x] = runs[x]
  BY <1>3, <1>5
<1>7. /\ r.reg_bitmap \in [ItemIdx -> STATES] /\ i \in ItemIdx
      /\ r.navail \in 0 .. Elems /\ r.nfreed \in Nat
  BY <1>3, <1>4, RegionFacts DEF RunState
<1>8. \A j \in ItemIdx : q.reg_bitmap[j] = IF j = i THEN ALLOC ELSE r.reg_bitmap[j]
  BY <1>4, <1>7
<1>9. /\ r.navail = Cardinality(Having(r, FREE))
      /\ r.nfreed = Cardinality(Having(r, ALLOC_FREE))
  BY <1>3 DEF CoreInv, CountersAgree, InState, Having, r
<1>10. /\ q.navail = Cardinality(Having(q, FREE))
       /\ q.nfreed = Cardinality(Having(q, ALLOC_FREE))
  <2>1. Having(q, FREE) = Having(r, FREE) \ {i} /\ i \in Having(r, FREE)
    BY <1>4, <1>8, RegionFacts DEF Having, FREE, ALLOC
  <2>2. Having(q, ALLOC_FREE) = Having(r, ALLOC_FREE)
    BY <1>4, <1>8, RegionFacts DEF Having, FREE, ALLOC, ALLOC_FREE
  <2>3. Cardinality(Having(q, FREE)) = Cardinality(Having(r, FREE)) - 1
    BY <2>1, HavingFacts, FS_RemoveElement
  <2> QED BY <2>2, <2>3, <1>4, <1>9
<1>11. \/ /\ q.navail = 0 /\ active' = active \ {k} /\ inactive' = inactive \cup {k}
          /\ run_list_active_cnt' = run_list_active_cnt - 1
       \/ /\ q.navail # 0 /\ active' = active /\ inactive' = inactive
          /\ run_list_active_cnt' = run_list_active_cnt
  BY <1>5 DEF Retire, run_is_depleted
<1>12. FreeRegions' = FreeRegions \ {<<k, i>>} /\ <<k, i>> \in FreeRegions
  <2>1. ASSUME NEW x \in active, NEW j \in RegionIdx
        PROVE  <<x, j>> \in FreeRegions' <=> <<x, j>> \in FreeRegions \ {<<k, i>>}
    <3>1. <<x, j>> \in FreeRegions' <=> x \in active' /\ runs'[x].reg_bitmap[j] = FREE
      BY DEF FreeRegions
    <3>2. <<x, j>> \in FreeRegions <=> runs[x].reg_bitmap[j] = FREE
      BY DEF FreeRegions
    <3>3. CASE x # k
      BY <3>1, <3>2, <3>3, <1>3, <1>6, <1>11
    <3>4. CASE x = k /\ q.navail # 0
      BY <3>1, <3>2, <3>4, <1>6, <1>8, <1>11, RegionFacts DEF FREE, ALLOC, r
    <3>5. CASE x = k /\ q.navail = 0
      <4>1. Having(q, FREE) = {}
        BY <3>5, <1>10, HavingFacts
      <4>2. q.reg_bitmap[j] # FREE
        BY <4>1 DEF Having
      <4>3. j = i \/ r.reg_bitmap[j] # FREE
        BY <4>2, <1>8, RegionFacts
      <4> QED BY <4>3, <3>1, <3>2, <3>5, <1>11 DEF r
    <3> QED BY <3>3, <3>4, <3>5
  <2>2. active' \subseteq active
    BY <1>11
  <2>3. FreeRegions' \subseteq active \X RegionIdx /\ FreeRegions \subseteq active \X RegionIdx
    BY <2>2 DEF FreeRegions
  <2>4. <<k, i>> \in FreeRegions
    BY <1>4 DEF FreeRegions, r
  <2> QED BY <2>1, <2>3, <2>4
<1>13. avail_regs' = Cardinality(FreeRegions') /\ avail_regs' \in Nat
  <2>1. Cardinality(FreeRegions') = Cardinality(FreeRegions) - 1
    BY <1>12, FreeRegionsFinite, FS_RemoveElement
  <2>2. IsFiniteSet(FreeRegions')
    BY <1>12, FreeRegionsFinite, FS_RemoveElement
  <2>3. Cardinality(FreeRegions') \in Nat
    BY <2>2, FS_CardinalityType
  <2> QED BY <2>1, <2>3, <1>5 DEF CoreInv, CountersAgree
<1>14. run_list_active_cnt' = Cardinality(active') /\ run_list_active_cnt' \in Nat
  <2>1. Cardinality(active \ {k}) = Cardinality(active) - 1 /\ IsFiniteSet(active \ {k})
    BY FreeRegionsFinite, FS_RemoveElement
  <2>2. Cardinality(active \ {k}) \in Nat
    BY <2>1, FS_CardinalityType
  <2> QED BY <2>1, <2>2, <1>11 DEF CoreInv, CountersAgree
<1>15. CountersAgree'
  <2>1. ASSUME NEW x \in DOMAIN runs'
        PROVE  /\ runs'[x].navail = Cardinality(Having(runs'[x], FREE))
               /\ runs'[x].nfreed = Cardinality(Having(runs'[x], ALLOC_FREE))
    <3>1. CASE x # k
      <4>1. /\ runs[x].navail = Cardinality(Having(runs[x], FREE))
            /\ runs[x].nfreed = Cardinality(Having(runs[x], ALLOC_FREE))
        BY <1>6 DEF CoreInv, CountersAgree, InState, Having
      <4> QED BY <3>1, <4>1, <1>6
    <3> QED BY <3>1, <1>6, <1>10
  <2> QED BY <2>1, <1>13, <1>14 DEF CountersAgree, InState, Having
<1>16. ListsAgree'
  <2>1. q.navail = 0 => q.nfreed < Elems
    <3>1. Having(q, ALLOC_FREE) # RegionIdx
      BY <1>4, <1>8, <1>7 DEF Having, ALLOC, ALLOC_FREE
    <3> QED BY <3>1, <1>10, HavingFacts, RegionFacts
  <2>2. q.navail \in Nat
    BY <1>4 DEF RunState
  <2> QED BY <2>1, <2>2, <1>3, <1>6, <1>11 DEF CoreInv, ListsAgree
<1>17. (\A x \in DOMAIN runs : WalkInv(runs[x]))'
  <2>1. ASSUME NEW x \in DOMAIN runs' PROVE WalkInv(runs'[x])
    BY <1>4, <1>6 DEF CoreInv
  <2> QED BY <2>1
<1>18. /\ active' \subseteq Keys /\ inactive' \subseteq Keys
       /\ runs' \in [active' \cup inactive' -> RunState]
  <2>1. active' \cup inactive' = active \cup inactive
    BY <1>3, <1>11
  <2>2. active' \subseteq Keys /\ inactive' \subseteq Keys
    BY <1>3, <1>11 DEF CoreInv
  <2>3. runs' \in [active \cup inactive -> RunState]
    BY <1>3, <1>4, <1>5 DEF CoreInv
  <2> QED BY <2>1, <2>2, <2>3
<1>19. p \in Ptr /\ live' \subseteq Ptr /\ given' \subseteq Ptr
  <2>1. i * RegSize \in 0 .. RunSize - 1
    BY <1>4, RegionFacts
  <2> QED BY <2>1, <1>3, <1>5 DEF CoreInv, Ptr
<1>20. p \notin given
  BY <1>3, <1>4 DEF CoreInv, HistoryInv, r
<1>21. HistoryInv'
  <2>1. \A o \in given' : o[1] \in DOMAIN runs' /\ \E j \in RegionIdx : o[2] = j * RegSize
    BY <1>3, <1>4, <1>5, <1>6 DEF CoreInv, HistoryInv
  <2>2. live' \subseteq given'
    BY <1>5 DEF CoreInv, HistoryInv
  <2>3. ASSUME NEW x \in DOMAIN runs', NEW j \in RegionIdx
        PROVE  /\ <<x, j * RegSize>> \in live' <=> runs'[x].reg_bitmap[j] = ALLOC
               /\ <<x, j * RegSize>> \in given' <=> runs'[x].reg_bitmap[j] # FREE
    <3>0. <<x, j * RegSize>> = p <=> x = k /\ j = i
      <4>1. j * RegSize = i * RegSize => j = i
        BY <1>4, RegionOffset
      <4> QED BY <4>1
    <3>1. /\ <<x, j * RegSize>> \in live <=> runs[x].reg_bitmap[j] = ALLOC
          /\ <<x, j * RegSize>> \in given <=> runs[x].reg_bitmap[j] # FREE
      BY <1>6 DEF CoreInv, HistoryInv
    <3>2. CASE x # k
      BY <3>0, <3>1, <3>2, <1>5, <1>6
    <3>3. CASE x = k
      BY <3>0, <3>1, <3>3, <1>5, <1>6, <1>8, RegionFacts DEF FREE, ALLOC, r
    <3> QED BY <3>2, <3>3
  <2>4. ASSUME NEW x \in DOMAIN runs', NEW j \in ItemIdx \ RegionIdx
        PROVE  runs'[x].reg_bitmap[j] = FREE
    <3>1. runs[x].reg_bitmap[j] = FREE
      BY <1>6 DEF CoreInv, HistoryInv
    <3>2. j # i
      BY <1>4
    <3>3. CASE x = k
      BY <3>1, <3>2, <3>3, <1>6, <1>8 DEF r
    <3>4. CASE x # k
      BY <3>1, <3>4, <1>6
    <3> QED BY <3>3, <3>4
  <2> QED BY <2>1, <2>2, <2>3, <2>4 DEF HistoryInv
<1> QED BY <1>4, <1>5, <1>13, <1>14, <1>15, <1>16, <1>17, <1>18, <1>19, <1>20, <1>21
        DEF CoreInv

\* FreeValid frees a live region and keeps the invariant; a run is deleted exactly
\* when all its regions were given and freed, and it is then on the inactive list.
LEMMA FreeValidInv ==
  ASSUME CoreInv, NEW p \in Ptr, FreeValid(p)
  PROVE  /\ CoreInv'
         /\ p \in live /\ live' = live \ {p}
         /\ \E i \in RegionIdx : p[2] = i * RegSize
         /\ IF \A i \in RegionIdx : <<p[1], i * RegSize>> \in given \ live'
            THEN given' = {o \in given : o[1] # p[1]} ELSE given' = given
<1> DEFINE k == p[1]
           r == runs[k]
           i == p[2] \div RegSize
           q == run_deallocate(r, p[2])
<1>1. /\ p = <<k, p[2]>> /\ k \in Keys /\ p[2] \in 0 .. RunSize - 1
      /\ k \in DOMAIN runs /\ run_validate_ptr(r, p[2]) # INVALID
  BY DEF FreeValid, Accepts, Ptr
<1>2. /\ DOMAIN runs = active \cup inactive
      /\ r \in RunState /\ WalkInv(r)
      /\ \A j \in ItemIdx \ RegionIdx : r.reg_bitmap[j] = FREE
  BY <1>1 DEF CoreInv, HistoryInv
<1>3. /\ IF run_is_freeable(q)
         THEN /\ runs' = [x \in DOMAIN runs \ {k} |-> runs[x]]
              /\ inactive' = inactive \ {k}
              /\ given' = {o \in given : o[1] # k}
         ELSE /\ runs' = [runs EXCEPT ![k] = q]
              /\ inactive' = inactive /\ given' = given
      /\ live' = live \ {p}
      /\ active' = active /\ run_list_active_cnt' = run_list_active_cnt
      /\ avail_regs' = avail_regs
  BY DEF FreeValid, bin_delete_run
<1> HIDE DEF r, k
<1>4. /\ i \in RegionIdx /\ p[2] = i * RegSize /\ r.reg_bitmap[i] = ALLOC
      /\ q \in RunState /\ q.navail = r.navail /\ q.nfreed = r.nfreed + 1
      /\ q.reg_bitmap = [r.reg_bitmap EXCEPT ![i] = ALLOC_FREE]
      /\ WalkInv(q)
  BY <1>1, <1>2, RunDeallocate
<1> HIDE DEF i, q
<1>5. /\ r.reg_bitmap \in [ItemIdx -> STATES] /\ i \in ItemIdx
      /\ r.navail \in 0 .. Elems /\ r.nfreed \in Nat
  BY <1>2, <1>4, RegionFacts DEF RunState
<1>6. \A j \in ItemIdx : q.reg_bitmap[j] = IF j = i THEN ALLOC_FREE ELSE r.reg_bitmap[j]
  BY <1>4, <1>5
<1>7. /\ r.navail = Cardinality(Having(r, FREE))
      /\ r.nfreed = Cardinality(Having(r, ALLOC_FREE))
  BY <1>1 DEF CoreInv, CountersAgree, InState, Having, r
<1>8. /\ Having(q, FREE) = Having(r, FREE)
      /\ q.navail = Cardinality(Having(q, FREE))
      /\ q.nfreed = Cardinality(Having(q, ALLOC_FREE))
  <2>1. Having(q, FREE) = Having(r, FREE)
    BY <1>4, <1>6, RegionFacts DEF Having, FREE, ALLOC, ALLOC_FREE
  <2>2. Having(q, ALLOC_FREE) = Having(r, ALLOC_FREE) \cup {i} /\ i \notin Having(r, ALLOC_FREE)
    BY <1>4, <1>6, RegionFacts DEF Having, ALLOC, ALLOC_FREE
  <2>3. Cardinality(Having(q, ALLOC_FREE)) = Cardinality(Having(r, ALLOC_FREE)) + 1
    BY <2>2, HavingFacts, FS_AddElement
  <2> QED BY <2>1, <2>3, <1>4, <1>7
<1>9. run_is_freeable(q) <=> \A j \in RegionIdx : q.reg_bitmap[j] = ALLOC_FREE
  <2>1. run_is_freeable(q) <=> Having(q, ALLOC_FREE) = RegionIdx
    BY <1>8, HavingFacts DEF run_is_freeable
  <2> QED BY <2>1 DEF Having
<1>10. p \in live /\ p = <<k, i * RegSize>>
  BY <1>1, <1>4 DEF CoreInv, HistoryInv, r
<1>11. ASSUME NEW j \in RegionIdx
       PROVE  /\ <<k, j * RegSize>> = p <=> j = i
              /\ <<k, j * RegSize>> \in live' <=> q.reg_bitmap[j] = ALLOC
              /\ <<k, j * RegSize>> \in given <=> q.reg_bitmap[j] # FREE
  <2>1. <<k, j * RegSize>> = p <=> j = i
    <3>1. j * RegSize = i * RegSize => j = i
      BY <1>4, RegionOffset
    <3> QED BY <3>1, <1>10
  <2>2. /\ <<k, j * RegSize>> \in live <=> r.reg_bitmap[j] = ALLOC
        /\ <<k, j * RegSize>> \in given <=> r.reg_bitmap[j] # FREE
    BY <1>1 DEF CoreInv, HistoryInv, r
  <2>3. q.reg_bitmap[j] = IF j = i THEN ALLOC_FREE ELSE r.reg_bitmap[j]
    BY <1>6, RegionFacts
  <2> QED BY <2>1, <2>2, <2>3, <1>3, <1>4 DEF FREE, ALLOC, ALLOC_FREE
<1>12. run_is_freeable(q) <=> \A j \in RegionIdx : <<k, j * RegSize>> \in given \ live'
  <2>1. ASSUME NEW j \in RegionIdx
        PROVE  q.reg_bitmap[j] = ALLOC_FREE <=> <<k, j * RegSize>> \in given \ live'
    <3>1. q.reg_bitmap[j] \in STATES
      BY <1>4, RegionFacts DEF RunState
    <3> QED BY <3>1, <1>11 DEF STATES, FREE, ALLOC, ALLOC_FREE
  <2> QED BY <2>1, <1>9
<1>13. live' \subseteq Ptr /\ given' \subseteq Ptr
  <2>1. live' \subseteq live /\ given' \subseteq given
    BY <1>3
  <2> QED BY <2>1 DEF CoreInv, Ptr
<1>14. CoreInv'
  <2>1. CASE run_is_freeable(q)
    <3>1. /\ runs' = [x \in DOMAIN runs \ {k} |-> runs[x]]
          /\ inactive' = inactive \ {k}
          /\ given' = {o \in given : o[1] # k}
      BY <2>1, <1>3
    <3>2. k \in inactive /\ k \notin active
      <4>1. Having(q, FREE) = {}
        BY <2>1, <1>9 DEF Having, FREE, ALLOC_FREE
      <4>2. r.navail = 0
        BY <4>1, <1>7, <1>8, HavingFacts
      <4> QED BY <4>2, <1>1, <1>2 DEF CoreInv, ListsAgree, r
    <3>3. /\ DOMAIN runs' = DOMAIN runs \ {k}
          /\ \A x \in DOMAIN runs' : runs'[x] = runs[x] /\ x \in DOMAIN runs /\ x # k
      BY <3>1
    <3>4. runs' \in [active' \cup inactive' -> RunState]
      <4>1. active' \cup inactive' = DOMAIN runs \ {k}
        BY <3>1, <3>2, <1>2, <1>3
      <4> QED BY <4>1, <3>1 DEF CoreInv
    <3>5. CountersAgree'
      <4>1. ASSUME NEW x \in DOMAIN runs'
            PROVE  /\ runs'[x].navail = Cardinality(Having(runs'[x], FREE))
                   /\ runs'[x].nfreed = Cardinality(Having(runs'[x], ALLOC_FREE))
        BY <3>3 DEF CoreInv, CountersAgree, InState, Having
      <4>2. FreeRegions' = FreeRegions
        <5>1. \A x \in active : runs'[x] = runs[x]
          BY <3>2, <3>3, <1>2
        <5>2. \A o \in active \X RegionIdx : o[1] \in active
          OBVIOUS
        <5> QED BY <5>1, <5>2, <1>3 DEF FreeRegions
      <4> QED BY <4>1, <4>2, <1>3 DEF CoreInv, CountersAgree, InState, Having
    <3>6. ListsAgree'
      BY <3>1, <3>2, <3>3, <1>2, <1>3 DEF CoreInv, ListsAgree
    <3>7. (\A x \in DOMAIN runs : WalkInv(runs[x]))'
      <4>1. ASSUME NEW x \in DOMAIN runs' PROVE WalkInv(runs'[x])
        BY <3>3 DEF CoreInv
      <4> QED BY <4>1
    <3>8. HistoryInv'
      <4>1. \A o \in given' : o[1] \in DOMAIN runs' /\ \E j \in RegionIdx : o[2] = j * RegSize
        BY <3>1, <3>3 DEF CoreInv, HistoryInv
      <4>2. ASSUME NEW o \in live' PROVE o \in given'
        <5>1. o \in live /\ o \in given /\ o \in Ptr /\ o # p
          BY <1>3 DEF CoreInv, HistoryInv
        <5>2. PICK j \in RegionIdx : o[2] = j * RegSize
          BY <5>1 DEF CoreInv, HistoryInv
        <5>3. o = <<o[1], j * RegSize>>
          BY <5>1, <5>2 DEF Ptr
        <5>4. o[1] # k
          BY <5>3, <1>11, <1>12, <2>1
        <5> QED BY <5>1, <5>4, <3>1
      <4>3. ASSUME NEW x \in DOMAIN runs', NEW j \in RegionIdx
            PROVE  /\ <<x, j * RegSize>> \in live' <=> runs'[x].reg_bitmap[j] = ALLOC
                   /\ <<x, j * RegSize>> \in given' <=> runs'[x].reg_bitmap[j] # FREE
        <5>1. x # k /\ x \in DOMAIN runs /\ runs'[x] = runs[x]
          BY <3>3
        <5>2. <<x, j * RegSize>> # p
          BY <5>1, <1>10
        <5>3. /\ <<x, j * RegSize>> \in live <=> runs[x].reg_bitmap[j] = ALLOC
              /\ <<x, j * RegSize>> \in given <=> runs[x].reg_bitmap[j] # FREE
          BY <5>1 DEF CoreInv, HistoryInv
        <5> QED BY <5>1, <5>2, <5>3, <3>1, <1>3
      <4>4. \A x \in DOMAIN runs', j \in ItemIdx \ RegionIdx : runs'[x].reg_bitmap[j] = FREE
        BY <3>3 DEF CoreInv, HistoryInv
      <4> QED BY <4>1, <4>2, <4>3, <4>4 DEF HistoryInv
    <3> QED BY <3>1, <3>4, <3>5, <3>6, <3>7, <3>8, <1>3, <1>13 DEF CoreInv
  <2>2. CASE ~run_is_freeable(q)
    <3>1. runs' = [runs EXCEPT ![k] = q] /\ inactive' = inactive /\ given' = given
      BY <2>2, <1>3
    <3>2. /\ DOMAIN runs' = DOMAIN runs /\ runs'[k] = q
          /\ \A x \in DOMAIN runs : x # k => runs'[x] = runs[x]
      BY <3>1, <1>1
    <3>3. runs' \in [active' \cup inactive' -> RunState]
      BY <3>1, <1>2, <1>3, <1>4 DEF CoreInv
    <3>4. CountersAgree'
      <4>1. ASSUME NEW x \in DOMAIN runs'
            PROVE  /\ runs'[x].navail = Cardinality(Having(runs'[x], FREE))
                   /\ runs'[x].nfreed = Cardinality(Having(runs'[x], ALLOC_FREE))
        <5>1. CASE x = k
          BY <5>1, <3>2, <1>8
        <5>2. CASE x # k
          BY <5>2, <3>2 DEF CoreInv, CountersAgree, InState, Having
        <5> QED BY <5>1, <5>2
      <4>2. FreeRegions' = FreeRegions
        <5>1. ASSUME NEW x \in active, NEW j \in RegionIdx
              PROVE  runs'[x].reg_bitmap[j] = FREE <=> runs[x].reg_bitmap[j] = FREE
          <6>1. CASE x = k
            BY <6>1, <3>2, <1>4, <1>6, RegionFacts DEF FREE, ALLOC, ALLOC_FREE, r
          <6>2. CASE x # k
            BY <6>2, <3>2, <1>2
          <6> QED BY <6>1, <6>2
        <5>2. \A o \in active \X RegionIdx : o[1] \in active /\ o[2] \in RegionIdx
          OBVIOUS
        <5> QED BY <5>1, <5>2, <1>3 DEF FreeRegions
      <4> QED BY <4>1, <4>2, <1>3 DEF CoreInv, CountersAgree, InState, Having
    <3>5. ListsAgree'
      <4>1. q.nfreed < Elems
        BY <2>2, <1>8, HavingFacts, RegionFacts DEF run_is_freeable
      <4> QED BY <4>1, <3>1, <3>2, <1>1, <1>2, <1>3, <1>4 DEF CoreInv, ListsAgree, r
    <3>6. (\A x \in DOMAIN runs : WalkInv(runs[x]))'
      <4>1. ASSUME NEW x \in DOMAIN runs' PROVE WalkInv(runs'[x])
        BY <3>2, <1>4 DEF CoreInv
      <4> QED BY <4>1
    <3>7. HistoryInv'
      <4>1. \A o \in given' : o[1] \in DOMAIN runs' /\ \E j \in RegionIdx : o[2] = j * RegSize
        BY <3>1, <3>2 DEF CoreInv, HistoryInv
      <4>2. live' \subseteq given'
        BY <3>1, <1>3 DEF CoreInv, HistoryInv
      <4>3. ASSUME NEW x \in DOMAIN runs', NEW j \in RegionIdx
            PROVE  /\ <<x, j * RegSize>> \in live' <=> runs'[x].reg_bitmap[j] = ALLOC
                   /\ <<x, j * RegSize>> \in given' <=> runs'[x].reg_bitmap[j] # FREE
        <5>1. CASE x = k
          BY <5>1, <3>1, <3>2, <1>11
        <5>2. CASE x # k
          <6>1. <<x, j * RegSize>> # p
            BY <5>2, <1>10
          <6>2. /\ <<x, j * RegSize>> \in live <=> runs[x].reg_bitmap[j] = ALLOC
                /\ <<x, j * RegSize>> \in given <=> runs[x].reg_bitmap[j] # FREE
            BY <3>2 DEF CoreInv, HistoryInv
          <6> QED BY <5>2, <6>1, <6>2, <3>1, <3>2, <1>3
        <5> QED BY <5>1, <5>2
      <4>4. ASSUME NEW x \in DOMAIN runs', NEW j \in ItemIdx \ RegionIdx
            PROVE  runs'[x].reg_bitmap[j] = FREE
        <5>1. runs[x].reg_bitmap[j] = FREE /\ j # i
          BY <3>2, <1>4 DEF CoreInv, HistoryInv
        <5>2. CASE x = k
          BY <5>1, <5>2, <3>2, <1>6 DEF r
        <5>3. CASE x # k
          BY <5>1, <5>3, <3>2
        <5> QED BY <5>2, <5>3
      <4> QED BY <4>1, <4>2, <4>3, <4>4 DEF HistoryInv
    <3> QED BY <3>1, <3>3, <3>4, <3>5, <3>6, <3>7, <1>3, <1>13 DEF CoreInv
  <2> QED BY <2>1, <2>2
<1> QED BY <1>3, <1>4, <1>10, <1>12, <1>14 DEF k

-----------------------------------------------------------------------------
(***************************************************************************)
(* The inductive invariant                                                 *)
(***************************************************************************)

\* The invariant: what holds between any two steps, and what malloc still has to do.
LEMMA IInvParts ==
  IInv <=> /\ CoreInv
           /\ pc \in Running \cup {"aborted", "exhausted"} /\ runs_to_allocate \in Nat
           /\ StepInv
BY DEF IInv, CoreInv, TypeOK

\* ceil_div gives arena_supply_runs enough runs.
LEMMA CeilDiv ==
  ASSUME NEW a \in Nat \ {0}, NEW b \in Nat \ {0}
  PROVE  ceil_div(a, b) \in Nat /\ ceil_div(a, b) >= 1 /\ ceil_div(a, b) * b >= a
<1> DEFINE d == a \div b
           m == a % b
<1>1. d \in Nat /\ m \in 0 .. b - 1 /\ a = b * d + m
  BY Lib!DivBound
<1>2. ceil_div(a, b) = d + (IF m = 0 THEN 0 ELSE 1)
  BY DEF ceil_div
<1> HIDE DEF d, m
<1>3. CASE m = 0
  <2>1. d # 0
    BY <1>1, <1>3
  <2> QED BY <2>1, <1>1, <1>2, <1>3
<1>4. CASE m # 0
  <2>1. (d + 1) * b = b * d + b
    BY <1>1
  <2> QED BY <2>1, <1>1, <1>2, <1>4
<1> QED BY <1>3, <1>4

\* A new bin satisfies the invariant.
LEMMA InitInv == Init => IInv
<1> SUFFICES ASSUME Init PROVE IInv
  OBVIOUS
<1>1. DOMAIN runs = {} /\ runs \in [active \cup inactive -> RunState]
  BY DEF Init
<1>2. FreeRegions = {} /\ Cardinality({}) = 0
  BY FS_EmptySet DEF Init, FreeRegions
<1>3. CountersAgree
  BY <1>1, <1>2 DEF Init, CountersAgree
<1>4. ListsAgree
  BY DEF Init, ListsAgree
<1>5. HistoryInv
  BY <1>1 DEF Init, HistoryInv
<1>6. TypeOK
  BY <1>1 DEF Init, TypeOK, Running
<1>7. StepInv
  BY DEF Init, StepInv
<1> QED BY <1>1, <1>3, <1>4, <1>5, <1>6, <1>7 DEF IInv

\* A step that touches neither the lists nor the history keeps the invariant.
LEMMA Unchanged ==
  ASSUME CoreInv, UNCHANGED <<lists, history>>
  PROVE  CoreInv'
<1>1. /\ runs' = runs /\ active' = active /\ inactive' = inactive
      /\ run_list_active_cnt' = run_list_active_cnt /\ avail_regs' = avail_regs
      /\ live' = live /\ given' = given
  BY DEF lists, history
<1>2. FreeRegions' = FreeRegions
  BY <1>1 DEF FreeRegions
<1>3. CountersAgree'
  BY <1>1, <1>2 DEF CoreInv, CountersAgree, InState
<1>4. ListsAgree'
  BY <1>1 DEF CoreInv, ListsAgree
<1>5. HistoryInv'
  BY <1>1 DEF CoreInv, HistoryInv
<1>6. (\A x \in DOMAIN runs : WalkInv(runs[x]))'
  <2>1. ASSUME NEW x \in DOMAIN runs' PROVE WalkInv(runs'[x])
    BY <1>1 DEF CoreInv
  <2> QED BY <2>1
<1>7. /\ active' \subseteq Keys /\ inactive' \subseteq Keys
      /\ runs' \in [active' \cup inactive' -> RunState]
      /\ run_list_active_cnt' \in Nat /\ avail_regs' \in Nat
  BY <1>1 DEF CoreInv
<1>8. live' \subseteq Ptr /\ given' \subseteq Ptr
  BY <1>1 DEF CoreInv, Ptr
<1> QED BY <1>3, <1>4, <1>5, <1>6, <1>7, <1>8 DEF CoreInv

\* Every step keeps it.
LEMMA NextInv ==
  ASSUME BitmapCoversRun, IInv, [Next]_vars
  PROVE  IInv'
<1>0. /\ CoreInv /\ StepInv
      /\ pc \in Running \cup {"aborted", "exhausted"} /\ runs_to_allocate \in Nat
      /\ avail_regs \in Nat /\ MinRegions \in Nat \ {0} /\ Elems \in Nat \ {0}
  BY IInvParts, RegionFacts, MinAssumption DEF CoreInv
<1>1. ASSUME UNCHANGED <<lists, history>> PROVE CoreInv'
  BY <1>0, <1>1, Unchanged
<1> DEFINE Goal == /\ CoreInv'
                   /\ pc' \in Running \cup {"aborted", "exhausted"}
                   /\ runs_to_allocate' \in Nat
                   /\ StepInv'
<1> SUFFICES Goal
  BY DEF IInv, CoreInv, TypeOK
<1>2. CASE Malloc
  <2>1. CoreInv'
    BY <1>1, <1>2 DEF Malloc
  <2>2. CASE avail_regs = 0
    <3>1. pc' = "supply" /\ avail_regs' = avail_regs
          /\ runs_to_allocate' = ceil_div(MinRegions - avail_regs, Elems)
      BY <1>2, <2>2 DEF Malloc, lists
    <3>2. MinRegions - avail_regs = MinRegions
      BY <1>0, <2>2
    <3>3. runs_to_allocate' \in Nat /\ runs_to_allocate' >= 1
          /\ runs_to_allocate' * Elems >= MinRegions
      BY <3>1, <3>2, <1>0, CeilDiv
    <3>4. avail_regs' + runs_to_allocate' * Elems >= MinRegions
      BY <3>1, <3>3, <1>0, <2>2
    <3> QED BY <2>1, <3>1, <3>3, <3>4 DEF StepInv, Running
  <2>3. CASE avail_regs # 0
    BY <2>1, <2>3, <1>0, <1>2 DEF Malloc, lists, StepInv, Running
  <2> QED BY <2>2, <2>3
<1>3. CASE SupplyRun
  <2>1. CoreInv' /\ avail_regs' = avail_regs + Elems
    BY <1>0, <1>3, NewRunInv DEF SupplyRun
  <2>2. /\ pc = "supply" /\ runs_to_allocate >= 1
        /\ avail_regs + runs_to_allocate * Elems >= MinRegions
        /\ runs_to_allocate' = runs_to_allocate - 1
        /\ pc' = IF runs_to_allocate = 1 THEN "alloc" ELSE "supply"
    BY <1>0, <1>3 DEF SupplyRun, StepInv
  <2>3. runs_to_allocate * Elems = runs_to_allocate' * Elems + Elems
    BY <2>2, <1>0
  <2>4. runs_to_allocate' \in Nat /\ runs_to_allocate' * Elems \in Nat
    BY <2>2, <1>0
  <2>5. avail_regs' + runs_to_allocate' * Elems >= MinRegions
    BY <2>1, <2>2, <2>3, <2>4, <1>0
  <2>6. CASE runs_to_allocate = 1
    <3>1. runs_to_allocate' * Elems = 0
      BY <2>2, <2>6, <1>0
    <3>2. avail_regs' >= MinRegions - 1
      BY <3>1, <2>1, <2>5, <1>0
    <3> QED BY <3>2, <2>1, <2>2, <2>4, <2>6 DEF StepInv, Running
  <2>7. CASE runs_to_allocate # 1
    <3>1. runs_to_allocate' >= 1
      BY <2>2, <2>7, <1>0
    <3> QED BY <3>1, <2>1, <2>2, <2>4, <2>5, <2>7 DEF StepInv, Running
  <2> QED BY <2>6, <2>7
<1>4. CASE AddRun
  <2>1. CoreInv' /\ avail_regs' = avail_regs + Elems
    BY <1>0, <1>4, NewRunInv DEF AddRun
  <2>2. avail_regs' >= MinRegions /\ pc' = "pick" /\ runs_to_allocate' = runs_to_allocate
    BY <2>1, <1>0, <1>4 DEF AddRun, TooFew, StepInv
  <2> QED BY <2>1, <2>2, <1>0 DEF StepInv, Running
<1>5. CASE OutOfMemory
  BY <1>0, <1>1, <1>5 DEF OutOfMemory, TooFew, StepInv
<1>6. ASSUME NEW k \in active, Allocate(k) PROVE Goal
  <2>1. CoreInv' /\ avail_regs' = avail_regs - 1
    BY <1>0, <1>6, AllocateInv
  <2>2. avail_regs >= MinRegions /\ pc' = "idle" /\ runs_to_allocate' = runs_to_allocate
    BY <1>0, <1>6 DEF Allocate, TooFew, StepInv
  <2>3. avail_regs' >= MinRegions - 1
    BY <2>1, <2>2, <1>0
  <2> QED BY <2>1, <2>2, <2>3, <1>0 DEF StepInv, Running
<1>7. ASSUME NEW p \in Ptr, FreeValid(p) PROVE Goal
  <2>1. CoreInv'
    BY <1>0, <1>7, FreeValidInv
  <2>2. avail_regs' = avail_regs /\ pc' = pc /\ runs_to_allocate' = runs_to_allocate
    BY <1>7 DEF FreeValid
  <2> QED BY <2>1, <2>2, <1>0 DEF StepInv
<1>8. ASSUME NEW p \in Ptr, FreeInvalid(p) PROVE Goal
  BY <1>0, <1>1, <1>8 DEF FreeInvalid, StepInv
<1>9. CASE UNCHANGED vars
  BY <1>0, <1>1, <1>9 DEF vars, lists, history, StepInv
<1> HIDE DEF Goal
<1> QED
  BY <1>2, <1>3, <1>4, <1>5, <1>6, <1>7, <1>8, <1>9 DEF Next, Ended

-----------------------------------------------------------------------------
(***************************************************************************)
(* The theorems                                                            *)
(***************************************************************************)

\* The metadata of a bin is always consistent: IInv holds in every state of every
\* execution of malloc and free on a bin.
THEOREM Invariance ==
  ASSUME BitmapCoversRun
  PROVE  Spec => []IInv
<1>1. Init => IInv
  BY InitInv
<1>2. IInv /\ [Next]_vars => IInv'
  BY NextInv
<1> QED BY <1>1, <1>2, PTL DEF Spec

\* Type correctness: every variable keeps the type of the C structure it models,
\* and there is metadata for exactly the listed runs.
THEOREM TypeCorrect ==
  ASSUME BitmapCoversRun
  PROVE  Spec => []TypeOK
<1>1. IInv => TypeOK
  BY DEF IInv
<1> QED BY <1>1, Invariance, PTL

\* avail_regs, run_list_active_cnt, navail and nfreed, which malloc and free update
\* one by one, always agree with the bitmaps and the lists.
THEOREM CountersCorrect ==
  ASSUME BitmapCoversRun
  PROVE  Spec => []CountersAgree
<1>1. IInv => CountersAgree
  BY DEF IInv
<1> QED BY <1>1, Invariance, PTL

\* A run is on the list its counters say, so bin_get_run_for_allocation never hands
\* out a depleted run and bin_delete_run always finds the run it deletes.
THEOREM ListsCorrect ==
  ASSUME BitmapCoversRun
  PROVE  Spec => []ListsAgree
<1>1. IInv => ListsAgree
  BY DEF IInv
<1> QED BY <1>1, Invariance, PTL

\* The assertion of sealloc_allocate_with_bin and the sanity check of run_allocate
\* never fail: there are BIN_MINIMUM_REGIONS regions to choose from, and the next
\* region of every active run is free.
THEOREM ChoiceCorrect ==
  ASSUME BitmapCoversRun
  PROVE  Spec => []EnoughChoice
<1>1. IInv => EnoughChoice
  <2> SUFFICES ASSUME IInv PROVE EnoughChoice
    OBVIOUS
  <2>1. pc = "pick" => Cardinality(FreeRegions) >= MinRegions
    BY DEF IInv, StepInv, CountersAgree
  <2>2. ASSUME NEW k \in active PROVE runs[k].reg_bitmap[NextIdx(runs[k])] = FREE
    <3>1. runs[k] \in RunState /\ WalkInv(runs[k]) /\ runs[k].navail > 0
      BY DEF IInv, TypeOK, ListsAgree
    <3> QED BY <3>1, RunAllocate, TagAssumption
  <2> QED BY <2>1, <2>2 DEF EnoughChoice
<1> QED BY <1>1, Invariance, PTL

\* A free that goes through frees a region malloc returned and nobody freed since.
THEOREM FreeSound ==
  ASSUME BitmapCoversRun
  PROVE  Spec => FreeAcceptsOnlyLive
<1>1. IInv => (\A p \in Ptr : FreeValid(p) => p \in live)
  <2> SUFFICES ASSUME IInv, NEW p \in Ptr, FreeValid(p) PROVE p \in live
    OBVIOUS
  <2> QED BY IInvParts, FreeValidInv
<1> QED BY <1>1, Invariance, PTL DEF Spec, FreeAcceptsOnlyLive

\* A region malloc returned and nobody freed since can be freed.
LEMMA LiveIsAccepted ==
  ASSUME CoreInv, NEW p \in live
  PROVE  Accepts(p)
<1>1. p[1] \in DOMAIN runs /\ p = <<p[1], p[2]>>
  BY DEF CoreInv, HistoryInv, Ptr
<1>2. PICK i \in RegionIdx : p[2] = i * RegSize
  BY DEF CoreInv, HistoryInv
<1>3. runs[p[1]].reg_bitmap[i] = ALLOC
  BY <1>1, <1>2 DEF CoreInv, HistoryInv
<1>4. p[2] \div RegSize = i /\ p[2] % RegSize = 0 /\ i # INVALID
  BY <1>2, RegionOffset, RegionFacts DEF RegionIdx, INVALID
<1> QED BY <1>1, <1>3, <1>4 DEF Accepts, run_validate_ptr

\* free never aborts a program that frees what malloc gave it.
THEOREM FreeComplete ==
  ASSUME BitmapCoversRun
  PROVE  Spec => []LiveAccepted
<1>1. IInv => LiveAccepted
  BY IInvParts, LiveIsAccepted DEF LiveAccepted
<1> QED BY <1>1, Invariance, PTL

\* A bin is supplied once: no step of malloc or free leaves a bin that had regions
\* without any.
THEOREM SupplyOnce ==
  ASSUME BitmapCoversRun
  PROVE  Spec => SuppliedOnce
<1>1. ASSUME IInv, [Next]_vars PROVE MinRegions > 1 /\ avail_regs > 0 => avail_regs' > 0
  <2> SUFFICES ASSUME MinRegions > 1, avail_regs > 0 PROVE avail_regs' > 0
    OBVIOUS
  <2>0. avail_regs \in Nat /\ MinRegions \in Nat /\ (pc = "pick" => avail_regs >= MinRegions)
    BY <1>1, MinAssumption DEF IInv, TypeOK, StepInv
  <2>1. CASE NewRun
    BY <2>0, <2>1, RegionFacts DEF NewRun, bin_add_run, run_init
  <2>2. ASSUME NEW k \in active, Allocate(k) PROVE avail_regs' > 0
    <3>1. avail_regs >= MinRegions
      BY <2>0, <2>2 DEF Allocate, TooFew
    <3>2. avail_regs' = avail_regs - 1
      BY <2>2 DEF Allocate, bin_get_run_for_allocation
    <3> QED BY <2>0, <3>1, <3>2
  <2>3. CASE UNCHANGED avail_regs
    BY <2>3
  <2> QED BY <1>1, <2>1, <2>2, <2>3
    DEF Next, Malloc, SupplyRun, AddRun, OutOfMemory, FreeValid, FreeInvalid, Ended, vars, lists
<1> QED BY <1>1, Invariance, PTL DEF Spec, SuppliedOnce

\* The bin implements RegionHeap: no region is handed out twice while its run is
\* mapped, free succeeds for exactly the live regions, and a run is unmapped exactly
\* when each of its regions was handed out and returned.
THEOREM RefinesHeap ==
  ASSUME BitmapCoversRun
  PROVE  Spec => ImplementsHeap
<1> DEFINE st == IF pc \in Running THEN "running" ELSE pc
           Abs == <<live, given, st>>
<1>1. Init => Heap!Init
  BY DEF Init, Heap!Init, Running
<1>2. ASSUME IInv, [Next]_vars PROVE [Heap!Next]_Abs
  <2>0. CoreInv
    BY <1>2, IInvParts
  <2>1. CASE Malloc
    BY <2>1 DEF Malloc, history, Running
  <2>2. CASE SupplyRun
    BY <2>2 DEF SupplyRun, history, Running
  <2>3. CASE AddRun
    BY <2>3 DEF AddRun, history, Running
  <2>4. CASE OutOfMemory
    BY <2>4 DEF OutOfMemory, history, Running, Heap!Next, Heap!OutOfMemory
  <2>5. ASSUME NEW k \in active, Allocate(k) PROVE Heap!Next
    <3>1. PICK i \in RegionIdx : /\ <<k, i * RegSize>> \notin given
                                /\ live' = live \cup {<<k, i * RegSize>>}
                                /\ given' = given \cup {<<k, i * RegSize>>}
      BY <2>0, <2>5, AllocateInv
    <3> DEFINE p == <<k, i * RegSize>>
    <3>2. p \in Heap!Region
      BY <2>0 DEF CoreInv, Heap!Region
    <3>3. st = "running" /\ st' = "running"
      BY <2>5 DEF Allocate, Running
    <3>4. Heap!Malloc(p)
      BY <3>1, <3>3 DEF Heap!Malloc
    <3> QED BY <3>2, <3>4 DEF Heap!Next
  <2>6. ASSUME NEW p \in Ptr, FreeValid(p) PROVE Heap!Next
    <3> DEFINE k == p[1]
               R == Heap!RegionsOf(k)
    <3>1. /\ p \in live /\ live' = live \ {p}
          /\ \E i \in RegionIdx : p[2] = i * RegSize
          /\ IF \A i \in RegionIdx : <<k, i * RegSize>> \in given \ live'
             THEN given' = {o \in given : o[1] # k} ELSE given' = given
      BY <2>0, <2>6, FreeValidInv
    <3>2. R = {<<k, i * RegSize>> : i \in RegionIdx}
      BY DEF Heap!RegionsOf
    <3>3. (\A i \in RegionIdx : <<k, i * RegSize>> \in given \ live')
            <=> R \subseteq given \ live'
      BY <3>2
    <3>4. {o \in given : o[1] # k} = given \ R
      <4>1. ASSUME NEW o \in given PROVE o[1] # k <=> o \notin R
        <5>1. o \in Ptr /\ \E i \in RegionIdx : o[2] = i * RegSize
          BY <2>0 DEF CoreInv, HistoryInv
        <5>2. o = <<o[1], o[2]>>
          BY <5>1 DEF Ptr
        <5> QED BY <5>1, <5>2, <3>2
      <4> QED BY <4>1
    <3>5. p \in Heap!Region
      BY <3>1 DEF Heap!Region, Ptr
    <3>6. st = "running" /\ st' = "running"
      BY <2>6 DEF FreeValid, Running
    <3>7. Heap!Free(p)
      BY <3>1, <3>3, <3>4, <3>6 DEF Heap!Free
    <3> QED BY <3>5, <3>7 DEF Heap!Next
  <2>7. ASSUME NEW p \in Ptr, FreeInvalid(p) PROVE Heap!Next
    <3>1. p \notin live
      BY <2>0, <2>7, LiveIsAccepted DEF FreeInvalid
    <3> QED BY <2>7, <3>1 DEF FreeInvalid, history, Heap!FreeInvalid, Heap!Next, Ptr, Running
  <2>8. CASE UNCHANGED vars
    BY <2>8 DEF vars, history
  <2> QED BY <1>2, <2>1, <2>2, <2>3, <2>4, <2>5, <2>6, <2>7, <2>8 DEF Next, Ended
<1> QED BY <1>1, <1>2, Invariance, PTL DEF Spec, ImplementsHeap, Heap!Spec
-----------------------------------------------------------------------------
(***************************************************************************)
(* Memory tags.  That adjacent tags differ rests on nothing but what       *)
(* run_init, run_allocate and run_deallocate do to one run, so it needs no *)
(* hypothesis on the bitmap.                                               *)
(***************************************************************************)

\* The fields of a run that tagging reads.
TaggedRun ==
  [navail : Int, nfreed : Int, gen : Gens, current_idx : RegionIdx,
   reg_bitmap : [ItemIdx -> STATES], tag : [RegionIdx -> Tags]]

TagsOf(r) ==
  \A i \in RegionIdx : r.reg_bitmap[i] = ALLOC =>
    /\ MTE => r.tag[i] # 0
    /\ MTE /\ i + 1 \in RegionIdx /\ r.reg_bitmap[i + 1] = ALLOC => r.tag[i] # r.tag[i + 1]

TagInv == \A k \in DOMAIN runs : runs[k] \in TaggedRun /\ TagsOf(runs[k])

\* run_init clears the items of all regions, and nothing is allocated in a new run.
LEMMA TagsInit ==
  ASSUME NEW g \in Gens, NEW s \in RegionIdx, NEW stale \in [StaleItems -> STATES]
  PROVE  run_init(g, s, stale) \in TaggedRun /\ TagsOf(run_init(g, s, stale))
<1> DEFINE r == run_init(g, s, stale)
<1>1. /\ r = [navail |-> Elems, nfreed |-> 0, gen |-> g, current_idx |-> s,
              reg_bitmap |-> [i \in ItemIdx |-> IF i \in StaleItems THEN stale[i] ELSE FREE],
              tag |-> [i \in RegionIdx |-> 0]]
  BY DEF run_init
<1>2. Elems \in Nat \ {0} /\ RegionIdx \subseteq ItemIdx
  BY RegionFacts
<1>3. r \in TaggedRun
  <2>1. [i \in ItemIdx |-> IF i \in StaleItems THEN stale[i] ELSE FREE] \in [ItemIdx -> STATES]
    BY DEF STATES
  <2>2. [i \in RegionIdx |-> 0] \in [RegionIdx -> Tags]
    BY TagAssumption
  <2> HIDE DEF r
  <2> QED BY <1>1, <1>2, <2>1, <2>2 DEF TaggedRun
<1>4. ASSUME NEW i \in RegionIdx PROVE i \notin StaleItems
  <2>1. i \in Nat /\ i < Elems
    BY <1>2 DEF RegionIdx
  <2>2. ClearedItems >= Elems
    <3> DEFINE d == (2 * Elems + 7) \div 8
    <3>1. d \in Int /\ 8 * d + 7 >= 2 * Elems + 7
      BY <1>2
    <3> HIDE DEF d
    <3> QED BY <3>1, <1>2 DEF ClearedItems, d
  <2>3. ClearedItems \in Int
    BY <1>2 DEF ClearedItems
  <2> QED BY <2>1, <2>2, <2>3, <1>2 DEF StaleItems
<1>5. ASSUME NEW i \in RegionIdx PROVE r.reg_bitmap[i] = FREE
  BY <1>1, <1>2, <1>4
<1> QED BY <1>3, <1>5 DEF TagsOf, FREE, ALLOC

\* The tag of a new region is neither 0 nor that of an allocated neighbour.
LEMMA TagsAllocate ==
  ASSUME NEW r \in TaggedRun, TagsOf(r), NEW t \in TagChoices(r)
  PROVE  run_allocate(r, t) \in TaggedRun /\ TagsOf(run_allocate(r, t))
<1> DEFINE i == NextIdx(r)
           q == run_allocate(r, t)
<1>1. /\ r.navail \in Int /\ r.nfreed \in Int /\ r.gen \in Gens /\ r.gen \in Nat
      /\ r.current_idx \in RegionIdx
      /\ r.reg_bitmap \in [ItemIdx -> STATES] /\ r.tag \in [RegionIdx -> Tags]
  BY GeneratorAssumption DEF TaggedRun
<1>2. Elems \in Nat \ {0} /\ RegionIdx \subseteq ItemIdx /\ RegionIdx \subseteq Nat
  BY RegionFacts DEF RegionIdx
<1>3. i \in RegionIdx
  <2>1. r.gen + r.current_idx \in Nat
    BY <1>1, <1>2
  <2>2. \A x \in Nat : x % Elems \in 0 .. Elems - 1
    BY <1>2
  <2> QED BY <2>1, <2>2 DEF NextIdx, RegionIdx
<1>4. t \in Tags /\ (MTE => t # 0 /\ \A j \in AllocNeighbours(r, i) : t # r.tag[j])
  BY TagAssumption DEF TagChoices
<1> HIDE DEF i
<1>5. q = [r EXCEPT !.current_idx = i, !.reg_bitmap[i] = ALLOC,
                    !.navail = r.navail - 1, !.tag[i] = t]
  BY DEF q, run_allocate, i
<1> HIDE DEF q
<1>6. q \in TaggedRun
  <2>1. [r.reg_bitmap EXCEPT ![i] = ALLOC] \in [ItemIdx -> STATES]
    BY <1>1 DEF STATES
  <2>2. [r.tag EXCEPT ![i] = t] \in [RegionIdx -> Tags]
    BY <1>1, <1>4
  <2>3. r.navail - 1 \in Int
    BY <1>1
  <2> QED BY <1>1, <1>3, <1>5, <2>1, <2>2, <2>3 DEF TaggedRun
<1>7. q.reg_bitmap = [r.reg_bitmap EXCEPT ![i] = ALLOC] /\ q.tag = [r.tag EXCEPT ![i] = t]
  BY <1>5 DEF TaggedRun
<1>8. ASSUME NEW j \in RegionIdx, r.reg_bitmap[j] = ALLOC, j = i - 1 \/ j = i + 1
      PROVE  j \in AllocNeighbours(r, i)
  BY <1>8 DEF AllocNeighbours
<1>9. ASSUME MTE, NEW j \in RegionIdx, q.reg_bitmap[j] = ALLOC
      PROVE  /\ q.tag[j] # 0
             /\ j + 1 \in RegionIdx /\ q.reg_bitmap[j + 1] = ALLOC => q.tag[j] # q.tag[j + 1]
  <2>1. \A x \in RegionIdx : /\ q.reg_bitmap[x] = IF x = i THEN ALLOC ELSE r.reg_bitmap[x]
                             /\ q.tag[x] = IF x = i THEN t ELSE r.tag[x]
    BY <1>1, <1>2, <1>7
  <2>2. CASE j = i
    BY <2>1, <2>2, <1>2, <1>3, <1>4, <1>8, <1>9
  <2>3. CASE j # i
    <3>1. r.reg_bitmap[j] = ALLOC
      BY <2>1, <2>3, <1>9
    <3>2. CASE j + 1 = i
      BY <3>1, <3>2, <2>1, <2>3, <1>2, <1>3, <1>4, <1>8, <1>9 DEF TagsOf
    <3>3. CASE j + 1 # i
      BY <3>1, <3>3, <2>1, <2>3, <1>9 DEF TagsOf
    <3> QED BY <3>2, <3>3
  <2> QED BY <2>2, <2>3
<1> QED BY <1>6, <1>9 DEF TagsOf, q

\* Freeing changes no tag and allocates nothing.
LEMMA TagsDeallocate ==
  ASSUME NEW r \in TaggedRun, TagsOf(r), NEW rel
  PROVE  run_deallocate(r, rel) \in TaggedRun /\ TagsOf(run_deallocate(r, rel))
<1> DEFINE i == run_validate_ptr(r, rel)
           q == run_deallocate(r, rel)
<1>1. /\ r.reg_bitmap \in [ItemIdx -> STATES] /\ r.nfreed \in Int
  BY DEF TaggedRun
<1> HIDE DEF i
<1>2. q = [r EXCEPT !.reg_bitmap[i] = ALLOC_FREE, !.nfreed = r.nfreed + 1]
  BY DEF run_deallocate, i
<1> HIDE DEF q
<1>3. [r.reg_bitmap EXCEPT ![i] = ALLOC_FREE] \in [ItemIdx -> STATES] /\ r.nfreed + 1 \in Int
  <2> DEFINE bm == r.reg_bitmap
  <2>1. bm \in [ItemIdx -> STATES] /\ ALLOC_FREE \in STATES
    BY <1>1 DEF STATES
  <2> HIDE DEF bm
  <2>2. [bm EXCEPT ![i] = ALLOC_FREE] \in [ItemIdx -> STATES]
    BY <2>1, Zenon
  <2>3. r.nfreed + 1 \in Int
    BY <1>1
  <2> QED BY <2>2, <2>3 DEF bm
<1>4. q \in TaggedRun
  BY <1>2, <1>3 DEF TaggedRun
<1>5. q.reg_bitmap = [r.reg_bitmap EXCEPT ![i] = ALLOC_FREE] /\ q.tag = r.tag
  BY <1>2 DEF TaggedRun
<1>6. RegionIdx \subseteq ItemIdx
  BY RegionFacts
<1>7. \A j \in RegionIdx : q.reg_bitmap[j] = ALLOC => r.reg_bitmap[j] = ALLOC
  BY <1>1, <1>5, <1>6 DEF ALLOC, ALLOC_FREE
<1> QED BY <1>4, <1>5, <1>7 DEF TagsOf, q

\* Every step keeps the tags of every run.
LEMMA TagNext ==
  ASSUME TagInv, [Next]_vars
  PROVE  TagInv'
<1>1. CASE UNCHANGED runs
  BY <1>1 DEF TagInv
<1>2. CASE NewRun
  <2>1. PICK k \in Keys \ DOMAIN runs, g \in Gens, s \in RegionIdx,
             stale \in [StaleItems -> STATES] : bin_add_run(k, run_init(g, s, stale))
    BY <1>2 DEF NewRun
  <2>2. run_init(g, s, stale) \in TaggedRun /\ TagsOf(run_init(g, s, stale))
    BY TagsInit
  <2>3. runs' = [x \in DOMAIN runs \cup {k} |-> IF x = k THEN run_init(g, s, stale) ELSE runs[x]]
    BY <2>1 DEF bin_add_run
  <2>4. ASSUME NEW x \in DOMAIN runs' PROVE runs'[x] \in TaggedRun /\ TagsOf(runs'[x])
    <3>1. CASE x = k
      BY <3>1, <2>2, <2>3
    <3>2. CASE x # k
      <4>1. x \in DOMAIN runs /\ runs'[x] = runs[x]
        BY <3>2, <2>3
      <4> QED BY <4>1 DEF TagInv
    <3> QED BY <3>1, <3>2
  <2> QED BY <2>4 DEF TagInv
<1>3. ASSUME NEW k \in active, Allocate(k) PROVE TagInv'
  <2>1. PICK t \in TagChoices(runs[k]) : runs' = [runs EXCEPT ![k] = run_allocate(runs[k], t)]
    BY <1>3 DEF Allocate
  <2>2. ASSUME NEW x \in DOMAIN runs' PROVE runs'[x] \in TaggedRun /\ TagsOf(runs'[x])
    <3>0. x \in DOMAIN runs
      BY <2>1
    <3>1. CASE x = k
      <4>1. runs'[x] = run_allocate(runs[k], t)
        BY <2>1, <3>0, <3>1
      <4>2. runs[k] \in TaggedRun /\ TagsOf(runs[k])
        BY <3>0, <3>1 DEF TagInv
      <4> QED BY <4>1, <4>2, TagsAllocate
    <3>2. CASE x # k
      <4>1. runs'[x] = runs[x]
        BY <3>2, <3>0, <2>1
      <4> QED BY <4>1, <3>0 DEF TagInv
    <3> QED BY <3>1, <3>2
  <2> QED BY <2>2 DEF TagInv
<1>4. ASSUME NEW p \in Ptr, FreeValid(p) PROVE TagInv'
  <2> DEFINE k == p[1]
             q == run_deallocate(runs[k], p[2])
  <2>1. \/ runs' = [x \in DOMAIN runs \ {k} |-> runs[x]]
        \/ runs' = [runs EXCEPT ![k] = q]
    BY <1>4 DEF FreeValid
  <2>2. k \in DOMAIN runs
    BY <1>4 DEF FreeValid, Accepts
  <2>3. q \in TaggedRun /\ TagsOf(q)
    BY <2>2, TagsDeallocate DEF TagInv
  <2> HIDE DEF k, q
  <2>4. ASSUME NEW x \in DOMAIN runs' PROVE runs'[x] \in TaggedRun /\ TagsOf(runs'[x])
    <3>1. x \in DOMAIN runs /\ (runs'[x] = runs[x] \/ runs'[x] = q)
      BY <2>1
    <3> QED BY <3>1, <2>3 DEF TagInv
  <2> QED BY <2>4 DEF TagInv
<1> QED BY <1>1, <1>2, <1>3, <1>4
  DEF Next, Malloc, SupplyRun, AddRun, OutOfMemory, FreeInvalid, Ended, vars, lists

\* tag_pointer never gives two neighbouring regions that the program holds the same
\* tag, nor tag 0, whatever was allocated and freed around them: an overflow into a
\* live neighbour is always caught.
THEOREM TagsDiffer == Spec => []AdjacentTagsDiffer
<1>1. Init => TagInv
  BY DEF Init, TagInv
<1>2. TagInv /\ [Next]_vars => TagInv'
  BY TagNext
<1>3. TagInv => AdjacentTagsDiffer
  BY DEF TagInv, TagsOf, AdjacentTagsDiffer
<1> QED BY <1>1, <1>2, <1>3, PTL DEF Spec
=============================================================================
