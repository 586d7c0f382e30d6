--------------------------- MODULE SeallocProofs ---------------------------
(***************************************************************************)
(* Proofs about Sealloc for every place of the mappings, every number of   *)
(* blocks, every minimum of regions and every system of size classes that  *)
(* the assumptions of Sealloc allow, in which run_init clears the bitmap   *)
(* item of every address of a run (BitmapsCoverRuns).  Without this        *)
(* run_validate_ptr may accept the tail of a run.                          *)
(*                                                                         *)
(* The order of the chunks matters little: most of the argument is about   *)
(* the set C of the chunks, the table R of the runs, the set H of the huge *)
(* mappings and the mapped addresses M, which the operations change one at *)
(* a time.                                                                 *)
(***************************************************************************)
EXTENDS Sealloc, TLAPS, FiniteSetTheorems, SequenceTheorems

\* The facts about natural numbers that the proofs share.
Lib == INSTANCE BuddyTreeProofs WITH Depth <- 1

\* What SizePathProofs proves of the size classes, in any state of SizePath.
P == INSTANCE SizePathProofs WITH
       stage <- "asked", call <- <<"malloc", 0>>, reg_size <- 0, bin <- 0, run <- 0,
       gen <- 0, current_idx <- 0, found <- 0, Draws <- {}

\* No region that the program asks for has a run with a tail whose bitmap item is in a
\* byte that run_init does not clear.  Of the sizes of the code 80, 240, 272, 288, 336,
\* 368, 400 and 448 have one.
BitmapsCoverRuns == \A reg \in RegSizes : StaleItems(reg) = {}

-----------------------------------------------------------------------------
(***************************************************************************)
(* The inductive invariant                                                 *)
(***************************************************************************)
RunLen(reg) == RunSizeOf(reg) \div LEAF
Indices(reg) == 0 .. ElemsOf(reg) - 1

RunRecs == {r \in [block : Blocks, len : Nat \ {0}, reg : RegSizes] : r.len = RunLen(r.reg)}
ChunkRecs == [key : Places, live : SUBSET RunRecs, taken : SUBSET Blocks]
RunMeta == [reg : RegSizes, given : SUBSET Nat, freed : SUBSET Nat]
HugeRecs == [key : Places, len : Nat]
RunTables == UNION {[K -> RunMeta] : K \in SUBSET Nat}
ArenaRecs ==
  [chunks : Seq(ChunkRecs), runs : RunTables, bins : SUBSET RegSizes,
   huges : SUBSET HugeRecs, mapped : SUBSET Nat]

\* The runs of a chunk lie in different blocks, and it is not used up.
ChunkInv(c) ==
  /\ \A r \in c.live : Span(r.block, r.len) \subseteq c.taken
  /\ \A r, s \in c.live : r # s => Span(r.block, r.len) \cap Span(s.block, s.len) = {}
  /\ ~(c.live = {} /\ c.taken = Blocks)

\* What is mapped, and for whom.
Mem(h) == Span(h.key, h.len)
MapInv(C, H, M) ==
  /\ \A x : x \in M <=> (\E c \in C : x \in StillMapped(c)) \/ (\E h \in H : x \in Mem(h))
  /\ \A c, d \in C : c # d => StillMapped(c) \cap StillMapped(d) = {}
  /\ \A g, h \in H : g # h => Mem(g) \cap Mem(h) = {}
  /\ \A c \in C, h \in H : StillMapped(c) \cap Mem(h) = {}

\* There is metadata for each run of a chunk, and a run that has been freed
\* altogether is no longer there.
KeyOf(c, r) == c.key + r.block * LEAF
MetaInv(r) ==
  r.freed \subseteq r.given /\ r.given \subseteq Indices(r.reg) /\ r.freed # Indices(r.reg)
RunsInv(C, R) ==
  /\ \A k \in DOMAIN R : \E c \in C : \E r \in c.live : k = KeyOf(c, r)
  /\ \A c \in C : \A r \in c.live : KeyOf(c, r) \in DOMAIN R /\ R[KeyOf(c, r)].reg = r.reg
  /\ \A k \in DOMAIN R : MetaInv(R[k])

SInv(C, R, H, M) ==
  /\ C \subseteq ChunkRecs /\ R \in RunTables /\ H \subseteq HugeRecs /\ M \subseteq Nat
  /\ \A c \in C : ChunkInv(c)
  /\ \A c, d \in C : c.key = d.key => c = d
  /\ MapInv(C, H, M)
  /\ RunsInv(C, R)
  /\ \A h \in H : h.len > LARGE_SIZE_MAX_REGION

\* The chunks of a list, which holds each of them once.
Listed(chunks) == {chunks[n] : n \in DOMAIN chunks}
Once(chunks) == \A m, n \in DOMAIN chunks : chunks[m] = chunks[n] => m = n

AInv(a) ==
  /\ a \in ArenaRecs /\ Once(a.chunks)
  /\ SInv(Listed(a.chunks), a.runs, a.huges, a.mapped)

\* The memory that is in use: its address and its size.
InUse(R, g) ==
  \E k \in DOMAIN R : \E i \in R[k].given \ R[k].freed : g = <<k + i * R[k].reg, R[k].reg>>
Regions(R, H) ==
  {g \in Nat \X Nat : InUse(R, g) \/ \E h \in H : g = <<h.key, h.len>>}

\* The program holds what is in use, and no more of it than there is.
LiveInv(L, G) ==
  /\ L \in [DOMAIN L -> Nat] /\ DOMAIN L = {g[1] : g \in G}
  /\ \A g \in G : L[g[1]] <= g[2]

IInv ==
  /\ AInv(arena) /\ LiveInv(live, Regions(arena.runs, arena.huges))
  /\ CopyExact

-----------------------------------------------------------------------------
(***************************************************************************)
(* Sizes                                                                   *)
(***************************************************************************)

\* The operators of SizeClass are the same here and in SizePathProofs.
LEMMA SameSizes ==
  /\ Pow2 = P!Pow2 /\ SIZE_WORD = P!SIZE_WORD
  /\ \A n : AlignedSize(n) = P!AlignedSize(n) /\ ALIGNUP_PAGE(n) = P!ALIGNUP_PAGE(n)
  /\ \A n : RunSizeOf(n) = P!RunSizeOf(n) /\ ElemsOf(n) = P!ElemsOf(n)
<1>1. Pow2 = P!Pow2
  BY DEF Pow2, P!Pow2
<1>2. WORD = P!WORD /\ SIZE_WORD = P!SIZE_WORD
  BY <1>1 DEF WORD, P!WORD, SIZE_WORD, P!SIZE_WORD
<1>3. \A n : Word(n) = P!Word(n) /\ SizeWord(n) = P!SizeWord(n)
  BY <1>2 DEF Word, P!Word, SizeWord, P!SizeWord
<1>4. \A n, a : AlignUp(n, a) = P!AlignUp(n, a)
  BY <1>3 DEF AlignUp, P!AlignUp
<1>5. \A n : ALIGNUP_PAGE(n) = P!ALIGNUP_PAGE(n) /\ ALIGNUP_SMALL_SIZE(n) = P!ALIGNUP_SMALL_SIZE(n)
  BY <1>4 DEF ALIGNUP_PAGE, P!ALIGNUP_PAGE, ALIGNUP_SMALL_SIZE, P!ALIGNUP_SMALL_SIZE
<1>6. \A n : (IS_SIZE_SMALL(n) <=> P!IS_SIZE_SMALL(n)) /\ (IS_SIZE_MEDIUM(n) <=> P!IS_SIZE_MEDIUM(n))
  BY DEF IS_SIZE_SMALL, P!IS_SIZE_SMALL, IS_SIZE_MEDIUM, P!IS_SIZE_MEDIUM,
         MEDIUM_SIZE_MAX_REGION, P!MEDIUM_SIZE_MAX_REGION
<1>7. \A n : npow2(n) = P!npow2(n)
  BY Zenon DEF npow2, P!npow2, Word, P!Word, WORD, P!WORD, Smear, P!Smear, Bits, P!Bits,
               Value, P!Value, Pow2, P!Pow2
<1>8. \A a, b : ceil_div(a, b) = P!ceil_div(a, b)
  BY DEF ceil_div, P!ceil_div
<1>9. \A n : /\ alignup_medium_size(n) = P!alignup_medium_size(n)
             /\ alignup_large_size(n) = P!alignup_large_size(n)
  BY <1>3, <1>7, <1>8, Zenon
     DEF alignup_medium_size, P!alignup_medium_size, alignup_large_size, P!alignup_large_size
<1>10. \A n : AlignedSize(n) = P!AlignedSize(n)
  BY <1>5, <1>6, <1>9 DEF AlignedSize, P!AlignedSize
<1>11. \A n : RunSizeOf(n) = P!RunSizeOf(n)
  BY <1>6 DEF RunSizeOf, P!RunSizeOf
<1>12. \A n : ElemsOf(n) = P!ElemsOf(n)
  BY <1>11 DEF ElemsOf, P!ElemsOf
<1> QED BY <1>1, <1>2, <1>5, <1>10, <1>11, <1>12

\* SizePathProofs assumes the same of the size classes and of the sizes asked for.
LEMMA SizesAgree ==
  /\ WordBits \in 1 .. 32 /\ SizeBits \in Nat /\ WordBits <= SizeBits
  /\ {PAGE_SIZE, SMALL_SIZE_CLASS_ALIGNMENT, MEDIUM_SIZE_MIN_REGION, LARGE_SIZE_MIN_REGION,
      NO_SMALL_SIZE_CLASSES, NO_MEDIUM_SIZE_CLASSES, NO_LARGE_SIZE_CLASSES} \subseteq Nat \ {0}
  /\ SMALL_SIZE_MAX_REGION = NO_SMALL_SIZE_CLASSES * SMALL_SIZE_CLASS_ALIGNMENT
  /\ P!MEDIUM_SIZE_MAX_REGION = MEDIUM_SIZE_MIN_REGION * P!Pow2[NO_MEDIUM_SIZE_CLASSES - 1]
  /\ LARGE_SIZE_MAX_REGION = LARGE_SIZE_MIN_REGION * P!Pow2[NO_LARGE_SIZE_CLASSES - 1]
  /\ SMALL_SIZE_MAX_REGION < MEDIUM_SIZE_MIN_REGION
  /\ P!MEDIUM_SIZE_MAX_REGION < LARGE_SIZE_MIN_REGION /\ P!MEDIUM_SIZE_MAX_REGION < P!REG_MARK_BAD_VALUE
  /\ RUN_SIZE_BYTES = LARGE_SIZE_MIN_REGION /\ LARGE_SIZE_MIN_REGION % PAGE_SIZE = 0
  /\ 2 * LARGE_SIZE_MAX_REGION <= P!Pow2[WordBits]
  /\ MallocSizes \cup ReallocSizes \subseteq 0 .. P!SIZE_WORD - PAGE_SIZE
<1>1. /\ P!MEDIUM_SIZE_MAX_REGION = MEDIUM_SIZE_MAX_REGION
      /\ P!REG_MARK_BAD_VALUE = REG_MARK_BAD_VALUE
  BY SMT DEF P!MEDIUM_SIZE_MAX_REGION, MEDIUM_SIZE_MAX_REGION,
             P!REG_MARK_BAD_VALUE, REG_MARK_BAD_VALUE
<1> QED BY <1>1, SameSizes, SizeClassAssumption, RequestAssumption, Zenon

\* The shape of the size classes.
LEMMA ShapeApplies ==
  /\ {PAGE_SIZE, SMALL_SIZE_CLASS_ALIGNMENT, LARGE_SIZE_MIN_REGION,
      LARGE_SIZE_MAX_REGION} \subseteq Nat \ {0}
  /\ SMALL_SIZE_CLASS_ALIGNMENT <= LARGE_SIZE_MAX_REGION
  /\ SIZE_WORD \in Nat \ {0}
<1>1. /\ {PAGE_SIZE, SMALL_SIZE_CLASS_ALIGNMENT, SMALL_SIZE_MAX_REGION, MEDIUM_SIZE_MIN_REGION,
          P!MEDIUM_SIZE_MAX_REGION, LARGE_SIZE_MIN_REGION, LARGE_SIZE_MAX_REGION,
          NO_SMALL_SIZE_CLASSES, NO_MEDIUM_SIZE_CLASSES, NO_LARGE_SIZE_CLASSES} \subseteq Nat \ {0}
      /\ SMALL_SIZE_CLASS_ALIGNMENT <= SMALL_SIZE_MAX_REGION
      /\ SMALL_SIZE_MAX_REGION < MEDIUM_SIZE_MIN_REGION
      /\ MEDIUM_SIZE_MIN_REGION <= P!MEDIUM_SIZE_MAX_REGION
      /\ P!MEDIUM_SIZE_MAX_REGION < LARGE_SIZE_MIN_REGION
      /\ LARGE_SIZE_MIN_REGION <= LARGE_SIZE_MAX_REGION
      /\ 2 * LARGE_SIZE_MAX_REGION <= P!WORD
  BY P!Shape, SizesAgree, Zenon
<1>2. P!SIZE_WORD \in Nat \ {0}
  BY P!SizeWordFacts, SizesAgree, Zenon
<1> QED BY <1>1, <1>2, SameSizes

\* What SizePathProofs proves of the size classes.
LEMMA SizesApply ==
  /\ \A n \in 1 .. LARGE_SIZE_MAX_REGION : AlignedSize(n) \in P!Classes /\ n <= AlignedSize(n)
  /\ AlignedSize(0) = 0
  /\ \A n \in 0 .. SIZE_WORD - PAGE_SIZE : ALIGNUP_PAGE(n) \in Nat /\ n <= ALIGNUP_PAGE(n)
  /\ LARGE_SIZE_MIN_REGION \in P!Classes
  /\ \A r \in P!Classes :
       /\ r \in 1 .. LARGE_SIZE_MAX_REGION /\ RunSizeOf(r) \in Nat
       /\ RunSizeOf(r) % LARGE_SIZE_MIN_REGION = 0 /\ ElemsOf(r) >= 1
       /\ RunSizeOf(r) = LARGE_SIZE_MIN_REGION \/ ElemsOf(r) = 1
  BY P!SizeFacts, SameSizes, SizesAgree, Zenon

\* What the size classes give the other proofs: the parameters are natural numbers.
LEMMA ConstantFacts ==
  /\ NoBlocks \in Nat \ {0} /\ MinRegions \in Nat \ {0} /\ LEAF \in Nat \ {0}
  /\ {LARGE_SIZE_MAX_REGION, SMALL_SIZE_MIN_REGION, MaxLive} \subseteq Nat
  /\ SMALL_SIZE_MIN_REGION <= LARGE_SIZE_MAX_REGION /\ SMALL_SIZE_MIN_REGION \in Nat \ {0}
  /\ MallocSizes \subseteq Nat /\ ReallocSizes \subseteq Nat /\ CallocArgs \subseteq Nat \X Nat
  /\ Places \subseteq Nat \ {0}
<1>1. /\ {SMALL_SIZE_CLASS_ALIGNMENT, LARGE_SIZE_MIN_REGION, LARGE_SIZE_MAX_REGION,
          PAGE_SIZE} \subseteq Nat \ {0}
      /\ SMALL_SIZE_CLASS_ALIGNMENT <= LARGE_SIZE_MAX_REGION
  BY ShapeApplies
<1>2. LEAF \in Nat \ {0} /\ SMALL_SIZE_MIN_REGION = SMALL_SIZE_CLASS_ALIGNMENT
  BY <1>1 DEF LEAF, SMALL_SIZE_MIN_REGION
<1>3. MallocSizes \subseteq Nat /\ ReallocSizes \subseteq Nat /\ CallocArgs \subseteq Nat \X Nat
  BY RequestAssumption
<1> QED BY <1>1, <1>2, <1>3, SeallocAssumption

\* A product that calloc asks for does not wrap around.
LEMMA ProductFits ==
  ASSUME NEW c \in CallocArgs
  PROVE  SizeWord(c[1] * c[2]) = c[1] * c[2] /\ c[1] * c[2] \in 0 .. SIZE_WORD - PAGE_SIZE
<1>1. c[1] \in Nat /\ c[2] \in Nat /\ c[1] * c[2] <= SIZE_WORD - PAGE_SIZE
  BY RequestAssumption
<1>2. c[1] * c[2] \in Nat
  <2>1. ASSUME NEW x \in Nat, NEW y \in Nat PROVE x * y \in Nat
    OBVIOUS
  <2> QED BY <1>1, <2>1
<1>3. SIZE_WORD \in Nat \ {0} /\ PAGE_SIZE \in Nat \ {0}
  BY ShapeApplies
<1> DEFINE m == c[1] * c[2]
<1>4. m \in Nat /\ m <= SIZE_WORD - PAGE_SIZE
  BY <1>1, <1>2
<1> HIDE DEF m
<1>5. m % SIZE_WORD = m /\ m \in 0 .. SIZE_WORD - PAGE_SIZE
  BY <1>3, <1>4
<1> QED BY <1>5 DEF m, SizeWord

\* What malloc is asked for, in place of 0: a size of a class or one that pages hold.
LEMMA MallocFits ==
  ASSUME NEW n \in MallocArgs
  PROVE  NonZero(n) \in 1 .. LARGE_SIZE_MAX_REGION \/ NonZero(n) \in 0 .. SIZE_WORD - PAGE_SIZE
<1>1. CASE n \in MallocSizes
  BY <1>1, RequestAssumption, ConstantFacts DEF NonZero
<1>2. CASE n \in {SizeWord(c[1] * c[2]) : c \in CallocArgs}
  <2>1. n \in 0 .. SIZE_WORD - PAGE_SIZE
    BY <1>2, ProductFits
  <2> QED BY <2>1, ConstantFacts DEF NonZero
<1>3. CASE n \in {ALIGNUP_PAGE(i) : i \in {m \in ReallocSizes : ~IS_SIZE_HUGE(ALIGNUP_PAGE(m))}}
  <2>1. PICK i \in ReallocSizes : n = ALIGNUP_PAGE(i) /\ ~IS_SIZE_HUGE(ALIGNUP_PAGE(i))
    BY <1>3
  <2>2. n \in Nat /\ n <= LARGE_SIZE_MAX_REGION
    BY <2>1, SizesApply, RequestAssumption, ConstantFacts DEF IS_SIZE_HUGE
  <2> QED BY <2>2, ConstantFacts DEF NonZero
<1> QED BY <1>1, <1>2, <1>3 DEF MallocArgs

\* What realloc rounds is the size of a class.
LEMMA NewRegClass ==
  ASSUME NEW n \in ReallocSizes, ~IS_SIZE_HUGE(n)
  PROVE  NewRegSize(n) \in P!Classes /\ NewRegSize(n) >= n
<1>1. n \in 0 .. LARGE_SIZE_MAX_REGION
  BY ConstantFacts DEF IS_SIZE_HUGE
<1>2. LARGE_SIZE_MIN_REGION \in Nat
  BY ShapeApplies
<1>3. CASE n = 0
  BY <1>2, <1>3, SizesApply DEF NewRegSize
<1>4. CASE n # 0
  <2>1. n \in 1 .. LARGE_SIZE_MAX_REGION
    BY <1>1, <1>4, ConstantFacts
  <2>2. AlignedSize(n) \in P!Classes /\ n <= AlignedSize(n) /\ AlignedSize(n) \in Nat \ {0}
    BY <2>1, SizesApply, ConstantFacts
  <2> QED BY <2>1, <2>2 DEF NewRegSize
<1> QED BY <1>3, <1>4

\* A regular size is rounded up to a class, a huge one to pages.
LEMMA RoundingFacts ==
  /\ \A n \in MallocArgs :
       LET m == NonZero(n)
           k == IF IS_SIZE_HUGE(m) THEN ALIGNUP_PAGE(m) ELSE AlignedSize(m)
       IN k \in Nat /\ k >= m
  /\ \A n \in ReallocSizes :
       /\ ALIGNUP_PAGE(n) \in Nat /\ ALIGNUP_PAGE(n) >= n
       /\ ~IS_SIZE_HUGE(n) => NewRegSize(n) >= n
  /\ \A c \in CallocArgs : SizeWord(c[1] * c[2]) = c[1] * c[2]
<1>1. ASSUME NEW n \in MallocArgs
      PROVE  LET m == NonZero(n)
                 k == IF IS_SIZE_HUGE(m) THEN ALIGNUP_PAGE(m) ELSE AlignedSize(m)
             IN k \in Nat /\ k >= m
  <2> DEFINE m == NonZero(n)
  <2>1. m \in 1 .. LARGE_SIZE_MAX_REGION \/ m \in 0 .. SIZE_WORD - PAGE_SIZE
    BY MallocFits
  <2>2. m # 0
    BY ConstantFacts DEF NonZero
  <2> HIDE DEF m
  <2>3. CASE IS_SIZE_HUGE(m)
    <3>1. m \in 0 .. SIZE_WORD - PAGE_SIZE
      BY <2>1, <2>3, ConstantFacts DEF IS_SIZE_HUGE
    <3>2. ALIGNUP_PAGE(m) \in Nat /\ m <= ALIGNUP_PAGE(m)
      BY <3>1, SizesApply
    <3> QED BY <2>3, <3>1, <3>2 DEF m
  <2>4. CASE ~IS_SIZE_HUGE(m)
    <3>1. m \in 1 .. LARGE_SIZE_MAX_REGION
      BY <2>1, <2>2, <2>4, ConstantFacts DEF IS_SIZE_HUGE
    <3>2. AlignedSize(m) \in Nat /\ m <= AlignedSize(m)
      BY <3>1, SizesApply, ConstantFacts
    <3> QED BY <2>4, <3>1, <3>2 DEF m
  <2> QED BY <2>3, <2>4
<1>2. ASSUME NEW n \in ReallocSizes
      PROVE  /\ ALIGNUP_PAGE(n) \in Nat /\ ALIGNUP_PAGE(n) >= n
             /\ ~IS_SIZE_HUGE(n) => NewRegSize(n) >= n
  <2>1. n \in 0 .. SIZE_WORD - PAGE_SIZE
    BY RequestAssumption
  <2>2. ALIGNUP_PAGE(n) \in Nat /\ n <= ALIGNUP_PAGE(n)
    BY <2>1, SizesApply
  <2> QED BY <2>1, <2>2, NewRegClass
<1> QED BY <1>1, <1>2, ProductFits

\* A run is a number of leaves and holds regions; a run of several leaves holds one.
LEMMA RunsFacts ==
  \A reg \in RegSizes :
    /\ reg \in 1 .. LARGE_SIZE_MAX_REGION /\ RunSizeOf(reg) \in Nat
    /\ RunSizeOf(reg) % LEAF = 0 /\ ElemsOf(reg) >= 1
    /\ RunSizeOf(reg) = LEAF \/ ElemsOf(reg) = 1
<1> SUFFICES ASSUME NEW reg \in RegSizes PROVE reg \in P!Classes
  BY SizesApply, Zenon DEF LEAF
<1>1. CASE reg \in {AlignedSize(NonZero(n)) : n \in {m \in MallocArgs : ~IS_SIZE_HUGE(NonZero(m))}}
  <2>1. PICK n \in MallocArgs : reg = AlignedSize(NonZero(n)) /\ ~IS_SIZE_HUGE(NonZero(n))
    BY <1>1
  <2>2. NonZero(n) \in 1 .. LARGE_SIZE_MAX_REGION
    BY <2>1, MallocFits, ConstantFacts DEF IS_SIZE_HUGE, NonZero
  <2> QED BY <2>1, <2>2, SizesApply
<1>2. CASE reg \in {NewRegSize(n) : n \in {m \in ReallocSizes : ~IS_SIZE_HUGE(m)}}
  BY <1>2, NewRegClass
<1> QED BY <1>1, <1>2 DEF RegSizes

-----------------------------------------------------------------------------
(***************************************************************************)
(* Addresses, blocks and runs                                              *)
(***************************************************************************)
LEMMA RegFacts ==
  ASSUME NEW reg \in RegSizes
  PROVE  /\ reg \in Nat \ {0} /\ reg <= LARGE_SIZE_MAX_REGION
         /\ RunLen(reg) \in Nat \ {0} /\ ElemsOf(reg) \in Nat \ {0}
         /\ RunSizeOf(reg) = RunLen(reg) * LEAF
         /\ ElemsOf(reg) * reg <= RunLen(reg) * LEAF
         /\ RunLen(reg) = 1 \/ ElemsOf(reg) = 1
<1>1. /\ reg \in 1 .. LARGE_SIZE_MAX_REGION /\ RunSizeOf(reg) \in Nat
      /\ RunSizeOf(reg) % LEAF = 0 /\ ElemsOf(reg) >= 1
      /\ RunSizeOf(reg) = LEAF \/ ElemsOf(reg) = 1
  BY RunsFacts
<1>2. LEAF \in Nat \ {0} /\ LARGE_SIZE_MAX_REGION \in Nat
  BY ConstantFacts
<1> DEFINE S == RunSizeOf(reg)
           E == ElemsOf(reg)
           L == RunLen(reg)
<1>3. reg \in Nat \ {0} /\ reg <= LARGE_SIZE_MAX_REGION
  BY <1>1, <1>2
<1>4. S = L * LEAF /\ L \in Nat
  BY <1>1, <1>2, Lib!DivMul, 1 \in Nat \ {0}, Zenon DEF RunLen
<1>5. E = S \div reg
  BY DEF ElemsOf
<1>6. S = reg * (S \div reg) + (S % reg) /\ S % reg \in 0 .. reg - 1 /\ S \div reg \in Int
  BY <1>1, <1>3
<1> DEFINE q == S \div reg
           m == S % reg
<1> HIDE DEF S, E, L, LEAF, q, m
<1>7. E \in Int /\ S = reg * E + m /\ m \in 0 .. reg - 1
  BY <1>5, <1>6 DEF q, m
<1>8. E >= 1 /\ S \in Nat
  BY <1>1 DEF E, S
<1>9. E * reg <= S /\ E * reg = reg * E
  BY <1>7, <1>8, <1>3
<1>10. reg * E >= reg
  BY <1>3, <1>7, <1>8
<1>11. S >= 1
  BY <1>9, <1>10, <1>3, <1>7
<1>12. L # 0
  BY <1>11, <1>4, <1>2
<1>13. S = LEAF => L = 1
  <2> SUFFICES ASSUME S = LEAF PROVE L = 1 OBVIOUS
  <2>1. S = 1 * LEAF BY <1>2
  <2>2. L * LEAF = LEAF BY <1>4
  <2>3. ~(L >= 2)
    <3> SUFFICES ASSUME L >= 2 PROVE FALSE OBVIOUS
    <3>1. L * LEAF >= 2 * LEAF BY <1>4, <1>2
    <3> QED BY <3>1, <2>2, <1>2
  <2> QED BY <2>3, <1>4, <1>12
<1>14. S = LEAF \/ E = 1
  BY <1>1 DEF S, E
<1>15. L \in Nat \ {0} /\ E \in Nat \ {0}
  BY <1>4, <1>12, <1>7, <1>8
<1>16. E * reg <= L * LEAF
  BY <1>9, <1>4
<1>17. L = 1 \/ E = 1
  BY <1>13, <1>14
<1> QED BY <1>3, <1>4, <1>15, <1>16, <1>17 DEF S, E, L

\* The block of a chunk at key that holds address x, and the addresses of a run of
\* len blocks.
LEMMA BlockOf ==
  ASSUME NEW key \in Nat, NEW b \in Nat, NEW len \in Nat, NEW x
  PROVE  x \in Span(key + b * LEAF, len * LEAF) <=>
           x \in Nat /\ x >= key /\ (x - key) \div LEAF \in Span(b, len)
<1>1. LEAF \in Nat \ {0}
  BY ConstantFacts
<1> HIDE DEF LEAF
<1>2. b * LEAF \in Nat /\ len * LEAF \in Nat /\ (b + len) * LEAF = b * LEAF + len * LEAF
  BY <1>1
<1>3. x \in Span(key + b * LEAF, len * LEAF) <=>
        x \in Nat /\ x >= key + b * LEAF /\ x < key + b * LEAF + len * LEAF
  BY <1>2 DEF Span
<1>4. CASE x \in Nat /\ x >= key
  <2> DEFINE d == x - key
  <2>1. d \in Nat
    BY <1>4
  <2> HIDE DEF d
  <2>2. /\ d \div LEAF \in Nat
        /\ d < (b + len) * LEAF => d \div LEAF < b + len
        /\ d >= (b + len) * LEAF => d \div LEAF >= b + len
    BY <2>1, <1>1, Lib!DivBound
  <2>3. /\ d < b * LEAF => d \div LEAF < b
        /\ d >= b * LEAF => d \div LEAF >= b
    BY <2>1, <1>1, Lib!DivBound
  <2> DEFINE q == d \div LEAF
             B == b * LEAF
             N == (b + len) * LEAF
  <2>4. B \in Nat /\ N \in Nat /\ N = B + len * LEAF /\ len * LEAF \in Nat
    BY <1>2
  <2>5. /\ q \in Nat /\ (d < N => q < b + len) /\ (d >= N => q >= b + len)
        /\ (d < B => q < b) /\ (d >= B => q >= b)
    BY <2>2, <2>3
  <2> HIDE DEF q, B, N
  <2>6. d >= B /\ d < N <=> q >= b /\ q < b + len
    BY <2>1, <2>4, <2>5
  <2>7. x >= key + B /\ x < key + B + len * LEAF <=> d >= B /\ d < N
    BY <1>4, <2>4 DEF d
  <2>8. q \in Span(b, len) <=> q >= b /\ q < b + len
    BY <2>5 DEF Span
  <2>9. q = (x - key) \div LEAF
    BY DEF q, d
  <2> QED BY <1>3, <1>4, <2>6, <2>7, <2>8, <2>9 DEF B
<1>5. CASE ~(x \in Nat /\ x >= key)
  BY <1>5, <1>3, <1>2
<1> QED BY <1>4, <1>5

\* The blocks of a chunk are 0 .. NoBlocks - 1.
LEMMA BlockFacts == /\ Blocks \subseteq Nat /\ NoBlocks \in Nat \ {0} /\ LEAF \in Nat \ {0}
                    /\ \A b : b \in Blocks <=> b \in Nat /\ b < NoBlocks
BY ConstantFacts DEF Blocks

\* The blocks of a chunk that are mapped.
Kept(c) == (Blocks \ c.taken) \cup UNION {Span(r.block, r.len) : r \in c.live}

\* The runs of a chunk lie in blocks that it has not unmapped, of which there is one
\* at least.
LEMMA ChunkFacts ==
  ASSUME NEW c \in ChunkRecs, ChunkInv(c)
  PROVE  /\ c.key \in Nat \ {0} /\ c.key \in Places /\ c.taken \subseteq Blocks
         /\ \A r \in c.live : /\ r \in RunRecs /\ r.block \in Nat /\ r.block \in Blocks
                              /\ r.len \in Nat \ {0} /\ r.reg \in RegSizes
                              /\ r.len = RunLen(r.reg)
                              /\ Span(r.block, r.len) \subseteq Kept(c) /\ r.block \in Kept(c)
                              /\ r.block \in Span(r.block, r.len)
         /\ Kept(c) \subseteq Blocks /\ Kept(c) # {}
<1>1. c.key \in Nat \ {0} /\ c.key \in Places /\ c.taken \subseteq Blocks /\ c.live \subseteq RunRecs
  BY ConstantFacts DEF ChunkRecs
<1>2. ASSUME NEW r \in c.live
      PROVE  /\ r \in RunRecs /\ r.block \in Nat /\ r.block \in Blocks
             /\ r.len \in Nat \ {0} /\ r.reg \in RegSizes /\ r.len = RunLen(r.reg)
             /\ Span(r.block, r.len) \subseteq Kept(c) /\ r.block \in Kept(c)
             /\ r.block \in Span(r.block, r.len)
  <2>1. r \in RunRecs
    BY <1>1
  <2>2. /\ r.block \in Nat /\ r.block \in Blocks
        /\ r.len \in Nat \ {0} /\ r.reg \in RegSizes /\ r.len = RunLen(r.reg)
    BY <2>1, BlockFacts DEF RunRecs
  <2>3. r.block \in Span(r.block, r.len)
    BY <2>2 DEF Span
  <2>4. Span(r.block, r.len) \subseteq Kept(c)
    BY DEF Kept
  <2> QED BY <2>1, <2>2, <2>3, <2>4
<1>3. Kept(c) \subseteq Blocks
  BY <1>1 DEF Kept, ChunkInv
<1>4. Kept(c) # {}
  <2>1. CASE c.live = {}
    <3>1. c.taken # Blocks BY <2>1 DEF ChunkInv
    <3> QED BY <3>1, <1>1 DEF Kept
  <2>2. CASE c.live # {}
    <3>1. PICK r : r \in c.live BY <2>2
    <3> QED BY <3>1, <1>2
  <2> QED BY <2>1, <2>2
<1> QED BY <1>1, <1>2, <1>3, <1>4

\* An address is mapped for a chunk when its block is one that the chunk has kept.
LEMMA StillMappedIs ==
  ASSUME NEW c, c.key \in Nat, Kept(c) \subseteq Nat, NEW x
  PROVE  x \in StillMapped(c) <=>
           x \in Nat /\ x >= c.key /\ (x - c.key) \div LEAF \in Kept(c)
<1>1. c.key \in Nat /\ Kept(c) \subseteq Nat
  OBVIOUS
<1>2. StillMapped(c) = UNION {Span(c.key + b * LEAF, LEAF) : b \in Kept(c)}
  BY DEF StillMapped, Kept
<1>3. \A b \in Kept(c) : Span(c.key + b * LEAF, LEAF) = Span(c.key + b * LEAF, 1 * LEAF)
  BY BlockFacts
<1>4. \A b \in Kept(c) : x \in Span(c.key + b * LEAF, LEAF) <=>
        x \in Nat /\ x >= c.key /\ (x - c.key) \div LEAF \in Span(b, 1)
  BY <1>1, <1>3, BlockOf
<1>5. \A b \in Kept(c) : Span(b, 1) = {b}
  BY <1>1 DEF Span
<1> DEFINE d == (x - c.key) \div LEAF
<1> HIDE DEF d
<1>6. \A b \in Kept(c) : x \in Span(c.key + b * LEAF, LEAF) <=> x \in Nat /\ x >= c.key /\ d = b
  BY <1>4, <1>5 DEF d
<1>7. x \in StillMapped(c) <=> x \in Nat /\ x >= c.key /\ d \in Kept(c)
  BY <1>2, <1>6
<1> QED BY <1>7 DEF d

\* A run lies in its chunk, and starts with its key.
LEMMA RunMapped ==
  ASSUME NEW c \in ChunkRecs, ChunkInv(c), NEW r \in c.live
  PROVE  /\ KeyOf(c, r) \in Nat /\ KeyOf(c, r) >= c.key
         /\ (KeyOf(c, r) - c.key) \div LEAF = r.block
         /\ KeyOf(c, r) \in Span(KeyOf(c, r), r.len * LEAF)
         /\ Span(KeyOf(c, r), r.len * LEAF) \subseteq StillMapped(c)
<1>1. /\ c.key \in Nat /\ r.block \in Nat /\ r.len \in Nat \ {0}
      /\ Span(r.block, r.len) \subseteq Kept(c) /\ Kept(c) \subseteq Nat
  BY ChunkFacts, BlockFacts
<1>2. LEAF \in Nat \ {0}
  BY BlockFacts
<1> HIDE DEF LEAF
<1> DEFINE k == KeyOf(c, r)
<1>3. ASSUME NEW l \in Nat \ {0} PROVE l * LEAF \in Nat /\ l * LEAF >= 1
  BY <1>2
<1>4. ASSUME NEW b \in Nat PROVE b * LEAF \in Nat /\ (b * LEAF) \div LEAF = b
  BY <1>2, Lib!MulDiv
<1>5. r.block * LEAF \in Nat /\ (r.block * LEAF) \div LEAF = r.block /\ r.len * LEAF >= 1
  BY <1>1, <1>4, <1>3
<1>6. k = c.key + r.block * LEAF
  BY DEF KeyOf
<1> HIDE DEF k
<1>7. k \in Nat /\ k >= c.key /\ k - c.key = r.block * LEAF
  BY <1>1, <1>5, <1>6
<1>8. k \in Span(k, r.len * LEAF)
  BY <1>7, <1>5, <1>1, <1>2 DEF Span
<1>9. \A x : x \in Span(k, r.len * LEAF) => x \in StillMapped(c)
  BY <1>1, <1>6, BlockOf, StillMappedIs
<1> QED BY <1>5, <1>7, <1>8, <1>9 DEF k

\* A chunk has something mapped, in the range that it was given.
LEMMA SomeMapped ==
  ASSUME NEW c \in ChunkRecs, ChunkInv(c)
  PROVE  StillMapped(c) # {} /\ StillMapped(c) \subseteq Span(c.key, CHUNK_SIZE_BYTES)
<1>1. c.key \in Nat /\ Kept(c) \subseteq Blocks /\ Kept(c) # {} /\ Kept(c) \subseteq Nat
  BY ChunkFacts, BlockFacts
<1>2. LEAF \in Nat \ {0} /\ Blocks \subseteq Nat /\ NoBlocks \in Nat
  BY BlockFacts
<1>3. StillMapped(c) # {}
  <2>1. PICK b : b \in Kept(c) BY <1>1
  <2>2. b \in Nat BY <2>1, <1>1, <1>2
  <2> DEFINE x == c.key + b * LEAF
  <2> HIDE DEF LEAF
  <2>3. b * LEAF \in Nat /\ (b * LEAF) \div LEAF = b BY <2>2, <1>2, Lib!MulDiv
  <2>4. x \in Nat /\ x >= c.key /\ x - c.key = b * LEAF BY <2>3, <1>1
  <2> HIDE DEF x
  <2>5. x \in StillMapped(c) BY <2>4, <2>3, <2>1, <1>1, StillMappedIs
  <2> QED BY <2>5
<1>4. ASSUME NEW x \in StillMapped(c) PROVE x \in Span(c.key, CHUNK_SIZE_BYTES)
  <2>1. x \in Nat /\ x >= c.key /\ (x - c.key) \div LEAF \in Kept(c)
    BY <1>1, StillMappedIs
  <2>2. Blocks = Span(0, NoBlocks)
    BY <1>2 DEF Blocks, Span
  <2>3. x \in Span(c.key + 0 * LEAF, NoBlocks * LEAF)
    BY <2>1, <2>2, <1>1, <1>2, BlockOf
  <2> QED BY <2>3, <1>1, <1>2 DEF CHUNK_SIZE_BYTES
<1> QED BY <1>3, <1>4

-----------------------------------------------------------------------------
(***************************************************************************)
(* Chunks, runs and regions lie apart                                      *)
(***************************************************************************)
LEMMA Tables ==
  ASSUME NEW R
  PROVE  R \in RunTables <=> DOMAIN R \subseteq Nat /\ R \in [DOMAIN R -> RunMeta]
BY DEF RunTables

\* What the invariant says of the single chunks, runs and huge mappings.
LEMMA SParts ==
  ASSUME NEW C, NEW R, NEW H, NEW M, SInv(C, R, H, M)
  PROVE  /\ \A c \in C : c \in ChunkRecs /\ ChunkInv(c)
         /\ DOMAIN R \subseteq Nat /\ R \in [DOMAIN R -> RunMeta]
         /\ \A k \in DOMAIN R : R[k] \in RunMeta /\ R[k].reg \in RegSizes /\ MetaInv(R[k])
         /\ \A h \in H : /\ h \in HugeRecs /\ h.key \in Nat \ {0} /\ h.key \in Places
                         /\ h.len \in Nat \ {0} /\ h.key \in Mem(h)
         /\ M \subseteq Nat
<1>1. \A c \in C : c \in ChunkRecs /\ ChunkInv(c)
  BY DEF SInv
<1>2. DOMAIN R \subseteq Nat /\ R \in [DOMAIN R -> RunMeta] /\ M \subseteq Nat
  BY Tables DEF SInv
<1>3. \A k \in DOMAIN R : R[k] \in RunMeta /\ R[k].reg \in RegSizes /\ MetaInv(R[k])
  BY <1>2 DEF SInv, RunsInv, RunMeta
<1>4. ASSUME NEW h \in H
      PROVE  /\ h \in HugeRecs /\ h.key \in Nat \ {0} /\ h.key \in Places
             /\ h.len \in Nat \ {0} /\ h.key \in Mem(h)
  <2>1. h \in HugeRecs /\ h.len > LARGE_SIZE_MAX_REGION
    BY DEF SInv
  <2>0. LARGE_SIZE_MAX_REGION \in Nat /\ Places \subseteq Nat \ {0}
    BY ConstantFacts
  <2>3. h.key \in Places /\ h.len \in Nat
    BY <2>1 DEF HugeRecs
  <2>2. h.key \in Nat \ {0} /\ h.key \in Places /\ h.len \in Nat \ {0}
    <3>1. ASSUME NEW l \in Nat, NEW m \in Nat, l > m PROVE l \in Nat \ {0}
      BY <3>1
    <3>2. h.len \in Nat \ {0}
      BY <3>1, <2>0, <2>1, <2>3
    <3> QED BY <3>2, <2>0, <2>3
  <2> QED BY <2>1, <2>2 DEF Mem, Span
<1> QED BY <1>1, <1>2, <1>3, <1>4

\* A run is known by its key.
LEMMA RunUnique ==
  ASSUME NEW C, NEW R, NEW H, NEW M, SInv(C, R, H, M),
         NEW c \in C, NEW d \in C, NEW r \in c.live, NEW s \in d.live,
         NEW x \in Span(KeyOf(c, r), r.len * LEAF), x \in Span(KeyOf(d, s), s.len * LEAF)
  PROVE  c = d /\ r = s
<1>1. c \in ChunkRecs /\ ChunkInv(c) /\ d \in ChunkRecs /\ ChunkInv(d)
  BY SParts
<1>2. x \in StillMapped(c) /\ x \in StillMapped(d)
  BY <1>1, RunMapped
<1>3. c = d
  BY <1>2 DEF SInv, MapInv
<1>4. s \in c.live /\ KeyOf(d, s) = KeyOf(c, s)
  BY <1>3
<1>5. c.key \in Nat /\ r.block \in Nat /\ r.len \in Nat /\ s.block \in Nat /\ s.len \in Nat
  BY <1>1, <1>4, ChunkFacts
<1>6. (x - c.key) \div LEAF \in Span(r.block, r.len)
  BY <1>5, BlockOf DEF KeyOf
<1>7. (x - c.key) \div LEAF \in Span(s.block, s.len)
  BY <1>5, <1>4, BlockOf DEF KeyOf
<1> QED BY <1>3, <1>4, <1>6, <1>7, <1>1 DEF ChunkInv

\* The memory of a region lies in its run.
LEMMA InRun ==
  ASSUME NEW reg \in RegSizes, NEW k \in Nat, NEW i \in Indices(reg)
  PROVE  /\ k + i * reg \in Nat /\ reg \in Nat \ {0} /\ i \in Nat
         /\ k + i * reg \in Span(k + i * reg, reg)
         /\ Span(k + i * reg, reg) \subseteq Span(k, RunLen(reg) * LEAF)
<1>1. /\ reg \in Nat \ {0} /\ RunLen(reg) \in Nat /\ ElemsOf(reg) \in Nat
      /\ ElemsOf(reg) * reg <= RunLen(reg) * LEAF
  BY RegFacts
<1> DEFINE E == ElemsOf(reg)
           L == RunLen(reg) * LEAF
<1>2. E \in Nat /\ L \in Nat /\ E * reg <= L
  BY <1>1, BlockFacts
<1>3. i \in Nat /\ i < E
  BY <1>2 DEF Indices
<1> HIDE DEF E, L
<1>4. i * reg \in Nat /\ (i + 1) * reg <= E * reg /\ (i + 1) * reg = i * reg + reg
  BY <1>1, <1>2, <1>3
<1>5. E * reg \in Nat
  BY <1>1, <1>2
<1> DEFINE o == i * reg
<1>6. o \in Nat /\ o + reg <= L
  BY <1>4, <1>5, <1>2, <1>1
<1> HIDE DEF o
<1>7. k + o \in Nat /\ k + o \in Span(k + o, reg) /\ Span(k + o, reg) \subseteq Span(k, L)
  BY <1>6, <1>1, <1>2 DEF Span
<1> QED BY <1>7, <1>1, <1>3 DEF o, L

\* A region lies inside its run, and so in the mapped part of a chunk.
LEMMA RegionAt ==
  ASSUME NEW C, NEW R, NEW H, NEW M, SInv(C, R, H, M),
         NEW k \in DOMAIN R, NEW i \in Indices(R[k].reg)
  PROVE  \E c \in C : \E r \in c.live :
           /\ k = KeyOf(c, r) /\ R[k].reg = r.reg
           /\ Span(k + i * R[k].reg, R[k].reg) \subseteq Span(KeyOf(c, r), r.len * LEAF)
           /\ Span(k + i * R[k].reg, R[k].reg) \subseteq StillMapped(c)
<1>1. PICK c \in C : \E r \in c.live : k = KeyOf(c, r)
  BY DEF SInv, RunsInv
<1>2. PICK r \in c.live : k = KeyOf(c, r)
  BY <1>1
<1>3. R[k].reg = r.reg
  BY <1>2 DEF SInv, RunsInv
<1>4. c \in ChunkRecs /\ ChunkInv(c) /\ R[k].reg \in RegSizes /\ k \in Nat
  BY SParts
<1>5. r.len = RunLen(r.reg)
  BY <1>4, ChunkFacts
<1>6. Span(k + i * R[k].reg, R[k].reg) \subseteq Span(k, RunLen(R[k].reg) * LEAF)
  BY <1>4, InRun
<1>7. Span(KeyOf(c, r), r.len * LEAF) \subseteq StillMapped(c)
  BY <1>4, RunMapped
<1>8. RunLen(R[k].reg) * LEAF = r.len * LEAF
  BY <1>3, <1>5
<1>9. Span(k + i * R[k].reg, R[k].reg) \subseteq Span(KeyOf(c, r), r.len * LEAF)
  BY <1>6, <1>8, <1>2
<1> QED BY <1>2, <1>3, <1>7, <1>9

\* Two regions of one run.
LEMMA SameRun ==
  ASSUME NEW k \in Nat, NEW reg \in Nat \ {0}, NEW i \in Nat, NEW l \in Nat,
         NEW x \in Span(k + i * reg, reg), x \in Span(k + l * reg, reg)
  PROVE  i = l
<1> DEFINE a == i * reg
           b == l * reg
<1>1. a \in Nat /\ b \in Nat
  OBVIOUS
<1>2. i < l => (i + 1) * reg <= l * reg
  OBVIOUS
<1>3. l < i => (l + 1) * reg <= i * reg
  OBVIOUS
<1>4. (i + 1) * reg = a + reg /\ (l + 1) * reg = b + reg
  OBVIOUS
<1>5. (i < l => a + reg <= b) /\ (l < i => b + reg <= a)
  BY <1>2, <1>3, <1>4
<1>6. x \in Span(k + a, reg) /\ x \in Span(k + b, reg)
  OBVIOUS
<1> HIDE DEF a, b
<1>7. x \in Int /\ x >= k + a /\ x < k + a + reg /\ x >= k + b /\ x < k + b + reg
  BY <1>1, <1>6 DEF Span
<1> QED BY <1>1, <1>5, <1>7

\* No address lies in two regions of runs, nor in a region and a huge mapping.
LEMMA RegionsApart ==
  ASSUME NEW C, NEW R, NEW H, NEW M, SInv(C, R, H, M),
         NEW k \in DOMAIN R, NEW i \in Indices(R[k].reg),
         NEW x \in Span(k + i * R[k].reg, R[k].reg)
  PROVE  /\ \A j \in DOMAIN R : \A l \in Indices(R[j].reg) :
              x \in Span(j + l * R[j].reg, R[j].reg) => k = j /\ i = l
         /\ \A h \in H : x \notin Mem(h)
         /\ x \in M
<1>1. PICK c \in C : \E r \in c.live :
           /\ k = KeyOf(c, r) /\ R[k].reg = r.reg
           /\ Span(k + i * R[k].reg, R[k].reg) \subseteq Span(KeyOf(c, r), r.len * LEAF)
           /\ Span(k + i * R[k].reg, R[k].reg) \subseteq StillMapped(c)
  BY RegionAt
<1>2. PICK r \in c.live :
           /\ k = KeyOf(c, r) /\ R[k].reg = r.reg
           /\ Span(k + i * R[k].reg, R[k].reg) \subseteq Span(KeyOf(c, r), r.len * LEAF)
           /\ Span(k + i * R[k].reg, R[k].reg) \subseteq StillMapped(c)
  BY <1>1
<1>3. x \in StillMapped(c) /\ x \in Span(KeyOf(c, r), r.len * LEAF)
  BY <1>2
<1>4. ASSUME NEW j \in DOMAIN R, NEW l \in Indices(R[j].reg),
             x \in Span(j + l * R[j].reg, R[j].reg)
      PROVE  k = j /\ i = l
  <2>1. PICK d \in C : \E s \in d.live :
           /\ j = KeyOf(d, s) /\ R[j].reg = s.reg
           /\ Span(j + l * R[j].reg, R[j].reg) \subseteq Span(KeyOf(d, s), s.len * LEAF)
           /\ Span(j + l * R[j].reg, R[j].reg) \subseteq StillMapped(d)
    BY RegionAt
  <2>2. PICK s \in d.live :
           /\ j = KeyOf(d, s) /\ R[j].reg = s.reg
           /\ Span(j + l * R[j].reg, R[j].reg) \subseteq Span(KeyOf(d, s), s.len * LEAF)
    BY <2>1
  <2>3. x \in Span(KeyOf(d, s), s.len * LEAF)
    BY <2>2, <1>4
  <2>4. c = d /\ r = s
    BY <2>3, <1>3, RunUnique
  <2>5. k = j
    BY <2>4, <2>2, <1>2
  <2>6. R[k].reg \in RegSizes /\ k \in Nat
    BY SParts
  <2>7. i \in Nat /\ l \in Nat /\ R[k].reg \in Nat \ {0}
    BY <2>6, <2>5, InRun
  <2>8. x \in Span(k + l * R[k].reg, R[k].reg)
    BY <2>5, <1>4
  <2>9. i = l
    BY <2>6, <2>7, <2>8, SameRun
  <2> QED BY <2>5, <2>9
<1>5. (\A h \in H : x \notin Mem(h)) /\ x \in M
  BY <1>3 DEF SInv, MapInv
<1> QED BY <1>4, <1>5

\* The memory in use, without the bound on addresses and sizes in its definition.
LEMMA RegionsAre ==
  ASSUME NEW C, NEW R, NEW H, NEW M, SInv(C, R, H, M), NEW g
  PROVE  g \in Regions(R, H) <=> InUse(R, g) \/ \E h \in H : g = <<h.key, h.len>>
<1>1. ASSUME InUse(R, g) PROVE g \in Nat \X Nat
  <2>1. PICK k \in DOMAIN R : \E i \in R[k].given \ R[k].freed : g = <<k + i * R[k].reg, R[k].reg>>
    BY <1>1 DEF InUse
  <2>2. PICK i \in R[k].given \ R[k].freed : g = <<k + i * R[k].reg, R[k].reg>>
    BY <2>1
  <2>3. R[k].reg \in RegSizes /\ k \in Nat /\ MetaInv(R[k])
    BY SParts
  <2>4. i \in Indices(R[k].reg)
    BY <2>3 DEF MetaInv
  <2>5. k + i * R[k].reg \in Nat /\ R[k].reg \in Nat
    BY <2>3, <2>4, InRun
  <2> QED BY <2>2, <2>5
<1>2. ASSUME NEW h \in H PROVE <<h.key, h.len>> \in Nat \X Nat
  BY SParts
<1> QED BY <1>1, <1>2 DEF Regions

\* The memory in use: no address belongs to two regions.
LEMMA RegionsDisjoint ==
  ASSUME NEW C, NEW R, NEW H, NEW M, SInv(C, R, H, M),
         NEW g \in Regions(R, H)
  PROVE  /\ g[1] \in Nat \ {0} /\ g[1] \in M /\ g[2] \in Nat \ {0} /\ g[1] \in Span(g[1], g[2])
         /\ Span(g[1], g[2]) \subseteq M
         /\ \A f \in Regions(R, H) : f # g => Span(f[1], f[2]) \cap Span(g[1], g[2]) = {}
<1> DEFINE Of(f, k, i) == f = <<k + i * R[k].reg, R[k].reg>>
           Use(f, k, i) == k \in DOMAIN R /\ i \in Indices(R[k].reg) /\ Of(f, k, i)
<1>1. ASSUME NEW f \in Regions(R, H)
      PROVE  (\E k, i : Use(f, k, i)) \/ \E h \in H : f = <<h.key, h.len>>
  <2>1. CASE InUse(R, f)
    <3>1. PICK k \in DOMAIN R : \E i \in R[k].given \ R[k].freed : Of(f, k, i)
      BY <2>1 DEF InUse
    <3>2. PICK i \in R[k].given \ R[k].freed : Of(f, k, i)
      BY <3>1
    <3>3. i \in Indices(R[k].reg)
      BY SParts DEF MetaInv
    <3> QED BY <3>2, <3>3
  <2> QED BY <2>1, RegionsAre
<1>2. ASSUME NEW f, NEW k, NEW i, Use(f, k, i)
      PROVE  /\ f[1] \in Nat \ {0} /\ f[2] \in Nat \ {0} /\ f[1] \in Span(f[1], f[2])
             /\ Span(f[1], f[2]) = Span(k + i * R[k].reg, R[k].reg)
  <2>1. R[k].reg \in RegSizes /\ k \in Nat
    BY <1>2, SParts
  <2>2. f[1] = k + i * R[k].reg /\ f[2] = R[k].reg
    BY <1>2
  <2>3. k + i * R[k].reg \in Nat /\ R[k].reg \in Nat \ {0} /\ i \in Nat
    BY <2>1, <1>2, InRun
  <2>4. f[1] \in Span(f[1], f[2])
    BY <2>1, <1>2, <2>2, InRun
  <2>5. k # 0
    <3>1. PICK c \in C : \E r \in c.live : k = KeyOf(c, r)
      BY <1>2 DEF SInv, RunsInv
    <3>2. PICK r \in c.live : k = KeyOf(c, r)
      BY <3>1
    <3>3. c \in ChunkRecs /\ ChunkInv(c)
      BY SParts
    <3>4. c.key \in Nat \ {0} /\ KeyOf(c, r) >= c.key
      BY <3>3, RunMapped, ChunkFacts
    <3> QED BY <3>2, <3>4
  <2>6. i * R[k].reg \in Nat
    <3>1. ASSUME NEW u \in Nat, NEW v \in Nat PROVE u * v \in Nat
      OBVIOUS
    <3> QED BY <3>1, <2>3
  <2>7. k + i * R[k].reg # 0
    BY <2>5, <2>6, <2>1
  <2> QED BY <2>2, <2>3, <2>4, <2>7
<1>3. ASSUME NEW f, NEW h \in H, f = <<h.key, h.len>>
      PROVE  /\ f[1] \in Nat \ {0} /\ f[2] \in Nat \ {0} /\ f[1] \in Span(f[1], f[2])
             /\ Span(f[1], f[2]) = Mem(h) /\ Mem(h) \subseteq M
  <2>1. f[1] = h.key /\ f[2] = h.len
    BY <1>3
  <2>2. h.key \in Nat \ {0} /\ h.len \in Nat \ {0} /\ h.key \in Mem(h)
    BY SParts
  <2>3. Mem(h) \subseteq M
    BY DEF SInv, MapInv
  <2> QED BY <2>1, <2>2, <2>3 DEF Mem
<1>4. ASSUME NEW f, NEW k, NEW i, Use(f, k, i), NEW e, NEW j, NEW l, Use(e, j, l), e # f
      PROVE  Span(f[1], f[2]) \cap Span(e[1], e[2]) = {}
  <2>1. SUFFICES ASSUME NEW x \in Span(f[1], f[2]), x \in Span(e[1], e[2]) PROVE FALSE
    OBVIOUS
  <2>2. x \in Span(k + i * R[k].reg, R[k].reg) /\ x \in Span(j + l * R[j].reg, R[j].reg)
    BY <2>1, <1>2, <1>4
  <2>3. k = j /\ i = l
    BY <2>2, <1>4, RegionsApart
  <2> QED BY <2>3, <1>4
<1>5. ASSUME NEW f, NEW k, NEW i, Use(f, k, i), NEW h \in H
      PROVE  Span(f[1], f[2]) \cap Mem(h) = {} /\ Span(f[1], f[2]) \subseteq M
  BY <1>2, <1>5, RegionsApart
<1>6. ASSUME NEW f, NEW k, NEW i, Use(f, k, i)
      PROVE  Span(f[1], f[2]) \subseteq M
  BY <1>2, <1>6, RegionsApart
<1>7. ASSUME NEW f, NEW h \in H, NEW e, NEW j \in H, f # e,
             f = <<h.key, h.len>>, e = <<j.key, j.len>>
      PROVE  Span(f[1], f[2]) \cap Span(e[1], e[2]) = {}
  <2>1. h # j BY <1>7
  <2>2. Mem(h) \cap Mem(j) = {} BY <2>1 DEF SInv, MapInv
  <2> QED BY <2>2, <1>3, <1>7
<1> HIDE DEF Use
<1>8. g[1] \in Nat \ {0} /\ g[2] \in Nat \ {0} /\ g[1] \in Span(g[1], g[2]) /\ Span(g[1], g[2]) \subseteq M
  BY <1>1, <1>2, <1>3, <1>6
<1>9. ASSUME NEW f \in Regions(R, H), f # g PROVE Span(f[1], f[2]) \cap Span(g[1], g[2]) = {}
  <2>1. CASE (\E k, i : Use(f, k, i)) /\ (\E j, l : Use(g, j, l))
    BY <2>1, <1>4, <1>9
  <2>2. CASE (\E k, i : Use(f, k, i)) /\ \E h \in H : g = <<h.key, h.len>>
    BY <2>2, <1>5, <1>3
  <2>3. CASE (\E h \in H : f = <<h.key, h.len>>) /\ \E j, l : Use(g, j, l)
    BY <2>3, <1>5, <1>3
  <2>4. CASE (\E h \in H : f = <<h.key, h.len>>) /\ \E h \in H : g = <<h.key, h.len>>
    BY <2>4, <1>7, <1>9
  <2> QED BY <1>1, <2>1, <2>2, <2>3, <2>4
<1> QED BY <1>8, <1>9

-----------------------------------------------------------------------------
(***************************************************************************)
(* What the operations do to the chunks, runs, huge mappings and addresses *)
(***************************************************************************)

\* arena_allocate_chunk
NewChunk(p) == [key |-> p, live |-> {}, taken |-> {}]

\* arena_allocate_chunk, wherever nothing is mapped: a new chunk may lie in the range
\* of another one.
LEMMA NewChunkInv ==
  ASSUME NEW C, NEW R, NEW H, NEW M, SInv(C, R, H, M),
         NEW p \in Places, Span(p, CHUNK_SIZE_BYTES) \cap M = {}
  PROVE  /\ SInv(C \cup {NewChunk(p)}, R, H, M \cup Span(p, CHUNK_SIZE_BYTES))
         /\ NewChunk(p) \notin C
<1> DEFINE c == NewChunk(p)
           S == Span(p, CHUNK_SIZE_BYTES)
<1>1. c \in ChunkRecs /\ c.key = p /\ c.live = {} /\ c.taken = {}
  BY DEF NewChunk, ChunkRecs
<1>2. p \in Nat /\ LEAF \in Nat \ {0} /\ NoBlocks \in Nat \ {0}
  BY ConstantFacts, BlockFacts
<1>3. ChunkInv(c) /\ Kept(c) = Blocks
  <2>1. Blocks # {} BY BlockFacts
  <2> QED BY <2>1, <1>1 DEF ChunkInv, Kept
<1>4. StillMapped(c) = S
  <2>1. Blocks = Span(0, NoBlocks) /\ Blocks \subseteq Nat
    BY <1>2 DEF Blocks, Span
  <2>2. c.key + 0 * LEAF = p /\ c.key \in Nat
    BY <1>1, <1>2
  <2>3. ASSUME NEW x PROVE x \in StillMapped(c) <=> x \in S
    <3>1. x \in StillMapped(c) <=> x \in Nat /\ x >= c.key /\ (x - c.key) \div LEAF \in Blocks
      BY <1>3, <2>1, <2>2, StillMappedIs
    <3>2. x \in Span(c.key + 0 * LEAF, NoBlocks * LEAF) <=>
            x \in Nat /\ x >= c.key /\ (x - c.key) \div LEAF \in Span(0, NoBlocks)
      BY <2>2, <1>2, BlockOf
    <3> QED BY <3>1, <3>2, <2>1, <2>2 DEF CHUNK_SIZE_BYTES
  <2> QED BY <2>3
<1>5. S \subseteq Nat
  BY <1>2 DEF Span
<1> HIDE DEF c, S
<1>6. ASSUME NEW d \in C PROVE d.key # c.key /\ d # c
  <2>1. d \in ChunkRecs /\ ChunkInv(d)
    BY SParts
  <2>2. StillMapped(d) # {} /\ StillMapped(d) \subseteq Span(d.key, CHUNK_SIZE_BYTES)
    BY <2>1, SomeMapped
  <2>3. StillMapped(d) \subseteq M
    BY DEF SInv, MapInv
  <2>4. d.key # c.key
    BY <2>2, <2>3, <1>1
  <2> QED BY <2>4
<1>7. c.live = {}
  BY <1>1
<1>8. MapInv(C \cup {c}, H, M \cup S)
  <2>1. \A x : x \in M => x \notin S
    BY DEF S
  <2>2. (\A d \in C : StillMapped(d) \subseteq M) /\ \A h \in H : Mem(h) \subseteq M
    BY DEF SInv, MapInv
  <2> QED BY <2>1, <2>2, <1>4 DEF SInv, MapInv
<1>9. RunsInv(C \cup {c}, R)
  BY <1>7 DEF SInv, RunsInv
<1>10. SInv(C \cup {c}, R, H, M \cup S)
  <2>1. (\A d \in C \cup {c} : ChunkInv(d)) /\ C \cup {c} \subseteq ChunkRecs
    BY <1>1, <1>3 DEF SInv
  <2>2. \A d, e \in C \cup {c} : d.key = e.key => d = e
    BY <1>6 DEF SInv
  <2> QED BY <2>1, <2>2, <1>5, <1>8, <1>9 DEF SInv
<1> QED BY <1>6, <1>10 DEF c, S

\* chunk_allocate_run and run_init
NewRun(b, reg) == [block |-> b, len |-> RunLen(reg), reg |-> reg]
WithRun(c, b, reg) ==
  [key |-> c.key, live |-> c.live \cup {NewRun(b, reg)}, taken |-> c.taken \cup Span(b, RunLen(reg))]
WithMeta(R, k, reg) ==
  [j \in DOMAIN R \cup {k} |-> IF j = k THEN [reg |-> reg, given |-> {}, freed |-> {}] ELSE R[j]]

\* chunk_allocate_run and run_init: the new run shares no block with the others, and
\* its metadata is new.
LEMMA NewRunInv ==
  ASSUME NEW C, NEW R, NEW H, NEW M, SInv(C, R, H, M),
         NEW c \in C, NEW reg \in RegSizes, NEW b \in Fitting(c, RunLen(reg))
  PROVE  LET d == WithRun(c, b, reg)
             k == c.key + b * LEAF
         IN /\ SInv((C \ {c}) \cup {d}, WithMeta(R, k, reg), H, M)
            /\ k \notin DOMAIN R /\ d \notin C /\ d \in ChunkRecs
<1> DEFINE d == WithRun(c, b, reg)
           k == c.key + b * LEAF
           r == NewRun(b, reg)
           T == WithMeta(R, k, reg)
           D == (C \ {c}) \cup {d}
           S == Span(b, RunLen(reg))
<1>1. /\ RunLen(reg) \in Nat \ {0} /\ ElemsOf(reg) \in Nat \ {0}
      /\ b \in Nat /\ b \in Blocks /\ S \subseteq Blocks \ c.taken
  BY RegFacts, BlockFacts DEF Fitting
<1>2. c \in ChunkRecs /\ ChunkInv(c)
  BY SParts
<1>3. /\ c.key \in Nat /\ c.key \in Places /\ c.taken \subseteq Blocks /\ c.live \subseteq RunRecs
      /\ Kept(c) \subseteq Nat
  BY <1>2, ChunkFacts, BlockFacts
<1>4. r \in RunRecs /\ r.block = b /\ r.len = RunLen(reg) /\ r.reg = reg
  BY <1>1 DEF NewRun, RunRecs
<1>5. d.key = c.key /\ d.live = c.live \cup {r} /\ d.taken = c.taken \cup S
  BY DEF WithRun
<1>6. d \in ChunkRecs
  BY <1>1, <1>3, <1>4 DEF WithRun, ChunkRecs
<1>7. b \in S
  BY <1>1 DEF Span
<1>8. Span(r.block, r.len) = S
  BY <1>4
<1> HIDE DEF d, r, S, T
<1>9. ChunkInv(d)
  <2>1. \A s \in c.live : Span(s.block, s.len) \subseteq c.taken
    BY <1>2 DEF ChunkInv
  <2>2. \A s \in d.live : Span(s.block, s.len) \subseteq d.taken
    BY <2>1, <1>5, <1>8
  <2>3. \A s \in c.live : Span(s.block, s.len) \cap S = {}
    BY <2>1, <1>1
  <2>4. \A s, t \in d.live : s # t => Span(s.block, s.len) \cap Span(t.block, t.len) = {}
    BY <2>3, <1>5, <1>8, <1>2 DEF ChunkInv
  <2>5. d.live # {}
    BY <1>5
  <2> QED BY <2>2, <2>4, <2>5 DEF ChunkInv
<1>10. Kept(d) = Kept(c)
  <2> DEFINE U(e) == UNION {Span(s.block, s.len) : s \in e.live}
  <2>1. U(d) = U(c) \cup S
    BY <1>5, <1>8
  <2>2. Kept(d) = (Blocks \ d.taken) \cup U(d) /\ Kept(c) = (Blocks \ c.taken) \cup U(c)
    BY DEF Kept
  <2> HIDE DEF U
  <2> QED BY <2>1, <2>2, <1>5, <1>1
<1>11. StillMapped(d) = StillMapped(c)
  <2>1. \A x : x \in StillMapped(d) <=> x \in StillMapped(c)
    BY <1>10, <1>5, <1>3, StillMappedIs
  <2> QED BY <2>1
<1>12. \A e \in C : e # c => e.key # d.key
  BY <1>5 DEF SInv
<1>13. r \notin c.live
  <2>1. \A s \in c.live : Span(s.block, s.len) \subseteq c.taken
    BY <1>2 DEF ChunkInv
  <2> QED BY <2>1, <1>1, <1>7, <1>8
<1>14. d \notin C
  BY <1>12, <1>13, <1>5
<1>15. k = KeyOf(d, r) /\ \A s \in c.live : KeyOf(d, s) = KeyOf(c, s)
  BY <1>4, <1>5 DEF KeyOf
<1>16. MapInv(D, H, M)
  <2>1. \A e \in C : StillMapped(e) \cap StillMapped(d) = {} \/ e = c
    BY <1>11 DEF SInv, MapInv
  <2> QED BY <2>1, <1>11 DEF SInv, MapInv
<1>17. k \in Nat /\ k \in StillMapped(c) /\ k \in Span(KeyOf(d, r), r.len * LEAF)
  <2>1. k \in Span(KeyOf(d, r), r.len * LEAF) /\ KeyOf(d, r) \in Nat
    BY <1>6, <1>9, <1>5, <1>15, RunMapped
  <2>2. Span(KeyOf(d, r), r.len * LEAF) \subseteq StillMapped(d)
    BY <1>6, <1>9, <1>5, RunMapped
  <2> QED BY <2>1, <2>2, <1>11, <1>15
<1>18. ASSUME k \in DOMAIN R PROVE FALSE
  <2>1. PICK e \in C : \E s \in e.live : k = KeyOf(e, s)
    BY <1>18 DEF SInv, RunsInv
  <2>2. PICK s \in e.live : k = KeyOf(e, s)
    BY <2>1
  <2>3. e \in ChunkRecs /\ ChunkInv(e)
    BY SParts
  <2>4. k \in StillMapped(e)
    BY <2>2, <2>3, RunMapped
  <2>5. e = c
    BY <2>4, <1>17 DEF SInv, MapInv
  <2>6. (k - c.key) \div LEAF = s.block
    BY <2>2, <2>3, <2>5, RunMapped
  <2>7. (k - c.key) \div LEAF = b
    BY <1>15, <1>6, <1>9, <1>5, <1>4, RunMapped
  <2>8. s.block \in Span(s.block, s.len) /\ Span(s.block, s.len) \subseteq c.taken
    BY <2>3, <2>5, ChunkFacts DEF ChunkInv
  <2> QED BY <2>6, <2>7, <2>8, <1>7, <1>1
<1>19. /\ DOMAIN T = DOMAIN R \cup {k} /\ T[k] = [reg |-> reg, given |-> {}, freed |-> {}]
       /\ \A j \in DOMAIN R : T[j] = R[j]
  BY <1>18 DEF T, WithMeta
<1>20. T[k] \in RunMeta /\ MetaInv(T[k]) /\ T[k].reg = reg
  <2>0. ASSUME NEW e \in Nat \ {0} PROVE 0 \in 0 .. e - 1
    OBVIOUS
  <2>1. Indices(reg) # {}
    BY <2>0, <1>1 DEF Indices
  <2> QED BY <2>1, <1>19 DEF RunMeta, MetaInv
<1>21. T \in RunTables
  <2>1. DOMAIN R \subseteq Nat /\ \A j \in DOMAIN R : R[j] \in RunMeta
    BY SParts
  <2>2. T \in [DOMAIN T -> RunMeta]
    <3>1. \A j \in DOMAIN T : T[j] \in RunMeta
      BY <2>1, <1>19, <1>20
    <3>2. T = [j \in DOMAIN T |-> T[j]]
      BY DEF T, WithMeta
    <3> QED BY <3>1, <3>2
  <2>3. DOMAIN T \subseteq Nat
    BY <2>1, <1>17, <1>19
  <2> QED BY <2>2, <2>3, Tables
<1>22. RunsInv(D, T)
  <2>1. ASSUME NEW j \in DOMAIN T PROVE (\E e \in D : \E s \in e.live : j = KeyOf(e, s)) /\ MetaInv(T[j])
    <3>1. CASE j = k
      <4>1. d \in D /\ r \in d.live BY <1>5
      <4> QED BY <4>1, <3>1, <1>15, <1>20
    <3>2. CASE j \in DOMAIN R
      <4>1. PICK e \in C : \E s \in e.live : j = KeyOf(e, s)
        BY <3>2 DEF SInv, RunsInv
      <4>2. PICK s \in e.live : j = KeyOf(e, s)
        BY <4>1
      <4>3. CASE e = c
        <5>1. s \in d.live /\ j = KeyOf(d, s) BY <4>2, <4>3, <1>5, <1>15
        <5>2. d \in D OBVIOUS
        <5>3. MetaInv(T[j]) BY <3>2, <1>19, SParts
        <5> QED BY <5>1, <5>2, <5>3
      <4>4. CASE e # c
        <5>1. e \in D BY <4>4
        <5>2. MetaInv(T[j]) BY <3>2, <1>19, SParts
        <5> QED BY <5>1, <5>2, <4>2
      <4> QED BY <4>3, <4>4
    <3> QED BY <3>1, <3>2, <1>19
  <2>2. ASSUME NEW e \in D, NEW s \in e.live PROVE KeyOf(e, s) \in DOMAIN T /\ T[KeyOf(e, s)].reg = s.reg
    <3>1. CASE e = d /\ s = r
      BY <3>1, <1>15, <1>19, <1>20, <1>4
    <3>2. CASE e = d /\ s \in c.live
      <4>1. KeyOf(c, s) \in DOMAIN R /\ R[KeyOf(c, s)].reg = s.reg BY <3>2 DEF SInv, RunsInv
      <4> QED BY <4>1, <3>2, <1>15, <1>19
    <3>3. CASE e \in C
      <4>1. KeyOf(e, s) \in DOMAIN R /\ R[KeyOf(e, s)].reg = s.reg BY <3>3 DEF SInv, RunsInv
      <4> QED BY <4>1, <1>19
    <3> QED BY <3>1, <3>2, <3>3, <1>5
  <2> QED BY <2>1, <2>2 DEF RunsInv
<1>23. SInv(D, T, H, M)
  <2>1. (\A e \in D : ChunkInv(e)) /\ D \subseteq ChunkRecs
    BY <1>6, <1>9 DEF SInv
  <2>2. \A e, f \in D : e.key = f.key => e = f
    BY <1>12 DEF SInv
  <2> QED BY <2>1, <2>2, <1>16, <1>21, <1>22 DEF SInv
<1> QED BY <1>6, <1>14, <1>18, <1>23 DEF d, T

\* A new run has no region in use.
LEMMA NewRunRegions ==
  ASSUME NEW C, NEW R, NEW H, NEW M, SInv(C, R, H, M), NEW k, k \notin DOMAIN R,
         NEW reg
  PROVE  Regions(WithMeta(R, k, reg), H) = Regions(R, H)
<1> DEFINE T == WithMeta(R, k, reg)
<1>1. /\ DOMAIN T = DOMAIN R \cup {k} /\ T[k] = [reg |-> reg, given |-> {}, freed |-> {}]
      /\ \A j \in DOMAIN R : T[j] = R[j]
  BY DEF WithMeta
<1> HIDE DEF T
<1>2. T[k].given = {}
  BY <1>1
<1>3. ASSUME NEW g PROVE InUse(T, g) <=> InUse(R, g)
  BY <1>1, <1>2 DEF InUse
<1>4. Regions(T, H) = Regions(R, H)
  BY <1>3 DEF Regions
<1> QED BY <1>4 DEF T

\* The metadata of run k changes, but not its region size.
LEMMA SetMetaInv ==
  ASSUME NEW C, NEW R, NEW H, NEW M, SInv(C, R, H, M),
         NEW k \in DOMAIN R, NEW m \in RunMeta, m.reg = R[k].reg, MetaInv(m)
  PROVE  /\ SInv(C, [R EXCEPT ![k] = m], H, M)
         /\ DOMAIN [R EXCEPT ![k] = m] = DOMAIN R /\ [R EXCEPT ![k] = m][k] = m
         /\ \A j \in DOMAIN R : j # k => [R EXCEPT ![k] = m][j] = R[j]
<1> DEFINE T == [R EXCEPT ![k] = m]
<1>1. R \in [DOMAIN R -> RunMeta] /\ DOMAIN R \subseteq Nat
  BY SParts
<1>2. /\ T \in [DOMAIN R -> RunMeta] /\ DOMAIN T = DOMAIN R /\ T[k] = m
      /\ \A j \in DOMAIN R : j # k => T[j] = R[j]
  BY <1>1
<1> HIDE DEF T
<1>3. T \in RunTables
  BY <1>1, <1>2, Tables
<1>4. \A j \in DOMAIN R : T[j].reg = R[j].reg /\ MetaInv(T[j])
  BY <1>2, SParts
<1>5. RunsInv(C, T)
  BY <1>2, <1>4 DEF SInv, RunsInv
<1>6. SInv(C, T, H, M)
  BY <1>3, <1>5 DEF SInv
<1> QED BY <1>2, <1>6 DEF T

\* The region i of run k is handed out, or given back.
Gives(R, k, i) ==
  [R EXCEPT ![k] = [reg |-> R[k].reg, given |-> R[k].given \cup {i}, freed |-> R[k].freed]]
Marks(R, k, i) ==
  [R EXCEPT ![k] = [reg |-> R[k].reg, given |-> R[k].given, freed |-> R[k].freed \cup {i}]]
Region(R, k, i) == <<k + i * R[k].reg, R[k].reg>>

\* A region that is not in use is not among the regions.
LEMMA RegionOf ==
  ASSUME NEW C, NEW R, NEW H, NEW M, SInv(C, R, H, M),
         NEW k \in DOMAIN R, NEW i \in Indices(R[k].reg)
  PROVE  /\ Region(R, k, i) \in Regions(R, H) <=> i \in R[k].given \ R[k].freed
         /\ Region(R, k, i) \in Nat \X Nat
         /\ \A h \in H : Region(R, k, i) # <<h.key, h.len>>
         /\ \A j \in DOMAIN R : \A l \in Indices(R[j].reg) :
              j + l * R[j].reg = k + i * R[k].reg => j = k /\ l = i
<1>1. R[k].reg \in RegSizes /\ k \in Nat
  BY SParts
<1> DEFINE x == k + i * R[k].reg
<1>2. x \in Span(x, R[k].reg) /\ x \in Nat /\ R[k].reg \in Nat
  BY <1>1, InRun
<1>3. /\ \A j \in DOMAIN R : \A l \in Indices(R[j].reg) :
           x \in Span(j + l * R[j].reg, R[j].reg) => k = j /\ i = l
      /\ \A h \in H : x \notin Mem(h)
  <2>1. ASSUME NEW y \in Span(k + i * R[k].reg, R[k].reg)
        PROVE  /\ \A j \in DOMAIN R : \A l \in Indices(R[j].reg) :
                    y \in Span(j + l * R[j].reg, R[j].reg) => k = j /\ i = l
               /\ \A h \in H : y \notin Mem(h)
    BY RegionsApart
  <2> QED BY <2>1, <1>2
<1>4. Region(R, k, i) = <<x, R[k].reg>>
  BY DEF Region
<1> HIDE DEF x
<1>5. \A h \in H : Region(R, k, i) # <<h.key, h.len>>
  <2>1. ASSUME NEW h \in H PROVE x # h.key
    BY <1>3, SParts
  <2> QED BY <2>1, <1>4
<1>6. ASSUME NEW j \in DOMAIN R, NEW l \in Indices(R[j].reg), j + l * R[j].reg = x
      PROVE  j = k /\ l = i
  <2>1. R[j].reg \in RegSizes /\ j \in Nat
    BY SParts
  <2>2. j + l * R[j].reg \in Span(j + l * R[j].reg, R[j].reg)
    BY <2>1, InRun
  <2> QED BY <2>2, <1>3, <1>6
<1>7. ASSUME InUse(R, Region(R, k, i)) PROVE i \in R[k].given \ R[k].freed
  <2>1. PICK j \in DOMAIN R : \E l \in R[j].given \ R[j].freed :
                 Region(R, k, i) = <<j + l * R[j].reg, R[j].reg>>
    BY <1>7 DEF InUse
  <2>2. PICK l \in R[j].given \ R[j].freed : Region(R, k, i) = <<j + l * R[j].reg, R[j].reg>>
    BY <2>1
  <2>3. l \in Indices(R[j].reg)
    BY SParts DEF MetaInv
  <2>4. j + l * R[j].reg = x
    BY <2>2, <1>4
  <2>5. j = k /\ l = i
    BY <2>3, <2>4, <1>6
  <2> QED BY <2>5
<1>8. ASSUME i \in R[k].given \ R[k].freed PROVE InUse(R, Region(R, k, i))
  BY <1>8 DEF InUse, Region
<1>9. Region(R, k, i) \in Regions(R, H) <=> InUse(R, Region(R, k, i))
  BY <1>5, RegionsAre
<1> QED BY <1>2, <1>4, <1>5, <1>6, <1>7, <1>8, <1>9 DEF x

\* How the regions change with what is in use of run k.
LEMMA InUseChange ==
  ASSUME NEW C, NEW R, NEW H, NEW M, SInv(C, R, H, M),
         NEW T, SInv(C, T, H, M), NEW k \in DOMAIN R, DOMAIN T = DOMAIN R,
         \A j \in DOMAIN R : j # k => T[j] = R[j], T[k].reg = R[k].reg
  PROVE  \A g : \/ g \in Regions(T, H) <=> g \in Regions(R, H)
                \/ \E i \in Indices(R[k].reg) :
                     /\ g = Region(R, k, i) /\ g = Region(T, k, i)
                     /\ (i \in R[k].given \ R[k].freed) # (i \in T[k].given \ T[k].freed)
<1> SUFFICES ASSUME NEW g, ~(g \in Regions(T, H) <=> g \in Regions(R, H))
             PROVE  \E i \in Indices(R[k].reg) :
                      /\ g = Region(R, k, i) /\ g = Region(T, k, i)
                      /\ (i \in R[k].given \ R[k].freed) # (i \in T[k].given \ T[k].freed)
  OBVIOUS
<1>1. ~(InUse(T, g) <=> InUse(R, g))
  BY RegionsAre
<1> DEFINE U(S) == \E i \in S[k].given \ S[k].freed : g = Region(S, k, i)
<1>2. ~(U(T) <=> U(R))
  BY <1>1 DEF InUse, Region
<1>3. \A i : Region(T, k, i) = Region(R, k, i)
  BY DEF Region
<1>4. PICK i : g = Region(R, k, i) /\ (i \in R[k].given \ R[k].freed) # (i \in T[k].given \ T[k].freed)
  BY <1>2, <1>3
<1>5. i \in Indices(R[k].reg)
  BY <1>4, SParts DEF MetaInv
<1> QED BY <1>3, <1>4, <1>5

\* run_allocate: one region more is in use.
LEMMA GiveInv ==
  ASSUME NEW C, NEW R, NEW H, NEW M, SInv(C, R, H, M),
         NEW k \in DOMAIN R, NEW i \in Indices(R[k].reg) \ R[k].given
  PROVE  /\ SInv(C, Gives(R, k, i), H, M)
         /\ Regions(Gives(R, k, i), H) = Regions(R, H) \cup {Region(R, k, i)}
         /\ Region(R, k, i) \notin Regions(R, H)
<1> DEFINE m == [reg |-> R[k].reg, given |-> R[k].given \cup {i}, freed |-> R[k].freed]
           T == [R EXCEPT ![k] = m]
<1>1. R[k] \in RunMeta /\ R[k].reg \in RegSizes /\ MetaInv(R[k])
  BY SParts
<1>2. i \in Nat
  BY <1>1, SParts, InRun
<1>3. m \in RunMeta /\ m.reg = R[k].reg /\ m.given = R[k].given \cup {i} /\ m.freed = R[k].freed
  BY <1>1, <1>2 DEF RunMeta
<1>4. MetaInv(m)
  BY <1>1, <1>3 DEF MetaInv
<1> HIDE DEF m
<1>5. /\ SInv(C, T, H, M) /\ DOMAIN T = DOMAIN R /\ T[k] = m
      /\ \A j \in DOMAIN R : j # k => T[j] = R[j]
  BY <1>3, <1>4, SetMetaInv
<1> HIDE DEF T
<1>6. T[k].reg = R[k].reg /\ i \notin R[k].freed
  BY <1>5, <1>3, <1>1 DEF MetaInv
<1>7. Region(R, k, i) \notin Regions(R, H)
  BY RegionOf
<1>8. Region(T, k, i) = Region(R, k, i)
  BY <1>6 DEF Region
<1>9. Region(R, k, i) \in Regions(T, H)
  BY <1>8, <1>5, <1>6, <1>3, RegionOf
<1>10. \A g : \/ g \in Regions(T, H) <=> g \in Regions(R, H)
              \/ \E l \in Indices(R[k].reg) :
                     /\ g = Region(R, k, l) /\ g = Region(T, k, l)
                     /\ (l \in R[k].given \ R[k].freed) # (l \in T[k].given \ T[k].freed)
  BY <1>5, <1>6, InUseChange
<1>11. \A l : (l \in R[k].given \ R[k].freed) # (l \in T[k].given \ T[k].freed) => l = i
  BY <1>5, <1>3
<1>12. Regions(T, H) = Regions(R, H) \cup {Region(R, k, i)}
  BY <1>9, <1>10, <1>11
<1> QED BY <1>5, <1>7, <1>12 DEF Gives, T, m

\* run_deallocate, when other regions of the run have not been freed: one region less
\* is in use.
LEMMA MarkInv ==
  ASSUME NEW C, NEW R, NEW H, NEW M, SInv(C, R, H, M),
         NEW k \in DOMAIN R, NEW i \in R[k].given \ R[k].freed,
         R[k].freed \cup {i} # Indices(R[k].reg)
  PROVE  /\ SInv(C, Marks(R, k, i), H, M)
         /\ Regions(Marks(R, k, i), H) = Regions(R, H) \ {Region(R, k, i)}
<1> DEFINE m == [reg |-> R[k].reg, given |-> R[k].given, freed |-> R[k].freed \cup {i}]
           T == [R EXCEPT ![k] = m]
<1>1. R[k] \in RunMeta /\ R[k].reg \in RegSizes /\ MetaInv(R[k])
  BY SParts
<1>2. i \in Nat /\ i \in Indices(R[k].reg)
  BY <1>1, SParts, InRun DEF MetaInv
<1>3. m \in RunMeta /\ m.reg = R[k].reg /\ m.given = R[k].given /\ m.freed = R[k].freed \cup {i}
  BY <1>1, <1>2 DEF RunMeta
<1>4. MetaInv(m)
  BY <1>1, <1>3 DEF MetaInv
<1> HIDE DEF m
<1>5. /\ SInv(C, T, H, M) /\ DOMAIN T = DOMAIN R /\ T[k] = m
      /\ \A j \in DOMAIN R : j # k => T[j] = R[j]
  BY <1>3, <1>4, SetMetaInv
<1> HIDE DEF T
<1>6. T[k].reg = R[k].reg
  BY <1>5, <1>3
<1>8. Region(T, k, i) = Region(R, k, i)
  BY <1>6 DEF Region
<1>9. Region(R, k, i) \notin Regions(T, H)
  BY <1>2, <1>8, <1>5, <1>6, <1>3, RegionOf
<1>10. \A g : \/ g \in Regions(T, H) <=> g \in Regions(R, H)
              \/ \E l \in Indices(R[k].reg) :
                     /\ g = Region(R, k, l) /\ g = Region(T, k, l)
                     /\ (l \in R[k].given \ R[k].freed) # (l \in T[k].given \ T[k].freed)
  BY <1>5, <1>6, InUseChange
<1>11. \A l : (l \in R[k].given \ R[k].freed) # (l \in T[k].given \ T[k].freed) => l = i
  BY <1>5, <1>3
<1>12. Regions(T, H) = Regions(R, H) \ {Region(R, k, i)}
  BY <1>9, <1>10, <1>11
<1> QED BY <1>5, <1>12 DEF Marks, T, m

\* arena_allocate_huge_mapping
Huge(p, len) == [key |-> p, len |-> len]

\* arena_allocate_huge_mapping, wherever nothing is mapped.
LEMMA HugeAddInv ==
  ASSUME NEW C, NEW R, NEW H, NEW M, SInv(C, R, H, M),
         NEW p \in Places, NEW len \in Nat, len > LARGE_SIZE_MAX_REGION,
         Span(p, len) \cap M = {}
  PROVE  /\ SInv(C, R, H \cup {Huge(p, len)}, M \cup Span(p, len))
         /\ Regions(R, H \cup {Huge(p, len)}) = Regions(R, H) \cup {<<p, len>>}
         /\ <<p, len>> \notin Regions(R, H)
         /\ \A h \in H : h.key # p
<1> DEFINE n == Huge(p, len)
           S == Span(p, len)
<1>1. n \in HugeRecs /\ n.key = p /\ n.len = len /\ Mem(n) = S
  BY DEF Huge, HugeRecs, Mem
<1>2. p \in Nat /\ LARGE_SIZE_MAX_REGION \in Nat
  BY ConstantFacts
<1>3. S \subseteq Nat /\ p \in S
  BY <1>2 DEF Span
<1> HIDE DEF n, S
<1>4. \A x : x \in M => x \notin S
  BY DEF S
<1>5. (\A d \in C : StillMapped(d) \subseteq M) /\ \A h \in H : Mem(h) \subseteq M /\ h.key \in Mem(h)
  BY SParts DEF SInv, MapInv
<1>6. MapInv(C, H \cup {n}, M \cup S)
  BY <1>4, <1>5, <1>1 DEF SInv, MapInv
<1>7. SInv(C, R, H \cup {n}, M \cup S)
  <2>1. \A h \in H \cup {n} : h.len > LARGE_SIZE_MAX_REGION
    BY <1>1 DEF SInv
  <2> QED BY <2>1, <1>1, <1>3, <1>6 DEF SInv
<1>8. \A h \in H : h.key # p
  BY <1>3, <1>4, <1>5
<1>9. \A g : g \in Regions(R, H \cup {n}) <=> g \in Regions(R, H) \/ g = <<p, len>>
  BY <1>7, <1>1, RegionsAre
<1>10. <<p, len>> \notin Regions(R, H)
  <2>1. \A g \in Regions(R, H) : g[1] \in M
    BY RegionsDisjoint
  <2> QED BY <2>1, <1>3, <1>4
<1> QED BY <1>7, <1>8, <1>9, <1>10 DEF n, S

\* arena_deallocate_huge_mapping
HugeRegion(h) == <<h.key, h.len>>
Fewer(R, H, K, g) == Regions(R, K) = Regions(R, H) \ {g}

\* The mapping is gone from the list and from the address space together.
LEMMA HugeDelInv ==
  ASSUME NEW C, NEW R, NEW H, NEW M, SInv(C, R, H, M), NEW h \in H
  PROVE  /\ SInv(C, R, H \ {h}, M \ Span(h.key, h.len))
         /\ Fewer(R, H, H \ {h}, HugeRegion(h))
         /\ HugeRegion(h) \in Regions(R, H)
<1> DEFINE S == Span(h.key, h.len)
           K == H \ {h}
<1>1. Mem(h) = S
  BY DEF Mem
<1> HIDE DEF S
<1>2. MapInv(C, K, M \ S)
  BY <1>1 DEF SInv, MapInv
<1>3. SInv(C, R, K, M \ S)
  <2>1. \A g \in K : g.len > LARGE_SIZE_MAX_REGION
    BY DEF SInv
  <2> QED BY <2>1, <1>2 DEF SInv
<1>4. \A g : g \in Regions(R, K) <=> InUse(R, g) \/ \E f \in K : g = <<f.key, f.len>>
  BY <1>3, RegionsAre
<1>5. \A g : g \in Regions(R, H) <=> InUse(R, g) \/ \E f \in H : g = <<f.key, f.len>>
  BY RegionsAre
<1>6. ASSUME NEW f \in K PROVE f.key # h.key
  <2>1. Mem(f) \cap Mem(h) = {}
    BY DEF SInv, MapInv
  <2>2. f.key \in Mem(f) /\ h.key \in Mem(h)
    BY SParts
  <2> QED BY <2>1, <2>2
<1>7. ~InUse(R, <<h.key, h.len>>)
  <2>1. SUFFICES ASSUME NEW k \in DOMAIN R, NEW i \in R[k].given \ R[k].freed,
                        <<h.key, h.len>> = <<k + i * R[k].reg, R[k].reg>>
                 PROVE  FALSE
    BY DEF InUse
  <2>2. i \in Indices(R[k].reg)
    BY SParts DEF MetaInv
  <2>3. Region(R, k, i) # <<h.key, h.len>>
    BY <2>2, RegionOf
  <2> QED BY <2>1, <2>3 DEF Region
<1>8. \A f \in K : <<f.key, f.len>> # <<h.key, h.len>>
  BY <1>6
<1>9. Regions(R, K) = Regions(R, H) \ {<<h.key, h.len>>}
  BY <1>4, <1>5, <1>7, <1>8
<1>10. <<h.key, h.len>> \in Regions(R, H)
  BY <1>5
<1> QED BY <1>3, <1>9, <1>10 DEF S, HugeRegion, Fewer

\* chunk_deallocate_run and arena_deallocate_chunk
WithoutRun(c, r) == [key |-> c.key, live |-> c.live \ {r}, taken |-> c.taken]
UsedUp(c) == c.live = {} /\ c.taken = Blocks
LeftOf(c, r) == IF UsedUp(WithoutRun(c, r)) THEN {} ELSE {WithoutRun(c, r)}
WithoutMeta(R, k) == [j \in DOMAIN R \ {k} |-> R[j]]

\* chunk_deallocate_run, and arena_deallocate_chunk for a chunk that is used up: what
\* is left of the chunk is still its own.
LEMMA DropRunInv ==
  ASSUME NEW C, NEW R, NEW H, NEW M, SInv(C, R, H, M), NEW c \in C, NEW r \in c.live
  PROVE  SInv((C \ {c}) \cup LeftOf(c, r), WithoutMeta(R, KeyOf(c, r)), H,
              M \ Span(KeyOf(c, r), r.len * LEAF))
<1> DEFINE d == WithoutRun(c, r)
           k == KeyOf(c, r)
           S == Span(k, r.len * LEAF)
           T == WithoutMeta(R, k)
           D == (C \ {c}) \cup LeftOf(c, r)
           U(e) == UNION {Span(s.block, s.len) : s \in e.live}
<1>1. c \in ChunkRecs /\ ChunkInv(c)
  BY SParts
<1>2. /\ c.key \in Nat /\ c.key \in Places /\ c.taken \subseteq Blocks /\ c.live \subseteq RunRecs
      /\ Kept(c) \subseteq Nat /\ r.block \in Nat /\ r.len \in Nat
  BY <1>1, ChunkFacts, BlockFacts
<1>3. d.key = c.key /\ d.live = c.live \ {r} /\ d.taken = c.taken
  BY DEF WithoutRun
<1>4. d \in ChunkRecs
  BY <1>2 DEF WithoutRun, ChunkRecs
<1>5. LeftOf(c, r) = IF UsedUp(d) THEN {} ELSE {d}
  BY DEF LeftOf
<1>6. /\ DOMAIN T = DOMAIN R \ {k} /\ \A j \in DOMAIN T : T[j] = R[j]
      /\ T = [j \in DOMAIN T |-> T[j]]
  BY DEF WithoutMeta
<1> HIDE DEF d, k, S, T, U
<1>7. ~UsedUp(d) => ChunkInv(d)
  BY <1>1, <1>3 DEF ChunkInv, UsedUp
<1>8. Kept(d) = Kept(c) \ Span(r.block, r.len)
  <2>1. U(c) = U(d) \cup Span(r.block, r.len)
    BY <1>3 DEF U
  <2>2. U(d) \cap Span(r.block, r.len) = {}
    BY <1>3, <1>1 DEF U, ChunkInv
  <2>3. Kept(d) = (Blocks \ d.taken) \cup U(d) /\ Kept(c) = (Blocks \ c.taken) \cup U(c)
    BY DEF Kept, U
  <2>4. Span(r.block, r.len) \subseteq c.taken
    BY <1>1 DEF ChunkInv
  <2> QED BY <2>1, <2>2, <2>3, <2>4, <1>3
<1>9. StillMapped(d) = StillMapped(c) \ S
  <2>1. ASSUME NEW x PROVE x \in StillMapped(d) <=> x \in StillMapped(c) /\ x \notin S
    <3>1. x \in S <=> x \in Nat /\ x >= c.key /\ (x - c.key) \div LEAF \in Span(r.block, r.len)
      BY <1>2, BlockOf DEF S, k, KeyOf
    <3>2. x \in StillMapped(c) <=> x \in Nat /\ x >= c.key /\ (x - c.key) \div LEAF \in Kept(c)
      BY <1>2, StillMappedIs
    <3>3. d.key \in Nat /\ Kept(d) \subseteq Nat
      BY <1>2, <1>3, <1>8
    <3>4. x \in StillMapped(d) <=> x \in Nat /\ x >= c.key /\ (x - c.key) \div LEAF \in Kept(d)
      BY <3>3, <1>3, StillMappedIs
    <3> QED BY <3>1, <3>2, <3>4, <1>8
  <2> QED BY <2>1
<1>10. UsedUp(d) => StillMapped(d) = {}
  <2>1. ASSUME UsedUp(d) PROVE Kept(d) = {}
    BY <2>1 DEF Kept, UsedUp
  <2>2. ASSUME UsedUp(d) PROVE \A x : x \notin StillMapped(d)
    BY <2>1, <2>2, <1>2, <1>3, StillMappedIs
  <2> QED BY <2>2
<1>11. S \subseteq StillMapped(c)
  BY <1>1, RunMapped DEF S, k
<1>12. MapInv(D, H, M \ S)
  <2>1. \A e \in C : e # c => StillMapped(e) \cap StillMapped(c) = {}
    BY DEF SInv, MapInv
  <2>2. \A h \in H : Mem(h) \cap StillMapped(c) = {}
    BY DEF SInv, MapInv
  <2>3. ASSUME NEW x
        PROVE  x \in M \ S <=> (\E e \in D : x \in StillMapped(e)) \/ (\E h \in H : x \in Mem(h))
    <3>1. x \in M <=> (\E e \in C : x \in StillMapped(e)) \/ (\E h \in H : x \in Mem(h))
      BY DEF SInv, MapInv
    <3>2. (\E e \in D : x \in StillMapped(e)) <=>
            x \in StillMapped(d) \/ \E e \in C : e # c /\ x \in StillMapped(e)
      BY <1>5, <1>10
    <3>3. (\E e \in C : x \in StillMapped(e)) <=>
            x \in StillMapped(c) \/ \E e \in C : e # c /\ x \in StillMapped(e)
      OBVIOUS
    <3> QED BY <3>1, <3>2, <3>3, <2>1, <2>2, <1>9, <1>11
  <2>4. \A e, f \in D : e # f => StillMapped(e) \cap StillMapped(f) = {}
    <3>1. \A e \in C : e # c => StillMapped(e) \cap StillMapped(d) = {}
      BY <2>1, <1>9
    <3> QED BY <3>1, <1>5 DEF SInv, MapInv
  <2>5. \A e \in D, h \in H : StillMapped(e) \cap Mem(h) = {}
    <3>1. \A h \in H : StillMapped(d) \cap Mem(h) = {}
      BY <2>2, <1>9
    <3> QED BY <3>1, <1>5 DEF SInv, MapInv
  <2> QED BY <2>3, <2>4, <2>5 DEF SInv, MapInv
<1>13. T \in RunTables
  <2>1. DOMAIN R \subseteq Nat /\ \A j \in DOMAIN R : R[j] \in RunMeta
    BY SParts
  <2>2. \A j \in DOMAIN T : T[j] \in RunMeta
    BY <2>1, <1>6
  <2>3. T \in [DOMAIN T -> RunMeta]
    BY <2>2, <1>6
  <2> QED BY <2>1, <2>3, <1>6, Tables
<1>14. \A s \in c.live : KeyOf(d, s) = KeyOf(c, s)
  BY <1>3 DEF KeyOf
<1>15. ASSUME NEW e \in C, NEW s \in e.live, KeyOf(e, s) = k PROVE e = c /\ s = r
  <2>1. e \in ChunkRecs /\ ChunkInv(e)
    BY SParts
  <2>2. k \in Span(KeyOf(e, s), s.len * LEAF) /\ k \in Span(KeyOf(c, r), r.len * LEAF)
    BY <2>1, <1>1, <1>15, RunMapped DEF k
  <2> QED BY <2>2, RunUnique
<1>16. RunsInv(D, T)
  <2>1. ASSUME NEW j \in DOMAIN T PROVE (\E e \in D : \E s \in e.live : j = KeyOf(e, s)) /\ MetaInv(T[j])
    <3>0. j \in DOMAIN R /\ j # k /\ MetaInv(T[j])
      BY <1>6, SParts
    <3>1. PICK e \in C : \E s \in e.live : j = KeyOf(e, s)
      BY <3>0 DEF SInv, RunsInv
    <3>2. PICK s \in e.live : j = KeyOf(e, s)
      BY <3>1
    <3>3. CASE e # c
      <4>1. e \in D BY <3>3
      <4> QED BY <4>1, <3>2, <3>0
    <3>4. CASE e = c
      <4>1. s # r BY <3>2, <3>4, <3>0 DEF k
      <4>2. s \in d.live BY <4>1, <3>4, <1>3
      <4>3. ~UsedUp(d) BY <4>2 DEF UsedUp
      <4>4. d \in D BY <4>3, <1>5
      <4>5. j = KeyOf(d, s) BY <3>2, <3>4, <1>14
      <4> QED BY <4>2, <4>4, <4>5, <3>0
    <3> QED BY <3>3, <3>4
  <2>2. ASSUME NEW e \in D, NEW s \in e.live PROVE KeyOf(e, s) \in DOMAIN T /\ T[KeyOf(e, s)].reg = s.reg
    <3>1. CASE e = d
      <4>1. s \in c.live /\ s # r /\ KeyOf(e, s) = KeyOf(c, s) BY <3>1, <1>3, <1>14
      <4>2. KeyOf(c, s) # k BY <4>1, <1>15
      <4>3. KeyOf(c, s) \in DOMAIN R /\ R[KeyOf(c, s)].reg = s.reg BY <4>1 DEF SInv, RunsInv
      <4> QED BY <4>1, <4>2, <4>3, <1>6
    <3>2. CASE e \in C /\ e # c
      <4>1. KeyOf(e, s) # k BY <3>2, <1>15
      <4>2. KeyOf(e, s) \in DOMAIN R /\ R[KeyOf(e, s)].reg = s.reg BY <3>2 DEF SInv, RunsInv
      <4> QED BY <4>1, <4>2, <1>6
    <3> QED BY <3>1, <3>2, <1>5
  <2> QED BY <2>1, <2>2 DEF RunsInv
<1>17. SInv(D, T, H, M \ S)
  <2>1. (\A e \in D : ChunkInv(e)) /\ D \subseteq ChunkRecs
    BY <1>4, <1>5, <1>7 DEF SInv
  <2>2. \A e \in C : e # c => e.key # d.key
    BY <1>3 DEF SInv
  <2>3. \A e, f \in D : e.key = f.key => e = f
    BY <2>2, <1>5 DEF SInv
  <2> QED BY <2>1, <2>3, <1>12, <1>13, <1>16 DEF SInv
<1> QED BY <1>17 DEF T, S, k

\* With its last region the run goes.
LEMMA DropRunRegions ==
  ASSUME NEW C, NEW R, NEW H, NEW M, SInv(C, R, H, M), NEW k \in DOMAIN R,
         NEW i \in R[k].given \ R[k].freed, R[k].freed \cup {i} = Indices(R[k].reg)
  PROVE  Regions(WithoutMeta(R, k), H) = Regions(R, H) \ {Region(R, k, i)}
<1> DEFINE T == WithoutMeta(R, k)
<1>1. DOMAIN T = DOMAIN R \ {k} /\ \A j \in DOMAIN T : T[j] = R[j]
  BY DEF WithoutMeta
<1> HIDE DEF T
<1>2. \A l : l \in R[k].given \ R[k].freed => l = i
  BY SParts DEF MetaInv
<1>3. i \in Indices(R[k].reg)
  OBVIOUS
<1>4. ASSUME NEW g PROVE InUse(T, g) <=> InUse(R, g) /\ g # Region(R, k, i)
  <2>1. ASSUME NEW j \in DOMAIN T, NEW l \in T[j].given \ T[j].freed,
               g = <<j + l * T[j].reg, T[j].reg>>
        PROVE  InUse(R, g) /\ g # Region(R, k, i)
    <3>1. j \in DOMAIN R /\ j # k /\ T[j] = R[j]
      BY <1>1
    <3>2. l \in Indices(R[j].reg) /\ l \in R[j].given \ R[j].freed
      BY <3>1, SParts DEF MetaInv
    <3>3. j + l * R[j].reg # k + i * R[k].reg
      BY <3>1, <3>2, <1>3, RegionOf
    <3>4. g = <<j + l * R[j].reg, R[j].reg>>
      BY <3>1, <2>1
    <3> QED BY <3>1, <3>2, <3>3, <3>4 DEF InUse, Region
  <2>2. ASSUME NEW j \in DOMAIN R, NEW l \in R[j].given \ R[j].freed,
               g = <<j + l * R[j].reg, R[j].reg>>, g # Region(R, k, i)
        PROVE  InUse(T, g)
    <3>1. j # k
      BY <2>2, <1>2 DEF Region
    <3> QED BY <3>1, <2>2, <1>1 DEF InUse
  <2> QED BY <2>1, <2>2 DEF InUse
<1>5. \A h \in H : Region(R, k, i) # <<h.key, h.len>>
  BY <1>3, RegionOf
<1>6. Regions(T, H) = Regions(R, H) \ {Region(R, k, i)}
  BY <1>4, <1>5 DEF Regions
<1> QED BY <1>6 DEF T

-----------------------------------------------------------------------------
(***************************************************************************)
(* The chunk list                                                          *)
(***************************************************************************)
LEMMA ListedIs ==
  ASSUME NEW q \in Seq(ChunkRecs)
  PROVE  /\ Len(q) \in Nat /\ DOMAIN q = 1 .. Len(q)
         /\ \A n \in DOMAIN q : q[n] \in ChunkRecs /\ q[n] \in Listed(q)
BY DEF Listed

\* ll_add of a new chunk.
LEMMA PushFront ==
  ASSUME NEW q \in Seq(ChunkRecs), Once(q), NEW c \in ChunkRecs, c \notin Listed(q)
  PROVE  /\ <<c>> \o q \in Seq(ChunkRecs) /\ Once(<<c>> \o q)
         /\ Listed(<<c>> \o q) = Listed(q) \cup {c}
         /\ 1 \in DOMAIN (<<c>> \o q) /\ (<<c>> \o q)[1] = c
<1> DEFINE s == <<c>> \o q
<1>1. /\ s \in Seq(ChunkRecs) /\ Len(s) = Len(q) + 1 /\ Len(q) \in Nat /\ DOMAIN q = 1 .. Len(q)
      /\ \A n \in 1 .. Len(q) + 1 : s[n] = IF n = 1 THEN c ELSE q[n - 1]
  OBVIOUS
<1>2. DOMAIN s = 1 .. Len(q) + 1
  BY <1>1
<1> HIDE DEF s
<1>3. 1 \in DOMAIN s /\ s[1] = c
  BY <1>1, <1>2
<1>4. \A n \in DOMAIN q : n + 1 \in DOMAIN s /\ s[n + 1] = q[n]
  BY <1>1, <1>2
<1>5. \A n \in DOMAIN s : n # 1 => n - 1 \in DOMAIN q /\ s[n] = q[n - 1]
  BY <1>1, <1>2
<1>6. Listed(s) = Listed(q) \cup {c}
  <2>1. \A x \in Listed(s) : x \in Listed(q) \cup {c}
    BY <1>3, <1>5 DEF Listed
  <2>2. \A x \in Listed(q) : x \in Listed(s)
    BY <1>4 DEF Listed
  <2>3. c \in Listed(s)
    BY <1>3 DEF Listed
  <2> QED BY <2>1, <2>2, <2>3
<1>7. ASSUME NEW m \in DOMAIN s, NEW n \in DOMAIN s, s[m] = s[n] PROVE m = n
  <2>1. CASE m # 1 /\ n # 1
    <3>1. q[m - 1] = q[n - 1] /\ m - 1 \in DOMAIN q /\ n - 1 \in DOMAIN q
      BY <1>5, <1>7, <2>1
    <3>2. m - 1 = n - 1
      BY <3>1 DEF Once
    <3> QED BY <3>2, <1>2
  <2>2. \A l \in DOMAIN s : l # 1 => s[l] # c
    BY <1>5 DEF Listed
  <2> QED BY <2>1, <2>2, <1>3, <1>7
<1> QED BY <1>1, <1>3, <1>6, <1>7 DEF s, Once

\* A chunk of the list changes.
LEMMA Replace ==
  ASSUME NEW q \in Seq(ChunkRecs), Once(q), NEW n \in DOMAIN q, NEW d \in ChunkRecs,
         d \notin Listed(q) \ {q[n]}
  PROVE  /\ [q EXCEPT ![n] = d] \in Seq(ChunkRecs) /\ Once([q EXCEPT ![n] = d])
         /\ Listed([q EXCEPT ![n] = d]) = (Listed(q) \ {q[n]}) \cup {d}
<1> DEFINE s == [q EXCEPT ![n] = d]
<1>1. /\ s \in Seq(ChunkRecs) /\ DOMAIN s = DOMAIN q /\ s[n] = d
      /\ \A m \in DOMAIN q : m # n => s[m] = q[m]
  OBVIOUS
<1> HIDE DEF s
<1>2. \A m \in DOMAIN q : m # n => q[m] \in Listed(q) \ {q[n]}
  BY DEF Listed, Once
<1>3. Listed(s) = (Listed(q) \ {q[n]}) \cup {d}
  <2>1. \A x \in Listed(s) : x \in (Listed(q) \ {q[n]}) \cup {d}
    BY <1>1, <1>2 DEF Listed
  <2>2. \A x \in Listed(q) \ {q[n]} : x \in Listed(s)
    BY <1>1 DEF Listed
  <2>3. d \in Listed(s)
    BY <1>1 DEF Listed
  <2> QED BY <2>1, <2>2, <2>3
<1>4. Once(s)
  <2>1. ASSUME NEW l \in DOMAIN q, NEW m \in DOMAIN q, s[l] = s[m] PROVE l = m
    <3>1. CASE l # n /\ m # n
      BY <3>1, <2>1, <1>1 DEF Once
    <3>2. \A j \in DOMAIN q : j # n => s[j] # d
      BY <1>1, <1>2
    <3> QED BY <3>1, <3>2, <2>1, <1>1
  <2> QED BY <2>1, <1>1 DEF Once
<1> QED BY <1>1, <1>3, <1>4 DEF s

\* ll_del of a chunk.
LEMMA Delete ==
  ASSUME NEW q \in Seq(ChunkRecs), Once(q), NEW n \in DOMAIN q
  PROVE  LET s == SubSeq(q, 1, n - 1) \o SubSeq(q, n + 1, Len(q))
         IN s \in Seq(ChunkRecs) /\ Once(s) /\ Listed(s) = Listed(q) \ {q[n]}
<1> DEFINE u == SubSeq(q, 1, n - 1)
           v == SubSeq(q, n + 1, Len(q))
           s == u \o v
           L == Len(q)
<1>1. L \in Nat /\ DOMAIN q = 1 .. L /\ n \in 1 .. L /\ n \in Nat
  OBVIOUS
<1>2. /\ u \in Seq(ChunkRecs) /\ Len(u) = n - 1 /\ \A i \in 1 .. n - 1 : u[i] = q[i]
  BY <1>1
<1>3. /\ v \in Seq(ChunkRecs) /\ Len(v) = L - n /\ \A i \in 1 .. L - n : v[i] = q[n + i]
  BY <1>1
<1> HIDE DEF u, v
<1>4. /\ s \in Seq(ChunkRecs) /\ Len(s) = L - 1
      /\ \A i \in 1 .. L - 1 : s[i] = IF i <= n - 1 THEN u[i] ELSE v[i - (n - 1)]
  <2>1. /\ s \in Seq(ChunkRecs) /\ Len(s) = Len(u) + Len(v)
        /\ \A i \in 1 .. Len(u) + Len(v) : s[i] = IF i <= Len(u) THEN u[i] ELSE v[i - Len(u)]
    BY <1>2, <1>3, ConcatProperties
  <2>2. Len(u) + Len(v) = L - 1 /\ Len(u) = n - 1
    BY <1>1, <1>2, <1>3
  <2> HIDE DEF s, L
  <2> QED BY <2>1, <2>2
<1>5. DOMAIN s = 1 .. L - 1
  BY <1>4
<1> HIDE DEF s, L
<1> DEFINE Up(i) == IF i <= n - 1 THEN i ELSE i + 1
<1>6. ASSUME NEW i \in 1 .. L - 1 PROVE s[i] = q[Up(i)] /\ Up(i) \in 1 .. L /\ Up(i) # n
  <2>1. CASE i <= n - 1
    <3>1. i \in 1 .. n - 1 BY <2>1, <1>1
    <3>2. s[i] = u[i] BY <2>1, <1>4
    <3>3. s[i] = q[i] BY <3>1, <3>2, <1>2
    <3>4. Up(i) = i BY <2>1
    <3>5. i \in 1 .. L /\ i # n BY <3>1, <1>1
    <3> HIDE DEF Up
    <3> QED BY <3>3, <3>4, <3>5
  <2>2. CASE ~(i <= n - 1)
    <3>1. i - (n - 1) \in 1 .. L - n /\ n + (i - (n - 1)) = i + 1 BY <2>2, <1>1
    <3>2. s[i] = v[i - (n - 1)] BY <2>2, <1>4
    <3>3. s[i] = q[i + 1] BY <3>1, <3>2, <1>3
    <3> QED BY <3>3, <2>2, <1>1
  <2> QED BY <2>1, <2>2
<1>7. ASSUME NEW m \in 1 .. L, m # n PROVE \E i \in 1 .. L - 1 : m = Up(i)
  <2>1. CASE m < n
    <3>1. m \in 1 .. L - 1 /\ Up(m) = m BY <2>1, <1>1
    <3> QED BY <3>1
  <2>2. CASE m > n
    <3>1. m - 1 \in 1 .. L - 1 /\ Up(m - 1) = m BY <2>2, <1>1
    <3> QED BY <3>1
  <2> QED BY <2>1, <2>2, <1>1, <1>7
<1>8. \A i, j \in 1 .. L - 1 : Up(i) = Up(j) => i = j
  BY <1>1
<1> HIDE DEF Up
<1>9. Listed(s) = Listed(q) \ {q[n]}
  <2>1. ASSUME NEW x \in Listed(s) PROVE x \in Listed(q) /\ x # q[n]
    <3>1. PICK i \in 1 .. L - 1 : x = s[i] BY <1>5 DEF Listed
    <3>2. x = q[Up(i)] /\ Up(i) \in DOMAIN q /\ Up(i) # n BY <3>1, <1>6, <1>1
    <3> QED BY <3>2 DEF Listed, Once
  <2>2. ASSUME NEW x \in Listed(q), x # q[n] PROVE x \in Listed(s)
    <3>1. PICK m \in 1 .. L : x = q[m] BY <1>1 DEF Listed
    <3>2. m # n BY <3>1, <2>2
    <3>3. PICK i \in 1 .. L - 1 : m = Up(i) BY <3>2, <1>7
    <3>4. s[i] = x BY <3>1, <3>3, <1>6
    <3> QED BY <3>4, <1>5 DEF Listed
  <2> QED BY <2>1, <2>2
<1>10. Once(s)
  <2>1. ASSUME NEW i \in 1 .. L - 1, NEW j \in 1 .. L - 1, s[i] = s[j] PROVE i = j
    <3>1. q[Up(i)] = q[Up(j)] /\ Up(i) \in DOMAIN q /\ Up(j) \in DOMAIN q BY <2>1, <1>6, <1>1
    <3>2. Up(i) = Up(j) BY <3>1 DEF Once
    <3> QED BY <3>2, <1>8
  <2> QED BY <2>1, <1>5 DEF Once
<1> QED BY <1>4, <1>9, <1>10 DEF s, u, v, L

-----------------------------------------------------------------------------
(***************************************************************************)
(* The arena: allocation                                                   *)
(***************************************************************************)
Arn(q, R, B, H, M) == [chunks |-> q, runs |-> R, bins |-> B, huges |-> H, mapped |-> M]

\* The fields of an arena.
LEMMA ArnFields ==
  ASSUME NEW q, NEW R, NEW B, NEW H, NEW M
  PROVE  LET a == Arn(q, R, B, H, M)
         IN a.chunks = q /\ a.runs = R /\ a.bins = B /\ a.huges = H /\ a.mapped = M
BY DEF Arn

\* An arena whose parts fit together.
LEMMA ArnInv ==
  ASSUME NEW q \in Seq(ChunkRecs), Once(q), NEW R, NEW B \in SUBSET RegSizes, NEW H, NEW M,
         SInv(Listed(q), R, H, M)
  PROVE  AInv(Arn(q, R, B, H, M))
<1>1. R \in RunTables /\ H \in SUBSET HugeRecs /\ M \in SUBSET Nat
  BY DEF SInv
<1>2. Arn(q, R, B, H, M) \in ArenaRecs
  BY <1>1 DEF Arn, ArenaRecs
<1> QED BY <1>2, ArnFields DEF AInv

\* The parts of an arena.
LEMMA AParts ==
  ASSUME NEW a, AInv(a)
  PROVE  /\ a = Arn(a.chunks, a.runs, a.bins, a.huges, a.mapped)
         /\ a.chunks \in Seq(ChunkRecs) /\ Once(a.chunks) /\ a.bins \in SUBSET RegSizes
         /\ SInv(Listed(a.chunks), a.runs, a.huges, a.mapped)
<1>1. a \in ArenaRecs
  BY DEF AInv
<1>2. a = Arn(a.chunks, a.runs, a.bins, a.huges, a.mapped)
  BY <1>1, Zenon DEF ArenaRecs, Arn
<1>3. a.chunks \in Seq(ChunkRecs) /\ a.bins \in SUBSET RegSizes
  BY <1>1 DEF ArenaRecs
<1> QED BY <1>2, <1>3 DEF AInv

\* What an allocation leaves in place: the runs where they are, with their region
\* sizes and what is in use of them, and the huge mappings.
Ext(a, b) ==
  /\ \A c \in Listed(a.chunks) : \E d \in Listed(b.chunks) : d.key = c.key /\ c.live \subseteq d.live
  /\ \A k \in DOMAIN a.runs :
       /\ k \in DOMAIN b.runs /\ b.runs[k].reg = a.runs[k].reg
       /\ a.runs[k].given \subseteq b.runs[k].given /\ b.runs[k].freed = a.runs[k].freed
  /\ a.huges \subseteq b.huges

\* Two allocations leave in place what each of them leaves in place.
LEMMA ExtTrans ==
  ASSUME NEW a, NEW b, NEW c, Ext(a, b), Ext(b, c)
  PROVE  Ext(a, c)
<1>1. ASSUME NEW e \in Listed(a.chunks)
      PROVE  \E d \in Listed(c.chunks) : d.key = e.key /\ e.live \subseteq d.live
  <2>1. PICK f \in Listed(b.chunks) : f.key = e.key /\ e.live \subseteq f.live
    BY DEF Ext
  <2>2. PICK d \in Listed(c.chunks) : d.key = f.key /\ f.live \subseteq d.live
    BY DEF Ext
  <2> QED BY <2>1, <2>2
<1>2. \A k \in DOMAIN a.runs :
       /\ k \in DOMAIN c.runs /\ c.runs[k].reg = a.runs[k].reg
       /\ a.runs[k].given \subseteq c.runs[k].given /\ c.runs[k].freed = a.runs[k].freed
  BY DEF Ext
<1> QED BY <1>1, <1>2 DEF Ext

\* The regions in use do not change.
Same(a, b) == AInv(b) /\ Ext(a, b) /\ Regions(b.runs, b.huges) = Regions(a.runs, a.huges)

\* Two steps that change no region in use.
LEMMA SameTrans ==
  ASSUME NEW a, NEW b, NEW c, Same(a, b), Same(b, c)
  PROVE  Same(a, c)
BY ExtTrans DEF Same

\* No step changes no region in use.
LEMMA SameSelf ==
  ASSUME NEW a, AInv(a)
  PROVE  Same(a, a)
BY DEF Same, Ext

\* arena_allocate_chunk changes no region in use.
LEMMA AllocateChunk ==
  ASSUME NEW a, AInv(a), NEW b \in arena_allocate_chunk(a)
  PROVE  Same(a, b) /\ 1 \in DOMAIN b.chunks
<1>1. PICK p \in Mappable(a, CHUNK_SIZE_BYTES) :
        b = [a EXCEPT !.chunks = <<[key |-> p, live |-> {}, taken |-> {}]>> \o a.chunks,
                      !.mapped = a.mapped \cup Span(p, CHUNK_SIZE_BYTES)]
  BY DEF arena_allocate_chunk
<1>2. p \in Places /\ Span(p, CHUNK_SIZE_BYTES) \cap a.mapped = {}
  BY DEF Mappable
<1> DEFINE q == <<NewChunk(p)>> \o a.chunks
           M == a.mapped \cup Span(p, CHUNK_SIZE_BYTES)
<1>3. a \in ArenaRecs
  BY DEF AInv
<1>4. b = Arn(q, a.runs, a.bins, a.huges, M)
  BY <1>1, <1>3, Zenon DEF ArenaRecs, Arn, NewChunk
<1>5. /\ a.chunks \in Seq(ChunkRecs) /\ Once(a.chunks) /\ a.bins \in SUBSET RegSizes
      /\ SInv(Listed(a.chunks), a.runs, a.huges, a.mapped)
  BY AParts
<1>6. /\ SInv(Listed(a.chunks) \cup {NewChunk(p)}, a.runs, a.huges, M)
      /\ NewChunk(p) \notin Listed(a.chunks)
  BY <1>2, <1>5, NewChunkInv
<1>7. NewChunk(p) \in ChunkRecs
  BY <1>6 DEF SInv
<1>8. /\ q \in Seq(ChunkRecs) /\ Once(q) /\ Listed(q) = Listed(a.chunks) \cup {NewChunk(p)}
      /\ 1 \in DOMAIN q
  BY <1>5, <1>6, <1>7, PushFront
<1> HIDE DEF q, M
<1>9. AInv(b)
  BY <1>4, <1>5, <1>6, <1>8, ArnInv
<1>10. b.chunks = q /\ b.runs = a.runs /\ b.huges = a.huges
  BY <1>4, ArnFields
<1>11. Ext(a, b)
  BY <1>8, <1>10 DEF Ext
<1> QED BY <1>8, <1>9, <1>10, <1>11 DEF Same

\* chunk_allocate_run in one of the chunks changes no region in use.
LEMMA AllocateRun ==
  ASSUME BitmapsCoverRuns, NEW a, AInv(a), NEW n \in DOMAIN a.chunks, NEW reg \in RegSizes,
         NEW e \in AllocateRunIn(a, n, reg)
  PROVE  Same(a, e)
<1> DEFINE c == a.chunks[n]
<1>1. PICK b \in Fitting(c, RunLen(reg)) :
        e = [a EXCEPT !.chunks[n] = [c EXCEPT !.live = c.live \cup {[block |-> b, len |-> RunLen(reg), reg |-> reg]},
                                              !.taken = c.taken \cup Span(b, RunLen(reg))],
                      !.runs = WithMeta(a.runs, c.key + b * LEAF, reg)]
  <2> DEFINE Key(b) == c.key + b * LEAF
             New(b) == [c EXCEPT !.live = c.live \cup {[block |-> b, len |-> RunLen(reg), reg |-> reg]},
                                 !.taken = c.taken \cup Span(b, RunLen(reg))]
             With(b, stale) ==
               [a EXCEPT !.chunks[n] = New(b),
                         !.runs = [k \in DOMAIN a.runs \cup {Key(b)} |->
                                     IF k = Key(b) THEN [reg |-> reg, given |-> stale, freed |-> {}]
                                                   ELSE a.runs[k]]]
  <2>1. \E b \in Fitting(c, RunLen(reg)) : \E stale \in SUBSET StaleItems(reg) : e = With(b, stale)
    <3>1. e \in UNION {{With(b, stale) : stale \in SUBSET StaleItems(reg)} : b \in Fitting(c, RunLen(reg))}
      BY Zenon DEF AllocateRunIn, RunLen
    <3> HIDE DEF With
    <3> QED BY <3>1
  <2>2. PICK b \in Fitting(c, RunLen(reg)) : \E stale \in SUBSET StaleItems(reg) : e = With(b, stale)
    BY <2>1, Zenon
  <2>3. SUBSET StaleItems(reg) = {{}}
    <3>1. StaleItems(reg) = {}
      BY DEF BitmapsCoverRuns
    <3> QED BY <3>1
  <2>4. e = With(b, {})
    BY <2>2, <2>3, Zenon
  <2> QED BY <2>4, Zenon DEF WithMeta
<1>2. a \in ArenaRecs
  BY DEF AInv
<1>3. /\ a.chunks \in Seq(ChunkRecs) /\ Once(a.chunks) /\ a.bins \in SUBSET RegSizes
      /\ SInv(Listed(a.chunks), a.runs, a.huges, a.mapped)
  BY AParts
<1>4. c \in ChunkRecs /\ c \in Listed(a.chunks)
  BY <1>3, ListedIs
<1> DEFINE d == WithRun(c, b, reg)
           k == c.key + b * LEAF
           q == [a.chunks EXCEPT ![n] = d]
           T == WithMeta(a.runs, k, reg)
<1>5. d = [c EXCEPT !.live = c.live \cup {[block |-> b, len |-> RunLen(reg), reg |-> reg]},
                    !.taken = c.taken \cup Span(b, RunLen(reg))]
  <2>1. ASSUME NEW f \in ChunkRecs, NEW l, NEW t, NEW u, u = [f EXCEPT !.live = l, !.taken = t]
        PROVE  u = [key |-> f.key, live |-> l, taken |-> t]
    BY <2>1, Zenon DEF ChunkRecs
  <2> QED BY <2>1, <1>4, Zenon DEF WithRun, NewRun
<1>6. e = Arn(q, T, a.bins, a.huges, a.mapped)
  BY <1>1, <1>2, <1>5, Zenon DEF ArenaRecs, Arn
<1> HIDE DEF c
<1>7. /\ SInv((Listed(a.chunks) \ {c}) \cup {d}, T, a.huges, a.mapped)
      /\ k \notin DOMAIN a.runs /\ d \notin Listed(a.chunks) /\ d \in ChunkRecs
  BY <1>3, <1>4, NewRunInv
<1>8. d.key = c.key /\ c.live \subseteq d.live
  BY DEF WithRun
<1> HIDE DEF d
<1>9. q \in Seq(ChunkRecs) /\ Once(q) /\ Listed(q) = (Listed(a.chunks) \ {c}) \cup {d}
  BY <1>3, <1>7, Replace DEF c
<1>10. /\ \A j \in DOMAIN a.runs : j \in DOMAIN T /\ T[j] = a.runs[j]
       /\ Regions(T, a.huges) = Regions(a.runs, a.huges)
  <2>1. Regions(T, a.huges) = Regions(a.runs, a.huges)
    BY <1>3, <1>7, NewRunRegions
  <2> QED BY <2>1, <1>7 DEF WithMeta
<1> HIDE DEF q, T
<1>11. AInv(e)
  BY <1>3, <1>6, <1>7, <1>9, ArnInv
<1>12. e.chunks = q /\ e.runs = T /\ e.huges = a.huges
  BY <1>6, ArnFields
<1>13. Ext(a, e)
  BY <1>8, <1>9, <1>10, <1>12 DEF Ext
<1> QED BY <1>10, <1>11, <1>12, <1>13 DEF Same

\* The first of some positions of a list is one of them.
LEMMA FirstRoom ==
  ASSUME NEW S, S \subseteq Nat, S # {}
  PROVE  Min(S) \in S
<1>1. \E n \in S : \A m \in S : n <= m
  BY Lib!LeastNatural, 1 \in Nat \ {0}, Zenon
<1> QED BY <1>1 DEF Min

\* arena_allocate_run changes no region in use, whether an old chunk has room or not.
LEMMA AllocateRunAnywhere ==
  ASSUME BitmapsCoverRuns, NEW a, AInv(a), NEW reg \in RegSizes, NEW e \in arena_allocate_run(a, reg)
  PROVE  Same(a, e)
<1> DEFINE roomy == {n \in DOMAIN a.chunks : Fitting(a.chunks[n], RunSizeOf(reg) \div LEAF) # {}}
<1>1. roomy \subseteq Nat
  BY AParts, ListedIs
<1>2. CASE roomy # {}
  <2>1. Min(roomy) \in roomy
    <3> HIDE DEF roomy
    <3> QED BY <1>1, <1>2, FirstRoom
  <2>2. e \in AllocateRunIn(a, Min(roomy), reg)
    BY <1>2 DEF arena_allocate_run
  <2>3. Min(roomy) \in DOMAIN a.chunks
    BY <2>1
  <2> QED BY <2>2, <2>3, AllocateRun
<1>3. CASE roomy = {}
  <2>1. PICK b \in arena_allocate_chunk(a) : e \in AllocateRunIn(b, 1, reg)
    BY <1>3 DEF arena_allocate_run
  <2>2. Same(a, b) /\ 1 \in DOMAIN b.chunks /\ AInv(b)
    BY AllocateChunk DEF Same
  <2>3. Same(b, e)
    BY <2>1, <2>2, AllocateRun
  <2> QED BY <2>2, <2>3, SameTrans
<1> QED BY <1>2, <1>3

Supplied(F, reg) == UNION {arena_allocate_run(b, reg) : b \in F}
IsSupply(f, a, reg, n) == f = [j \in 0 .. n |-> IF j = 0 THEN {a} ELSE Supplied(f[j - 1], reg)]

\* The loop of arena_supply_runs, as a function of the number of rounds, exists.
LEMMA SupplyExists ==
  ASSUME NEW a, NEW reg, NEW i \in Nat
  PROVE  \E f : IsSupply(f, a, reg, i)
<1> DEFINE S == {k \in Nat : \E f : IsSupply(f, a, reg, k)}
<1>1. 0 \in S
  <2> DEFINE f == [j \in 0 .. 0 |-> {a}]
  <2>1. f = [j \in 0 .. 0 |-> IF j = 0 THEN {a} ELSE Supplied(f[j - 1], reg)]
    <3>1. \A j \in 0 .. 0 : j = 0
      OBVIOUS
    <3> QED BY <3>1
  <2> QED BY <2>1 DEF IsSupply
<1>2. ASSUME NEW k \in S PROVE k + 1 \in S
  <2>1. k \in Nat
    OBVIOUS
  <2>2. PICK f : IsSupply(f, a, reg, k)
    OBVIOUS
  <2> DEFINE g == [j \in 0 .. k + 1 |-> IF j <= k THEN f[j] ELSE Supplied(f[k], reg)]
  <2>3. \A j \in 0 .. k : f[j] = IF j = 0 THEN {a} ELSE Supplied(f[j - 1], reg)
    BY <2>2 DEF IsSupply
  <2>4. ASSUME NEW j \in 0 .. k + 1 PROVE g[j] = IF j = 0 THEN {a} ELSE Supplied(g[j - 1], reg)
    <3>1. CASE j = 0
      <4>1. j <= k /\ j \in 0 .. k
        BY <3>1, <2>1
      <4>2. g[j] = f[j]
        BY <4>1
      <4> QED BY <4>1, <4>2, <3>1, <2>3
    <3>2. CASE j # 0 /\ j <= k
      <4>1. j \in 0 .. k /\ j - 1 \in 0 .. k + 1 /\ j - 1 <= k
        BY <3>2, <2>1
      <4>2. g[j] = f[j] /\ g[j - 1] = f[j - 1]
        BY <4>1, <3>2
      <4> QED BY <4>1, <4>2, <3>2, <2>3
    <3>3. CASE j = k + 1
      <4>1. ~(j <= k) /\ j - 1 = k /\ k \in 0 .. k + 1 /\ k <= k /\ j # 0
        BY <3>3, <2>1
      <4>2. g[j] = Supplied(f[k], reg) /\ g[k] = f[k]
        BY <4>1
      <4> QED BY <4>1, <4>2
    <3>4. j \in Nat /\ j <= k + 1
      BY <2>1
    <3> QED BY <3>1, <3>2, <3>3, <3>4, <2>1
  <2> HIDE DEF g
  <2>5. g = [j \in 0 .. k + 1 |-> g[j]]
    BY DEF g
  <2>6. IsSupply(g, a, reg, k + 1)
    BY <2>4, <2>5 DEF IsSupply
  <2>7. k + 1 \in Nat
    BY <2>1
  <2> QED BY <2>6, <2>7
<1>3. S \subseteq Nat
  OBVIOUS
<1>4. S = Nat
  <2> HIDE DEF S
  <2> QED BY <1>1, <1>2, <1>3, Lib!NatSetInduction, 1 \in Nat \ {0}, Zenon
<1> QED BY <1>4

\* The number of runs that an empty bin is supplied with.
LEMMA CeilBound ==
  ASSUME NEW n \in Nat \ {0}, NEW e \in Nat \ {0}
  PROVE  ceil_div(n, e) \in 0 .. n
<1> DEFINE d == n \div e
           m == n % e
<1>1. d \in Nat /\ m \in 0 .. e - 1 /\ n = e * d + m
  BY Lib!DivBound
<1>2. ceil_div(n, e) = d + (IF m = 0 THEN 0 ELSE 1)
  BY DEF ceil_div
<1> HIDE DEF d, m
<1>3. e * d >= d /\ e * d \in Nat
  BY <1>1
<1> QED BY <1>1, <1>2, <1>3

\* arena_supply_runs for an empty bin changes no region in use.
LEMMA SupplyRuns ==
  ASSUME BitmapsCoverRuns, NEW a, AInv(a), NEW reg \in RegSizes, Available(a, reg) = 0,
         NEW e \in arena_supply_runs(a, reg)
  PROVE  Same(a, e)
<1> DEFINE f == CHOOSE f : IsSupply(f, a, reg, MinRegions)
           i == ceil_div(MinRegions - Available(a, reg), ElemsOf(reg))
<1>1. arena_supply_runs(a, reg) = f[i]
  BY DEF arena_supply_runs, IsSupply, Supplied
<1>2. MinRegions \in Nat \ {0} /\ ElemsOf(reg) \in Nat \ {0}
  BY ConstantFacts, RegFacts
<1>3. IsSupply(f, a, reg, MinRegions)
  BY <1>2, SupplyExists
<1> HIDE DEF f
<1>4. \A j \in 0 .. MinRegions : f[j] = IF j = 0 THEN {a} ELSE Supplied(f[j - 1], reg)
  BY <1>3 DEF IsSupply
<1>5. i \in 0 .. MinRegions
  <2>1. MinRegions - Available(a, reg) = MinRegions
    BY <1>2
  <2> QED BY <2>1, <1>2, CeilBound
<1> HIDE DEF i
<1> DEFINE S == {j \in Nat : j <= MinRegions => \A b \in f[j] : Same(a, b)}
<1>6. 0 \in S
  <2>1. 0 \in 0 .. MinRegions
    BY <1>2
  <2>2. f[0] = {a}
    BY <2>1, <1>4
  <2> QED BY <2>2, SameSelf
<1>7. ASSUME NEW j \in S PROVE j + 1 \in S
  <2> SUFFICES ASSUME j + 1 <= MinRegions, NEW b \in f[j + 1] PROVE Same(a, b)
    OBVIOUS
  <2>1. j \in Nat /\ j <= MinRegions /\ j + 1 \in 0 .. MinRegions /\ (j + 1) - 1 = j /\ j + 1 # 0
    BY <1>2
  <2>2. b \in Supplied(f[j], reg)
    BY <2>1, <1>4
  <2>3. PICK c \in f[j] : b \in arena_allocate_run(c, reg)
    BY <2>2 DEF Supplied
  <2>4. Same(a, c) /\ AInv(c)
    BY <2>1 DEF Same
  <2>5. Same(c, b)
    BY <2>3, <2>4, AllocateRunAnywhere
  <2> QED BY <2>4, <2>5, SameTrans
<1>8. S \subseteq Nat
  OBVIOUS
<1>9. S = Nat
  <2> HIDE DEF S
  <2> QED BY <1>6, <1>7, <1>8, Lib!NatSetInduction, 1 \in Nat \ {0}, Zenon
<1>10. i \in S /\ i <= MinRegions
  BY <1>5, <1>9, <1>2
<1>11. \A b \in f[i] : Same(a, b)
  BY <1>10
<1> QED BY <1>1, <1>11

\* A pointer p to a new region of len units.
Adds(a, b, p, len) ==
  /\ AInv(b) /\ Ext(a, b)
  /\ Regions(b.runs, b.huges) = Regions(a.runs, a.huges) \cup {<<p, len>>}
  /\ <<p, len>> \notin Regions(a.runs, a.huges)

\* A new region after a step that changes no region in use.
LEMMA SameAdds ==
  ASSUME NEW a, NEW b, NEW c, NEW p, NEW len, Same(a, b), Adds(b, c, p, len)
  PROVE  Adds(a, c, p, len)
BY ExtTrans DEF Same, Adds

\* A run hands out a region that it has not given yet.
LEMMA GiveRegion ==
  ASSUME NEW a, AInv(a), NEW k \in DOMAIN a.runs, NEW i \in FreeIn(a.runs[k]),
         NEW b
  PROVE  b = [a EXCEPT !.runs[k].given = a.runs[k].given \cup {i}] =>
           Adds(a, b, k + i * a.runs[k].reg, a.runs[k].reg)
<1>0. SUFFICES ASSUME b = [a EXCEPT !.runs[k].given = a.runs[k].given \cup {i}]
               PROVE  Adds(a, b, k + i * a.runs[k].reg, a.runs[k].reg)
  OBVIOUS
<1>1. a \in ArenaRecs
  BY DEF AInv
<1>2. /\ a.chunks \in Seq(ChunkRecs) /\ Once(a.chunks) /\ a.bins \in SUBSET RegSizes
      /\ SInv(Listed(a.chunks), a.runs, a.huges, a.mapped)
  BY AParts
<1>3. a.runs[k] \in RunMeta
  BY <1>2, SParts
<1> DEFINE m == [a.runs[k] EXCEPT !.given = a.runs[k].given \cup {i}]
           T == Gives(a.runs, k, i)
<1>4. m = [reg |-> a.runs[k].reg, given |-> a.runs[k].given \cup {i}, freed |-> a.runs[k].freed]
  <2>1. ASSUME NEW r \in RunMeta, NEW g, NEW u, u = [r EXCEPT !.given = g]
        PROVE  u = [reg |-> r.reg, given |-> g, freed |-> r.freed]
    BY <2>1, Zenon DEF RunMeta
  <2> QED BY <2>1, <1>3, Zenon
<1>5. T = [a.runs EXCEPT ![k] = m]
  BY <1>4, Zenon DEF Gives
<1>6. b = [a EXCEPT !.runs = [a.runs EXCEPT ![k] = m]]
  BY <1>0
<1>7. b = Arn(a.chunks, T, a.bins, a.huges, a.mapped)
  BY <1>1, <1>5, <1>6, Zenon DEF ArenaRecs, Arn
<1>8. i \in Indices(a.runs[k].reg) \ a.runs[k].given
  BY DEF FreeIn, Indices
<1>9. /\ SInv(Listed(a.chunks), T, a.huges, a.mapped)
      /\ Regions(T, a.huges) = Regions(a.runs, a.huges) \cup {Region(a.runs, k, i)}
      /\ Region(a.runs, k, i) \notin Regions(a.runs, a.huges)
  BY <1>2, <1>8, GiveInv
<1>10. \A j \in DOMAIN a.runs :
         /\ j \in DOMAIN T /\ T[j].reg = a.runs[j].reg
         /\ a.runs[j].given \subseteq T[j].given /\ T[j].freed = a.runs[j].freed
  BY <1>2, SParts DEF Gives
<1> HIDE DEF T
<1>11. AInv(b) /\ b.chunks = a.chunks /\ b.runs = T /\ b.huges = a.huges
  BY <1>2, <1>7, <1>9, ArnInv, ArnFields
<1>12. Ext(a, b)
  BY <1>10, <1>11 DEF Ext
<1> QED BY <1>9, <1>11, <1>12 DEF Adds, Region

\* sealloc_allocate_with_bin: the pointer is to a region that was not in use.
LEMMA AllocateWithBin ==
  ASSUME BitmapsCoverRuns, NEW a, AInv(a), NEW reg \in RegSizes, NEW o \in sealloc_allocate_with_bin(a, reg)
  PROVE  Adds(a, o[1], o[2], reg)
<1> DEFINE Pick(b) ==
        UNION {{<<[b EXCEPT !.runs[k].given = @ \cup {i}], k + i * reg>> :
                  i \in FreeIn(b.runs[k])} :
               k \in {j \in DOMAIN b.runs : b.runs[j].reg = reg}}
<1>1. PICK b \in (IF Available(a, reg) < MinRegions THEN arena_allocate_run(a, reg) ELSE {a}) :
        o \in Pick(b)
  BY DEF sealloc_allocate_with_bin
<1>2. Same(a, b) /\ AInv(b)
  BY <1>1, AllocateRunAnywhere, SameSelf DEF Same
<1>3. PICK k \in {j \in DOMAIN b.runs : b.runs[j].reg = reg} :
        o \in {<<[b EXCEPT !.runs[k].given = b.runs[k].given \cup {i}], k + i * reg>> :
                 i \in FreeIn(b.runs[k])}
  BY <1>1
<1>4. PICK i \in FreeIn(b.runs[k]) :
        o = <<[b EXCEPT !.runs[k].given = b.runs[k].given \cup {i}], k + i * reg>>
  BY <1>3
<1> HIDE DEF Pick
<1>5. k \in DOMAIN b.runs /\ b.runs[k].reg = reg
  OBVIOUS
<1>6. ASSUME NEW c, c = [b EXCEPT !.runs[k].given = b.runs[k].given \cup {i}]
      PROVE  Adds(b, c, k + i * reg, reg)
  <2>1. Adds(b, c, k + i * b.runs[k].reg, b.runs[k].reg)
    BY <1>2, <1>5, <1>6, GiveRegion
  <2> QED BY <2>1, <1>5
<1>7. o[1] = [b EXCEPT !.runs[k].given = b.runs[k].given \cup {i}] /\ o[2] = k + i * reg
  BY <1>4
<1>8. Adds(b, o[1], o[2], reg)
  BY <1>6, <1>7
<1> QED BY <1>2, <1>8, SameAdds

\* bin_init changes no region in use.
LEMMA InitBin ==
  ASSUME NEW a, AInv(a), NEW reg \in RegSizes, NEW b
  PROVE  b = [a EXCEPT !.bins = a.bins \cup {reg}] => Same(a, b)
<1>0. SUFFICES ASSUME b = [a EXCEPT !.bins = a.bins \cup {reg}] PROVE Same(a, b)
  OBVIOUS
<1>1. a \in ArenaRecs
  BY DEF AInv
<1>2. /\ a.chunks \in Seq(ChunkRecs) /\ Once(a.chunks) /\ a.bins \in SUBSET RegSizes
      /\ SInv(Listed(a.chunks), a.runs, a.huges, a.mapped)
  BY AParts
<1>3. b = Arn(a.chunks, a.runs, a.bins \cup {reg}, a.huges, a.mapped)
  BY <1>0, <1>1, Zenon DEF ArenaRecs, Arn
<1>4. AInv(Arn(a.chunks, a.runs, a.bins \cup {reg}, a.huges, a.mapped))
  BY <1>2, ArnInv
<1>5. AInv(b) /\ b.chunks = a.chunks /\ b.runs = a.runs /\ b.huges = a.huges
  BY <1>3, <1>4, ArnFields
<1> QED BY <1>5 DEF Same, Ext

\* The bin is initialised and supplied as needed: the pointer is to a region that was
\* not in use.
LEMMA AllocateAny ==
  ASSUME BitmapsCoverRuns, NEW a, AInv(a), NEW reg \in RegSizes, NEW o \in AllocateRegion(a, reg)
  PROVE  Adds(a, o[1], o[2], reg)
<1> DEFINE b == [a EXCEPT !.bins = a.bins \cup {reg}]
<1>1. Same(a, b) /\ AInv(b)
  BY InitBin DEF Same
<1>2. PICK c \in (IF Available(b, reg) = 0 THEN arena_supply_runs(b, reg) ELSE {b}) :
        o \in sealloc_allocate_with_bin(c, reg)
  BY DEF AllocateRegion
<1> HIDE DEF b
<1>3. Same(b, c) /\ AInv(c)
  BY <1>1, <1>2, SupplyRuns, SameSelf DEF Same
<1>4. Adds(c, o[1], o[2], reg)
  BY <1>2, <1>3, AllocateWithBin
<1> QED BY <1>1, <1>3, <1>4, SameTrans, SameAdds

\* arena_allocate_huge_mapping: the pointer is to a mapping that was not in use.
LEMMA AllocateHuge ==
  ASSUME NEW a, AInv(a), NEW len \in Nat, len > LARGE_SIZE_MAX_REGION,
         NEW o \in arena_allocate_huge_mapping(a, len)
  PROVE  Adds(a, o[1], o[2], len)
<1>1. PICK p \in Mappable(a, len) :
        o = <<[a EXCEPT !.huges = a.huges \cup {[key |-> p, len |-> len]},
                        !.mapped = a.mapped \cup Span(p, len)], p>>
  BY DEF arena_allocate_huge_mapping
<1>2. p \in Places /\ Span(p, len) \cap a.mapped = {}
  BY DEF Mappable
<1> DEFINE H == a.huges \cup {Huge(p, len)}
           M == a.mapped \cup Span(p, len)
           b == o[1]
<1>3. b = [a EXCEPT !.huges = a.huges \cup {[key |-> p, len |-> len]},
                    !.mapped = a.mapped \cup Span(p, len)] /\ o[2] = p
  BY <1>1
<1>4. a \in ArenaRecs
  BY DEF AInv
<1> HIDE DEF b
<1>5. b = Arn(a.chunks, a.runs, a.bins, H, M)
  BY <1>3, <1>4, Zenon DEF ArenaRecs, Arn, Huge
<1>6. /\ a.chunks \in Seq(ChunkRecs) /\ Once(a.chunks) /\ a.bins \in SUBSET RegSizes
      /\ SInv(Listed(a.chunks), a.runs, a.huges, a.mapped)
  BY AParts
<1>7. /\ SInv(Listed(a.chunks), a.runs, H, M)
      /\ Regions(a.runs, H) = Regions(a.runs, a.huges) \cup {<<p, len>>}
      /\ <<p, len>> \notin Regions(a.runs, a.huges)
  <2> DEFINE C == Listed(a.chunks)
             R == a.runs
             G == a.huges
             N == a.mapped
  <2>1. SInv(C, R, G, N) /\ p \in Places /\ Span(p, len) \cap N = {}
    BY <1>2, <1>6
  <2> HIDE DEF C, R, G, N
  <2>2. /\ SInv(C, R, G \cup {Huge(p, len)}, N \cup Span(p, len))
        /\ Regions(R, G \cup {Huge(p, len)}) = Regions(R, G) \cup {<<p, len>>}
        /\ <<p, len>> \notin Regions(R, G)
    BY <2>1, HugeAddInv
  <2> QED BY <2>2 DEF C, R, G, N
<1>8. a.huges \subseteq H
  OBVIOUS
<1> HIDE DEF H, M
<1>9. AInv(b) /\ b.chunks = a.chunks /\ b.runs = a.runs /\ b.huges = H
  BY <1>5, <1>6, <1>7, ArnInv, ArnFields
<1>10. Ext(a, b)
  BY <1>8, <1>9 DEF Ext
<1>11. o[2] = p
  BY <1>3
<1>12. Adds(a, b, p, len)
  BY <1>7, <1>9, <1>10 DEF Adds
<1> QED BY <1>11, <1>12 DEF b

\* malloc: the new region has the size that is asked for, rounded up.
MallocLen(n) == IF IS_SIZE_HUGE(NonZero(n)) THEN ALIGNUP_PAGE(NonZero(n)) ELSE AlignedSize(NonZero(n))

\* sealloc_malloc: the pointer is to a region that was not in use and holds what is
\* asked for.
LEMMA Malloc ==
  ASSUME BitmapsCoverRuns, NEW a, AInv(a), NEW n \in MallocArgs, n \in Nat, NEW o \in sealloc_malloc(a, n)
  PROVE  MallocLen(n) \in Nat /\ MallocLen(n) >= n /\ Adds(a, o[1], o[2], MallocLen(n))
<1> DEFINE z == NonZero(n)
           l == MallocLen(n)
<1>1. l \in Nat /\ l >= z
  BY RoundingFacts DEF MallocLen
<1>2. z \in Nat /\ z >= n /\ LARGE_SIZE_MAX_REGION \in Nat
  <2>1. SMALL_SIZE_MIN_REGION \in Nat /\ LARGE_SIZE_MAX_REGION \in Nat
    BY ConstantFacts
  <2> HIDE DEF SMALL_SIZE_MIN_REGION
  <2> QED BY <2>1 DEF NonZero
<1>3. CASE IS_SIZE_HUGE(z)
  <2>1. l = ALIGNUP_PAGE(z) /\ o \in arena_allocate_huge_mapping(a, l)
    BY <1>3 DEF MallocLen, sealloc_malloc
  <2> HIDE DEF l, z
  <2>2. l > LARGE_SIZE_MAX_REGION
    BY <1>1, <1>2, <1>3 DEF IS_SIZE_HUGE
  <2>3. Adds(a, o[1], o[2], l)
    BY <2>1, <2>2, <1>1, AllocateHuge
  <2>4. l >= n
    BY <1>1, <1>2
  <2> QED BY <2>3, <2>4, <1>1 DEF l
<1>4. CASE ~IS_SIZE_HUGE(z)
  <2>1. l = AlignedSize(z) /\ o \in AllocateRegion(a, l)
    BY <1>4 DEF MallocLen, sealloc_malloc
  <2>2. AlignedSize(z) \in RegSizes
    BY <1>4 DEF RegSizes
  <2> HIDE DEF l, z
  <2>3. Adds(a, o[1], o[2], l)
    BY <2>1, <2>2, AllocateAny
  <2>4. l >= n
    BY <1>1, <1>2
  <2> QED BY <2>3, <2>4, <1>1 DEF l
<1> QED BY <1>3, <1>4

-----------------------------------------------------------------------------
(***************************************************************************)
(* The arena: the way back from a pointer                                  *)
(***************************************************************************)

\* p lies in the first block of run r of chunk c.
Located(a, p, c, r) ==
  /\ c \in Listed(a.chunks) /\ r \in c.live
  /\ p \in Nat /\ p >= c.key /\ (p - c.key) \div LEAF = r.block

\* A pointer into the first block of a run is mapped for its chunk.
LEMMA LocatedMapped ==
  ASSUME NEW a, AInv(a), NEW p, NEW c, NEW r, Located(a, p, c, r)
  PROVE  /\ p \in StillMapped(c) /\ p \in Span(c.key, CHUNK_SIZE_BYTES)
         /\ p \in Span(KeyOf(c, r), LEAF) /\ p \in Span(KeyOf(c, r), r.len * LEAF)
         /\ c \in ChunkRecs /\ ChunkInv(c)
<1>1. c \in ChunkRecs /\ ChunkInv(c)
  BY AParts, SParts DEF Located
<1>2. /\ c.key \in Nat /\ Kept(c) \subseteq Nat /\ r.block \in Kept(c) /\ r.block \in Nat
      /\ r.len \in Nat /\ r.block \in Span(r.block, r.len)
  BY <1>1, ChunkFacts, BlockFacts DEF Located
<1>3. p \in StillMapped(c)
  BY <1>2, StillMappedIs DEF Located
<1>4. p \in Span(c.key, CHUNK_SIZE_BYTES)
  BY <1>1, <1>3, SomeMapped
<1>5. p \in Span(KeyOf(c, r), r.len * LEAF)
  BY <1>2, BlockOf DEF Located, KeyOf
<1>6. r.block \in Span(r.block, 1) /\ 1 * LEAF = LEAF
  BY <1>2, BlockFacts DEF Span
<1>7. p \in Span(KeyOf(c, r), LEAF)
  BY <1>2, <1>6, BlockOf DEF Located, KeyOf
<1> QED BY <1>1, <1>3, <1>4, <1>5, <1>7

\* A pointer lies in the first block of one run at most, although the ranges of
\* chunks overlap.
LEMMA LocatedUnique ==
  ASSUME NEW a, AInv(a), NEW p, NEW c, NEW r, Located(a, p, c, r),
         NEW d, NEW s, Located(a, p, d, s)
  PROVE  c = d /\ r = s
<1>1. p \in Span(KeyOf(c, r), r.len * LEAF) /\ p \in Span(KeyOf(d, s), s.len * LEAF)
  BY LocatedMapped
<1>2. SInv(Listed(a.chunks), a.runs, a.huges, a.mapped)
  BY AParts
<1>3. c \in Listed(a.chunks) /\ d \in Listed(a.chunks) /\ r \in c.live /\ s \in d.live
  BY DEF Located
<1> QED BY <1>1, <1>2, <1>3, RunUnique

Candidates(a, p) == {n \in Holding(a, p) : RunAt(a.chunks[n], p) # {}}

\* The chunks that locate_metadata_for_ptr stops at have a run at the pointer.
LEMMA CandidateIs ==
  ASSUME NEW a, AInv(a), NEW p \in Nat, NEW n \in Candidates(a, p)
  PROVE  /\ n \in DOMAIN a.chunks
         /\ \E r \in RunAt(a.chunks[n], p) : TRUE
         /\ \A r \in RunAt(a.chunks[n], p) : Located(a, p, a.chunks[n], r)
<1>1. n \in DOMAIN a.chunks /\ p \in Span(a.chunks[n].key, CHUNK_SIZE_BYTES)
  BY DEF Candidates, Holding
<1>2. a.chunks[n] \in Listed(a.chunks) /\ a.chunks[n] \in ChunkRecs
  BY <1>1, AParts, ListedIs
<1>3. a.chunks[n].key \in Nat
  BY <1>2, ConstantFacts DEF ChunkRecs
<1>4. p >= a.chunks[n].key
  <2>1. ASSUME NEW k \in Nat, p \in Span(k, CHUNK_SIZE_BYTES) PROVE p >= k
    BY <2>1, BlockFacts DEF Span, CHUNK_SIZE_BYTES
  <2> QED BY <2>1, <1>1, <1>3
<1> QED BY <1>1, <1>2, <1>4 DEF Candidates, RunAt, Located

\* The metadata that is found: of the run, ...
LEMMA LocateRegular ==
  ASSUME NEW a, AInv(a), NEW p, NEW c, NEW r, Located(a, p, c, r)
  PROVE  locate_metadata_for_ptr(a, p) =
           [type |-> "METADATA_REGULAR", chunk |-> c.key, run |-> KeyOf(c, r)]
<1> DEFINE N == Candidates(a, p)
           n == Min(N)
           d == a.chunks[n]
           s == CHOOSE s \in RunAt(d, p) : TRUE
<1>1. p \in Nat
  BY DEF Located
<1>2. PICK m \in DOMAIN a.chunks : c = a.chunks[m]
  BY DEF Located, Listed
<1>3. m \in N
  <2>1. p \in Span(c.key, CHUNK_SIZE_BYTES)
    BY LocatedMapped
  <2>2. r \in RunAt(c, p)
    BY DEF RunAt, Located
  <2> QED BY <2>1, <2>2, <1>2 DEF Candidates, Holding
<1>4. N \subseteq Nat
  <2>1. N \subseteq DOMAIN a.chunks
    BY DEF Candidates, Holding
  <2> QED BY <2>1, AParts, ListedIs
<1>5. n \in N
  <2> HIDE DEF N
  <2> QED BY <1>3, <1>4, FirstRoom
<1> HIDE DEF n
<1>6. (\E t \in RunAt(d, p) : TRUE) /\ \A t \in RunAt(d, p) : Located(a, p, d, t)
  BY <1>1, <1>5, CandidateIs
<1>7. s \in RunAt(d, p)
  BY <1>6
<1> HIDE DEF s, d
<1>8. Located(a, p, d, s)
  BY <1>6, <1>7
<1>9. d = c /\ s = r
  BY <1>8, LocatedUnique
<1>10. locate_metadata_for_ptr(a, p) =
         [type |-> "METADATA_REGULAR", chunk |-> d.key, run |-> d.key + s.block * LEAF]
  BY <1>3 DEF locate_metadata_for_ptr, LocateIn, Candidates, n, d, s
<1> QED BY <1>9, <1>10 DEF KeyOf

\* ... or of the huge mapping, or none.
LEMMA LocateHuge ==
  ASSUME NEW a, AInv(a), NEW h \in a.huges
  PROVE  locate_metadata_for_ptr(a, h.key) = [type |-> "METADATA_HUGE", huge |-> h]
<1> DEFINE p == h.key
           N == Candidates(a, p)
           K == {g \in a.huges : g.key = p}
<1>1. SInv(Listed(a.chunks), a.runs, a.huges, a.mapped)
  BY AParts
<1>2. p \in Nat /\ \A g \in a.huges : g.key \in Mem(g)
  BY <1>1, SParts
<1>3. N = {}
  <2>1. SUFFICES ASSUME NEW n \in N PROVE FALSE
    OBVIOUS
  <2>2. PICK r \in RunAt(a.chunks[n], p) : Located(a, p, a.chunks[n], r)
    BY <1>2, CandidateIs
  <2>3. p \in StillMapped(a.chunks[n]) /\ a.chunks[n] \in Listed(a.chunks)
    BY <2>2, LocatedMapped DEF Located
  <2>4. p \in Mem(h)
    BY <1>2
  <2> QED BY <2>3, <2>4, <1>1 DEF SInv, MapInv
<1>4. K = {h}
  <2>1. \A g \in a.huges : g # h => Mem(g) \cap Mem(h) = {}
    BY <1>1 DEF SInv, MapInv
  <2> QED BY <2>1, <1>2
<1>5. locate_metadata_for_ptr(a, p) = [type |-> "METADATA_HUGE", huge |-> CHOOSE g \in K : TRUE]
  BY <1>3, <1>4 DEF locate_metadata_for_ptr, LocateIn, Candidates
<1>6. (CHOOSE g \in K : TRUE) = h
  BY <1>4
<1> QED BY <1>5, <1>6

\* locate_metadata_for_ptr finds nothing for a pointer into no first block and to no
\* huge mapping.
LEMMA LocateNothing ==
  ASSUME NEW a, AInv(a), NEW p \in Nat, \A h \in a.huges : h.key # p,
         \A c, r : ~Located(a, p, c, r)
  PROVE  locate_metadata_for_ptr(a, p) = INVALID
<1>1. Candidates(a, p) = {}
  <2>1. SUFFICES ASSUME NEW n \in Candidates(a, p) PROVE FALSE
    OBVIOUS
  <2> QED BY CandidateIs
<1>2. {h \in a.huges : h.key = p} = {}
  OBVIOUS
<1> QED BY <1>1, <1>2 DEF locate_metadata_for_ptr, LocateIn, Candidates

\* run_validate_ptr accepts the regions in use, at their start.
LEMMA ValidIsRegion ==
  ASSUME NEW a, AInv(a), NEW p, NEW c, NEW r, Located(a, p, c, r),
         Validates(a, KeyOf(c, r), p)
  PROVE  LET k == KeyOf(c, r)
             i == (p - k) \div a.runs[k].reg
         IN /\ k \in DOMAIN a.runs /\ i \in a.runs[k].given \ a.runs[k].freed
            /\ p = k + i * a.runs[k].reg
<1> DEFINE k == KeyOf(c, r)
           reg == a.runs[k].reg
           i == (p - k) \div reg
<1>1. SInv(Listed(a.chunks), a.runs, a.huges, a.mapped)
  BY AParts
<1>2. k \in DOMAIN a.runs
  BY <1>1 DEF SInv, RunsInv, Located
<1>3. reg \in RegSizes /\ k \in Nat
  BY <1>1, <1>2, SParts
<1>4. reg \in Nat \ {0}
  BY <1>3, RegFacts
<1>5. p \in Span(k, LEAF)
  BY LocatedMapped
<1>6. (p - k) % reg = 0 /\ i \in a.runs[k].given \ a.runs[k].freed
  BY DEF Validates
<1> HIDE DEF k, reg
<1>7. p - k \in Nat /\ p \in Nat
  BY <1>3, <1>5, BlockFacts DEF Span
<1>8. p - k = i * reg /\ i \in Nat
  BY <1>4, <1>6, <1>7, Lib!DivMul
<1> HIDE DEF i
<1>9. p = k + i * reg
  <2>1. ASSUME NEW v, p - k = v PROVE p = k + v
    BY <2>1, <1>3, <1>7
  <2> QED BY <2>1, <1>8
<1> QED BY <1>2, <1>6, <1>9 DEF i, reg, k

\* run_validate_ptr accepts the start of each region in use.
LEMMA RegionIsValid ==
  ASSUME NEW a, AInv(a), NEW k \in DOMAIN a.runs, NEW i \in a.runs[k].given \ a.runs[k].freed
  PROVE  \E c, r : /\ Located(a, k + i * a.runs[k].reg, c, r) /\ k = KeyOf(c, r)
                   /\ Validates(a, k, k + i * a.runs[k].reg)
<1> DEFINE reg == a.runs[k].reg
           p == k + i * reg
<1>1. SInv(Listed(a.chunks), a.runs, a.huges, a.mapped)
  BY AParts
<1>2. reg \in RegSizes /\ k \in Nat /\ i \in Indices(reg)
  BY <1>1, SParts DEF MetaInv
<1>3. PICK c \in Listed(a.chunks) : \E r \in c.live :
           /\ k = KeyOf(c, r) /\ reg = r.reg
           /\ Span(p, reg) \subseteq Span(KeyOf(c, r), r.len * LEAF)
  BY <1>1, <1>2, RegionAt
<1>4. PICK r \in c.live :
           /\ k = KeyOf(c, r) /\ reg = r.reg
           /\ Span(p, reg) \subseteq Span(KeyOf(c, r), r.len * LEAF)
  BY <1>3
<1>5. /\ p \in Nat /\ reg \in Nat \ {0} /\ i \in Nat /\ p \in Span(p, reg)
  BY <1>2, InRun
<1>6. /\ ElemsOf(reg) \in Nat /\ RunLen(reg) \in Nat /\ (RunLen(reg) = 1 \/ ElemsOf(reg) = 1)
  BY <1>2, RegFacts
<1>7. c \in ChunkRecs /\ ChunkInv(c)
  BY <1>1, SParts
<1>8. c.key \in Nat /\ r.block \in Nat /\ r.len \in Nat /\ r.len = RunLen(r.reg)
  BY <1>7, ChunkFacts
<1>9. /\ k >= c.key /\ (k - c.key) \div LEAF = r.block
  BY <1>4, <1>7, RunMapped
<1> HIDE DEF reg, p
<1>10. p >= c.key /\ (p - c.key) \div LEAF = r.block
  <2>1. CASE RunLen(reg) = 1
    <3>1. p \in Span(c.key + r.block * LEAF, 1 * LEAF)
      BY <2>1, <1>4, <1>5, <1>8 DEF KeyOf
    <3>2. p >= c.key /\ (p - c.key) \div LEAF \in Span(r.block, 1)
      BY <3>1, <1>8, BlockOf
    <3>3. Span(r.block, 1) = {r.block}
      BY <1>8 DEF Span
    <3> QED BY <3>2, <3>3
  <2>2. CASE ElemsOf(reg) = 1
    <3>1. i = 0
      BY <2>2, <1>2 DEF Indices
    <3>2. p = k
      BY <3>1, <1>2, <1>5 DEF p
    <3> QED BY <3>2, <1>9
  <2> QED BY <2>1, <2>2, <1>6
<1>11. Located(a, p, c, r)
  BY <1>10, <1>5 DEF Located
<1>12. (i * reg) \div reg = i /\ (i * reg) % reg = 0
  BY <1>5, Lib!MulDiv
<1>13. p - k = i * reg
  <2>1. ASSUME NEW v \in Int PROVE (k + v) - k = v
    BY <1>2
  <2>2. i * reg \in Int
    BY <1>5
  <2> QED BY <2>1, <2>2 DEF p
<1>14. Validates(a, k, p)
  <2>1. (p - k) % a.runs[k].reg = 0 /\ (p - k) \div a.runs[k].reg = i
    BY <1>12, <1>13 DEF reg
  <2> QED BY <2>1 DEF Validates
<1> QED BY <1>4, <1>11, <1>14 DEF p, reg

\* free and realloc accept the pointers to memory in use.
LEMMA AcceptedIs ==
  ASSUME NEW a, AInv(a), NEW p \in Nat
  PROVE  Accepted(a, p) <=> p \in {g[1] : g \in Regions(a.runs, a.huges)}
<1>1. SInv(Listed(a.chunks), a.runs, a.huges, a.mapped)
  BY AParts
<1>2. \A g : g \in Regions(a.runs, a.huges) <=> InUse(a.runs, g) \/ \E h \in a.huges : g = <<h.key, h.len>>
  BY <1>1, RegionsAre
<1>3. ASSUME NEW h \in a.huges, p = h.key
      PROVE  Accepted(a, p) /\ p \in {g[1] : g \in Regions(a.runs, a.huges)}
  <2>0. locate_metadata_for_ptr(a, h.key) = [type |-> "METADATA_HUGE", huge |-> h]
    BY LocateHuge
  <2>1. locate_metadata_for_ptr(a, p).type = "METADATA_HUGE"
    BY <2>0, <1>3
  <2>2. <<h.key, h.len>> \in Regions(a.runs, a.huges) /\ <<h.key, h.len>>[1] = p
    BY <1>2, <1>3
  <2>3. Accepted(a, p)
    BY <2>1 DEF Accepted
  <2> QED BY <2>2, <2>3
<1>4. ASSUME NEW c, NEW r, Located(a, p, c, r)
      PROVE  Accepted(a, p) <=> Validates(a, KeyOf(c, r), p)
  <2>1. locate_metadata_for_ptr(a, p) =
           [type |-> "METADATA_REGULAR", chunk |-> c.key, run |-> KeyOf(c, r)]
    BY <1>4, LocateRegular
  <2>2. /\ locate_metadata_for_ptr(a, p).type = "METADATA_REGULAR"
        /\ locate_metadata_for_ptr(a, p).run = KeyOf(c, r)
    BY <2>1
  <2> QED BY <2>2 DEF Accepted
<1>5. ASSUME NEW c, NEW r, Located(a, p, c, r), Validates(a, KeyOf(c, r), p)
      PROVE  p \in {g[1] : g \in Regions(a.runs, a.huges)}
  <2> DEFINE k == KeyOf(c, r)
             i == (p - k) \div a.runs[k].reg
  <2>1. /\ k \in DOMAIN a.runs /\ i \in a.runs[k].given \ a.runs[k].freed
        /\ p = k + i * a.runs[k].reg
    BY <1>5, ValidIsRegion
  <2> HIDE DEF k, i
  <2>2. InUse(a.runs, <<p, a.runs[k].reg>>)
    BY <2>1 DEF InUse
  <2>3. <<p, a.runs[k].reg>> \in Regions(a.runs, a.huges) /\ <<p, a.runs[k].reg>>[1] = p
    BY <2>2, <1>2
  <2> QED BY <2>3
<1>6. ASSUME NEW g \in Regions(a.runs, a.huges), p = g[1], InUse(a.runs, g) PROVE Accepted(a, p)
  <2>1. PICK k \in DOMAIN a.runs : \E i \in a.runs[k].given \ a.runs[k].freed :
                 g = <<k + i * a.runs[k].reg, a.runs[k].reg>>
    BY <1>6 DEF InUse
  <2>2. PICK i \in a.runs[k].given \ a.runs[k].freed : g = <<k + i * a.runs[k].reg, a.runs[k].reg>>
    BY <2>1
  <2>3. p = k + i * a.runs[k].reg
    BY <2>2, <1>6
  <2>4. \E c, r : Located(a, p, c, r) /\ k = KeyOf(c, r) /\ Validates(a, k, p)
    BY <2>3, RegionIsValid
  <2> QED BY <2>4, <1>4
<1>7. ASSUME NEW g \in Regions(a.runs, a.huges), p = g[1], ~InUse(a.runs, g) PROVE Accepted(a, p)
  <2>1. PICK h \in a.huges : g = <<h.key, h.len>>
    BY <1>2, <1>7
  <2>2. p = h.key
    BY <2>1, <1>7
  <2> QED BY <2>2, <1>3
<1>8. ASSUME Accepted(a, p) PROVE p \in {g[1] : g \in Regions(a.runs, a.huges)}
  <2>1. CASE \E h \in a.huges : p = h.key
    BY <2>1, <1>3
  <2>2. CASE \E c, r : Located(a, p, c, r)
    BY <2>2, <1>8, <1>4, <1>5
  <2>3. CASE (\A h \in a.huges : h.key # p) /\ \A c, r : ~Located(a, p, c, r)
    <3>1. locate_metadata_for_ptr(a, p) = INVALID
      BY <2>3, LocateNothing
    <3>2. locate_metadata_for_ptr(a, p).type = "METADATA_INVALID"
      BY <3>1 DEF INVALID
    <3> QED BY <3>2, <1>8 DEF Accepted
  <2> QED BY <2>1, <2>2, <2>3
<1> QED BY <1>6, <1>7, <1>8

-----------------------------------------------------------------------------
(***************************************************************************)
(* The arena: free                                                         *)
(***************************************************************************)

\* Region g is no longer in use.
Drops(a, b, g) ==
  AInv(b) /\ Regions(b.runs, b.huges) = Regions(a.runs, a.huges) \ {g}

\* arena_deallocate_huge_mapping
LEMMA DropHuge ==
  ASSUME NEW a, AInv(a), NEW h \in a.huges
  PROVE  Drops(a, arena_deallocate_huge_mapping(a, h), HugeRegion(h))
<1> DEFINE b == arena_deallocate_huge_mapping(a, h)
           H == a.huges \ {h}
           M == a.mapped \ Span(h.key, h.len)
<1>1. b = [a EXCEPT !.huges = H, !.mapped = M]
  BY DEF arena_deallocate_huge_mapping
<1>2. a \in ArenaRecs
  BY DEF AInv
<1> HIDE DEF b
<1>3. b = Arn(a.chunks, a.runs, a.bins, H, M)
  BY <1>1, <1>2, Zenon DEF ArenaRecs, Arn
<1>4. /\ a.chunks \in Seq(ChunkRecs) /\ Once(a.chunks) /\ a.bins \in SUBSET RegSizes
      /\ SInv(Listed(a.chunks), a.runs, a.huges, a.mapped)
  BY AParts
<1>5. /\ SInv(Listed(a.chunks), a.runs, H, M)
      /\ Regions(a.runs, H) = Regions(a.runs, a.huges) \ {HugeRegion(h)}
  <2> DEFINE C == Listed(a.chunks)
             R == a.runs
             G == a.huges
             N == a.mapped
  <2>1. SInv(C, R, G, N) /\ h \in G
    BY <1>4
  <2> HIDE DEF C, R, G, N
  <2>2. SInv(C, R, G \ {h}, N \ Span(h.key, h.len))
    BY <2>1, HugeDelInv
  <2>3. Fewer(R, G, G \ {h}, HugeRegion(h))
    BY <2>1, HugeDelInv
  <2> QED BY <2>2, <2>3 DEF C, R, G, N, Fewer
<1> HIDE DEF H, M
<1>6. AInv(b) /\ b.runs = a.runs /\ b.huges = H
  BY <1>3, <1>4, <1>5, ArnInv, ArnFields
<1> QED BY <1>5, <1>6 DEF Drops, b

\* The chunk and the run that DeallocateRun works on.
LEMMA FindRun ==
  ASSUME NEW a, AInv(a), NEW c \in Listed(a.chunks), NEW r \in c.live
  PROVE  LET n == CHOOSE m \in DOMAIN a.chunks : a.chunks[m].key = c.key
         IN /\ n \in DOMAIN a.chunks /\ a.chunks[n] = c
            /\ (CHOOSE s \in c.live : c.key + s.block * LEAF = KeyOf(c, r)) = r
<1> DEFINE n == CHOOSE m \in DOMAIN a.chunks : a.chunks[m].key = c.key
           s == CHOOSE s \in c.live : c.key + s.block * LEAF = KeyOf(c, r)
<1>1. SInv(Listed(a.chunks), a.runs, a.huges, a.mapped)
  BY AParts
<1>2. \E m \in DOMAIN a.chunks : a.chunks[m].key = c.key
  BY DEF Listed
<1>3. n \in DOMAIN a.chunks /\ a.chunks[n].key = c.key
  BY <1>2
<1> HIDE DEF n
<1>4. a.chunks[n] = c
  <2>1. a.chunks[n] \in Listed(a.chunks)
    BY <1>3 DEF Listed
  <2> QED BY <2>1, <1>1, <1>3 DEF SInv
<1>5. \E t \in c.live : c.key + t.block * LEAF = KeyOf(c, r)
  BY DEF KeyOf
<1>6. s \in c.live /\ KeyOf(c, s) = KeyOf(c, r)
  BY <1>5 DEF KeyOf
<1> HIDE DEF s
<1>7. c \in ChunkRecs /\ ChunkInv(c)
  BY <1>1, SParts
<1>8. KeyOf(c, r) \in Span(KeyOf(c, r), r.len * LEAF) /\ KeyOf(c, s) \in Span(KeyOf(c, s), s.len * LEAF)
  BY <1>6, <1>7, RunMapped
<1>9. s = r
  BY <1>1, <1>6, <1>8, RunUnique
<1> QED BY <1>3, <1>4, <1>9 DEF n, s

AfterDrop(q, n, d) ==
  IF d.live = {} /\ d.taken = Blocks
  THEN SubSeq(q, 1, n - 1) \o SubSeq(q, n + 1, Len(q)) ELSE [q EXCEPT ![n] = d]

\* chunk_deallocate_run and arena_deallocate_chunk, for the list of the chunks.
LEMMA DropRun ==
  ASSUME NEW a, AInv(a), NEW c \in Listed(a.chunks), NEW r \in c.live
  PROVE  LET b == DeallocateRun(a, c.key, KeyOf(c, r))
         IN AInv(b) /\ b.runs = WithoutMeta(a.runs, KeyOf(c, r)) /\ b.huges = a.huges
<1> DEFINE k == KeyOf(c, r)
           b == DeallocateRun(a, c.key, k)
           n == CHOOSE m \in DOMAIN a.chunks : a.chunks[m].key = c.key
           s == CHOOSE s \in c.live : c.key + s.block * LEAF = k
           d == [c EXCEPT !.live = c.live \ {s}]
           q == AfterDrop(a.chunks, n, d)
           T == WithoutMeta(a.runs, k)
           M == a.mapped \ Span(k, r.len * LEAF)
           L == Listed(a.chunks)
<1>1. n \in DOMAIN a.chunks /\ a.chunks[n] = c /\ s = r
  BY FindRun
<1>2. b = [a EXCEPT !.runs = T, !.mapped = M, !.chunks = q]
  <2> DEFINE e == a.chunks[n]
             t == CHOOSE t \in e.live : c.key + t.block * LEAF = k
  <2>1. b = [a EXCEPT !.runs = T, !.mapped = a.mapped \ Span(k, t.len * LEAF),
                      !.chunks = AfterDrop(a.chunks, n, [e EXCEPT !.live = e.live \ {t}])]
    BY Zenon DEF DeallocateRun, WithoutMeta, AfterDrop
  <2>2. e = c
    BY <1>1
  <2>3. t = s
    BY <2>2, Zenon
  <2>4. t = r
    BY <2>3, <1>1
  <2>5. [e EXCEPT !.live = e.live \ {t}] = d
    BY <2>2, <2>3, Zenon
  <2> HIDE DEF b, d, T, n, e, t
  <2> QED BY <2>1, <2>4, <2>5, Zenon
<1>3. a \in ArenaRecs
  BY DEF AInv
<1> HIDE DEF b, n, s, q, T, M
<1>4. b = Arn(q, T, a.bins, a.huges, M)
  BY <1>2, <1>3, Zenon DEF ArenaRecs, Arn
<1>5. /\ a.chunks \in Seq(ChunkRecs) /\ Once(a.chunks) /\ a.bins \in SUBSET RegSizes
      /\ SInv(L, a.runs, a.huges, a.mapped)
  BY AParts
<1>6. c \in ChunkRecs
  BY <1>5, SParts
<1>7. d = WithoutRun(c, r)
  <2>1. ASSUME NEW f \in ChunkRecs, NEW l, NEW u, u = [f EXCEPT !.live = l]
        PROVE  u = [key |-> f.key, live |-> l, taken |-> f.taken]
    BY <2>1, Zenon DEF ChunkRecs
  <2> QED BY <2>1, <1>1, <1>6, Zenon DEF WithoutRun
<1> HIDE DEF d
<1>8. d.key = c.key /\ d.live = c.live \ {r} /\ d.taken = c.taken /\ d \in ChunkRecs
  BY <1>6, <1>7 DEF WithoutRun, ChunkRecs
<1>9. q \in Seq(ChunkRecs) /\ Once(q) /\ Listed(q) = (L \ {c}) \cup LeftOf(c, r)
  <2>1. CASE UsedUp(d)
    <3>1. q = SubSeq(a.chunks, 1, n - 1) \o SubSeq(a.chunks, n + 1, Len(a.chunks)) /\ LeftOf(c, r) = {}
      BY <2>1, <1>7 DEF q, AfterDrop, UsedUp, LeftOf
    <3> QED BY <3>1, <1>1, <1>5, Delete
  <2>2. CASE ~UsedUp(d)
    <3>1. q = [a.chunks EXCEPT ![n] = d] /\ LeftOf(c, r) = {d}
      BY <2>2, <1>7 DEF q, AfterDrop, UsedUp, LeftOf
    <3>2. d \notin L \ {a.chunks[n]}
      <4>1. \A e \in L : e.key = c.key => e = c
        BY <1>5 DEF SInv
      <4> QED BY <4>1, <1>8, <1>1
    <3> HIDE DEF L
    <3>3. d \notin Listed(a.chunks) \ {a.chunks[n]}
      BY <3>2 DEF L
    <3>4. /\ [a.chunks EXCEPT ![n] = d] \in Seq(ChunkRecs) /\ Once([a.chunks EXCEPT ![n] = d])
          /\ Listed([a.chunks EXCEPT ![n] = d]) = (Listed(a.chunks) \ {a.chunks[n]}) \cup {d}
      BY <3>3, <1>1, <1>5, <1>8, Replace
    <3> QED BY <3>1, <3>4, <1>1 DEF L
  <2> QED BY <2>1, <2>2
<1>10. SInv((L \ {c}) \cup LeftOf(c, r), T, a.huges, M)
  BY <1>5, DropRunInv DEF T, M
<1> HIDE DEF L
<1>11. AInv(b) /\ b.runs = T /\ b.huges = a.huges
  <2>1. SInv(Listed(q), T, a.huges, M)
    BY <1>9, <1>10
  <2>2. AInv(Arn(q, T, a.bins, a.huges, M))
    BY <2>1, <1>5, <1>9, ArnInv
  <2> QED BY <2>2, <1>4, ArnFields
<1> QED BY <1>11 DEF b, T

\* sealloc_free_with_metadata, for the metadata of the run of region i.
LEMMA FreeRegion ==
  ASSUME NEW a, AInv(a), NEW c \in Listed(a.chunks), NEW r \in c.live,
         NEW i \in a.runs[KeyOf(c, r)].given \ a.runs[KeyOf(c, r)].freed,
         NEW m, m.chunk = c.key, m.run = KeyOf(c, r),
         NEW p, (p - KeyOf(c, r)) \div a.runs[KeyOf(c, r)].reg = i
  PROVE  Drops(a, sealloc_free_with_metadata(a, m, p), Region(a.runs, KeyOf(c, r), i))
<1> DEFINE k == KeyOf(c, r)
           reg == a.runs[k].reg
           F == a.runs[k].freed \cup {i}
           b == sealloc_free_with_metadata(a, m, p)
<1>1. /\ a.chunks \in Seq(ChunkRecs) /\ Once(a.chunks) /\ a.bins \in SUBSET RegSizes
      /\ SInv(Listed(a.chunks), a.runs, a.huges, a.mapped)
  BY AParts
<1>2. k \in DOMAIN a.runs
  BY <1>1 DEF SInv, RunsInv
<1>3. a.runs[k] \in RunMeta /\ reg \in RegSizes /\ MetaInv(a.runs[k])
  BY <1>1, <1>2, SParts
<1>4. F \subseteq Indices(reg)
  BY <1>3 DEF MetaInv
<1>5. IsFiniteSet(Indices(reg)) /\ Cardinality(Indices(reg)) = ElemsOf(reg)
  <2>1. ElemsOf(reg) \in Nat \ {0}
    BY <1>3, RegFacts
  <2>2. ASSUME NEW e \in Nat \ {0} PROVE IsFiniteSet(0 .. e - 1) /\ Cardinality(0 .. e - 1) = e
    <3> DEFINE f == e - 1
    <3>1. f \in Int /\ ~(0 > f) /\ f - 0 + 1 = e
      OBVIOUS
    <3> HIDE DEF f
    <3>2. IsFiniteSet(0 .. f) /\ Cardinality(0 .. f) = IF 0 > f THEN 0 ELSE f - 0 + 1
      BY <3>1, FS_Interval
    <3>3. IsFiniteSet(0 .. f) /\ Cardinality(0 .. f) = e
      BY <3>1, <3>2
    <3> QED BY <3>3 DEF f
  <2> QED BY <2>1, <2>2 DEF Indices
<1>6. Cardinality(F) = ElemsOf(reg) <=> F = Indices(reg)
  BY <1>4, <1>5, FS_Subset
<1>7. b = IF Cardinality(F) = ElemsOf(reg)
          THEN DeallocateRun(a, c.key, k) ELSE [a EXCEPT !.runs[k].freed = F]
  BY DEF sealloc_free_with_metadata
<1>8. CASE F = Indices(reg)
  <2>1. b = DeallocateRun(a, c.key, k)
    BY <1>6, <1>7, <1>8
  <2>2. AInv(b) /\ b.runs = WithoutMeta(a.runs, k) /\ b.huges = a.huges
    BY <2>1, DropRun
  <2>3. Regions(WithoutMeta(a.runs, k), a.huges) = Regions(a.runs, a.huges) \ {Region(a.runs, k, i)}
    BY <1>1, <1>2, <1>8, DropRunRegions
  <2> HIDE DEF b, k
  <2>4. Drops(a, b, Region(a.runs, k, i))
    BY <2>2, <2>3 DEF Drops
  <2> QED BY <2>4 DEF b, k
<1>9. CASE F # Indices(reg)
  <2> DEFINE T == Marks(a.runs, k, i)
             u == [a.runs[k] EXCEPT !.freed = F]
  <2>1. b = [a EXCEPT !.runs[k].freed = F]
    BY <1>6, <1>7, <1>9
  <2>2. a \in ArenaRecs
    BY DEF AInv
  <2>3. u = [reg |-> a.runs[k].reg, given |-> a.runs[k].given, freed |-> F]
    <3>1. ASSUME NEW f \in RunMeta, NEW g, NEW v, v = [f EXCEPT !.freed = g]
          PROVE  v = [reg |-> f.reg, given |-> f.given, freed |-> g]
      BY <3>1, Zenon DEF RunMeta
    <3> QED BY <3>1, <1>3, Zenon
  <2>4. T = [a.runs EXCEPT ![k] = u]
    BY <2>3, Zenon DEF Marks
  <2>5. b = [a EXCEPT !.runs = [a.runs EXCEPT ![k] = u]]
    BY <2>1
  <2> HIDE DEF b, u, k
  <2>6. b = Arn(a.chunks, T, a.bins, a.huges, a.mapped)
    BY <2>2, <2>4, <2>5, Zenon DEF ArenaRecs, Arn
  <2>7. /\ SInv(Listed(a.chunks), T, a.huges, a.mapped)
        /\ Regions(T, a.huges) = Regions(a.runs, a.huges) \ {Region(a.runs, k, i)}
    <3>1. i \in a.runs[k].given \ a.runs[k].freed
      BY DEF k
    <3> QED BY <3>1, <1>1, <1>2, <1>9, MarkInv
  <2> HIDE DEF T
  <2>8. AInv(b) /\ b.runs = T /\ b.huges = a.huges
    BY <1>1, <2>6, <2>7, ArnInv, ArnFields
  <2>9. Drops(a, b, Region(a.runs, k, i))
    BY <2>7, <2>8 DEF Drops
  <2> QED BY <2>9 DEF b, k
<1> QED BY <1>8, <1>9

\* What an accepted pointer points to, and the metadata that is found for it.
IsRegular(a, p, m, c, r, i) ==
  /\ c \in Listed(a.chunks) /\ r \in c.live /\ KeyOf(c, r) \in DOMAIN a.runs
  /\ i \in a.runs[KeyOf(c, r)].given \ a.runs[KeyOf(c, r)].freed
  /\ m.chunk = c.key /\ m.run = KeyOf(c, r)
  /\ i = (p - KeyOf(c, r)) \div a.runs[KeyOf(c, r)].reg
  /\ p = KeyOf(c, r) + i * a.runs[KeyOf(c, r)].reg

\* An accepted pointer is to a huge mapping or to a region, for which the metadata is
\* right.
LEMMA AcceptedCases ==
  ASSUME NEW a, AInv(a), NEW p \in Nat, Accepted(a, p)
  PROVE  LET m == locate_metadata_for_ptr(a, p)
         IN \/ \E h \in a.huges : p = h.key /\ m.type = "METADATA_HUGE" /\ m.huge = h
            \/ m.type = "METADATA_REGULAR" /\ \E c, r, i : IsRegular(a, p, m, c, r, i)
<1> DEFINE m == locate_metadata_for_ptr(a, p)
<1>1. ASSUME NEW h \in a.huges, p = h.key PROVE m.type = "METADATA_HUGE" /\ m.huge = h
  <2>1. locate_metadata_for_ptr(a, h.key) = [type |-> "METADATA_HUGE", huge |-> h]
    BY LocateHuge
  <2>2. m = [type |-> "METADATA_HUGE", huge |-> h]
    BY <2>1, <1>1
  <2> HIDE DEF m
  <2> QED BY <2>2
<1>2. ASSUME NEW c, NEW r, Located(a, p, c, r)
      PROVE  m.type = "METADATA_REGULAR" /\ \E i : IsRegular(a, p, m, c, r, i)
  <2>1. m = [type |-> "METADATA_REGULAR", chunk |-> c.key, run |-> KeyOf(c, r)]
    BY <1>2, LocateRegular
  <2>2. m.type = "METADATA_REGULAR" /\ m.chunk = c.key /\ m.run = KeyOf(c, r)
    BY <2>1
  <2>3. Validates(a, KeyOf(c, r), p)
    BY <2>2 DEF Accepted
  <2>4. c \in Listed(a.chunks) /\ r \in c.live
    BY <1>2 DEF Located
  <2> HIDE DEF m
  <2> DEFINE k == KeyOf(c, r)
             i == (p - k) \div a.runs[k].reg
  <2>5. /\ k \in DOMAIN a.runs /\ i \in a.runs[k].given \ a.runs[k].freed
        /\ p = k + i * a.runs[k].reg
    BY <1>2, <2>3, ValidIsRegion
  <2>6. IsRegular(a, p, m, c, r, i)
    BY <2>2, <2>4, <2>5, Zenon DEF IsRegular
  <2> QED BY <2>2, <2>6
<1>3. ASSUME \A h \in a.huges : h.key # p, \A c, r : ~Located(a, p, c, r) PROVE FALSE
  <2>1. m = INVALID
    BY <1>3, LocateNothing
  <2>2. m.type = "METADATA_INVALID"
    BY <2>1 DEF INVALID
  <2> QED BY <2>2 DEF Accepted
<1> QED BY <1>1, <1>2, <1>3

\* The region at p is no longer in use.
DropsAt(a, b, p) == \E g \in Regions(a.runs, a.huges) : g[1] = p /\ Drops(a, b, g)

\* The region of a pointer is in use, and sealloc_free_with_metadata drops it.
LEMMA RegularRegion ==
  ASSUME NEW a, AInv(a), NEW p, NEW m, NEW c, NEW r, NEW i, IsRegular(a, p, m, c, r, i)
  PROVE  /\ Region(a.runs, KeyOf(c, r), i) \in Regions(a.runs, a.huges)
         /\ Region(a.runs, KeyOf(c, r), i) = <<p, a.runs[m.run].reg>>
         /\ Drops(a, sealloc_free_with_metadata(a, m, p), Region(a.runs, KeyOf(c, r), i))
<1> DEFINE k == KeyOf(c, r)
<1>1. /\ c \in Listed(a.chunks) /\ r \in c.live /\ k \in DOMAIN a.runs
      /\ i \in a.runs[k].given \ a.runs[k].freed
      /\ m.chunk = c.key /\ m.run = k /\ i = (p - k) \div a.runs[k].reg
      /\ p = k + i * a.runs[k].reg
  BY DEF IsRegular
<1>2. SInv(Listed(a.chunks), a.runs, a.huges, a.mapped)
  BY AParts
<1>3. i \in Indices(a.runs[k].reg)
  BY <1>1, <1>2, SParts DEF MetaInv
<1>4. Region(a.runs, k, i) \in Regions(a.runs, a.huges)
  BY <1>1, <1>2, <1>3, RegionOf
<1>5. Region(a.runs, k, i) = <<p, a.runs[m.run].reg>>
  BY <1>1 DEF Region
<1>6. Drops(a, sealloc_free_with_metadata(a, m, p), Region(a.runs, k, i))
  BY <1>1, FreeRegion
<1> QED BY <1>4, <1>5, <1>6

\* A huge mapping is a region in use.
LEMMA HugeRegionOf ==
  ASSUME NEW a, AInv(a), NEW h \in a.huges
  PROVE  /\ HugeRegion(h) \in Regions(a.runs, a.huges)
         /\ HugeRegion(h)[1] = h.key /\ HugeRegion(h)[2] = h.len
BY AParts, HugeDelInv DEF HugeRegion

\* sealloc_free drops the region at the pointer, and no other.
LEMMA Free ==
  ASSUME NEW a, AInv(a), NEW p \in Nat, Accepted(a, p)
  PROVE  DropsAt(a, sealloc_free(a, p), p)
<1> DEFINE m == locate_metadata_for_ptr(a, p)
<1>1. CASE \E h \in a.huges : p = h.key /\ m.type = "METADATA_HUGE" /\ m.huge = h
  <2>1. PICK h \in a.huges : p = h.key /\ m.type = "METADATA_HUGE" /\ m.huge = h
    BY <1>1
  <2>2. sealloc_free(a, p) = arena_deallocate_huge_mapping(a, h)
    BY <2>1 DEF sealloc_free
  <2>3. Drops(a, sealloc_free(a, p), HugeRegion(h))
    BY <2>2, DropHuge
  <2>4. HugeRegion(h) \in Regions(a.runs, a.huges) /\ HugeRegion(h)[1] = p
    BY <2>1, HugeRegionOf
  <2> QED BY <2>3, <2>4 DEF DropsAt
<1>2. CASE m.type = "METADATA_REGULAR" /\ \E c, r, i : IsRegular(a, p, m, c, r, i)
  <2>1. PICK c, r, i : IsRegular(a, p, m, c, r, i)
    BY <1>2
  <2>2. sealloc_free(a, p) = sealloc_free_with_metadata(a, m, p)
    BY <1>2 DEF sealloc_free
  <2> DEFINE g == Region(a.runs, KeyOf(c, r), i)
  <2>3. g \in Regions(a.runs, a.huges) /\ g = <<p, a.runs[m.run].reg>>
        /\ Drops(a, sealloc_free(a, p), g)
    BY <2>1, <2>2, RegularRegion
  <2>4. g[1] = p
    BY <2>3
  <2> HIDE DEF g
  <2> QED BY <2>3, <2>4 DEF DropsAt
<1> QED BY <1>1, <1>2, AcceptedCases

-----------------------------------------------------------------------------
(***************************************************************************)
(* The arena: realloc                                                      *)
(***************************************************************************)

\* A new region shares nothing with the regions in use.
Apart(G, p, len) ==
  /\ p \in Nat \ {0} /\ len \in Nat \ {0}
  /\ \A g \in G : g[1] # p /\ Span(g[1], g[2]) \cap Span(p, len) = {}

\* Memory that malloc returns overlaps no memory in use.
LEMMA AddsApart ==
  ASSUME NEW a, NEW b, NEW p, NEW len, Adds(a, b, p, len)
  PROVE  Apart(Regions(a.runs, a.huges), p, len)
<1> DEFINE G == Regions(a.runs, a.huges)
           K == Regions(b.runs, b.huges)
           n == <<p, len>>
<1>1. SInv(Listed(b.chunks), b.runs, b.huges, b.mapped)
  BY AParts DEF Adds
<1>2. K = G \cup {n} /\ n \notin G /\ n[1] = p /\ n[2] = len
  BY DEF Adds
<1>3. ASSUME NEW g \in K
      PROVE  /\ g[1] \in Nat \ {0} /\ g[2] \in Nat \ {0} /\ g[1] \in Span(g[1], g[2])
             /\ \A f \in K : f # g => Span(f[1], f[2]) \cap Span(g[1], g[2]) = {}
  BY <1>1, RegionsDisjoint
<1> HIDE DEF G, K, n
<1>4. n \in K /\ p \in Nat \ {0} /\ len \in Nat \ {0} /\ p \in Span(p, len)
  BY <1>2, <1>3
<1>5. ASSUME NEW g \in G PROVE g[1] # p /\ Span(g[1], g[2]) \cap Span(p, len) = {}
  <2>1. g \in K /\ g # n
    BY <1>2
  <2>2. Span(g[1], g[2]) \cap Span(p, len) = {} /\ g[1] \in Span(g[1], g[2])
    BY <2>1, <1>2, <1>3, <1>4
  <2> QED BY <2>2, <1>4
<1> QED BY <1>4, <1>5 DEF Apart, G

\* A new region and then an old one less.
Swaps(a, b, g, p, len) ==
  /\ AInv(b) /\ Apart(Regions(a.runs, a.huges), p, len)
  /\ g \in Regions(a.runs, a.huges)
  /\ Regions(b.runs, b.huges) = (Regions(a.runs, a.huges) \ {g}) \cup {<<p, len>>}

\* What realloc does: the new region never overlaps the old one.
LEMMA AddThenDrop ==
  ASSUME NEW a, NEW b, NEW d, NEW p, NEW len, Adds(a, b, p, len),
         NEW g \in Regions(a.runs, a.huges), Drops(b, d, g)
  PROVE  Swaps(a, d, g, p, len)
<1>1. Apart(Regions(a.runs, a.huges), p, len)
  BY AddsApart
<1>2. g # <<p, len>>
  BY DEF Adds
<1> QED BY <1>1, <1>2 DEF Swaps, Adds, Drops

\* The metadata that was located before an allocation still is right after it.
LEMMA RegularStays ==
  ASSUME NEW a, NEW b, NEW p, NEW m, NEW c, NEW r, NEW i,
         IsRegular(a, p, m, c, r, i), Ext(a, b)
  PROVE  \E d : IsRegular(b, p, m, d, r, i) /\ KeyOf(d, r) = KeyOf(c, r)
<1> DEFINE k == KeyOf(c, r)
<1>1. /\ c \in Listed(a.chunks) /\ r \in c.live /\ k \in DOMAIN a.runs
      /\ i \in a.runs[k].given \ a.runs[k].freed
      /\ m.chunk = c.key /\ m.run = k /\ i = (p - k) \div a.runs[k].reg
      /\ p = k + i * a.runs[k].reg
  BY DEF IsRegular
<1>2. PICK d \in Listed(b.chunks) : d.key = c.key /\ c.live \subseteq d.live
  BY <1>1 DEF Ext
<1>3. KeyOf(d, r) = k
  BY <1>2 DEF KeyOf
<1> HIDE DEF k
<1>4. /\ k \in DOMAIN b.runs /\ b.runs[k].reg = a.runs[k].reg
      /\ i \in b.runs[k].given \ b.runs[k].freed
  BY <1>1 DEF Ext
<1>5. IsRegular(b, p, m, d, r, i)
  BY <1>1, <1>2, <1>3, <1>4 DEF IsRegular
<1> QED BY <1>3, <1>5 DEF k

\* An allocation, and then sealloc_free_with_metadata with the metadata located
\* before it.
LEMMA FreeAfter ==
  ASSUME NEW a, AInv(a), NEW p, NEW m, NEW c, NEW r, NEW i, IsRegular(a, p, m, c, r, i),
         NEW b, NEW q, NEW len, Adds(a, b, q, len)
  PROVE  Swaps(a, sealloc_free_with_metadata(b, m, p), <<p, a.runs[m.run].reg>>, q, len)
<1> DEFINE g == <<p, a.runs[m.run].reg>>
           e == sealloc_free_with_metadata(b, m, p)
<1>1. g \in Regions(a.runs, a.huges)
  BY RegularRegion
<1>2. AInv(b) /\ Ext(a, b)
  BY DEF Adds
<1>3. PICK d : IsRegular(b, p, m, d, r, i) /\ KeyOf(d, r) = KeyOf(c, r)
  BY <1>2, RegularStays
<1>4. Drops(b, e, Region(b.runs, KeyOf(d, r), i))
      /\ Region(b.runs, KeyOf(d, r), i) = <<p, b.runs[m.run].reg>>
  BY <1>2, <1>3, RegularRegion
<1>5. b.runs[m.run].reg = a.runs[m.run].reg
  BY <1>2 DEF IsRegular, Ext
<1>6. Drops(b, e, g)
  BY <1>4, <1>5
<1> HIDE DEF g, e
<1> QED BY <1>1, <1>6, AddThenDrop DEF g, e

\* An allocation, and then arena_deallocate_huge_mapping of a mapping found before
\* it.
LEMMA HugeAfter ==
  ASSUME NEW a, AInv(a), NEW h \in a.huges, NEW b, NEW q, NEW len, Adds(a, b, q, len)
  PROVE  Swaps(a, arena_deallocate_huge_mapping(b, h), HugeRegion(h), q, len)
<1>1. HugeRegion(h) \in Regions(a.runs, a.huges)
  BY HugeRegionOf
<1>2. AInv(b) /\ h \in b.huges
  BY DEF Adds, Ext
<1>3. Drops(b, arena_deallocate_huge_mapping(b, h), HugeRegion(h))
  BY <1>2, DropHuge
<1> QED BY <1>1, <1>3, AddThenDrop

\* arena_reallocate_huge_mapping keeps the node of the list and changes its key and
\* length, which comes to adding the one mapping and then dropping the other.
LEMMA HugeToHuge ==
  ASSUME NEW a, AInv(a), NEW h \in a.huges, NEW len \in Nat, len > LARGE_SIZE_MAX_REGION,
         NEW p \in Mappable(a, len), NEW e
  PROVE  e = [arena_deallocate_huge_mapping(a, h) EXCEPT
                !.huges = @ \cup {[key |-> p, len |-> len]}, !.mapped = @ \cup Span(p, len)]
           => Swaps(a, e, HugeRegion(h), p, len)
<1>0. SUFFICES ASSUME e = [arena_deallocate_huge_mapping(a, h) EXCEPT
                             !.huges = @ \cup {[key |-> p, len |-> len]},
                             !.mapped = @ \cup Span(p, len)]
               PROVE  Swaps(a, e, HugeRegion(h), p, len)
  OBVIOUS
<1> DEFINE S == Span(h.key, h.len)
           T == Span(p, len)
           n == Huge(p, len)
           b == [a EXCEPT !.huges = a.huges \cup {[key |-> p, len |-> len]},
                          !.mapped = a.mapped \cup Span(p, len)]
           d == arena_deallocate_huge_mapping(a, h)
           f == arena_deallocate_huge_mapping(b, h)
<1>1. a \in ArenaRecs /\ SInv(Listed(a.chunks), a.runs, a.huges, a.mapped)
  BY AParts DEF AInv
<1>2. <<b, p>> \in arena_allocate_huge_mapping(a, len)
  BY DEF arena_allocate_huge_mapping
<1>3. b = Arn(a.chunks, a.runs, a.bins, a.huges \cup {n}, a.mapped \cup T)
  <2>1. ASSUME NEW v, v = b PROVE v = Arn(a.chunks, a.runs, a.bins, a.huges \cup {n}, a.mapped \cup T)
    BY <2>1, <1>1, Zenon DEF ArenaRecs, Arn, Huge
  <2> QED BY <2>1
<1> HIDE DEF b
<1>4. Adds(a, b, p, len)
  <2>1. ASSUME NEW o \in arena_allocate_huge_mapping(a, len), o = <<b, p>> PROVE Adds(a, b, p, len)
    <3>1. Adds(a, o[1], o[2], len)
      BY AllocateHuge
    <3> QED BY <2>1, <3>1
  <2> QED BY <2>1, <1>2
<1>5. Swaps(a, f, HugeRegion(h), p, len)
  BY <1>4, HugeAfter
<1>6. b \in ArenaRecs
  BY <1>4 DEF Adds, AInv
<1>7. f = Arn(a.chunks, a.runs, a.bins, (a.huges \cup {n}) \ {h}, (a.mapped \cup T) \ S)
  <2>1. ASSUME NEW v, v = f PROVE v = Arn(b.chunks, b.runs, b.bins, b.huges \ {h}, b.mapped \ S)
    BY <2>1, <1>6, Zenon DEF ArenaRecs, Arn, arena_deallocate_huge_mapping
  <2>2. f = Arn(b.chunks, b.runs, b.bins, b.huges \ {h}, b.mapped \ S)
    BY <2>1
  <2>3. /\ b.chunks = a.chunks /\ b.runs = a.runs /\ b.bins = a.bins
        /\ b.huges = a.huges \cup {n} /\ b.mapped = a.mapped \cup T
    BY <1>3, ArnFields
  <2> QED BY <2>2, <2>3
<1>8. d = Arn(a.chunks, a.runs, a.bins, a.huges \ {h}, a.mapped \ S)
  <2>1. ASSUME NEW v, v = d PROVE v = Arn(a.chunks, a.runs, a.bins, a.huges \ {h}, a.mapped \ S)
    BY <2>1, <1>1, Zenon DEF ArenaRecs, Arn, arena_deallocate_huge_mapping
  <2> QED BY <2>1
<1>9. d \in ArenaRecs
  BY DropHuge DEF Drops, AInv
<1>10. e = [d EXCEPT !.huges = d.huges \cup {[key |-> p, len |-> len]}, !.mapped = d.mapped \cup T]
  BY <1>0
<1> HIDE DEF d
<1>11. e = Arn(d.chunks, d.runs, d.bins, d.huges \cup {n}, d.mapped \cup T)
  BY <1>9, <1>10, Zenon DEF ArenaRecs, Arn, Huge
<1>12. e = Arn(a.chunks, a.runs, a.bins, (a.huges \ {h}) \cup {n}, (a.mapped \ S) \cup T)
  <2>1. /\ d.chunks = a.chunks /\ d.runs = a.runs /\ d.bins = a.bins
        /\ d.huges = a.huges \ {h} /\ d.mapped = a.mapped \ S
    BY <1>8, ArnFields
  <2> QED BY <1>11, <2>1
<1>13. (a.huges \ {h}) \cup {n} = (a.huges \cup {n}) \ {h}
  <2>1. h.key # p
    <3>1. HugeRegion(h) \in Regions(a.runs, a.huges) /\ HugeRegion(h)[1] = h.key
      BY HugeRegionOf
    <3>2. Apart(Regions(a.runs, a.huges), p, len)
      BY <1>4, AddsApart
    <3> QED BY <3>1, <3>2 DEF Apart
  <2>2. n.key = p
    BY DEF Huge
  <2> QED BY <2>1, <2>2
<1>14. (a.mapped \ S) \cup T = (a.mapped \cup T) \ S
  <2>1. T \cap a.mapped = {}
    BY DEF Mappable
  <2>2. S \subseteq a.mapped
    BY <1>1, SParts DEF SInv, MapInv, Mem
  <2> HIDE DEF S, T
  <2> QED BY <2>1, <2>2
<1>15. e = f
  BY <1>7, <1>12, <1>13, <1>14
<1> HIDE DEF f
<1> QED BY <1>5, <1>15

\* What was copied: no more than either region holds, and all of the old region or as
\* much as was asked for.
Copies(o, g, n) ==
  /\ {o.n, o.from, o.to} \subseteq Nat /\ o.from = g[2] /\ o.to >= n
  /\ o.n <= o.from /\ o.n <= o.to /\ (o.n >= g[2] \/ o.n >= n)
Moves(a, o, p, n) ==
  \E g : g[1] = p /\ Swaps(a, o.arena, g, o.ptr, o.to) /\ Copies(o, g, n)

\* realloc of a region, to a region or to a huge mapping.
LEMMA ReallocRegular ==
  ASSUME BitmapsCoverRuns, NEW a, AInv(a), NEW p, NEW m, NEW c, NEW r, NEW i, IsRegular(a, p, m, c, r, i),
         NEW n \in ReallocSizes, NEW o \in realloc_regular(a, m, p, n)
  PROVE  Moves(a, o, p, n)
<1> DEFINE old == a.runs[m.run].reg
           g == <<p, old>>
<1>1. g[1] = p /\ g[2] = old
  OBVIOUS
<1>2. old \in RegSizes
  BY AParts, SParts DEF IsRegular
<1>3. old \in Nat /\ old <= LARGE_SIZE_MAX_REGION /\ LARGE_SIZE_MAX_REGION \in Nat /\ n \in Nat
  BY <1>2, RunsFacts, ConstantFacts
<1>4. ASSUME NEW q, NEW len \in Nat, NEW t \in Nat, t <= old, t <= len, len >= n, t >= old \/ t >= n,
             NEW b, Adds(a, b, q, len),
             o = [arena |-> sealloc_free_with_metadata(b, m, p), ptr |-> q, n |-> t,
                  from |-> old, to |-> len]
      PROVE  Moves(a, o, p, n)
  <2>1. Swaps(a, sealloc_free_with_metadata(b, m, p), g, q, len)
    BY <1>4, FreeAfter
  <2> HIDE DEF old, g
  <2>2. /\ o.arena = sealloc_free_with_metadata(b, m, p) /\ o.ptr = q /\ o.n = t
        /\ o.from = old /\ o.to = len
    BY <1>4
  <2>3. Copies(o, g, n)
    BY <2>2, <1>1, <1>3, <1>4 DEF Copies
  <2> QED BY <2>1, <2>2, <2>3, <1>1 DEF Moves
<1>5. CASE IS_SIZE_HUGE(n)
  <2> DEFINE len == ALIGNUP_PAGE(n)
  <2>1. len \in Nat /\ len >= n
    BY RoundingFacts
  <2>2. PICK s \in arena_allocate_huge_mapping(a, len) :
          o = [arena |-> sealloc_free_with_metadata(s[1], m, p), ptr |-> s[2], n |-> old,
               from |-> old, to |-> len]
    BY <1>5 DEF realloc_regular
  <2> HIDE DEF len
  <2>3. len > LARGE_SIZE_MAX_REGION
    BY <2>1, <1>3, <1>5 DEF IS_SIZE_HUGE
  <2>4. Adds(a, s[1], s[2], len)
    BY <2>1, <2>3, AllocateHuge
  <2>5. old <= len /\ old <= old
    BY <2>1, <2>3, <1>3
  <2> QED BY <1>3, <1>4, <2>1, <2>2, <2>4, <2>5
<1>6. CASE ~IS_SIZE_HUGE(n)
  <2> DEFINE len == NewRegSize(n)
             t == CopyLength(old, len)
  <2>1. len \in RegSizes
    BY <1>6 DEF RegSizes
  <2>2. len \in Nat /\ len >= n
    <3>1. len \in 1 .. LARGE_SIZE_MAX_REGION
      BY <2>1, RunsFacts
    <3>2. len >= n
      BY <1>6, RoundingFacts
    <3> QED BY <3>1, <3>2, <1>3
  <2>3. PICK s \in AllocateRegion(a, len) :
          o = [arena |-> sealloc_free_with_metadata(s[1], m, p), ptr |-> s[2], n |-> t,
               from |-> old, to |-> len]
    BY <1>6 DEF realloc_regular
  <2> HIDE DEF len
  <2>4. Adds(a, s[1], s[2], len)
    BY <2>1, AllocateAny
  <2>5. t \in Nat /\ t <= old /\ t <= len /\ (t >= old \/ t >= n)
    <3> HIDE DEF old
    <3> QED BY <2>2, <1>3 DEF CopyLength
  <2> HIDE DEF t
  <2> QED BY <1>4, <2>2, <2>3, <2>4, <2>5
<1> QED BY <1>5, <1>6

\* realloc of a huge mapping, to a huge mapping or to a region.
LEMMA ReallocHuge ==
  ASSUME BitmapsCoverRuns, NEW a, AInv(a), NEW h \in a.huges, NEW n \in ReallocSizes,
         NEW o \in realloc_huge(a, h, ALIGNUP_PAGE(n))
  PROVE  Moves(a, o, h.key, n)
<1> DEFINE g == HugeRegion(h)
           z == ALIGNUP_PAGE(n)
<1>1. g[1] = h.key /\ g[2] = h.len
  BY HugeRegionOf
<1>2. h.len \in Nat /\ h.len > LARGE_SIZE_MAX_REGION
  BY AParts, SParts DEF SInv
<1>3. z \in Nat /\ z >= n /\ n \in Nat /\ LARGE_SIZE_MAX_REGION \in Nat
  BY RoundingFacts, ConstantFacts
<1>4. ASSUME NEW q, NEW len \in Nat, NEW t \in Nat, t <= h.len, t <= len, len >= n,
             t >= h.len \/ t >= n, NEW b, Swaps(a, b, g, q, len),
             o = [arena |-> b, ptr |-> q, n |-> t, from |-> h.len, to |-> len]
      PROVE  Moves(a, o, h.key, n)
  <2> HIDE DEF g
  <2>1. o.arena = b /\ o.ptr = q /\ o.n = t /\ o.from = h.len /\ o.to = len
    BY <1>4
  <2>2. Copies(o, g, n)
    BY <2>1, <1>1, <1>2, <1>3, <1>4 DEF Copies
  <2> QED BY <2>1, <2>2, <1>1, <1>4 DEF Moves
<1> HIDE DEF z
<1>5. CASE IS_SIZE_HUGE(z)
  <2>1. PICK p \in Mappable(a, z) :
          o = [arena |-> [arena_deallocate_huge_mapping(a, h) EXCEPT
                            !.huges = @ \cup {[key |-> p, len |-> z]},
                            !.mapped = @ \cup Span(p, z)],
               ptr |-> p, n |-> Smaller(h.len, z), from |-> h.len, to |-> z]
    BY <1>5 DEF realloc_huge, z
  <2> DEFINE e == [arena_deallocate_huge_mapping(a, h) EXCEPT
                     !.huges = @ \cup {[key |-> p, len |-> z]},
                     !.mapped = @ \cup Span(p, z)]
             t == Smaller(h.len, z)
  <2>2. z > LARGE_SIZE_MAX_REGION
    BY <1>5 DEF IS_SIZE_HUGE
  <2>3. Swaps(a, e, g, p, z)
    BY <1>3, <2>2, HugeToHuge
  <2>4. t \in Nat /\ t <= h.len /\ t <= z /\ (t >= h.len \/ t >= n)
    BY <1>2, <1>3 DEF Smaller
  <2>5. o = [arena |-> e, ptr |-> p, n |-> t, from |-> h.len, to |-> z]
    BY <2>1
  <2> HIDE DEF e, t
  <2> QED BY <1>3, <1>4, <2>3, <2>4, <2>5
<1>6. CASE ~IS_SIZE_HUGE(z)
  <2> DEFINE len == AlignedSize(NonZero(z))
  <2>1. PICK s \in sealloc_malloc(a, z) :
          o = [arena |-> arena_deallocate_huge_mapping(s[1], h), ptr |-> s[2], n |-> z,
               from |-> h.len, to |-> len]
    BY <1>6 DEF realloc_huge, z
  <2>2. z \in MallocArgs
    BY <1>6 DEF MallocArgs, z
  <2>3. MallocLen(z) = len
    <3>1. ~IS_SIZE_HUGE(NonZero(z))
      <4>1. SMALL_SIZE_MIN_REGION \in Nat /\ SMALL_SIZE_MIN_REGION <= LARGE_SIZE_MAX_REGION
        BY ConstantFacts
      <4> QED BY <4>1, <1>3, <1>6 DEF NonZero, IS_SIZE_HUGE
    <3> QED BY <3>1 DEF MallocLen
  <2> HIDE DEF len
  <2>4. len \in Nat /\ len >= z /\ Adds(a, s[1], s[2], len)
    BY <2>2, <2>3, <1>3, Malloc
  <2>5. Swaps(a, arena_deallocate_huge_mapping(s[1], h), g, s[2], len)
    BY <2>4, HugeAfter
  <2>6. z <= h.len /\ z <= len /\ len >= n
    BY <1>2, <1>3, <1>6, <2>4 DEF IS_SIZE_HUGE
  <2> HIDE DEF g
  <2> QED BY <1>3, <1>4, <2>1, <2>4, <2>5, <2>6
<1> QED BY <1>5, <1>6

\* realloc of any pointer that it accepts.
LEMMA Realloc ==
  ASSUME BitmapsCoverRuns, NEW a, AInv(a), NEW p \in Nat, Accepted(a, p), NEW n \in ReallocSizes,
         NEW o \in sealloc_realloc(a, p, n)
  PROVE  Moves(a, o, p, n)
<1> DEFINE m == locate_metadata_for_ptr(a, p)
<1>1. CASE \E h \in a.huges : p = h.key /\ m.type = "METADATA_HUGE" /\ m.huge = h
  <2>1. PICK h \in a.huges : p = h.key /\ m.type = "METADATA_HUGE" /\ m.huge = h
    BY <1>1
  <2>2. o \in realloc_huge(a, h, ALIGNUP_PAGE(n))
    BY <2>1 DEF sealloc_realloc
  <2> HIDE DEF m
  <2> QED BY <2>1, <2>2, ReallocHuge
<1>2. CASE m.type = "METADATA_REGULAR" /\ \E c, r, i : IsRegular(a, p, m, c, r, i)
  <2>1. PICK c, r, i : IsRegular(a, p, m, c, r, i)
    BY <1>2
  <2>2. o \in realloc_regular(a, m, p, n)
    BY <1>2 DEF sealloc_realloc
  <2> HIDE DEF m
  <2> QED BY <2>1, <2>2, ReallocRegular
<1> QED BY <1>1, <1>2, AcceptedCases

-----------------------------------------------------------------------------
(***************************************************************************)
(* What the program holds                                                  *)
(***************************************************************************)

\* A pointer to memory in use is an address that the program may pass back.
LEMMA RegionAddress ==
  ASSUME NEW a, AInv(a), NEW g \in Regions(a.runs, a.huges)
  PROVE  g[1] \in Addresses
<1>1. SInv(Listed(a.chunks), a.runs, a.huges, a.mapped)
  BY AParts
<1>2. CASE \E h \in a.huges : g = <<h.key, h.len>>
  <2>1. PICK h \in a.huges : g = <<h.key, h.len>>
    BY <1>2
  <2>2. h.key \in Places
    BY <1>1 DEF SInv, HugeRecs
  <2> QED BY <2>1, <2>2, AddressAssumption
<1>3. CASE InUse(a.runs, g)
  <2>1. PICK k \in DOMAIN a.runs : \E i \in a.runs[k].given \ a.runs[k].freed :
                 g = <<k + i * a.runs[k].reg, a.runs[k].reg>>
    BY <1>3 DEF InUse
  <2>2. PICK i \in a.runs[k].given \ a.runs[k].freed : g = <<k + i * a.runs[k].reg, a.runs[k].reg>>
    BY <2>1
  <2>3. PICK c \in Listed(a.chunks) : \E r \in c.live : k = KeyOf(c, r)
    BY <1>1 DEF SInv, RunsInv
  <2>4. PICK r \in c.live : k = KeyOf(c, r)
    BY <2>3
  <2>5. a.runs[k].reg = r.reg
    BY <1>1, <2>4 DEF SInv, RunsInv
  <2>6. c \in ChunkRecs /\ ChunkInv(c)
    BY <1>1, SParts
  <2>7. /\ c.key \in Places /\ r.block \in Blocks /\ r.reg \in RegSizes
        /\ r.len = RunLen(r.reg) /\ r.len \in Nat \ {0}
    BY <2>6 DEF ChunkRecs, RunRecs
  <2>8. Span(r.block, r.len) \subseteq Blocks
    BY <2>6 DEF ChunkInv, ChunkRecs
  <2>9. r.block + r.len <= NoBlocks
    <3>1. ASSUME NEW b \in Nat, NEW l \in Nat \ {0}, Span(b, l) \subseteq Blocks
          PROVE  b + l <= NoBlocks
      <4>1. b + l - 1 \in Span(b, l)
        BY DEF Span
      <4>2. b + l - 1 \in Blocks /\ NoBlocks \in Nat
        BY <4>1, <3>1, BlockFacts
      <4> QED BY <4>2 DEF Blocks
    <3> QED BY <3>1, <2>7, <2>8, BlockFacts
  <2>10. i \in 0 .. ElemsOf(r.reg) - 1
    BY <1>1, <2>5, SParts DEF MetaInv, Indices
  <2>11. c.key + r.block * LEAF + i * r.reg \in Addresses
    BY <2>7, <2>9, <2>10, AddressAssumption DEF RunLen
  <2>12. g[1] = KeyOf(c, r) + i * r.reg
    BY <2>2, <2>4, <2>5
  <2> QED BY <2>11, <2>12 DEF KeyOf
<1> QED BY <1>1, <1>2, <1>3, RegionsAre

\* The regions of an arena: where they start, that they are not empty, that they do
\* not overlap, and so that there is one at most at an address.
Proper(G) ==
  /\ \A g \in G : g[1] \in Addresses /\ g[1] \in Nat \ {0} /\ g[2] \in Nat \ {0}
  /\ \A f, g \in G : f[1] = g[1] => f = g

\* The regions of an arena that satisfies the invariant.
LEMMA RegionsProper ==
  ASSUME NEW a, AInv(a)
  PROVE  Proper(Regions(a.runs, a.huges))
<1> DEFINE G == Regions(a.runs, a.huges)
<1>1. ASSUME NEW g \in G
      PROVE  /\ g[1] \in Nat \ {0} /\ g[2] \in Nat \ {0} /\ g[1] \in Span(g[1], g[2])
             /\ \A f \in G : f # g => Span(f[1], f[2]) \cap Span(g[1], g[2]) = {}
  BY AParts, RegionsDisjoint
<1>2. \A g \in G : g[1] \in Addresses
  BY RegionAddress
<1> HIDE DEF G
<1>3. ASSUME NEW f \in G, NEW g \in G, f[1] = g[1] PROVE f = g
  <2>1. f[1] \in Span(f[1], f[2]) /\ g[1] \in Span(g[1], g[2])
    BY <1>1
  <2>2. f # g => Span(f[1], f[2]) \cap Span(g[1], g[2]) = {}
    BY <1>1
  <2> QED BY <2>1, <2>2, <1>3
<1> QED BY <1>1, <1>2, <1>3 DEF Proper, G

\* The program holds one pointer more, ...
LEMMA LiveAdd ==
  ASSUME NEW L, NEW G, LiveInv(L, G), NEW p, NEW len, NEW n \in Nat, Apart(G, p, len), n <= len,
         NEW K
  PROVE  K = [q \in (DOMAIN L \ {}) \cup {p} |-> IF q = p THEN n ELSE L[q]]
           => LiveInv(K, G \cup {<<p, len>>})
<1>0. SUFFICES ASSUME K = [q \in (DOMAIN L \ {}) \cup {p} |-> IF q = p THEN n ELSE L[q]]
               PROVE  LiveInv(K, G \cup {<<p, len>>})
  OBVIOUS
<1>1. DOMAIN K = DOMAIN L \cup {p} /\ K[p] = n /\ \A q \in DOMAIN L : q # p => K[q] = L[q]
  BY <1>0
<1>2. L \in [DOMAIN L -> Nat] /\ DOMAIN L = {g[1] : g \in G} /\ \A g \in G : L[g[1]] <= g[2]
  BY DEF LiveInv
<1>3. K \in [DOMAIN K -> Nat]
  BY <1>0, <1>2
<1>4. \A g \in G : g[1] # p /\ g[1] \in DOMAIN L
  BY <1>2 DEF Apart
<1> DEFINE z == <<p, len>>
<1>5. z[1] = p /\ z[2] = len
  OBVIOUS
<1> HIDE DEF z
<1>6. DOMAIN K = {g[1] : g \in G \cup {z}}
  BY <1>1, <1>2, <1>5
<1>7. \A g \in G \cup {z} : K[g[1]] <= g[2]
  BY <1>1, <1>2, <1>4, <1>5
<1> QED BY <1>3, <1>6, <1>7 DEF LiveInv, z

\* ... or one less, ...
LEMMA LiveDrop ==
  ASSUME NEW L, NEW G, LiveInv(L, G), Proper(G), NEW h \in G, NEW K
  PROVE  K = [q \in DOMAIN L \ {h[1]} |-> L[q]] => LiveInv(K, G \ {h})
<1>0. SUFFICES ASSUME K = [q \in DOMAIN L \ {h[1]} |-> L[q]] PROVE LiveInv(K, G \ {h})
  OBVIOUS
<1>1. DOMAIN K = DOMAIN L \ {h[1]} /\ \A q \in DOMAIN K : K[q] = L[q]
  BY <1>0
<1>2. L \in [DOMAIN L -> Nat] /\ DOMAIN L = {g[1] : g \in G} /\ \A g \in G : L[g[1]] <= g[2]
  BY DEF LiveInv
<1>3. K \in [DOMAIN K -> Nat]
  BY <1>0, <1>2
<1>4. \A g \in G : g # h => g[1] # h[1]
  BY DEF Proper
<1>5. DOMAIN K = {g[1] : g \in G \ {h}}
  BY <1>1, <1>2, <1>4
<1>6. \A g \in G \ {h} : K[g[1]] <= g[2]
  BY <1>1, <1>2, <1>4
<1> QED BY <1>3, <1>5, <1>6 DEF LiveInv

\* ... or one for another.
LEMMA LiveSwap ==
  ASSUME NEW L, NEW G, LiveInv(L, G), Proper(G), NEW h \in G, NEW p, NEW len, NEW n \in Nat,
         Apart(G, p, len), n <= len, NEW K
  PROVE  K = [q \in (DOMAIN L \ {h[1]}) \cup {p} |-> IF q = p THEN n ELSE L[q]]
           => LiveInv(K, (G \ {h}) \cup {<<p, len>>})
<1>0. SUFFICES ASSUME K = [q \in (DOMAIN L \ {h[1]}) \cup {p} |-> IF q = p THEN n ELSE L[q]]
               PROVE  LiveInv(K, (G \ {h}) \cup {<<p, len>>})
  OBVIOUS
<1> DEFINE J == [q \in DOMAIN L \ {h[1]} |-> L[q]]
<1>1. LiveInv(J, G \ {h})
  BY LiveDrop
<1>2. K = [q \in (DOMAIN J \ {}) \cup {p} |-> IF q = p THEN n ELSE J[q]]
  <2>1. DOMAIN J \ {} = DOMAIN L \ {h[1]}
    OBVIOUS
  <2> QED BY <1>0, <2>1
<1>3. Apart(G \ {h}, p, len)
  BY DEF Apart
<1> HIDE DEF J
<1> QED BY <1>1, <1>2, <1>3, LiveAdd

\* The memory of what the program holds lies in the regions.
LEMMA NewMemory ==
  ASSUME NEW G, LiveInv(live, G), Proper(G), NEW p, NEW len, NEW n \in Nat,
         Apart(G, p, len), n <= len
  PROVE  Heap!New(p, n)
<1>1. ASSUME NEW b \in Nat, NEW l \in Nat \ {0}, NEW m \in Nat, m <= l
      PROVE  Heap!Memory(b, m) \subseteq Span(b, l)
  BY <1>1 DEF Heap!Memory, Span
<1>2. p \in Nat \ {0} /\ len \in Nat \ {0}
  BY DEF Apart
<1>3. Heap!Memory(p, n) \subseteq Span(p, len)
  BY <1>1, <1>2
<1>4. ASSUME NEW q \in DOMAIN live PROVE Heap!Memory(p, n) \cap Heap!Memory(q, live[q]) = {}
  <2>1. PICK g \in G : q = g[1]
    BY DEF LiveInv
  <2>2. live[q] \in Nat /\ live[q] <= g[2] /\ q \in Nat /\ g[2] \in Nat \ {0}
    BY <2>1 DEF LiveInv, Proper
  <2>3. Heap!Memory(q, live[q]) \subseteq Span(g[1], g[2])
    BY <2>1, <2>2, <1>1
  <2>4. Span(g[1], g[2]) \cap Span(p, len) = {}
    BY DEF Apart
  <2> QED BY <2>3, <2>4, <1>3
<1> QED BY <1>2, <1>4 DEF Heap!New, Heap!NULL

-----------------------------------------------------------------------------
(***************************************************************************)
(* The calls                                                               *)
(***************************************************************************)
AllRegions == Regions(arena.runs, arena.huges)

\* malloc and calloc
LEMMA MallocStep ==
  ASSUME BitmapsCoverRuns, IInv, NEW n \in MallocArgs, n \in Nat, NEW o \in sealloc_malloc(arena, n),
         arena' = o[1], Holds(o[2], n, {})
  PROVE  AInv(arena') /\ LiveInv(live', AllRegions') /\ Heap!New(o[2], n) /\ o[2] \in Addresses
<1> DEFINE p == o[2]
           len == MallocLen(n)
           G == AllRegions
<1>1. AInv(arena) /\ LiveInv(live, G)
  BY DEF IInv, AllRegions
<1>2. len \in Nat /\ n <= len /\ Adds(arena, o[1], p, len)
  BY <1>1, Malloc
<1>3. AInv(arena') /\ AllRegions' = G \cup {<<p, len>>}
  BY <1>2 DEF Adds, AllRegions
<1>4. Apart(G, p, len)
  BY <1>2, AddsApart DEF AllRegions
<1>5. Proper(G) /\ Proper(AllRegions')
  BY <1>1, <1>3, RegionsProper DEF AllRegions
<1> HIDE DEF len, G
<1>6. LiveInv(live', G \cup {<<p, len>>})
  BY <1>1, <1>2, <1>4, LiveAdd DEF Holds
<1>7. Heap!New(p, n)
  BY <1>1, <1>2, <1>4, <1>5, NewMemory
<1>8. p \in Addresses
  <2>1. <<p, len>> \in AllRegions' /\ <<p, len>>[1] = p
    BY <1>3
  <2> QED BY <2>1, <1>5 DEF Proper
<1> QED BY <1>3, <1>6, <1>7, <1>8

\* free
LEMMA FreeStep ==
  ASSUME IInv, NEW p \in Valid, arena' = sealloc_free(arena, p),
         live' = [q \in DOMAIN live \ {p} |-> live[q]]
  PROVE  AInv(arena') /\ LiveInv(live', AllRegions') /\ p \in DOMAIN live
<1> DEFINE G == AllRegions
<1>1. AInv(arena) /\ LiveInv(live, G)
  BY DEF IInv, AllRegions
<1>2. p \in Nat /\ Accepted(arena, p)
  BY AddressAssumption DEF Valid
<1>3. DropsAt(arena, arena', p)
  BY <1>1, <1>2, Free
<1>4. PICK g \in G : g[1] = p /\ Drops(arena, arena', g)
  BY <1>3 DEF DropsAt, AllRegions
<1>5. AInv(arena') /\ AllRegions' = G \ {g}
  BY <1>4 DEF Drops, AllRegions
<1>6. Proper(G)
  BY <1>1, RegionsProper DEF AllRegions
<1> HIDE DEF G
<1>7. LiveInv(live', G \ {g})
  BY <1>1, <1>4, <1>6, LiveDrop
<1>8. p \in DOMAIN live
  BY <1>1, <1>4 DEF LiveInv
<1> QED BY <1>5, <1>7, <1>8

\* realloc
LEMMA ReallocStep ==
  ASSUME BitmapsCoverRuns, IInv, NEW p \in Valid, NEW n \in ReallocSizes, NEW o \in sealloc_realloc(arena, p, n),
         arena' = o.arena, Holds(o.ptr, n, {p}),
         copied' = [n |-> o.n, from |-> o.from, to |-> o.to,
                    need |-> IF p \in DOMAIN live THEN Smaller(live[p], n) ELSE 0]
  PROVE  /\ AInv(arena') /\ LiveInv(live', AllRegions') /\ CopyExact'
         /\ p \in DOMAIN live /\ Heap!New(o.ptr, n) /\ o.ptr \in Addresses
<1> DEFINE G == AllRegions
<1>1. AInv(arena) /\ LiveInv(live, G)
  BY DEF IInv, AllRegions
<1>2. p \in Nat /\ Accepted(arena, p) /\ n \in Nat
  BY AddressAssumption, ConstantFacts DEF Valid
<1>3. Moves(arena, o, p, n)
  BY <1>1, <1>2, Realloc
<1>4. PICK g : g[1] = p /\ Swaps(arena, o.arena, g, o.ptr, o.to) /\ Copies(o, g, n)
  BY <1>3 DEF Moves
<1>5. /\ AInv(arena') /\ AllRegions' = (G \ {g}) \cup {<<o.ptr, o.to>>}
      /\ g \in G /\ Apart(G, o.ptr, o.to)
  BY <1>4 DEF Swaps, AllRegions
<1>6. Proper(G) /\ Proper(AllRegions')
  BY <1>1, <1>5, RegionsProper DEF AllRegions
<1> HIDE DEF G
<1>7. /\ {o.n, o.from, o.to} \subseteq Nat /\ o.from = g[2] /\ n <= o.to
      /\ o.n <= o.from /\ o.n <= o.to /\ (o.n >= g[2] \/ o.n >= n)
  BY <1>4, <1>2 DEF Copies
<1>8. p \in DOMAIN live /\ live[p] <= g[2] /\ live[p] \in Nat
  BY <1>1, <1>4, <1>5 DEF LiveInv
<1>9. live' = [q \in (DOMAIN live \ {g[1]}) \cup {o.ptr} |-> IF q = o.ptr THEN n ELSE live[q]]
  BY <1>4 DEF Holds
<1>10. LiveInv(live', (G \ {g}) \cup {<<o.ptr, o.to>>})
  BY <1>1, <1>2, <1>5, <1>6, <1>7, <1>9, LiveSwap
<1>11. Heap!New(o.ptr, n)
  BY <1>1, <1>2, <1>5, <1>6, <1>7, NewMemory
<1>12. o.ptr \in Addresses
  <2>1. <<o.ptr, o.to>> \in AllRegions' /\ <<o.ptr, o.to>>[1] = o.ptr
    BY <1>5
  <2> QED BY <2>1, <1>6 DEF Proper
<1>13. CopyExact'
  <2>1. copied'.n = o.n /\ copied'.from = o.from /\ copied'.to = o.to /\ copied'.need = Smaller(live[p], n)
    BY <1>8
  <2>2. o.n >= Smaller(live[p], n)
    BY <1>2, <1>7, <1>8 DEF Smaller
  <2> QED BY <2>1, <2>2, <1>7 DEF CopyExact
<1> QED BY <1>5, <1>8, <1>10, <1>11, <1>12, <1>13

-----------------------------------------------------------------------------
(***************************************************************************)
(* The invariant and the theorems                                          *)
(***************************************************************************)
LEMMA InitInv == Init => IInv
<1> SUFFICES ASSUME Init PROVE IInv
  OBVIOUS
<1> DEFINE q == <<>>
           R == [k \in {} |-> 0]
<1>1. arena = Arn(q, R, {}, {}, {})
  BY DEF Init, arena_init, Arn
<1>2. q \in Seq(ChunkRecs) /\ DOMAIN q = {} /\ Listed(q) = {} /\ Once(q)
  BY DEF Listed, Once
<1>3. DOMAIN R = {} /\ R \in RunTables
  <2>1. R \in [{} -> RunMeta]
    OBVIOUS
  <2> QED BY <2>1 DEF RunTables
<1> HIDE DEF R, q
<1>4. SInv({}, R, {}, {})
  BY <1>3 DEF SInv, MapInv, RunsInv
<1>5. AInv(arena) /\ arena.runs = R /\ arena.huges = {}
  <2>1. SInv(Listed(q), R, {}, {})
    BY <1>2, <1>4
  <2>2. AInv(Arn(q, R, {}, {}, {}))
    BY <1>2, <2>1, ArnInv
  <2> QED BY <1>1, <2>2, ArnFields
<1>6. Regions(R, {}) = {}
  BY <1>3 DEF Regions, InUse
<1>7. LiveInv(live, {})
  <2>1. live = [p \in {} |-> 0] /\ DOMAIN live = {}
    BY DEF Init
  <2>2. live \in [{} -> Nat]
    BY <2>1
  <2> QED BY <2>1, <2>2 DEF LiveInv
<1>8. CopyExact
  BY DEF Init, NoCopy, CopyExact
<1> QED BY <1>5, <1>6, <1>7, <1>8 DEF IInv

\* The calls other than realloc copy nothing.
LEMMA NoCopyExact ==
  ASSUME copied' = NoCopy
  PROVE  CopyExact'
BY DEF NoCopy, CopyExact

\* calloc asks malloc for the product, which has not wrapped around.
LEMMA CallocArg ==
  ASSUME NEW c \in CallocArgs
  PROVE  c[1] * c[2] \in MallocArgs /\ c[1] * c[2] \in Nat /\ SizeWord(c[1] * c[2]) = c[1] * c[2]
<1>1. c[1] \in Nat /\ c[2] \in Nat
  BY ConstantFacts
<1>2. ASSUME NEW x \in Nat, NEW y \in Nat PROVE x * y \in Nat
  OBVIOUS
<1>3. SizeWord(c[1] * c[2]) = c[1] * c[2]
  BY RoundingFacts
<1>4. SizeWord(c[1] * c[2]) \in MallocArgs
  BY DEF MallocArgs
<1> QED BY <1>1, <1>2, <1>3, <1>4

\* Every step keeps the invariant.
LEMMA NextInv ==
  ASSUME BitmapsCoverRuns, IInv, [Next]_vars
  PROVE  IInv'
<1>0. AInv(arena') /\ LiveInv(live', AllRegions') /\ CopyExact' => IInv'
  BY DEF IInv, AllRegions
<1>1. ASSUME NEW n \in MallocSizes, malloc(n) PROVE IInv'
  <2>1. n \in MallocArgs /\ n \in Nat
    BY ConstantFacts DEF MallocArgs
  <2>2. PICK o \in sealloc_malloc(arena, n) : arena' = o[1] /\ Holds(o[2], n, {})
    BY <1>1 DEF malloc
  <2>3. AInv(arena') /\ LiveInv(live', AllRegions')
    BY <2>1, <2>2, MallocStep
  <2>4. CopyExact'
    BY <1>1, NoCopyExact DEF malloc
  <2> QED BY <2>3, <2>4, <1>0
<1>2. ASSUME NEW c \in CallocArgs, calloc(c[1], c[2]) PROVE IInv'
  <2>1. c[1] * c[2] \in MallocArgs /\ c[1] * c[2] \in Nat /\ SizeWord(c[1] * c[2]) = c[1] * c[2]
    BY CallocArg
  <2>2. PICK o \in sealloc_malloc(arena, c[1] * c[2]) : arena' = o[1] /\ Holds(o[2], c[1] * c[2], {})
    BY <1>2, <2>1 DEF calloc
  <2>3. AInv(arena') /\ LiveInv(live', AllRegions')
    BY <2>1, <2>2, MallocStep
  <2>4. CopyExact'
    BY <1>2, NoCopyExact DEF calloc
  <2> QED BY <2>3, <2>4, <1>0
<1>3. ASSUME NEW p \in Valid, free(p) PROVE IInv'
  <2>1. AInv(arena') /\ LiveInv(live', AllRegions')
    BY <1>3, FreeStep DEF free
  <2>2. CopyExact'
    BY <1>3, NoCopyExact DEF free
  <2> QED BY <2>1, <2>2, <1>0
<1>4. ASSUME NEW p \in Valid, NEW n \in ReallocSizes, realloc(p, n) PROVE IInv'
  <2>1. PICK o \in sealloc_realloc(arena, p, n) :
          /\ arena' = o.arena /\ Holds(o.ptr, n, {p})
          /\ copied' = [n |-> o.n, from |-> o.from, to |-> o.to,
                        need |-> IF p \in DOMAIN live THEN Smaller(live[p], n) ELSE 0]
    BY <1>4 DEF realloc
  <2> QED BY <2>1, <1>0, ReallocStep
<1>5. ASSUME NEW s, Ends(s) PROVE IInv'
  <2>1. arena' = arena /\ live' = live
    BY <1>5 DEF Ends
  <2>2. CopyExact'
    BY <1>5, NoCopyExact DEF Ends
  <2> QED BY <2>1, <2>2, <1>0 DEF IInv, AllRegions
<1>6. ASSUME UNCHANGED vars PROVE IInv'
  <2>1. arena' = arena /\ live' = live /\ copied' = copied
    BY <1>6 DEF vars
  <2> QED BY <2>1, <1>0 DEF IInv, AllRegions, CopyExact
<1>7. ASSUME NEW p \in Valid, NEW n \in ReallocSizes, Crash(p, n) PROVE IInv'
  BY <1>5, <1>7 DEF Crash
<1>8. ASSUME NEW p \in Addresses \ Valid, Abort(p) PROVE IInv'
  BY <1>5, <1>8 DEF Abort
<1>9. ASSUME Exhausted PROVE IInv'
  BY <1>5, <1>9 DEF Exhausted
<1>10. ASSUME Ended PROVE IInv'
  BY <1>6, <1>10 DEF Ended
<1> QED BY <1>1, <1>2, <1>3, <1>4, <1>6, <1>7, <1>8, <1>9, <1>10 DEF Next

\* After every call the arena is consistent, and the program holds exactly the memory
\* in use.
THEOREM Invariance ==
  ASSUME BitmapsCoverRuns
  PROVE  Spec => []IInv
<1>1. IInv /\ [Next]_vars => IInv'
  BY NextInv
<1> QED BY <1>1, InitInv, PTL DEF Spec

\* Chunks and huge mappings account for all mapped memory and share none of it, also
\* where arena_morecore put one into the part of a chunk that chunk_deallocate_run
\* unmapped.
THEOREM MappedCorrect ==
  ASSUME BitmapsCoverRuns
  PROVE  Spec => []MappedExact
<1>1. IInv => MappedExact
  <2> SUFFICES ASSUME IInv PROVE MappedExact
    OBVIOUS
  <2> DEFINE q == arena.chunks
             ChunkOwner(n) == [of |-> [key |-> q[n].key, len |-> n], mem |-> StillMapped(q[n])]
             HugeOwner(h) == [of |-> h, mem |-> Span(h.key, h.len)]
  <2>1. AInv(arena)
    BY DEF IInv
  <2>2. SInv(Listed(q), arena.runs, arena.huges, arena.mapped) /\ Once(q)
    BY <2>1, AParts
  <2>3. /\ \A x : x \in arena.mapped <=> \/ \E c \in Listed(q) : x \in StillMapped(c)
                                         \/ \E h \in arena.huges : x \in Mem(h)
        /\ \A c, d \in Listed(q) : c # d => StillMapped(c) \cap StillMapped(d) = {}
        /\ \A g, h \in arena.huges : g # h => Mem(g) \cap Mem(h) = {}
        /\ \A c \in Listed(q), h \in arena.huges : StillMapped(c) \cap Mem(h) = {}
    BY <2>2 DEF SInv, MapInv
  <2>4. Owned = {ChunkOwner(n) : n \in DOMAIN q} \cup {HugeOwner(h) : h \in arena.huges}
    BY DEF Owned
  <2>5. \A n : ChunkOwner(n).mem = StillMapped(q[n])
    OBVIOUS
  <2>6. \A h : HugeOwner(h).mem = Mem(h)
    BY DEF Mem
  <2> HIDE DEF ChunkOwner, HugeOwner
  <2>7. \A n \in DOMAIN q : q[n] \in Listed(q)
    BY DEF Listed
  <2>8. \A x : (\E c \in Listed(q) : x \in StillMapped(c)) <=> (\E n \in DOMAIN q : x \in StillMapped(q[n]))
    BY DEF Listed
  <2>9. arena.mapped = UNION {o.mem : o \in Owned}
    <3>1. \A x : x \in UNION {o.mem : o \in Owned} <=> \E o \in Owned : x \in o.mem
      OBVIOUS
    <3>2. \A x : (\E o \in Owned : x \in o.mem)
                   <=> \/ \E n \in DOMAIN q : x \in ChunkOwner(n).mem
                       \/ \E h \in arena.huges : x \in HugeOwner(h).mem
      BY <2>4
    <3>3. \A x : (\E n \in DOMAIN q : x \in ChunkOwner(n).mem)
                   <=> \E c \in Listed(q) : x \in StillMapped(c)
      BY <2>5, <2>8
    <3>4. \A x : (\E h \in arena.huges : x \in HugeOwner(h).mem) <=> \E h \in arena.huges : x \in Mem(h)
      BY <2>6
    <3>5. ASSUME NEW x PROVE x \in arena.mapped <=> \E o \in Owned : x \in o.mem
      <4>1. x \in arena.mapped <=> \/ \E c \in Listed(q) : x \in StillMapped(c)
                                  \/ \E h \in arena.huges : x \in Mem(h)
        BY <2>3
      <4> QED BY <4>1, <3>2, <3>3, <3>4
    <3> HIDE DEF q
    <3> QED BY <3>1, <3>5
  <2>10. ASSUME NEW o \in Owned, NEW p \in Owned, o # p PROVE o.mem \cap p.mem = {}
    <3>1. ASSUME NEW m \in DOMAIN q, NEW n \in DOMAIN q, o = ChunkOwner(m), p = ChunkOwner(n)
          PROVE  o.mem \cap p.mem = {}
      <4>1. m # n
        BY <3>1, <2>10
      <4>2. q[m] # q[n]
        BY <4>1, <2>2 DEF Once
      <4>3. StillMapped(q[m]) \cap StillMapped(q[n]) = {}
        BY <4>2, <2>3, <2>7
      <4> QED BY <4>3, <3>1, <2>5
    <3>2. ASSUME NEW n \in DOMAIN q, NEW h \in arena.huges
          PROVE  ChunkOwner(n).mem \cap HugeOwner(h).mem = {}
      BY <2>3, <2>5, <2>6, <2>7
    <3>3. ASSUME NEW g \in arena.huges, NEW h \in arena.huges, o = HugeOwner(g), p = HugeOwner(h)
          PROVE  o.mem \cap p.mem = {}
      <4>1. g # h
        BY <3>3, <2>10
      <4> QED BY <4>1, <3>3, <2>3, <2>6
    <3>4. (\E n \in DOMAIN q : o = ChunkOwner(n)) \/ \E h \in arena.huges : o = HugeOwner(h)
      BY <2>4
    <3>5. (\E n \in DOMAIN q : p = ChunkOwner(n)) \/ \E h \in arena.huges : p = HugeOwner(h)
      BY <2>4
    <3> QED BY <3>1, <3>2, <3>3, <3>4, <3>5
  <2>11. ASSUME NEW o \in Owned PROVE o.mem # {}
    <3>1. ASSUME NEW n \in DOMAIN q, o = ChunkOwner(n) PROVE o.mem # {}
      <4>1. q[n] \in ChunkRecs /\ ChunkInv(q[n])
        BY <2>2, <2>7, SParts
      <4> QED BY <4>1, <3>1, <2>5, SomeMapped
    <3>2. ASSUME NEW h \in arena.huges, o = HugeOwner(h) PROVE o.mem # {}
      <4>1. h.key \in Mem(h)
        BY <2>2, SParts
      <4> QED BY <4>1, <3>2, <2>6
    <3> QED BY <3>1, <3>2, <2>4
  <2>12. DOMAIN arena.runs = UNION {{q[n].key + r.block * LEAF : r \in q[n].live} : n \in DOMAIN q}
    <3> DEFINE U == UNION {{q[n].key + r.block * LEAF : r \in q[n].live} : n \in DOMAIN q}
    <3>1. \A k : k \in U <=> \E n \in DOMAIN q : \E r \in q[n].live : k = q[n].key + r.block * LEAF
      OBVIOUS
    <3> HIDE DEF U
    <3>2. \A k : k \in U <=> \E c \in Listed(q) : \E r \in c.live : k = KeyOf(c, r)
      BY <3>1 DEF Listed, KeyOf
    <3>3. \A k : k \in DOMAIN arena.runs <=> \E c \in Listed(q) : \E r \in c.live : k = KeyOf(c, r)
      BY <2>2 DEF SInv, RunsInv
    <3>4. DOMAIN arena.runs = U
      BY <3>2, <3>3
    <3> QED BY <3>4 DEF U
  <2> QED BY <2>9, <2>10, <2>11, <2>12 DEF MappedExact
<1> QED BY <1>1, Invariance, PTL

\* The memcpy of each case of realloc copies no more than either region holds, and no
\* less than the smaller of the old and the new size.
THEOREM CopyCorrect ==
  ASSUME BitmapsCoverRuns
  PROVE  Spec => []CopyExact
<1>1. IInv => CopyExact
  BY DEF IInv
<1> QED BY <1>1, Invariance, PTL

\* The invariant says what free and realloc accept.
LEMMA AcceptedHeld ==
  ASSUME IInv, NEW p \in Addresses
  PROVE  (Accepted(arena, p) <=> p \in DOMAIN live) /\ p \in Nat \ {0}
<1>1. p \in Nat \ {0}
  BY AddressAssumption DEF NULL
<1>2. Accepted(arena, p) <=> p \in {g[1] : g \in Regions(arena.runs, arena.huges)}
  BY <1>1, AcceptedIs DEF IInv
<1>3. DOMAIN live = {g[1] : g \in Regions(arena.runs, arena.huges)}
  BY DEF IInv, LiveInv
<1> QED BY <1>1, <1>2, <1>3

\* locate_metadata_for_ptr and run_validate_ptr together let free and realloc accept
\* exactly the pointers the program holds.
THEOREM AcceptsCorrect ==
  ASSUME BitmapsCoverRuns
  PROVE  Spec => []AcceptsExactly
<1>1. IInv => AcceptsExactly
  BY AcceptedHeld DEF AcceptsExactly
<1> QED BY <1>1, Invariance, PTL

\* Together the parts are an allocator: every call of malloc, calloc, realloc and free
\* is a step of Allocator, and once the process has ended there is none.
THEOREM RefinesAllocator ==
  ASSUME BitmapsCoverRuns
  PROVE  Spec => ImplementsAllocator
<1>1. Init => Heap!Init
  BY DEF Init, Heap!Init
<1>2. IInv /\ [Next]_vars => [Heap!Next]_<<live, status>>
  <2> SUFFICES ASSUME IInv, [Next]_vars PROVE [Heap!Next]_<<live, status>>
    OBVIOUS
  <2> DEFINE Sizes == MallocSizes \cup ReallocSizes \cup {c[1] * c[2] : c \in CallocArgs}
  <2>1. ASSUME NEW p \in Addresses, NEW n \in Sizes, Heap!New(p, n), Holds(p, n, {}),
               status = "running", UNCHANGED status
        PROVE  Heap!Next
    <3>1. live' = [q \in DOMAIN live \cup {p} |-> IF q = p THEN n ELSE live[q]]
      <4>1. DOMAIN live \ {} = DOMAIN live
        OBVIOUS
      <4> QED BY <4>1, <2>1 DEF Holds
    <3>2. Heap!Malloc(p, n)
      BY <2>1, <3>1 DEF Heap!Malloc
    <3> QED BY <2>1, <3>2 DEF Heap!Next
  <2>2. ASSUME NEW n \in MallocSizes, malloc(n) PROVE Heap!Next
    <3>1. n \in MallocArgs /\ n \in Nat
      BY ConstantFacts DEF MallocArgs
    <3>2. PICK o \in sealloc_malloc(arena, n) : arena' = o[1] /\ Holds(o[2], n, {})
      BY <2>2 DEF malloc
    <3>3. Heap!New(o[2], n) /\ o[2] \in Addresses
      BY <3>1, <3>2, MallocStep
    <3> QED BY <3>2, <3>3, <2>1, <2>2 DEF malloc
  <2>3. ASSUME NEW c \in CallocArgs, calloc(c[1], c[2]) PROVE Heap!Next
    <3>1. c[1] * c[2] \in MallocArgs /\ c[1] * c[2] \in Nat /\ SizeWord(c[1] * c[2]) = c[1] * c[2]
      BY CallocArg
    <3>2. PICK o \in sealloc_malloc(arena, c[1] * c[2]) : arena' = o[1] /\ Holds(o[2], c[1] * c[2], {})
      BY <2>3, <3>1 DEF calloc
    <3>3. Heap!New(o[2], c[1] * c[2]) /\ o[2] \in Addresses
      BY <3>1, <3>2, MallocStep
    <3>4. c[1] * c[2] \in Sizes
      OBVIOUS
    <3>5. status = "running" /\ UNCHANGED status
      BY <2>3 DEF calloc
    <3> HIDE DEF Sizes
    <3> QED BY <3>2, <3>3, <3>4, <3>5, <2>1
  <2>4. ASSUME NEW p \in Valid, free(p) PROVE Heap!Next
    <3>1. /\ live' = [q \in DOMAIN live \ {p} |-> live[q]]
          /\ arena' = sealloc_free(arena, p) /\ status = "running" /\ UNCHANGED status
      BY <2>4 DEF free
    <3>2. p \in DOMAIN live
      BY <3>1, FreeStep
    <3>3. Heap!Free(p)
      BY <3>1, <3>2 DEF Heap!Free
    <3> QED BY <3>1, <3>2, <3>3 DEF Heap!Next
  <2>5. ASSUME NEW p \in Valid, NEW n \in ReallocSizes, realloc(p, n) PROVE Heap!Next
    <3>1. PICK o \in sealloc_realloc(arena, p, n) :
            /\ arena' = o.arena /\ Holds(o.ptr, n, {p})
            /\ copied' = [n |-> o.n, from |-> o.from, to |-> o.to,
                          need |-> IF p \in DOMAIN live THEN Smaller(live[p], n) ELSE 0]
      BY <2>5 DEF realloc
    <3>2. p \in DOMAIN live /\ Heap!New(o.ptr, n) /\ o.ptr \in Addresses
      BY <3>1, ReallocStep
    <3>3. status = "running" /\ UNCHANGED status
      BY <2>5 DEF realloc
    <3>4. Heap!Realloc(p, o.ptr, n)
      BY <3>1, <3>2, <3>3 DEF Heap!Realloc, Holds
    <3> QED BY <3>2, <3>3, <3>4 DEF Heap!Next
  <2>6. ASSUME NEW p \in Valid, NEW n \in ReallocSizes, Crash(p, n) PROVE Heap!Next
    <3>1. p \in DOMAIN live
      BY AcceptedHeld DEF Valid
    <3>2. Heap!Undefined(p) /\ status = "running"
      BY <3>1, <2>6 DEF Crash, Ends, Heap!Undefined
    <3> QED BY <3>1, <3>2 DEF Heap!Next
  <2>7. ASSUME NEW p \in Addresses \ Valid, Abort(p) PROVE Heap!Next
    <3>1. p \notin DOMAIN live \cup {0}
      BY AcceptedHeld DEF Valid
    <3>2. Heap!Invalid(p) /\ status = "running"
      BY <3>1, <2>7 DEF Abort, Ends, Heap!Invalid, Heap!NULL
    <3> QED BY <3>2 DEF Heap!Next
  <2>8. ASSUME Exhausted PROVE Heap!Next
    BY <2>8 DEF Exhausted, Ends, Heap!Exhausted, Heap!Next
  <2>9. ASSUME Ended \/ UNCHANGED vars PROVE UNCHANGED <<live, status>>
    BY <2>9 DEF Ended, vars
  <2> QED BY <2>2, <2>3, <2>4, <2>5, <2>6, <2>7, <2>8, <2>9 DEF Next
<1> QED BY <1>1, <1>2, Invariance, PTL DEF Spec, ImplementsAllocator, Heap!Spec

=============================================================================
