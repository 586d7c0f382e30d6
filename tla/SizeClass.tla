----------------------------- MODULE SizeClass -----------------------------
(***************************************************************************)
(* Size classes (size_class.h, size_class.c) and what is derived from one: *)
(* the bin (arena_get_bin_by_reg_size), the size of its runs (bin_init)    *)
(* and the way back from a run to its bin (locate_metadata_for_ptr).  This *)
(* module has no state.                                                    *)
(*                                                                         *)
(* unsigned arithmetic is modulo 2^WordBits: the index of size 0 and the   *)
(* decrement of npow2 wrap around.  The sizes that the program asks for    *)
(* are size_t, of which there are more.                                    *)
(***************************************************************************)
EXTENDS Integers, FiniteSetsExt

CONSTANTS
  WordBits,                     \* of unsigned
  SizeBits,                     \* of size_t
  PAGE_SIZE,
  SMALL_SIZE_CLASS_ALIGNMENT,
  SMALL_SIZE_MAX_REGION,
  MEDIUM_SIZE_MIN_REGION,
  LARGE_SIZE_MIN_REGION,        \* also CHUNK_LEAST_REGION_SIZE_BYTES
  LARGE_SIZE_MAX_REGION,
  RUN_SIZE_BYTES,               \* of small and of medium runs
  NO_SMALL_SIZE_CLASSES,
  NO_MEDIUM_SIZE_CLASSES,
  NO_LARGE_SIZE_CLASSES

MEDIUM_SIZE_MAX_REGION == 2 * PAGE_SIZE
SMALL_SIZE_MIN_REGION == SMALL_SIZE_CLASS_ALIGNMENT
REG_MARK_BAD_VALUE == 65535   \* no region of a run of several regions has this size

\* The powers of two are a function that the proofs can reason about.
Pow2[i \in Nat] == IF i = 0 THEN 1 ELSE 2 * Pow2[i - 1]

(***************************************************************************)
(* What size_class.h and run.h fix.  The classes of each kind end at its   *)
(* largest region, no two kinds overlap, a run of small or of medium       *)
(* regions is one leaf of whole pages, and a leaf mark (a uint16_t) can    *)
(* hold the regions of such a run.  npow2 is written for 32 bits, one of   *)
(* which the sizes that it rounds leave free.                              *)
(***************************************************************************)
ASSUME SizeClassAssumption ==
  /\ WordBits \in 1 .. 32 /\ SizeBits \in Nat /\ WordBits <= SizeBits
  /\ {PAGE_SIZE, SMALL_SIZE_CLASS_ALIGNMENT, MEDIUM_SIZE_MIN_REGION, LARGE_SIZE_MIN_REGION,
      NO_SMALL_SIZE_CLASSES, NO_MEDIUM_SIZE_CLASSES, NO_LARGE_SIZE_CLASSES} \subseteq Nat \ {0}
  /\ SMALL_SIZE_MAX_REGION = NO_SMALL_SIZE_CLASSES * SMALL_SIZE_CLASS_ALIGNMENT
  /\ MEDIUM_SIZE_MAX_REGION = MEDIUM_SIZE_MIN_REGION * Pow2[NO_MEDIUM_SIZE_CLASSES - 1]
  /\ LARGE_SIZE_MAX_REGION = LARGE_SIZE_MIN_REGION * Pow2[NO_LARGE_SIZE_CLASSES - 1]
  /\ SMALL_SIZE_MAX_REGION < MEDIUM_SIZE_MIN_REGION
  /\ MEDIUM_SIZE_MAX_REGION < LARGE_SIZE_MIN_REGION /\ MEDIUM_SIZE_MAX_REGION < REG_MARK_BAD_VALUE
  /\ RUN_SIZE_BYTES = LARGE_SIZE_MIN_REGION /\ LARGE_SIZE_MIN_REGION % PAGE_SIZE = 0
  /\ 2 * LARGE_SIZE_MAX_REGION <= Pow2[WordBits]

WORD == Pow2[WordBits]
Word(n) == n % WORD
SIZE_WORD == Pow2[SizeBits]
SizeWord(n) == n % SIZE_WORD

\* Alignment to a power of two, n + (a - 1) and then the low bits cleared.
AlignUp(n, a) == LET m == SizeWord(n + a - 1) IN m - (m % a)
ALIGNUP_PAGE(n) == AlignUp(n, PAGE_SIZE)
ALIGNUP_SMALL_SIZE(n) == AlignUp(n, SMALL_SIZE_CLASS_ALIGNMENT)

IS_SIZE_SMALL(n) == 1 <= n /\ n <= SMALL_SIZE_MAX_REGION
IS_SIZE_MEDIUM(n) == SMALL_SIZE_MAX_REGION < n /\ n <= MEDIUM_SIZE_MAX_REGION
IS_SIZE_LARGE(n) == MEDIUM_SIZE_MAX_REGION < n /\ n <= LARGE_SIZE_MAX_REGION
IS_SIZE_HUGE(n) == n > LARGE_SIZE_MAX_REGION

ceil_div(a, b) == (a \div b) + (IF a % b = 0 THEN 0 ELSE 1)

(***************************************************************************)
(* npow2 smears the highest bit of n - 1 to the right and adds 1.          *)
(***************************************************************************)
Bits(n) == {i \in 0 .. WordBits - 1 : (n \div Pow2[i]) % 2 = 1}
Smear(B, k) == B \cup {i - k : i \in {j \in B : j >= k}}
Value(B) ==
  LET sum[k \in Nat] ==
        IF k = 0 THEN 0 ELSE sum[k - 1] + (IF k - 1 \in B THEN Pow2[k - 1] ELSE 0)
  IN sum[WordBits]

npow2NoDecrement(n) ==
  Word(Value(Smear(Smear(Smear(Smear(Smear(Bits(n), 1), 2), 4), 8), 16)) + 1)
npow2(n) ==
  Word(Value(Smear(Smear(Smear(Smear(Smear(Bits(Word(n - 1)), 1), 2), 4), 8), 16)) + 1)

\* The number of times x > 1 can be halved.
ctz(x) == Cardinality({i \in 0 .. WordBits - 1 : x \div Pow2[i] > 1})

alignup_medium_size(n) ==
  Word(npow2(ceil_div(n, MEDIUM_SIZE_MIN_REGION)) * MEDIUM_SIZE_MIN_REGION)
alignup_large_size(n) ==
  Word(npow2(ceil_div(n, LARGE_SIZE_MIN_REGION)) * LARGE_SIZE_MIN_REGION)

SIZE_TO_IDX_SMALL(n) == Word((n \div SMALL_SIZE_CLASS_ALIGNMENT) - 1)
size_to_idx_medium(n) == ctz(n \div MEDIUM_SIZE_MIN_REGION)
size_to_idx_large(n) == ctz(n \div LARGE_SIZE_MIN_REGION)

\* The tests in sealloc_malloc and sealloc_realloc for a size that is not huge.
\* Size 0 passes none of them and is treated as large.
AlignedSize(n) ==
  CASE IS_SIZE_SMALL(n) -> ALIGNUP_SMALL_SIZE(n)
    [] IS_SIZE_MEDIUM(n) -> alignup_medium_size(n)
    [] OTHER -> alignup_large_size(n)

is_size_aligned(n) == AlignedSize(n) = n

-----------------------------------------------------------------------------
ARENA_NO_BINS == NO_SMALL_SIZE_CLASSES + NO_MEDIUM_SIZE_CLASSES + NO_LARGE_SIZE_CLASSES

\* The index of the bin for an aligned size.
arena_get_bin_by_reg_sizeNoSkip(n) ==
  CASE IS_SIZE_SMALL(n) -> SIZE_TO_IDX_SMALL(n)
    [] IS_SIZE_MEDIUM(n) -> NO_SMALL_SIZE_CLASSES + size_to_idx_medium(n)
    [] OTHER -> NO_SMALL_SIZE_CLASSES + size_to_idx_large(n)
arena_get_bin_by_reg_size(n) ==
  CASE IS_SIZE_SMALL(n) -> SIZE_TO_IDX_SMALL(n)
    [] IS_SIZE_MEDIUM(n) -> NO_SMALL_SIZE_CLASSES + size_to_idx_medium(n)
    [] OTHER -> NO_SMALL_SIZE_CLASSES + NO_MEDIUM_SIZE_CLASSES + size_to_idx_large(n)

\* bin_init: the size of the runs of a bin, in whole pages.
RunSizeOfSmallOnly(n) ==
  IF IS_SIZE_SMALL(n)
  THEN (RUN_SIZE_BYTES \div PAGE_SIZE) * PAGE_SIZE
  ELSE (n \div PAGE_SIZE) * PAGE_SIZE
RunSizeOf(n) ==
  IF IS_SIZE_SMALL(n) \/ IS_SIZE_MEDIUM(n)
  THEN (RUN_SIZE_BYTES \div PAGE_SIZE) * PAGE_SIZE
  ELSE (n \div PAGE_SIZE) * PAGE_SIZE

\* bin_init: reg_mask_size_bits / 2.
ElemsOf(n) == RunSizeOf(n) \div n

\* chunk_allocate_run: what the leaf of a run remembers of its region size (a
\* uint16_t), REG_MARK_BAD_VALUE in a leaf that is a large run by itself.
LeafMarkByte(n) == IF n = LARGE_SIZE_MIN_REGION THEN REG_MARK_BAD_VALUE ELSE n % 256
LeafMark(n) == IF n = LARGE_SIZE_MIN_REGION THEN REG_MARK_BAD_VALUE ELSE n % 65536

\* chunk_get_run_ptr and locate_metadata_for_ptr: the size that selects the bin of
\* a run.  Only a run of one leaf has a mark.
LookupSize(run_size, mark) ==
  IF run_size = LARGE_SIZE_MIN_REGION /\ mark # REG_MARK_BAD_VALUE THEN mark ELSE run_size
=============================================================================
