----------------------------- MODULE Generators -----------------------------
(***************************************************************************)
(* The generator table (generator.h) and what run_init can draw from it.   *)
(* This module has no state.  Run.tla assumes that a generator visits      *)
(* every region of a run; SizePath draws from the table.                   *)
(***************************************************************************)
EXTENDS SizeClass, Sequences

(***************************************************************************)
(* The rows of generator.h.  Each lists the numbers 1 .. last that are no  *)
(* multiple of any of omit, in increasing order.                           *)
(***************************************************************************)
Row(last, omit) ==
  SelectSeq([i \in 1 .. last |-> i], LAMBDA i : \A p \in omit : i % p # 0)

GENERATORS_SMALL ==
  << Row(1023, {2}), Row(511, {2}), Row(340, {11, 31}), Row(255, {2}),
     Row(203, {2, 3, 17}), Row(169, {2, 5, 17}), Row(145, {2, 73}), Row(127, {2}),
     Row(112, {113}), Row(101, {2, 3, 17}), Row(92, {3, 31}), Row(84, {5, 17}),
     Row(77, {2, 3, 13}), Row(72, {73}), Row(67, {2, 17}), Row(63, {2}),
     Row(59, {2, 3, 5}), Row(55, {2, 7}), Row(52, {53}), Row(50, {3, 17}),
     Row(47, {2, 3}), Row(45, {2, 23}), Row(43, {2, 11}), Row(41, {2, 3, 7}),
     Row(39, {2, 5}), Row(38, {3, 13}), Row(36, {37}), Row(35, {2, 3}),
     Row(34, {5, 7}), Row(33, {2, 17}), Row(32, {3, 11}), Row(31, {2}) >>

GENERATORS_SMALL_LENGTHSLong ==
  << 512, 256, 300, 128, 64, 64, 72, 64, 112, 32, 60, 64, 24, 72, 32, 32,
     16,  24,  52,  32,  16, 22, 20, 12, 16,  24, 36, 13, 24, 16, 20, 16 >>
GENERATORS_SMALL_LENGTHS ==
  << 512, 256, 300, 128, 64, 64, 72, 64, 112, 32, 60, 64, 24, 72, 32, 32,
     16,  24,  52,  32,  16, 22, 20, 12, 16,  24, 36, 12, 24, 16, 20, 16 >>

GENERATORS_MEDIUM == << Row(15, {2}), Row(7, {2}), Row(3, {2}), Row(1, {2}) >>
GENERATORS_MEDIUM_LENGTHS == << 8, 4, 2, 1 >>

-----------------------------------------------------------------------------
\* The first n items of a row; C fills the rest of a row with zeroes.
Items(row, n) == {IF d \in DOMAIN row THEN row[d] ELSE 0 : d \in 1 .. n}

\* run_init: a random element of the row of the size class.
GeneratorsOf(reg_size) ==
  LET small == SIZE_TO_IDX_SMALL(reg_size) + 1
      medium == size_to_idx_medium(reg_size) + 1
  IN CASE IS_SIZE_SMALL(reg_size) ->
            Items(GENERATORS_SMALL[small], GENERATORS_SMALL_LENGTHS[small])
       [] IS_SIZE_MEDIUM(reg_size) ->
            Items(GENERATORS_MEDIUM[medium], GENERATORS_MEDIUM_LENGTHS[medium])
       [] OTHER -> {1}
=============================================================================
