--------------------------- MODULE MCContainerLL ---------------------------
(***************************************************************************)
(* Instances of ContainerLL for TLC.  Items and keys are only compared for *)
(* equality, so they can be permuted.                                      *)
(***************************************************************************)
EXTENDS ContainerLL, TLC

Symmetry == Permutations(Items) \cup Permutations(Keys)
=============================================================================
