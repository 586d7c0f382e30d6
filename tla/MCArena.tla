------------------------------ MODULE MCArena ------------------------------
(***************************************************************************)
(* Instances of Arena for TLC; every constant is given in the .cfg files.  *)
(***************************************************************************)
EXTENDS Arena
=============================================================================
