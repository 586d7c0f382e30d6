------------------------------ MODULE MCChunk ------------------------------
(***************************************************************************)
(* Instances of Chunk for TLC; every constant is given in the .cfg files.  *)
(***************************************************************************)
EXTENDS Chunk
=============================================================================
