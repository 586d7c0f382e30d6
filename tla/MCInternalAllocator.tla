------------------------ MODULE MCInternalAllocator ------------------------
(***************************************************************************)
(* Instances of InternalAllocator for TLC; the .cfg files give every       *)
(* constant.                                                               *)
(***************************************************************************)
EXTENDS InternalAllocator
=============================================================================
