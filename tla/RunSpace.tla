------------------------------ MODULE RunSpace ------------------------------
(***************************************************************************)
(* What a chunk promises the arena: a row of blocks from which aligned     *)
(* ranges of 2^i blocks are taken.  A block is taken once and never given  *)
(* out again; the chunk goes away when every block was taken and returned. *)
(***************************************************************************)
EXTENDS Integers

CONSTANTS
  NoBlocks,   \* CHUNK_NO_NODES_LAST_LAYER
  Requests    \* what the arena asks for: <<number of blocks, region size>>

VARIABLES
  live,       \* the runs in use: their first block, number of blocks, region size
  taken,      \* the blocks that were ever part of a run
  gone        \* the chunk is unmapped and its metadata freed

Blocks == 0 .. NoBlocks - 1

\* The blocks of a run, and the ranges of len blocks a run may occupy.
Span(b, len) == b .. b + len - 1
Fits(b, len) == b % len = 0 /\ Span(b, len) \subseteq Blocks \ taken

Init == live = {} /\ taken = {} /\ gone = FALSE

Allocate(b, len, reg) ==
  /\ ~gone /\ Fits(b, len)
  /\ live' = live \cup {[block |-> b, len |-> len, reg |-> reg]}
  /\ taken' = taken \cup Span(b, len)
  /\ UNCHANGED gone

Deallocate(run) ==
  /\ ~gone /\ run \in live
  /\ live' = live \ {run}
  /\ gone' = (live' = {} /\ taken = Blocks)
  /\ UNCHANGED taken

Next ==
  \/ \E b \in Blocks, q \in Requests : Allocate(b, q[1], q[2])
  \/ \E run \in live : Deallocate(run)

Spec == Init /\ [][Next]_<<live, taken, gone>>
=============================================================================
