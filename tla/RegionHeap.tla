----------------------------- MODULE RegionHeap -----------------------------
(***************************************************************************)
(* What a bin promises its callers, without runs' metadata: a heap of      *)
(* regions, each handed out at most once while its run is mapped.          *)
(*                                                                         *)
(*   live    the regions the application owns;                             *)
(*   given   the regions handed out since their run was mapped;            *)
(*   status  whether the process still gets answers.                       *)
(***************************************************************************)
EXTENDS Integers

CONSTANTS
  Keys,      \* the places a run can be mapped at
  Offsets,   \* the offsets of the regions in a run
  Offs       \* every offset in a run

VARIABLES live, given, status

Region == Keys \X Offsets

\* The region of run k.
RegionsOf(k) == {k} \X Offsets

Init == live = {} /\ given = {} /\ status = "running"

\* malloc returns a region that nobody was given before.
Malloc(p) ==
  /\ status = "running" /\ p \notin given
  /\ live' = live \cup {p}
  /\ given' = given \cup {p}
  /\ UNCHANGED status

\* free of a live region.  The run is recycled exactly when it is used up:
\* every region of it was handed out and returned.
Free(p) ==
  /\ status = "running" /\ p \in live
  /\ live' = live \ {p}
  /\ given' = IF RegionsOf(p[1]) \subseteq given \ live' THEN given \ RegionsOf(p[1])
                                                         ELSE given
  /\ UNCHANGED status

\* free of anything else aborts the process.
FreeInvalid(p) ==
  /\ status = "running" /\ p \notin live
  /\ status' = "aborted"
  /\ UNCHANGED <<live, given>>

\* The address space is exhausted: malloc does not return.
OutOfMemory ==
  /\ status = "running"
  /\ status' = "exhausted"
  /\ UNCHANGED <<live, given>>

Next ==
  \/ \E p \in Region : Malloc(p) \/ Free(p)
  \/ \E p \in Keys \X Offs : FreeInvalid(p)
  \/ OutOfMemory

Spec == Init /\ [][Next]_<<live, given, status>>
=============================================================================
