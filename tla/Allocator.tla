----------------------------- MODULE Allocator -----------------------------
(***************************************************************************)
(* What malloc, free, realloc and calloc promise the program: every        *)
(* pointer it holds owns the memory it asked for, alone, until it gives    *)
(* the pointer back; giving back anything else ends the process.           *)
(***************************************************************************)
EXTENDS Integers

CONSTANTS
  Addresses,   \* every address that can be passed to free or returned
  Sizes        \* the sizes that can be asked for

VARIABLES
  live,        \* the pointers the program holds, with the sizes asked for
  status       \* "running", "aborted", "exhausted" or "crashed"

NULL == 0

\* The memory of a pointer; a pointer to nothing still is a place of its own.
Memory(p, n) == p .. p + (IF n = 0 THEN 1 ELSE n) - 1

\* p is a new pointer to n units: its memory is nobody else's.
New(p, n) ==
  /\ p # NULL
  /\ \A q \in DOMAIN live : Memory(p, n) \cap Memory(q, live[q]) = {}

Init == live = [p \in {} |-> 0] /\ status = "running"

Malloc(p, n) ==
  /\ New(p, n)
  /\ live' = [q \in DOMAIN live \cup {p} |-> IF q = p THEN n ELSE live[q]]
  /\ UNCHANGED status

Free(p) ==
  /\ p \in DOMAIN live
  /\ live' = [q \in DOMAIN live \ {p} |-> live[q]]
  /\ UNCHANGED status

\* The new memory does not overlap the old, from which the data is copied.
Realloc(p, q, n) ==
  /\ p \in DOMAIN live
  /\ New(q, n)
  /\ live' = [r \in (DOMAIN live \ {p}) \cup {q} |-> IF r = q THEN n ELSE live[r]]
  /\ UNCHANGED status

\* free or realloc of a pointer the program does not hold.
Invalid(p) ==
  /\ p \notin DOMAIN live \cup {NULL}
  /\ status' = "aborted"
  /\ UNCHANGED live

\* No memory: the call does not return.
Exhausted == status' = "exhausted" /\ UNCHANGED live

\* realloc to size 0 promises nothing.
Undefined(p) ==
  /\ p \in DOMAIN live
  /\ status' = "crashed"
  /\ UNCHANGED live

Next ==
  /\ status = "running"
  /\ \/ \E p \in Addresses, n \in Sizes : Malloc(p, n)
     \/ \E p \in DOMAIN live, q \in Addresses, n \in Sizes : Realloc(p, q, n)
     \/ \E p \in DOMAIN live : Free(p) \/ Undefined(p)
     \/ \E p \in Addresses : Invalid(p)
     \/ Exhausted

Spec == Init /\ [][Next]_<<live, status>>
=============================================================================
