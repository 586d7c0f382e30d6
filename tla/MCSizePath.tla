----------------------------- MODULE MCSizePath -----------------------------
(***************************************************************************)
(* SizePath with the constants of size_class.h and run.h.                  *)
(***************************************************************************)
EXTENDS SizePath

\* Every size up to the first large class, the sizes around each class, and huge
\* ones up to the largest that does not wrap around.
Edges == UNION {{c - 1, c, c + 1} : c \in Classes}
MCSizes == (0 .. 16400) \cup Edges \cup {2^21 + 1, 2^24 + 1, 2^28 - 4096}
MCNonZero == MCSizes \ {0}
MCNone == {}
MCZero == {0}
=============================================================================
