----------------------------- MODULE MCSealloc -----------------------------
(***************************************************************************)
(* An instance of Sealloc for TLC.  A page is 2 units, a leaf 4 pages and  *)
(* a chunk two leaves; the largest region is a leaf.                       *)
(***************************************************************************)
EXTENDS Sealloc

\* A mapping at the second place can lie in what a chunk at the first unmapped.
MCPlaces == {8, 16}

\* Every even address of the two places and of what is mapped after them, where the
\* regions start, and an address inside a region.
MCAddresses == {9} \cup {2 * i : i \in 4 .. 16}
MCCalloc == {<<0, 1>>, <<1, 3>>}
=============================================================================
