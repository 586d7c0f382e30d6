------------------------------- MODULE MCBin -------------------------------
(***************************************************************************)
(* Instances of Bin for TLC.                                               *)
(***************************************************************************)
EXTENDS Bin, TLC

CONSTANTS r1, r2, r3

MCKeys1 == {r1}
MCKeys2 == {r1, r2}
MCKeys3 == {r1, r2, r3}

\* Where a run lies does not matter to the bin.
KeySymmetry == Permutations(Keys)

\* The generators of (Z_n, +), as scripts/generators.py finds them.
Divides(d, n) == n % d = 0
MCGens == {g \in 1 .. Elems : \A d \in 2 .. Elems : ~(Divides(d, g) /\ Divides(d, Elems))}
=============================================================================
