------------------------------- MODULE Index -------------------------------
(***************************************************************************)
(* What a metadata list promises: in each list a key names at most one     *)
(* item, and an item is in at most one list.                               *)
(***************************************************************************)
CONSTANTS Items, Heads, Keys, NULL

VARIABLE index   \* the item that each list has for each key

Listed(i) == \E h \in Heads, k \in Keys : index[h][k] = i

Init == index = [h \in Heads |-> [k \in Keys |-> NULL]]

Add(h, i, k) ==
  /\ ~Listed(i) /\ index[h][k] = NULL
  /\ index' = [index EXCEPT ![h][k] = i]

Del(h, k) ==
  /\ index[h][k] # NULL
  /\ index' = [index EXCEPT ![h][k] = NULL]

\* The item of key k is now found under key l.
Rekey(h, k, l) ==
  /\ index[h][k] # NULL /\ index[h][l] = NULL
  /\ index' = [index EXCEPT ![h][l] = index[h][k], ![h][k] = NULL]

Next ==
  \E h \in Heads, k \in Keys :
    \/ Del(h, k)
    \/ \E i \in Items : Add(h, i, k)
    \/ \E l \in Keys : Rekey(h, k, l)

Spec == Init /\ [][Next]_index
=============================================================================
