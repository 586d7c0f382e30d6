---------------------------- MODULE ContainerLL ----------------------------
(***************************************************************************)
(* The doubly linked lists that hold all metadata (container_ll.c): runs,  *)
(* chunks, huge mappings and metadata roots.  An item moves between lists  *)
(* (bin_retire_run), and the key of a listed huge mapping changes in place *)
(* (arena_reallocate_huge_mapping).                                        *)
(*                                                                         *)
(* order is a history variable: the items of each list, newest first.      *)
(* A definition like ll_addNoBack is a faulty variant of the one that      *)
(* follows it, which some property has to reject.                          *)
(***************************************************************************)
EXTENDS Sequences, SequencesExt

CONSTANTS
  Items,   \* ll_entry_t: the entries of metadata structures
  Heads,   \* ll_head_t
  Keys,    \* the addresses, without NULL
  NULL

ASSUME NULLAssumption == NULL \notin Items \cup Keys

ASSUME ItemsAssumption == IsFiniteSet(Items)

VARIABLES
  ll,      \* head->ll
  fd, bk,  \* item->link
  key,     \* item->key
  order

links == <<ll, fd, bk>>
vars == <<links, key, order>>

\* ll_init, and the initialisation of new metadata: no links.
Init ==
  /\ ll = [h \in Heads |-> NULL]
  /\ fd = [i \in Items |-> NULL]
  /\ bk = [i \in Items |-> NULL]
  /\ key = [i \in Items |-> NULL]
  /\ order = [h \in Heads |-> <<>>]

-----------------------------------------------------------------------------
\* Where the loop of ll_find stands after n steps, and what it can reach.
Walk(h) ==
  LET at[n \in 0 .. Cardinality(Items)] ==
        IF n = 0 THEN ll[h]
        ELSE IF at[n - 1] = NULL THEN NULL ELSE fd[at[n - 1]]
  IN at

ll_findFirst(h, k) == IF ll[h] # NULL /\ key[ll[h]] = k THEN ll[h] ELSE NULL
ll_find(h, k) ==
  LET at == Walk(h)
      hits == {n \in DOMAIN at : at[n] # NULL /\ key[at[n]] = k}
  IN IF hits = {} THEN NULL ELSE at[Min(hits)]

Listed(i) == \E h \in Heads : i \in ToSet(order[h])

\* An item that is in no list is added under a key the list does not have: the
\* key is the address of a new mapping, or of a run of the same bin.
ll_addNoBack(h, i) ==
  /\ ll' = [ll EXCEPT ![h] = i]
  /\ fd' = [fd EXCEPT ![i] = ll[h]]
  /\ bk' = [bk EXCEPT ![i] = NULL]
ll_add(h, i) ==
  /\ ll' = [ll EXCEPT ![h] = i]
  /\ fd' = [fd EXCEPT ![i] = ll[h]]
  /\ bk' = [x \in Items |-> IF x = i THEN NULL ELSE IF x = ll[h] THEN i ELSE bk[x]]

Add(h, i, k) ==
  /\ ~Listed(i)
  /\ \A j \in ToSet(order[h]) : key[j] # k
  /\ ll_add(h, i)
  /\ key' = [key EXCEPT ![i] = k]
  /\ order' = [order EXCEPT ![h] = <<i>> \o @]

\* The links of the neighbours are joined, those of the item cleared.
ll_delNoTest(h, i) ==
  /\ ll' = [ll EXCEPT ![h] = IF @ = i THEN fd[i] ELSE @]
  /\ fd' = [x \in Items |-> IF x = i THEN NULL ELSE IF x = bk[i] THEN fd[i] ELSE fd[x]]
  /\ bk' = [x \in Items \cup {fd[i]} |->
             IF x = i THEN NULL ELSE IF x = fd[i] THEN bk[i] ELSE bk[x]]
ll_del(h, i) ==
  /\ ll' = [ll EXCEPT ![h] = IF @ = i THEN fd[i] ELSE @]
  /\ fd' = [x \in Items |-> IF x = i THEN NULL ELSE IF x = bk[i] THEN fd[i] ELSE fd[x]]
  /\ bk' = [x \in Items |-> IF x = i THEN NULL ELSE IF x = fd[i] THEN bk[i] ELSE bk[x]]

Del(h, i) ==
  /\ ll_del(h, i)
  /\ \E n \in DOMAIN order[h] : order[h][n] = i /\ order' = [order EXCEPT ![h] = RemoveAt(@, n)]
  /\ UNCHANGED key

\* arena_reallocate_huge_mapping: the entry stays listed and gets the address of
\* a mapping that was made while the old one was still there.
Rekey(h, i, k) ==
  /\ i \in ToSet(order[h])
  /\ \A j \in ToSet(order[h]) : key[j] # k
  /\ key' = [key EXCEPT ![i] = k]
  /\ UNCHANGED <<links, order>>

Next ==
  \E h \in Heads, i \in Items :
    \/ Del(h, i)
    \/ \E k \in Keys : Add(h, i, k) \/ Rekey(h, i, k)

Spec == Init /\ [][Next]_vars

-----------------------------------------------------------------------------
(***************************************************************************)
(* Properties                                                              *)
(***************************************************************************)

\* The fields have the types of ll_entry_t and ll_head_t.
TypeOK ==
  /\ ll \in [Heads -> Items \cup {NULL}]
  /\ fd \in [Items -> Items \cup {NULL}]
  /\ bk \in [Items -> Items \cup {NULL}]
  /\ key \in [Items -> Keys \cup {NULL}]
  /\ order \in [Heads -> Seq(Items)]

\* Element n of list h, NULL before its first and after its last.
Nth(h, n) == IF n \in DOMAIN order[h] THEN order[h][n] ELSE NULL

\* However items were added, deleted and moved between lists, the links of every
\* list are those of its sequence in both directions, lists share no item, and
\* an item that is in no list has no links (the assertions of ll_add, on which
\* bin_retire_run relies after ll_del).
LinksExact ==
  /\ \A h \in Heads :
       /\ ll[h] = Nth(h, 1)
       /\ \A n \in DOMAIN order[h] : /\ fd[order[h][n]] = Nth(h, n + 1)
                                     /\ bk[order[h][n]] = Nth(h, n - 1)
       /\ \A m, n \in DOMAIN order[h] : order[h][m] = order[h][n] => m = n
  /\ \A g, h \in Heads : g # h => ToSet(order[g]) \cap ToSet(order[h]) = {}
  /\ \A i \in Items : ~Listed(i) => fd[i] = NULL /\ bk[i] = NULL

\* ll_find, which follows one direction of the links only, makes each list a map
\* from keys to items: no item is lost, found twice or found in another list.
Idx == INSTANCE Index WITH index <- [h \in Heads |-> [k \in Keys |-> ll_find(h, k)]]
ImplementsIndex == Idx!Spec
=============================================================================
