------------------------- MODULE ContainerLLProofs -------------------------
(***************************************************************************)
(* Proofs about ContainerLL for any number of lists, items and keys.       *)
(***************************************************************************)
EXTENDS ContainerLL, TLAPS, SequenceTheorems, FiniteSetTheorems

\* The facts about natural numbers that the proofs share.
Lib == INSTANCE BuddyTreeProofs WITH Depth <- 1

-----------------------------------------------------------------------------
(***************************************************************************)
(* The sequences that order holds                                          *)
(***************************************************************************)

\* A sequence of items, its positions and its elements.
LEMMA SeqFacts ==
  ASSUME NEW s \in Seq(Items)
  PROVE  /\ Len(s) \in Nat /\ DOMAIN s = 1 .. Len(s)
         /\ \A n \in DOMAIN s : s[n] \in Items
         /\ ToSet(s) = {s[n] : n \in DOMAIN s}
BY LenProperties, ElementOfSeq DEF ToSet

\* What ll_add does to the sequence of a list.
IsPrepended(t, i, s) ==
  /\ t \in Seq(Items) /\ Len(t) = Len(s) + 1
  /\ t[1] = i /\ \A n \in DOMAIN s : t[n + 1] = s[n]
  /\ \A n \in DOMAIN t : n # 1 => n - 1 \in DOMAIN s /\ t[n] = s[n - 1]
  /\ ToSet(t) = ToSet(s) \cup {i}

\* A sequence with an item put in front.
LEMMA Prepended ==
  ASSUME NEW s \in Seq(Items), NEW i \in Items
  PROVE  IsPrepended(<<i>> \o s, i, s)
<1> DEFINE t == <<i>> \o s
<1>1. /\ t \in Seq(Items) /\ Len(t) = Len(s) + 1
      /\ \A n \in 1 .. Len(s) + 1 : t[n] = IF n <= 1 THEN i ELSE s[n - 1]
  <2>1. <<i>> \in Seq(Items) /\ Len(<<i>>) = 1 /\ <<i>>[1] = i
    OBVIOUS
  <2>2. Len(s) \in Nat
    BY SeqFacts
  <2> QED BY <2>1, <2>2, ConcatProperties
<1> HIDE DEF t
<1>2. Len(s) \in Nat /\ DOMAIN s = 1 .. Len(s) /\ DOMAIN t = 1 .. Len(s) + 1
  BY <1>1, SeqFacts
<1>3. t[1] = i /\ \A n \in DOMAIN s : t[n + 1] = s[n]
  BY <1>1, <1>2
<1>4. \A n \in DOMAIN t : n # 1 => n - 1 \in DOMAIN s /\ t[n] = s[n - 1]
  BY <1>1, <1>2
<1>5. ToSet(t) = ToSet(s) \cup {i}
  <2>1. ASSUME NEW x \in ToSet(t) PROVE x \in ToSet(s) \cup {i}
    BY <1>3, <1>4 DEF ToSet
  <2>2. ASSUME NEW x \in ToSet(s) \cup {i} PROVE x \in ToSet(t)
    <3>1. CASE x = i
      BY <3>1, <1>2, <1>3 DEF ToSet
    <3>2. CASE x \in ToSet(s)
      <4>1. PICK n \in DOMAIN s : x = s[n]
        BY <3>2 DEF ToSet
      <4>2. n + 1 \in DOMAIN t /\ t[n + 1] = x
        BY <4>1, <1>2, <1>3
      <4> QED BY <4>2 DEF ToSet
    <3> QED BY <3>1, <3>2
  <2> QED BY <2>1, <2>2
<1>6. IsPrepended(t, i, s)
  BY <1>1, <1>3, <1>4, <1>5 DEF IsPrepended
<1> QED BY <1>6 DEF t

\* What ll_del does to it.
IsRemoved(t, n, s) ==
  /\ t \in Seq(Items) /\ Len(t) = Len(s) - 1
  /\ \A m \in DOMAIN t : /\ m \in DOMAIN s /\ m + 1 \in DOMAIN s
                         /\ t[m] = IF m < n THEN s[m] ELSE s[m + 1]

\* A sequence with one position removed.
LEMMA Removed ==
  ASSUME NEW s \in Seq(Items), NEW n \in DOMAIN s
  PROVE  IsRemoved(RemoveAt(s, n), n, s)
<1> DEFINE t == RemoveAt(s, n)
<1>1. Len(s) \in Nat /\ DOMAIN s = 1 .. Len(s) /\ n \in 1 .. Len(s)
  BY SeqFacts
<1> DEFINE a == SubSeq(s, 1, n - 1)
           b == SubSeq(s, n + 1, Len(s))
<1>2. /\ a \in Seq(Items) /\ Len(a) = n - 1
      /\ \A m \in 1 .. n - 1 : a[m] = s[m]
  <2>1. \A m \in 1 .. n - 1 : s[m] \in Items
    BY <1>1, SeqFacts
  <2>2. /\ a \in Seq(Items) /\ Len(a) = IF 1 <= n - 1 THEN n - 1 - 1 + 1 ELSE 0
        /\ \A m \in 1 .. n - 1 - 1 + 1 : a[m] = s[1 + m - 1]
    BY <2>1, <1>1, SubSeqProperties
  <2> HIDE DEF a
  <2> QED BY <2>2, <1>1
<1>3. /\ b \in Seq(Items) /\ Len(b) = Len(s) - n
      /\ \A m \in 1 .. Len(s) - n : b[m] = s[n + m]
  <2>1. \A m \in n + 1 .. Len(s) : s[m] \in Items
    BY <1>1, SeqFacts
  <2>2. /\ b \in Seq(Items) /\ Len(b) = IF n + 1 <= Len(s) THEN Len(s) - (n + 1) + 1 ELSE 0
        /\ \A m \in 1 .. Len(s) - (n + 1) + 1 : b[m] = s[n + 1 + m - 1]
    BY <2>1, <1>1, SubSeqProperties
  <2> HIDE DEF b
  <2>3. \A m \in 1 .. Len(s) - n : n + 1 + m - 1 = n + m
    BY <1>1
  <2>4. Len(s) - (n + 1) + 1 = Len(s) - n /\ Len(b) = Len(s) - n
    BY <2>2, <1>1
  <2> QED BY <2>2, <2>3, <2>4
<1>4. t = a \o b
  BY DEF RemoveAt
<1> HIDE DEF a, b, t
<1>5. /\ t \in Seq(Items) /\ Len(t) = Len(s) - 1
      /\ \A m \in 1 .. Len(s) - 1 : t[m] = IF m <= n - 1 THEN a[m] ELSE b[m - (n - 1)]
  <2>1. Len(a) + Len(b) = Len(s) - 1
    BY <1>1, <1>2, <1>3
  <2>2. /\ t \in Seq(Items) /\ Len(t) = Len(a) + Len(b)
        /\ \A m \in 1 .. Len(a) + Len(b) : t[m] = IF m <= Len(a) THEN a[m] ELSE b[m - Len(a)]
    <3>1. a \in Seq(Items) /\ b \in Seq(Items)
      BY <1>2, <1>3
    <3> QED BY <3>1, <1>4, ConcatProperties
  <2> QED BY <2>1, <2>2, <1>2
<1>6. DOMAIN t = 1 .. Len(s) - 1
  BY <1>5, SeqFacts
<1>7. ASSUME NEW m \in DOMAIN t
      PROVE  /\ m \in DOMAIN s /\ m + 1 \in DOMAIN s
             /\ t[m] = IF m < n THEN s[m] ELSE s[m + 1]
  <2>1. CASE m < n
    BY <2>1, <1>1, <1>2, <1>5, <1>6
  <2>2. CASE ~(m < n)
    <3>1. m - (n - 1) \in 1 .. Len(s) - n /\ n + (m - (n - 1)) = m + 1
      BY <2>2, <1>1, <1>6
    <3>2. b[m - (n - 1)] = s[m + 1]
      BY <3>1, <1>3
    <3>3. t[m] = b[m - (n - 1)]
      BY <1>5, <1>6, <1>1, <2>2
    <3> QED BY <3>2, <3>3, <2>2, <1>1, <1>6
  <2> QED BY <2>1, <2>2
<1>8. IsRemoved(t, n, s)
  BY <1>5, <1>7 DEF IsRemoved
<1> QED BY <1>8 DEF t
-----------------------------------------------------------------------------
(***************************************************************************)
(* The links                                                               *)
(***************************************************************************)

\* The item after position n of list h, and the one before, are in the list.
LEMMA NthFacts ==
  ASSUME TypeOK, LinksExact, NEW h \in Heads
  PROVE  /\ order[h] \in Seq(Items)
         /\ DOMAIN order[h] = 1 .. Len(order[h]) /\ Len(order[h]) \in Nat
         /\ \A n \in DOMAIN order[h] : /\ order[h][n] \in Items /\ order[h][n] # NULL
                                       /\ order[h][n] \in ToSet(order[h])
         /\ \A x \in ToSet(order[h]) : x \in Items /\ \E n \in DOMAIN order[h] : x = order[h][n]
         /\ \A n : Nth(h, n) # NULL => n \in DOMAIN order[h] /\ Nth(h, n) = order[h][n]
BY SeqFacts, NULLAssumption DEF TypeOK, Nth

\* Items that are listed elsewhere keep their links in ll_add and ll_del, since the
\* neighbours whose links change are in list h.
LEMMA OtherList ==
  ASSUME LinksExact, NEW g \in Heads, NEW h \in Heads, g # h, NEW x \in ToSet(order[g])
  PROVE  x \notin ToSet(order[h])
BY DEF LinksExact

\* ll_add on an item that is in no list keeps all links right.
LEMMA AddLinks ==
  ASSUME TypeOK, LinksExact, NEW h \in Heads, NEW i \in Items, ~Listed(i), ll_add(h, i),
         order' = [order EXCEPT ![h] = <<i>> \o @]
  PROVE  LinksExact' /\ order' \in [Heads -> Seq(Items)]
<1> DEFINE s == order[h]
           t == <<i>> \o s
<1>1. /\ s \in Seq(Items) /\ DOMAIN s = 1 .. Len(s) /\ Len(s) \in Nat
      /\ \A n \in DOMAIN s : s[n] \in Items /\ s[n] # NULL
  BY NthFacts
<1>2. /\ t \in Seq(Items) /\ Len(t) = Len(s) + 1
      /\ t[1] = i /\ \A n \in DOMAIN s : t[n + 1] = s[n]
      /\ \A n \in DOMAIN t : n # 1 => n - 1 \in DOMAIN s /\ t[n] = s[n - 1]
      /\ ToSet(t) = ToSet(s) \cup {i}
  <2>1. IsPrepended(t, i, s)
    BY <1>1, Prepended
  <2> HIDE DEF s, t
  <2> QED BY <2>1 DEF IsPrepended
<1>3. DOMAIN t = 1 .. Len(s) + 1
  BY <1>1, <1>2, SeqFacts
<1>4. /\ order' \in [Heads -> Seq(Items)]
      /\ order'[h] = t /\ \A g \in Heads : g # h => order'[g] = order[g]
  BY <1>2 DEF TypeOK
<1>5. \A g \in Heads : i \notin ToSet(order[g])
  BY DEF Listed
<1>6. \A n \in DOMAIN s : s[n] # i
  BY <1>1, <1>5 DEF ToSet
<1>7. /\ ll' = [ll EXCEPT ![h] = i] /\ fd' = [fd EXCEPT ![i] = ll[h]]
      /\ bk' = [x \in Items |-> IF x = i THEN NULL ELSE IF x = ll[h] THEN i ELSE bk[x]]
      /\ i # NULL
  BY NULLAssumption DEF ll_add
<1>8. /\ ll[h] = Nth(h, 1)
      /\ \A n \in DOMAIN s : fd[s[n]] = Nth(h, n + 1) /\ bk[s[n]] = Nth(h, n - 1)
      /\ \A m, n \in DOMAIN s : s[m] = s[n] => m = n
  BY DEF LinksExact
<1> HIDE DEF s, t
<1>9. /\ \A x : Nth(h, x) = IF x \in DOMAIN s THEN s[x] ELSE NULL
      /\ \A x : Nth(h, x)' = IF x \in DOMAIN t THEN t[x] ELSE NULL
  BY <1>4 DEF Nth, s
<1>10. ll'[h] = Nth(h, 1)'
  <2>1. ll'[h] = i
    BY <1>7 DEF TypeOK
  <2>2. 1 \in DOMAIN t
    BY <1>1, <1>3
  <2> QED BY <2>1, <2>2, <1>2, <1>9
<1>11. ASSUME NEW n \in DOMAIN t PROVE fd'[t[n]] = Nth(h, n + 1)' /\ bk'[t[n]] = Nth(h, n - 1)'
  <2>1. CASE n = 1
    <3>1. fd'[i] = ll[h] /\ bk'[i] = NULL
      BY <1>7 DEF TypeOK
    <3>2. Nth(h, 0)' = NULL
      BY <1>3, <1>9
    <3>3. ll[h] = Nth(h, 2)'
      BY <1>1, <1>2, <1>3, <1>8, <1>9
    <3> QED BY <2>1, <3>1, <3>2, <3>3, <1>2
  <2>2. CASE n # 1
    <3> DEFINE m == n - 1
    <3>1. m \in DOMAIN s /\ n = m + 1 /\ t[n] = s[m] /\ s[m] # i /\ s[m] \in Items /\ m \in Nat
      BY <2>2, <1>1, <1>2, <1>3, <1>6
    <3> HIDE DEF m
    <3>2. fd'[s[m]] = Nth(h, m + 1)
      BY <3>1, <1>7, <1>8 DEF TypeOK
    <3>3. Nth(h, m + 1) = Nth(h, m + 2)'
      <4>1. m + 1 \in DOMAIN s <=> m + 2 \in DOMAIN t
        BY <3>1, <1>1, <1>3
      <4>2. m + 1 \in DOMAIN s => t[m + 2] = s[m + 1]
        <5>1. m + 1 \in DOMAIN s => t[m + 1 + 1] = s[m + 1]
          BY <1>2
        <5>2. m + 1 + 1 = m + 2
          BY <3>1
        <5> QED BY <5>1, <5>2
      <4> QED BY <4>1, <4>2, <1>9
    <3>4. bk'[s[m]] = Nth(h, m)'
      <4>1. CASE m = 1
        <5>1. s[1] = ll[h]
          BY <3>1, <4>1, <1>8, <1>9
        <5>2. Nth(h, 1)' = i
          BY <1>1, <1>2, <1>3, <1>9
        <5> QED BY <5>1, <5>2, <4>1, <3>1, <1>7
      <4>2. CASE m # 1
        <5>1. s[m] # ll[h]
          BY <4>2, <3>1, <1>1, <1>8, <1>9
        <5>2. bk'[s[m]] = Nth(h, m - 1)
          BY <5>1, <3>1, <1>7, <1>8
        <5>3. m - 1 \in DOMAIN s /\ m \in DOMAIN t
          BY <4>2, <3>1, <1>1, <1>3
        <5>4. t[m] = s[m - 1]
          BY <5>3, <4>2, <1>2
        <5> QED BY <5>2, <5>3, <5>4, <1>9
      <4> QED BY <4>1, <4>2
    <3>5. n + 1 = m + 2 /\ n - 1 = m
      BY <3>1
    <3> QED BY <3>1, <3>2, <3>3, <3>4, <3>5
  <2> QED BY <2>1, <2>2
<1>12. \A m, n \in DOMAIN t : t[m] = t[n] => m = n
  <2> SUFFICES ASSUME NEW m \in DOMAIN t, NEW n \in DOMAIN t, t[m] = t[n] PROVE m = n
    OBVIOUS
  <2>1. CASE m = 1 \/ n = 1
    BY <2>1, <1>2, <1>6
  <2>2. CASE m # 1 /\ n # 1
    <3>1. m - 1 = n - 1
      BY <2>2, <1>2, <1>8
    <3> QED BY <3>1, <1>1, <1>3
  <2> QED BY <2>1, <2>2
<1>13. ASSUME NEW g \in Heads, g # h
       PROVE  /\ ll'[g] = Nth(g, 1)'
              /\ \A n \in DOMAIN order'[g] : /\ fd'[order'[g][n]] = Nth(g, n + 1)'
                                             /\ bk'[order'[g][n]] = Nth(g, n - 1)'
              /\ \A m, n \in DOMAIN order'[g] : order'[g][m] = order'[g][n] => m = n
              /\ ToSet(order'[g]) \cap ToSet(order'[h]) = {}
  <2>1. order'[g] = order[g] /\ \A x : Nth(g, x)' = Nth(g, x)
    BY <1>4, <1>13 DEF Nth
  <2>2. ll'[g] = ll[g]
    BY <1>7, <1>13 DEF TypeOK
  <2>3. ASSUME NEW n \in DOMAIN order[g]
        PROVE  fd'[order[g][n]] = fd[order[g][n]] /\ bk'[order[g][n]] = bk[order[g][n]]
    <3>1. order[g][n] \in Items /\ order[g][n] # i /\ order[g][n] \in ToSet(order[g])
      BY NthFacts, <1>5
    <3>2. order[g][n] # ll[h]
      <4>1. order[g][n] \notin ToSet(s)
        BY <3>1, <1>13, OtherList DEF s
      <4>2. ll[h] = NULL \/ ll[h] \in ToSet(s)
        BY <1>8, <1>9 DEF ToSet
      <4> QED BY <4>1, <4>2, <3>1, NULLAssumption
    <3> QED BY <3>1, <3>2, <1>7 DEF TypeOK
  <2>4. ToSet(order[g]) \cap ToSet(t) = {}
    BY <1>2, <1>5, <1>13 DEF LinksExact, s
  <2>5. /\ ll[g] = Nth(g, 1)
        /\ \A n \in DOMAIN order[g] : /\ fd[order[g][n]] = Nth(g, n + 1)
                                      /\ bk[order[g][n]] = Nth(g, n - 1)
        /\ \A m, n \in DOMAIN order[g] : order[g][m] = order[g][n] => m = n
    BY DEF LinksExact
  <2>6. ll'[g] = Nth(g, 1)'
    BY <2>1, <2>2, <2>5
  <2>7. ASSUME NEW n \in DOMAIN order'[g]
        PROVE  fd'[order'[g][n]] = Nth(g, n + 1)' /\ bk'[order'[g][n]] = Nth(g, n - 1)'
    <3>1. n \in DOMAIN order[g] /\ order'[g][n] = order[g][n]
      BY <2>1
    <3>2. Nth(g, n + 1)' = Nth(g, n + 1) /\ Nth(g, n - 1)' = Nth(g, n - 1)
      BY <2>1
    <3> QED BY <3>1, <3>2, <2>3, <2>5
  <2>8. \A m, n \in DOMAIN order'[g] : order'[g][m] = order'[g][n] => m = n
    BY <2>1, <2>5
  <2> QED BY <2>1, <2>4, <2>6, <2>7, <2>8, <1>4
<1>14. \A g, f \in Heads : g # f => ToSet(order'[g]) \cap ToSet(order'[f]) = {}
  <2> SUFFICES ASSUME NEW g \in Heads, NEW f \in Heads, g # f
               PROVE  ToSet(order'[g]) \cap ToSet(order'[f]) = {}
    OBVIOUS
  <2>1. CASE g # h /\ f # h
    BY <2>1, <1>4 DEF LinksExact
  <2> QED BY <2>1, <1>13
<1>15. ASSUME NEW x \in Items, ~Listed(x)' PROVE fd'[x] = NULL /\ bk'[x] = NULL
  <2>1. \A g \in Heads : x \notin ToSet(order'[g])
    BY <1>15 DEF Listed
  <2>2. x # i /\ x \notin ToSet(s) /\ ~Listed(x)
    <3>1. x \notin ToSet(t)
      BY <2>1, <1>4
    <3>2. ASSUME NEW g \in Heads PROVE x \notin ToSet(order[g])
      BY <3>1, <2>1, <1>2, <1>4 DEF s
    <3> QED BY <3>1, <3>2, <1>2 DEF Listed
  <2>3. x # ll[h]
    BY <2>2, <1>8, <1>9, NULLAssumption DEF ToSet
  <2> QED BY <2>2, <2>3, <1>7 DEF LinksExact, TypeOK
<1> QED BY <1>4, <1>10, <1>11, <1>12, <1>13, <1>14, <1>15 DEF LinksExact
\* ll_del of an item of list h joins its neighbours and keeps all links right.
LEMMA DelLinks ==
  ASSUME TypeOK, LinksExact, NEW h \in Heads, NEW p \in DOMAIN order[h],
         ll_del(h, order[h][p]), order' = [order EXCEPT ![h] = RemoveAt(@, p)]
  PROVE  /\ LinksExact' /\ order' \in [Heads -> Seq(Items)]
         /\ ToSet(order'[h]) = ToSet(order[h]) \ {order[h][p]}
         /\ \A g \in Heads : g # h => order'[g] = order[g]
<1> DEFINE s == order[h]
           i == s[p]
           t == RemoveAt(s, p)
<1>1. /\ s \in Seq(Items) /\ DOMAIN s = 1 .. Len(s) /\ Len(s) \in Nat
      /\ \A n \in DOMAIN s : s[n] \in Items /\ s[n] # NULL
      /\ i \in Items /\ p \in 1 .. Len(s)
  BY NthFacts
<1>2. /\ t \in Seq(Items) /\ Len(t) = Len(s) - 1
      /\ \A m \in DOMAIN t : /\ m \in DOMAIN s /\ m + 1 \in DOMAIN s
                             /\ t[m] = IF m < p THEN s[m] ELSE s[m + 1]
  <2>1. IsRemoved(t, p, s)
    BY <1>1, Removed
  <2> HIDE DEF s, t
  <2> QED BY <2>1 DEF IsRemoved
<1>3. DOMAIN t = 1 .. Len(s) - 1
  BY <1>1, <1>2, SeqFacts
<1>4. /\ order' \in [Heads -> Seq(Items)]
      /\ order'[h] = t /\ \A g \in Heads : g # h => order'[g] = order[g]
  BY <1>2 DEF TypeOK
<1>5. /\ ll' = [ll EXCEPT ![h] = IF ll[h] = i THEN fd[i] ELSE ll[h]]
      /\ fd' = [x \in Items |-> IF x = i THEN NULL ELSE IF x = bk[i] THEN fd[i] ELSE fd[x]]
      /\ bk' = [x \in Items |-> IF x = i THEN NULL ELSE IF x = fd[i] THEN bk[i] ELSE bk[x]]
  BY DEF ll_del
<1>6. /\ ll[h] = Nth(h, 1)
      /\ \A n \in DOMAIN s : fd[s[n]] = Nth(h, n + 1) /\ bk[s[n]] = Nth(h, n - 1)
      /\ \A m, n \in DOMAIN s : s[m] = s[n] => m = n
      /\ fd[i] = Nth(h, p + 1) /\ bk[i] = Nth(h, p - 1)
  BY DEF LinksExact
<1>7. p \in DOMAIN s /\ p \in Nat /\ i = s[p]
  BY <1>1
<1> HIDE DEF s, t, i
<1>8. /\ \A x : Nth(h, x) = IF x \in DOMAIN s THEN s[x] ELSE NULL
      /\ \A x : Nth(h, x)' = IF x \in DOMAIN t THEN t[x] ELSE NULL
  BY <1>4 DEF Nth, s
\* The two neighbours of the item.
<1>9. /\ fd[i] = IF p = Len(s) THEN NULL ELSE s[p + 1]
      /\ bk[i] = IF p = 1 THEN NULL ELSE s[p - 1]
  <2>1. p + 1 \in DOMAIN s <=> p # Len(s)
    BY <1>1, <1>7
  <2>2. p - 1 \in DOMAIN s <=> p # 1
    BY <1>1, <1>7
  <2> QED BY <2>1, <2>2, <1>6, <1>8
<1>10. ll'[h] = Nth(h, 1)'
  <2>1. ll'[h] = IF ll[h] = i THEN fd[i] ELSE ll[h]
    BY <1>5 DEF TypeOK
  <2>2. 1 \in DOMAIN s /\ ll[h] = s[1]
    BY <1>1, <1>6, <1>8
  <2>3. CASE p = 1
    <3>1. Nth(h, 1)' = IF Len(s) = 1 THEN NULL ELSE s[2]
      BY <2>3, <1>1, <1>2, <1>3, <1>8
    <3> QED BY <3>1, <2>1, <2>2, <2>3, <1>7, <1>9
  <2>4. CASE p # 1
    <3>1. ll[h] # i
      BY <2>2, <2>4, <1>6, <1>7
    <3>2. 1 \in DOMAIN t /\ 1 < p
      BY <2>4, <1>1, <1>3, <1>7
    <3> QED BY <3>1, <3>2, <2>1, <2>2, <1>2, <1>8
  <2> QED BY <2>3, <2>4
<1>11. ASSUME NEW m \in DOMAIN t PROVE fd'[t[m]] = Nth(h, m + 1)' /\ bk'[t[m]] = Nth(h, m - 1)'
  <2>0. m \in Nat /\ m >= 1 /\ m < Len(s) /\ m \in DOMAIN s /\ m + 1 \in DOMAIN s
    BY <1>1, <1>2, <1>3
  <2>a. m + 1 \in DOMAIN t <=> m + 1 < Len(s)
    BY <2>0, <1>1, <1>3
  <2>b. m - 1 \in DOMAIN t <=> m > 1
    BY <2>0, <1>1, <1>3
  <2>1. CASE m < p
    <3>1. t[m] = s[m] /\ s[m] # i /\ s[m] \in Items
      BY <2>0, <2>1, <1>1, <1>2, <1>6, <1>7
    <3>2. fd'[s[m]] = Nth(h, m + 1)'
      <4>1. CASE m + 1 = p
        <5>1. s[m] = bk[i]
          BY <4>1, <2>0, <1>9
        <5>2. fd'[s[m]] = IF p = Len(s) THEN NULL ELSE s[p + 1]
          BY <5>1, <3>1, <1>5, <1>9
        <5>3. p # Len(s) => t[m + 1] = s[p + 1]
          BY <4>1, <2>a, <1>1, <1>2, <1>7
        <5> QED BY <5>2, <5>3, <4>1, <2>a, <1>1, <1>7, <1>8
      <4>2. CASE m + 1 # p
        <5>1. m + 1 < p
          BY <4>2, <2>1, <2>0, <1>7
        <5>2. s[m] # bk[i]
          BY <5>1, <2>0, <1>1, <1>6, <1>7, <1>9
        <5>3. fd'[s[m]] = Nth(h, m + 1)
          BY <5>2, <3>1, <2>0, <1>5, <1>6
        <5>4. m + 1 \in DOMAIN t /\ t[m + 1] = s[m + 1]
          BY <5>1, <2>0, <1>1, <1>2, <1>3
        <5> QED BY <5>3, <5>4, <2>0, <1>8
      <4> QED BY <4>1, <4>2
    <3>3. bk'[s[m]] = Nth(h, m - 1)'
      <4>1. s[m] # fd[i]
        BY <2>0, <2>1, <3>1, <1>1, <1>6, <1>7, <1>9
      <4>2. bk'[s[m]] = Nth(h, m - 1)
        BY <4>1, <3>1, <2>0, <1>5, <1>6
      <4>3. m - 1 \in DOMAIN s <=> m > 1
        BY <2>0, <1>1
      <4>4. m > 1 => t[m - 1] = s[m - 1]
        <5>1. m > 1 => m - 1 < p
          BY <2>0, <2>1, <1>7
        <5> QED BY <5>1, <2>b, <1>2
      <4> QED BY <4>2, <4>3, <4>4, <2>b, <1>8
    <3> QED BY <3>1, <3>2, <3>3
  <2>2. CASE ~(m < p)
    <3> DEFINE k == m + 1
    <3>0. k \in Nat /\ k > p /\ k \in DOMAIN s /\ m = k - 1
      BY <2>0, <2>2, <1>7
    <3>1. t[m] = s[k] /\ s[k] # i /\ s[k] \in Items
      BY <3>0, <2>0, <2>2, <1>1, <1>2, <1>6, <1>7
    <3> HIDE DEF k
    <3>2. fd'[s[k]] = Nth(h, k)'
      <4>1. s[k] # bk[i]
        BY <3>0, <3>1, <1>1, <1>6, <1>7, <1>9
      <4>2. fd'[s[k]] = Nth(h, k + 1)
        BY <4>1, <3>0, <3>1, <1>5, <1>6
      <4>3. k \in DOMAIN t <=> k + 1 \in DOMAIN s
        BY <3>0, <1>1, <1>3
      <4>4. k \in DOMAIN t => t[k] = s[k + 1]
        BY <3>0, <1>2, <1>7
      <4> QED BY <4>2, <4>3, <4>4, <1>8
    <3>3. bk'[s[k]] = Nth(h, m - 1)'
      <4>1. CASE k = p + 1
        <5>1. s[k] = fd[i]
          BY <4>1, <3>0, <1>1, <1>7, <1>9
        <5>2. bk'[s[k]] = IF p = 1 THEN NULL ELSE s[p - 1]
          BY <5>1, <3>1, <1>5, <1>9
        <5>3. m = p
          BY <4>1, <3>0, <1>7
        <5>4. p # 1 => t[p - 1] = s[p - 1]
          BY <5>3, <2>b, <1>2, <1>7
        <5>5. (m - 1 \in DOMAIN t <=> p # 1) /\ m - 1 = p - 1
          BY <5>3, <2>0, <2>b, <1>7
        <5>6. Nth(h, m - 1)' = IF p # 1 THEN t[p - 1] ELSE NULL
          BY <5>5, <1>8
        <5> QED BY <5>2, <5>4, <5>6
      <4>2. CASE k # p + 1
        <5>1. k > p + 1
          BY <4>2, <3>0, <1>7
        <5>2. s[k] # fd[i]
          <6>1. p + 1 \in DOMAIN s /\ p + 1 # k
            BY <5>1, <3>0, <1>1, <1>7
          <6>2. s[p + 1] # s[k]
            BY <6>1, <3>0, <1>6
          <6> QED BY <6>2, <3>0, <1>1, <1>9
        <5>3. bk'[s[k]] = Nth(h, k - 1)
          BY <5>2, <3>0, <3>1, <1>5, <1>6
        <5>4. k - 1 \in DOMAIN s /\ m - 1 \in DOMAIN t /\ ~(m - 1 < p)
          BY <5>1, <3>0, <2>0, <2>b, <1>1, <1>7
        <5>5. t[m - 1] = s[k - 1]
          <6>1. m - 1 + 1 = k - 1
            BY <3>0, <2>0
          <6> QED BY <6>1, <5>4, <1>2
        <5> QED BY <5>3, <5>4, <5>5, <1>8
      <4> QED BY <4>1, <4>2
    <3> QED BY <3>1, <3>2, <3>3 DEF k
  <2> QED BY <2>1, <2>2
<1>12. \A m, n \in DOMAIN t : t[m] = t[n] => m = n
  <2> SUFFICES ASSUME NEW m \in DOMAIN t, NEW n \in DOMAIN t, t[m] = t[n] PROVE m = n
    OBVIOUS
  <2> DEFINE a == IF m < p THEN m ELSE m + 1
             b == IF n < p THEN n ELSE n + 1
  <2>1. a \in DOMAIN s /\ b \in DOMAIN s /\ s[a] = s[b]
    BY <1>2
  <2>2. a = b
    BY <2>1, <1>6
  <2>3. m \in Nat /\ n \in Nat
    BY <1>1, <1>3
  <2> QED BY <2>2, <2>3, <1>7
<1>13. ToSet(t) = ToSet(s) \ {i}
  <2>1. ASSUME NEW x \in ToSet(t) PROVE x \in ToSet(s) \ {i}
    <3>1. PICK m \in DOMAIN t : x = t[m]
      BY DEF ToSet
    <3> DEFINE k == IF m < p THEN m ELSE m + 1
    <3>2. k \in DOMAIN s /\ x = s[k]
      BY <3>1, <1>2
    <3>3. k # p
      BY <1>1, <1>3, <1>7
    <3>4. s[k] # s[p]
      BY <3>2, <3>3, <1>6, <1>7
    <3> QED BY <3>2, <3>4, <1>7 DEF ToSet
  <2>2. ASSUME NEW x \in ToSet(s) \ {i} PROVE x \in ToSet(t)
    <3>1. PICK k \in DOMAIN s : x = s[k]
      BY DEF ToSet
    <3>2. k # p /\ k \in 1 .. Len(s)
      BY <3>1, <2>2, <1>1, <1>7
    <3> DEFINE m == IF k < p THEN k ELSE k - 1
    <3>3. m \in DOMAIN t /\ (IF m < p THEN m ELSE m + 1) = k
      BY <3>2, <1>1, <1>3, <1>7
    <3>4. t[m] = s[k]
      <4> HIDE DEF m
      <4> QED BY <3>3, <1>2
    <3> HIDE DEF m
    <3> QED BY <3>1, <3>3, <3>4 DEF ToSet
  <2> QED BY <2>1, <2>2
\* The neighbours are in this list, so no other list is touched.
<1>14. (fd[i] = NULL \/ fd[i] \in ToSet(s)) /\ (bk[i] = NULL \/ bk[i] \in ToSet(s))
  BY <1>6, <1>8 DEF ToSet
<1>15. i \in ToSet(s)
  BY <1>7 DEF ToSet
<1>16. ASSUME NEW g \in Heads, g # h
       PROVE  /\ ll'[g] = Nth(g, 1)'
              /\ \A n \in DOMAIN order'[g] : /\ fd'[order'[g][n]] = Nth(g, n + 1)'
                                             /\ bk'[order'[g][n]] = Nth(g, n - 1)'
              /\ \A m, n \in DOMAIN order'[g] : order'[g][m] = order'[g][n] => m = n
              /\ ToSet(order'[g]) \cap ToSet(order'[h]) = {}
  <2>1. order'[g] = order[g] /\ \A x : Nth(g, x)' = Nth(g, x)
    BY <1>4, <1>16 DEF Nth
  <2>2. ll'[g] = ll[g]
    BY <1>5, <1>16 DEF TypeOK
  <2>3. ASSUME NEW n \in DOMAIN order[g]
        PROVE  fd'[order[g][n]] = fd[order[g][n]] /\ bk'[order[g][n]] = bk[order[g][n]]
    <3>1. order[g][n] \in Items /\ order[g][n] # NULL /\ order[g][n] \in ToSet(order[g])
      BY NthFacts
    <3>2. order[g][n] \notin ToSet(s)
      BY <3>1, <1>16, OtherList DEF s
    <3> QED BY <3>1, <3>2, <1>5, <1>14, <1>15
  <2>4. ToSet(order[g]) \cap ToSet(t) = {}
    BY <1>13, <1>16 DEF LinksExact, s
  <2>5. /\ ll[g] = Nth(g, 1)
        /\ \A n \in DOMAIN order[g] : /\ fd[order[g][n]] = Nth(g, n + 1)
                                      /\ bk[order[g][n]] = Nth(g, n - 1)
        /\ \A m, n \in DOMAIN order[g] : order[g][m] = order[g][n] => m = n
    BY DEF LinksExact
  <2>6. ll'[g] = Nth(g, 1)'
    BY <2>1, <2>2, <2>5
  <2>7. ASSUME NEW n \in DOMAIN order'[g]
        PROVE  fd'[order'[g][n]] = Nth(g, n + 1)' /\ bk'[order'[g][n]] = Nth(g, n - 1)'
    <3>1. n \in DOMAIN order[g] /\ order'[g][n] = order[g][n]
      BY <2>1
    <3>2. Nth(g, n + 1)' = Nth(g, n + 1) /\ Nth(g, n - 1)' = Nth(g, n - 1)
      BY <2>1
    <3> QED BY <3>1, <3>2, <2>3, <2>5
  <2>8. \A m, n \in DOMAIN order'[g] : order'[g][m] = order'[g][n] => m = n
    BY <2>1, <2>5
  <2> QED BY <2>1, <2>4, <2>6, <2>7, <2>8, <1>4
<1>17. \A g, f \in Heads : g # f => ToSet(order'[g]) \cap ToSet(order'[f]) = {}
  <2> SUFFICES ASSUME NEW g \in Heads, NEW f \in Heads, g # f
               PROVE  ToSet(order'[g]) \cap ToSet(order'[f]) = {}
    OBVIOUS
  <2>1. CASE g # h /\ f # h
    BY <2>1, <1>4 DEF LinksExact
  <2> QED BY <2>1, <1>16
<1>18. ASSUME NEW x \in Items, ~Listed(x)' PROVE fd'[x] = NULL /\ bk'[x] = NULL
  <2>1. \A g \in Heads : x \notin ToSet(order'[g])
    BY <1>18 DEF Listed
  <2>2. CASE x = i
    BY <2>2, <1>5
  <2>3. CASE x # i
    <3>1. ASSUME NEW g \in Heads PROVE x \notin ToSet(order[g])
      BY <2>1, <2>3, <1>4, <1>13 DEF s
    <3>2. fd[x] = NULL /\ bk[x] = NULL
      BY <3>1 DEF Listed, LinksExact
    <3>3. x \notin ToSet(s) /\ x # NULL
      BY <3>1, NULLAssumption DEF s
    <3> QED BY <3>2, <3>3, <2>3, <1>5, <1>14
  <2> QED BY <2>2, <2>3
<1>19. LinksExact'
  BY <1>4, <1>10, <1>11, <1>12, <1>16, <1>17, <1>18 DEF LinksExact
<1> QED BY <1>4, <1>13, <1>19 DEF s, i
-----------------------------------------------------------------------------
(***************************************************************************)
(* The inductive invariant.  That the keys of a list differ is the guard   *)
(* of Add and Rekey; the links need nothing but themselves.                *)
(***************************************************************************)

\* Every listed item has a key, and no two items of a list have the same.
KeysExact ==
  \A h \in Heads : \A i, j \in ToSet(order[h]) : key[i] \in Keys /\ (key[i] = key[j] => i = j)

IInv == TypeOK /\ LinksExact /\ KeysExact

\* The lists are empty.
LEMMA InitInv == Init => IInv
<1> SUFFICES ASSUME Init PROVE IInv
  OBVIOUS
<1>1. TypeOK
  BY EmptySeq DEF Init, TypeOK
<1>2. \A h \in Heads : order[h] = <<>> /\ DOMAIN order[h] = {} /\ ToSet(order[h]) = {}
  BY DEF Init, ToSet
<1>3. LinksExact
  BY <1>2 DEF Init, LinksExact, Nth
<1>4. KeysExact
  BY <1>2 DEF KeysExact
<1> QED BY <1>1, <1>3, <1>4 DEF IInv

\* The sequence of a list after ll_add has one more item.
LEMMA AddSet ==
  ASSUME TypeOK, NEW h \in Heads, NEW i \in Items, order' = [order EXCEPT ![h] = <<i>> \o @]
  PROVE  /\ ToSet(order'[h]) = ToSet(order[h]) \cup {i}
         /\ \A g \in Heads : g # h => order'[g] = order[g]
<1>1. order[h] \in Seq(Items)
  BY DEF TypeOK
<1>2. order'[h] = <<i>> \o order[h] /\ \A g \in Heads : g # h => order'[g] = order[g]
  BY DEF TypeOK
<1>3. IsPrepended(<<i>> \o order[h], i, order[h])
  BY <1>1, Prepended
<1> QED BY <1>2, <1>3 DEF IsPrepended

\* ll_add
LEMMA AddInv ==
  ASSUME IInv, NEW h \in Heads, NEW i \in Items, NEW k \in Keys, Add(h, i, k)
  PROVE  IInv'
<1>1. /\ ~Listed(i) /\ \A j \in ToSet(order[h]) : key[j] # k
      /\ ll_add(h, i) /\ key' = [key EXCEPT ![i] = k]
      /\ order' = [order EXCEPT ![h] = <<i>> \o @]
  BY DEF Add
<1>2. LinksExact' /\ order' \in [Heads -> Seq(Items)]
  BY <1>1, AddLinks DEF IInv
<1>3. TypeOK'
  BY <1>1, <1>2 DEF IInv, TypeOK, ll_add
<1>4. /\ ToSet(order'[h]) = ToSet(order[h]) \cup {i}
      /\ \A g \in Heads : g # h => order'[g] = order[g]
  BY <1>1, AddSet DEF IInv
<1>5. \A g \in Heads : i \notin ToSet(order[g])
  BY <1>1 DEF Listed
<1>6. /\ key'[i] = k
      /\ \A g \in Heads : \A x \in ToSet(order[g]) : key'[x] = key[x]
  <2>1. key'[i] = k
    BY <1>1 DEF IInv, TypeOK
  <2>2. ASSUME NEW g \in Heads, NEW x \in ToSet(order[g]) PROVE key'[x] = key[x]
    <3>1. x \in Items /\ x # i
      BY <1>5, NthFacts DEF IInv
    <3> QED BY <3>1, <1>1 DEF IInv, TypeOK
  <2> QED BY <2>1, <2>2
<1>7. KeysExact'
  <2> SUFFICES ASSUME NEW g \in Heads, NEW x \in ToSet(order'[g]), NEW y \in ToSet(order'[g])
               PROVE  key'[x] \in Keys /\ (key'[x] = key'[y] => x = y)
    BY DEF KeysExact
  <2>1. CASE g = h
    BY <2>1, <1>1, <1>4, <1>6 DEF IInv, KeysExact
  <2>2. CASE g # h
    BY <2>2, <1>4, <1>6 DEF IInv, KeysExact
  <2> QED BY <2>1, <2>2
<1> QED BY <1>2, <1>3, <1>7 DEF IInv

\* ll_del: the item leaves its list, and the other lists stay as they are.
LEMMA DelInv ==
  ASSUME IInv, NEW h \in Heads, NEW i \in Items, Del(h, i)
  PROVE  /\ IInv' /\ i \in ToSet(order[h])
         /\ ToSet(order'[h]) = ToSet(order[h]) \ {i}
         /\ \A g \in Heads : g # h => order'[g] = order[g]
<1>1. PICK p \in DOMAIN order[h] : order[h][p] = i /\ order' = [order EXCEPT ![h] = RemoveAt(@, p)]
  BY DEF Del
<1>2. ll_del(h, i) /\ key' = key
  BY DEF Del
<1>3. /\ LinksExact' /\ order' \in [Heads -> Seq(Items)]
      /\ ToSet(order'[h]) = ToSet(order[h]) \ {i}
      /\ \A g \in Heads : g # h => order'[g] = order[g]
  BY <1>1, <1>2, DelLinks DEF IInv
<1>4. TypeOK'
  <2>1. fd[i] \in Items \cup {NULL} /\ bk[i] \in Items \cup {NULL}
    BY DEF IInv, TypeOK
  <2> QED BY <2>1, <1>2, <1>3 DEF IInv, TypeOK, ll_del
<1>5. KeysExact'
  <2> SUFFICES ASSUME NEW g \in Heads, NEW x \in ToSet(order'[g]), NEW y \in ToSet(order'[g])
               PROVE  key'[x] \in Keys /\ (key'[x] = key'[y] => x = y)
    BY DEF KeysExact
  <2>1. x \in ToSet(order[g]) /\ y \in ToSet(order[g])
    BY <1>3
  <2> QED BY <2>1, <1>2 DEF IInv, KeysExact
<1>6. i \in ToSet(order[h])
  BY <1>1 DEF ToSet
<1> QED BY <1>3, <1>4, <1>5, <1>6 DEF IInv

\* A key that changes in place.
LEMMA RekeyInv ==
  ASSUME IInv, NEW h \in Heads, NEW i \in Items, NEW k \in Keys, Rekey(h, i, k)
  PROVE  IInv'
<1>1. /\ i \in ToSet(order[h]) /\ \A j \in ToSet(order[h]) : key[j] # k
      /\ key' = [key EXCEPT ![i] = k]
      /\ ll' = ll /\ fd' = fd /\ bk' = bk /\ order' = order
  BY DEF Rekey, links
<1>2. TypeOK'
  BY <1>1 DEF IInv, TypeOK
<1>3. LinksExact'
  BY <1>1 DEF IInv, LinksExact, Nth, Listed
<1>4. KeysExact'
  <2> SUFFICES ASSUME NEW g \in Heads, NEW x \in ToSet(order[g]), NEW y \in ToSet(order[g])
               PROVE  key'[x] \in Keys /\ (key'[x] = key'[y] => x = y)
    BY <1>1 DEF KeysExact
  <2>1. x \in Items /\ y \in Items
    BY NthFacts DEF IInv
  <2>2. \A z \in Items : key'[z] = IF z = i THEN k ELSE key[z]
    BY <1>1 DEF IInv, TypeOK
  <2>3. g # h => x # i /\ y # i
    BY <1>1, OtherList DEF IInv
  <2> QED BY <2>1, <2>2, <2>3, <1>1 DEF IInv, KeysExact
<1> QED BY <1>2, <1>3, <1>4 DEF IInv

\* Every step keeps the invariant.
LEMMA NextInv == IInv /\ [Next]_vars => IInv'
<1> SUFFICES ASSUME IInv, [Next]_vars PROVE IInv'
  OBVIOUS
<1>1. ASSUME NEW h \in Heads, NEW i \in Items, Del(h, i) PROVE IInv'
  BY <1>1, DelInv
<1>2. ASSUME NEW h \in Heads, NEW i \in Items, NEW k \in Keys, Add(h, i, k) PROVE IInv'
  BY <1>2, AddInv
<1>3. ASSUME NEW h \in Heads, NEW i \in Items, NEW k \in Keys, Rekey(h, i, k) PROVE IInv'
  BY <1>3, RekeyInv
<1>4. CASE UNCHANGED vars
  <2>1. ll' = ll /\ fd' = fd /\ bk' = bk /\ key' = key /\ order' = order
    BY <1>4 DEF vars, links
  <2> QED BY <2>1 DEF IInv, TypeOK, LinksExact, KeysExact, Nth, Listed
<1> QED BY <1>1, <1>2, <1>3, <1>4 DEF Next

\* IInv holds in every state of every sequence of additions, deletions, moves between
\* lists and changes of keys.
THEOREM Invariance == Spec => []IInv
BY InitInv, NextInv, PTL DEF Spec

\* Heads, links and keys keep the types of ll_head_t and ll_entry_t.
THEOREM TypeCorrect == Spec => []TypeOK
<1>1. IInv => TypeOK
  BY DEF IInv
<1> QED BY <1>1, Invariance, PTL

\* The links that ll_add and ll_del write are, in both directions, those of the list
\* of items that were added and not deleted, for lists of any length; the assertions
\* of ll_add on the links of a new item never fail.
THEOREM LinksCorrect == Spec => []LinksExact
<1>1. IInv => LinksExact
  BY DEF IInv
<1> QED BY <1>1, Invariance, PTL
-----------------------------------------------------------------------------
(***************************************************************************)
(* ll_find                                                                 *)
(***************************************************************************)

\* A list has no more items than there are, so the walk reaches its end.
LEMMA LengthBound ==
  ASSUME TypeOK, LinksExact, NEW h \in Heads
  PROVE  Cardinality(Items) \in Nat /\ Len(order[h]) <= Cardinality(Items)
<1> DEFINE s == order[h]
<1>1. /\ s \in Seq(Items) /\ DOMAIN s = 1 .. Len(s) /\ Len(s) \in Nat
      /\ \A n \in DOMAIN s : s[n] \in Items
      /\ \A m, n \in DOMAIN s : s[m] = s[n] => m = n
  BY NthFacts DEF LinksExact
<1>2. Cardinality(Items) \in Nat
  BY ItemsAssumption, FS_CardinalityType
<1>3. IsFiniteSet(1 .. Len(s)) /\ Cardinality(1 .. Len(s)) = Len(s)
  BY <1>1, FS_Interval
<1>4. s \in Injection(1 .. Len(s), Items)
  <2>1. s \in [1 .. Len(s) -> Items]
    BY <1>1
  <2>2. IsInjective(s)
    BY <1>1 DEF IsInjective
  <2> QED BY <2>1, <2>2 DEF Injection
<1> HIDE DEF s
<1>5. Cardinality(1 .. Len(s)) <= Cardinality(Items)
  BY <1>4, ItemsAssumption, FS_Injection
<1> QED BY <1>2, <1>3, <1>5 DEF s

\* The loop of ll_find, which follows fd from the head, visits the list in order.
LEMMA WalkFacts ==
  ASSUME TypeOK, LinksExact, NEW h \in Heads
  PROVE  Walk(h) = [n \in 0 .. Cardinality(Items) |-> Nth(h, n + 1)]
<1> DEFINE C == Cardinality(Items)
           step(f, n) == IF n = 0 THEN ll[h] ELSE IF f[n - 1] = NULL THEN NULL ELSE fd[f[n - 1]]
           w == [n \in 0 .. C |-> Nth(h, n + 1)]
           at == Walk(h)
<1>1. C \in Nat
  BY LengthBound
<1>2. w = [n \in 0 .. C |-> step(w, n)]
  <2>1. ASSUME NEW n \in 0 .. C PROVE w[n] = step(w, n)
    <3>1. CASE n = 0
      BY <3>1, <1>1 DEF LinksExact
    <3>2. CASE n # 0
      <4>1. n - 1 \in 0 .. C /\ w[n - 1] = Nth(h, n) /\ n \in Nat
        BY <3>2, <1>1
      <4>2. CASE n \in DOMAIN order[h]
        <5>1. Nth(h, n) # NULL /\ fd[Nth(h, n)] = Nth(h, n + 1)
          BY <4>2, NthFacts DEF LinksExact, Nth
        <5> QED BY <5>1, <4>1, <3>2
      <4>3. CASE n \notin DOMAIN order[h]
        <5>1. n + 1 \notin DOMAIN order[h]
          BY <4>1, <4>3, <3>2, NthFacts
        <5> QED BY <5>1, <4>1, <4>3, <3>2 DEF Nth
      <4> QED BY <4>2, <4>3
    <3> QED BY <3>1, <3>2
  <2> QED BY <2>1
<1>3. at = [n \in 0 .. C |-> step(at, n)]
  <2> HIDE DEF w
  <2>1. \E f : f = [n \in 0 .. C |-> step(f, n)]
    BY <1>2
  <2> QED BY <2>1 DEF Walk
<1> HIDE DEF at, w
<1>4. \A n \in 0 .. C : at[n] = w[n]
  <2> DEFINE S == {n \in 0 .. C : at[n] # w[n]}
  <2> SUFFICES ASSUME S # {} PROVE FALSE
    OBVIOUS
  <2>1. S \subseteq Nat
    BY <1>1
  <2>2. PICK n \in S : \A m \in S : n <= m
    <3> HIDE DEF S
    <3> QED BY <2>1, Lib!LeastNatural, 1 \in Nat \ {0}, Zenon
  <2>3. n \in 0 .. C /\ at[n] = step(at, n) /\ w[n] = step(w, n)
    BY <2>2, <1>2, <1>3
  <2>4. n # 0
    BY <2>2, <2>3
  <2>5. n - 1 \in 0 .. C /\ n - 1 \notin S
    BY <2>2, <2>4, <1>1
  <2>6. at[n - 1] = w[n - 1]
    BY <2>5
  <2> QED BY <2>2, <2>3, <2>4, <2>6
<1> QED BY <1>2, <1>3, <1>4 DEF at, w

\* ll_find gives the item of the list that has the key, NULL if there is none.
FindExact ==
  \A h \in Heads, k \in Keys :
    /\ \A i \in ToSet(order[h]) : key[i] = k => ll_find(h, k) = i
    /\ (\A i \in ToSet(order[h]) : key[i] # k) => ll_find(h, k) = NULL

\* ll_find returns the item with the key, if the list has one.
LEMMA FindFacts == IInv => FindExact
<1> SUFFICES ASSUME IInv, NEW h \in Heads, NEW k \in Keys
             PROVE  /\ \A i \in ToSet(order[h]) : key[i] = k => ll_find(h, k) = i
                    /\ (\A i \in ToSet(order[h]) : key[i] # k) => ll_find(h, k) = NULL
  BY DEF FindExact
<1> DEFINE C == Cardinality(Items)
           at == Walk(h)
           hits == {n \in DOMAIN at : at[n] # NULL /\ key[at[n]] = k}
<1>1. /\ C \in Nat /\ Len(order[h]) <= C /\ Len(order[h]) \in Nat
      /\ DOMAIN order[h] = 1 .. Len(order[h])
  BY LengthBound, NthFacts DEF IInv
<1>2. DOMAIN at = 0 .. C /\ \A n \in 0 .. C : at[n] = Nth(h, n + 1)
  BY <1>1, WalkFacts DEF IInv
<1>3. ll_find(h, k) = IF hits = {} THEN NULL ELSE at[Min(hits)]
  BY DEF ll_find
<1> HIDE DEF at
<1>4. \A n \in hits : /\ n \in 0 .. C /\ at[n] \in ToSet(order[h]) /\ key[at[n]] = k
  <2> SUFFICES ASSUME NEW n \in hits PROVE n \in 0 .. C /\ at[n] \in ToSet(order[h]) /\ key[at[n]] = k
    OBVIOUS
  <2>1. n \in 0 .. C /\ Nth(h, n + 1) # NULL /\ at[n] = Nth(h, n + 1) /\ key[at[n]] = k
    BY <1>2
  <2> QED BY <2>1, NthFacts DEF IInv
<1>5. ASSUME NEW i \in ToSet(order[h]), key[i] = k PROVE hits # {}
  <2>1. PICK n \in DOMAIN order[h] : i = order[h][n]
    BY NthFacts DEF IInv
  <2>2. n - 1 \in 0 .. C /\ at[n - 1] = i /\ i # NULL
    BY <2>1, <1>1, <1>2, NthFacts DEF IInv, Nth
  <2>3. n - 1 \in hits
    BY <2>2, <1>2, <1>5
  <2> QED BY <2>3
<1>6. ASSUME hits # {} PROVE Min(hits) \in hits
  <2>1. hits \subseteq Nat
    BY <1>1, <1>4
  <2> HIDE DEF hits
  <2>2. \E n \in hits : \A m \in hits : n <= m
    BY <2>1, <1>6, Lib!LeastNatural, 1 \in Nat \ {0}, Zenon
  <2> QED BY <2>2 DEF Min
<1> HIDE DEF hits
<1>7. ASSUME NEW i \in ToSet(order[h]), key[i] = k PROVE ll_find(h, k) = i
  <2>1. hits # {} /\ Min(hits) \in hits
    BY <1>5, <1>6, <1>7
  <2>2. at[Min(hits)] \in ToSet(order[h]) /\ key[at[Min(hits)]] = k
    BY <2>1, <1>4
  <2>3. at[Min(hits)] = i
    BY <2>2, <1>7 DEF IInv, KeysExact
  <2> QED BY <2>1, <2>3, <1>3
<1>8. ASSUME \A i \in ToSet(order[h]) : key[i] # k PROVE ll_find(h, k) = NULL
  BY <1>3, <1>4, <1>8
<1> QED BY <1>7, <1>8

\* The lists implement Index: each is a map from keys to items, which Add extends by
\* one entry, Del reduces by one and Rekey renames, and in which ll_find neither loses
\* an item nor finds one of another list.
THEOREM RefinesIndex == Spec => ImplementsIndex
<1> DEFINE idx == [h \in Heads |-> [k \in Keys |-> ll_find(h, k)]]
<1>0. IInv' => FindExact'
  BY FindFacts, PTL
<1>1. Init => Idx!Init
  <2> SUFFICES ASSUME Init PROVE Idx!Init
    OBVIOUS
  <2>1. FindExact
    BY InitInv, FindFacts
  <2>2. \A h \in Heads : ToSet(order[h]) = {}
    BY DEF Init, ToSet
  <2>3. \A h \in Heads, k \in Keys : ll_find(h, k) = NULL
    BY <2>1, <2>2 DEF FindExact
  <2> QED BY <2>3 DEF Idx!Init
<1>2. ASSUME IInv, IInv', [Next]_vars PROVE [Idx!Next]_idx
  <2>1. FindExact /\ FindExact'
    BY <1>0, <1>2, FindFacts
  <2>2. /\ \A h \in Heads, k \in Keys : idx[h][k] = ll_find(h, k)
        /\ \A h \in Heads, k \in Keys : idx'[h][k] = ll_find(h, k)'
        /\ idx = [h \in Heads |-> [k \in Keys |-> idx[h][k]]]
        /\ idx' = [h \in Heads |-> [k \in Keys |-> idx'[h][k]]]
    OBVIOUS
  <2>3. ASSUME NEW g \in Heads, NEW l \in Keys, ToSet(order'[g]) = ToSet(order[g]),
               \A x \in ToSet(order[g]) : key'[x] = key[x]
        PROVE  ll_find(g, l)' = ll_find(g, l)
    BY <2>1, <2>3 DEF FindExact
  <2>4. ASSUME NEW h \in Heads, NEW i \in Items, NEW k \in Keys, Add(h, i, k) PROVE Idx!Next
    <3>1. /\ ~Listed(i) /\ \A j \in ToSet(order[h]) : key[j] # k
          /\ key' = [key EXCEPT ![i] = k]
          /\ order' = [order EXCEPT ![h] = <<i>> \o @]
      BY <2>4 DEF Add
    <3>2. /\ ToSet(order'[h]) = ToSet(order[h]) \cup {i}
          /\ \A g \in Heads : g # h => order'[g] = order[g]
      BY <3>1, <1>2, AddSet DEF IInv
    <3>3. /\ \A g \in Heads : i \notin ToSet(order[g])
          /\ \A g \in Heads : \A x \in ToSet(order[g]) : x \in Items
      BY <3>1, <1>2, NthFacts DEF Listed, IInv
    <3>4. key'[i] = k /\ \A g \in Heads : \A x \in ToSet(order[g]) : key'[x] = key[x]
      BY <3>1, <3>3, <1>2 DEF IInv, TypeOK
    <3>5. \A g \in Heads, l \in Keys : ll_find(g, l) # i
      BY <3>3, <2>1, NULLAssumption DEF FindExact
    <3>6. ll_find(h, k) = NULL /\ ll_find(h, k)' = i
      BY <3>1, <3>2, <3>4, <2>1 DEF FindExact
    <3>7. ASSUME NEW g \in Heads, NEW l \in Keys, g # h \/ l # k
          PROVE  ll_find(g, l)' = ll_find(g, l)
      <4>1. CASE g # h
        BY <4>1, <3>2, <3>4, <2>3
      <4>2. CASE g = h /\ l # k
        BY <4>2, <3>2, <3>4, <2>1 DEF FindExact
      <4> QED BY <4>1, <4>2, <3>7
    <3>8. Idx!Add(h, i, k)
      <4>1. ~Idx!Listed(i) /\ idx[h][k] = NULL
        BY <3>5, <3>6 DEF Idx!Listed
      <4>2. idx' = [idx EXCEPT ![h][k] = i]
        BY <3>6, <3>7
      <4> QED BY <4>1, <4>2 DEF Idx!Add
    <3> QED BY <3>8 DEF Idx!Next
  <2>5. ASSUME NEW h \in Heads, NEW i \in Items, Del(h, i) PROVE Idx!Next
    <3>1. /\ i \in ToSet(order[h]) /\ ToSet(order'[h]) = ToSet(order[h]) \ {i}
          /\ \A g \in Heads : g # h => order'[g] = order[g]
      BY <2>5, <1>2, DelInv
    <3>k. PICK k \in Keys : k = key[i]
      BY <3>1, <1>2 DEF IInv, KeysExact
    <3>2. key' = key /\ k = key[i] /\ \A j \in ToSet(order[h]) : key[j] = k => j = i
      BY <2>5, <3>1, <3>k, <1>2 DEF Del, IInv, KeysExact
    <3>3. ll_find(h, k) = i /\ ll_find(h, k)' = NULL
      BY <3>1, <3>2, <2>1 DEF FindExact
    <3>4. ASSUME NEW g \in Heads, NEW l \in Keys, g # h \/ l # k
          PROVE  ll_find(g, l)' = ll_find(g, l)
      <4>1. CASE g # h
        BY <4>1, <3>1, <3>2, <2>3
      <4>2. CASE g = h /\ l # k
        BY <4>2, <3>1, <3>2, <2>1 DEF FindExact
      <4> QED BY <4>1, <4>2, <3>4
    <3>5. Idx!Del(h, k)
      <4>1. idx[h][k] # NULL
        BY <3>2, <3>3, NULLAssumption
      <4>2. idx' = [idx EXCEPT ![h][k] = NULL]
        <5> HIDE DEF idx
        <5>1. \A g \in Heads, m \in Keys :
                idx'[g][m] = IF g = h /\ m = k THEN NULL ELSE idx[g][m]
          BY <3>2, <3>3, <3>4, <2>2
        <5>2. [idx EXCEPT ![h][k] = NULL] =
                [g \in Heads |-> [m \in Keys |-> IF g = h /\ m = k THEN NULL ELSE idx[g][m]]]
          <6>1. [idx[h] EXCEPT ![k] = NULL] = [m \in Keys |-> IF m = k THEN NULL ELSE idx[h][m]]
            BY <2>2
          <6>2. [idx EXCEPT ![h][k] = NULL] =
                  [g \in Heads |-> IF g = h THEN [idx[h] EXCEPT ![k] = NULL] ELSE idx[g]]
            BY <2>2
          <6>3. \A g \in Heads : idx[g] = [m \in Keys |-> idx[g][m]]
            BY <2>2
          <6> QED BY <6>1, <6>2, <6>3
        <5> QED BY <5>1, <5>2, <2>2
      <4> QED BY <4>1, <4>2 DEF Idx!Del
    <3> QED BY <3>2, <3>5 DEF Idx!Next
  <2>6. ASSUME NEW h \in Heads, NEW i \in Items, NEW l \in Keys, Rekey(h, i, l) PROVE Idx!Next
    <3>1. /\ i \in ToSet(order[h]) /\ \A j \in ToSet(order[h]) : key[j] # l
          /\ key' = [key EXCEPT ![i] = l] /\ order' = order
      BY <2>6 DEF Rekey
    <3>k. PICK k \in Keys : k = key[i]
      BY <3>1, <1>2 DEF IInv, KeysExact
    <3>2. k = key[i] /\ k # l /\ \A j \in ToSet(order[h]) : key[j] = k => j = i
      BY <3>1, <3>k, <1>2 DEF IInv, KeysExact
    <3>3. \A g \in Heads : \A x \in ToSet(order[g]) : key'[x] = IF x = i THEN l ELSE key[x]
      <4>1. \A g \in Heads : \A x \in ToSet(order[g]) : x \in Items
        BY <1>2, NthFacts DEF IInv
      <4> QED BY <4>1, <3>1, <1>2 DEF IInv, TypeOK
    <3>4. ll_find(h, k) = i /\ ll_find(h, l) = NULL
      BY <3>1, <3>2, <2>1 DEF FindExact
    <3>5. ll_find(h, l)' = i /\ ll_find(h, k)' = NULL
      <4>1. ToSet(order'[h]) = ToSet(order[h]) /\ key'[i] = l
        BY <3>1, <3>3
      <4>2. ll_find(h, l)' = i
        BY <4>1, <3>1, <2>1 DEF FindExact
      <4>3. \A j \in ToSet(order'[h]) : key'[j] # k
        BY <4>1, <3>2, <3>3
      <4>4. ll_find(h, k)' = NULL
        BY <4>3, <3>2, <2>1 DEF FindExact
      <4> QED BY <4>2, <4>4
    <3>6. ASSUME NEW g \in Heads, NEW m \in Keys, g # h \/ (m # k /\ m # l)
          PROVE  ll_find(g, m)' = ll_find(g, m)
      <4>1. CASE g # h
        <5>1. \A x \in ToSet(order[g]) : x # i
          BY <4>1, <3>1, <1>2, OtherList DEF IInv
        <5> QED BY <5>1, <3>1, <3>3, <2>3
      <4>2. CASE g = h /\ m # k /\ m # l
        BY <4>2, <3>1, <3>2, <3>3, <2>1 DEF FindExact
      <4> QED BY <4>1, <4>2, <3>6
    <3>7. Idx!Rekey(h, k, l)
      <4>1. idx[h][k] # NULL /\ idx[h][l] = NULL
        BY <3>2, <3>4, NULLAssumption
      <4>2. idx' = [idx EXCEPT ![h][l] = idx[h][k], ![h][k] = NULL]
        <5> HIDE DEF idx
        <5>1. \A g \in Heads, m \in Keys :
                idx'[g][m] = IF g = h /\ m = k THEN NULL ELSE IF g = h /\ m = l THEN idx[h][k]
                             ELSE idx[g][m]
          BY <3>2, <3>4, <3>5, <3>6, <2>2
        <5>2. [idx EXCEPT ![h][l] = idx[h][k], ![h][k] = NULL] =
                [g \in Heads |-> [m \in Keys |->
                   IF g = h /\ m = k THEN NULL ELSE IF g = h /\ m = l THEN idx[h][k]
                   ELSE idx[g][m]]]
          BY <3>2, <2>2
        <5> QED BY <5>1, <5>2, <2>2
      <4> QED BY <4>1, <4>2 DEF Idx!Rekey
    <3> QED BY <3>2, <3>7 DEF Idx!Next
  <2>7. CASE UNCHANGED vars
    <3>1. order' = order /\ key' = key
      BY <2>7 DEF vars
    <3>2. \A g \in Heads, l \in Keys : ll_find(g, l)' = ll_find(g, l)
      BY <3>1, <2>3
    <3> QED BY <3>2
  <2> QED BY <1>2, <2>4, <2>5, <2>6, <2>7 DEF Next
<1> QED BY <1>1, <1>2, Invariance, PTL DEF Spec, ImplementsIndex, Idx!Spec
=============================================================================
