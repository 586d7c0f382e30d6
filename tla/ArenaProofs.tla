---------------------------- MODULE ArenaProofs ----------------------------
(***************************************************************************)
(* Proofs about Arena for every address space, every size of roots, chunks *)
(* and huge mappings and every way the probes are drawn.                   *)
(***************************************************************************)
EXTENDS Arena, TLAPS, FiniteSetTheorems, SequenceTheorems

\* The facts about natural numbers that the proofs share.
Lib == INSTANCE BuddyTreeProofs WITH Depth <- 1

-----------------------------------------------------------------------------
(***************************************************************************)
(* The inductive invariant.  MappedExact and KeysUnique need each other:   *)
(* a new key is new because the pages of the old one would still be        *)
(* mapped, for which a listed chunk must have a page left.                 *)
(***************************************************************************)
Meta == Nat \X Slots
Root == [key : Nat, used : SUBSET Slots]
Chunks == [key : Nat, left : SUBSET Nat, meta : Meta]
Huge == [key : Nat, len : Nat \ {0}, meta : Meta]
OpNames == {"none", "run", "chunk", "huge", "realloc"}
CallRec == [op : OpNames, len : Nat, old : Int, meta : Meta \cup {NoCall.meta}]

TypeInv ==
  /\ brk \in 0 .. Ceiling
  /\ probe \in [Jobs -> Nat]
  /\ roots \in Seq(Root)
  /\ chunks \subseteq Chunks /\ IsFiniteSet(chunks)
  /\ huges \subseteq Huge /\ IsFiniteSet(huges)
  /\ runs \subseteq Meta /\ IsFiniteSet(runs)
  /\ mapped \subseteq 0 .. TaskSize - 1
  /\ pc \in {"uninit", "idle", "core"}
  /\ call \in CallRec
  /\ job \in Jobs

\* What a call has done so far.  Metadata is taken before the mapping is asked for,
\* and a reallocation keeps its old mapping until the new one is there.
CallInv ==
  /\ pc # "core" => call = NoCall /\ new_probe = NONE
  /\ call.op = "none" => call = NoCall
  /\ call.op \in Ops \cup {"none"}
  /\ new_probe \in {NONE} \cup (1 .. IF job = "chunk" THEN brk ELSE Ceiling)
  /\ pc = "core" =>
       \/ /\ job = "internal" /\ call.op \in {"run", "chunk", "huge"}
          /\ call.meta = NoCall.meta /\ call.old = NONE
       \/ /\ job \in {"chunk", "huge"} /\ call.op = job
          /\ call.meta # NoCall.meta /\ call.old = NONE
       \/ /\ job = "huge" /\ call.op = "realloc"
          /\ call.meta = NoCall.meta /\ \E h \in huges : h.key = call.old

\* Each mapping as its list, its key and its pages.
RootFam(R) == {<<"root", R[n].key, Span(R[n].key, RootLen)>> : n \in DOMAIN R}
ChunkFam(C) == {<<"chunk", c.key, c.left>> : c \in C}
HugeFam(H) == {<<"huge", h.key, Span(h.key, h.len)>> : h \in H}
Fam == RootFam(roots) \cup ChunkFam(chunks) \cup HugeFam(huges)

\* The pages M are those of Foreign and of the members of F, and none is in two.
Exact(F, M) ==
  /\ M = Foreign \cup UNION {o[3] : o \in F}
  /\ \A o \in F : o[3] \cap Foreign = {}
  /\ \A o, q \in F : o # q => o[3] \cap q[3] = {}

\* A chunk is listed as long as it has a page.
LeftInv == \A c \in chunks : c.left # {} /\ c.left \subseteq Span(c.key, ChunkLen)

\* The metadata in use, root by root, and who uses it.
Used(R) == UNION {{<<R[n].key, s>> : s \in R[n].used} : n \in DOMAIN R}

MetaInv ==
  /\ Metas = Used(roots)
  /\ \A c, d \in chunks : c.meta = d.meta => c = d
  /\ \A g, h \in huges : g.meta = h.meta => g = h
  /\ \A c \in chunks : c.meta \notin runs /\ \A h \in huges : c.meta # h.meta
  /\ \A h \in huges : h.meta \notin runs
  /\ call.meta \notin runs /\ \A x \in chunks \cup huges : x.meta # call.meta

IInv ==
  /\ TypeInv /\ CallInv
  /\ KeysUnique /\ LeftInv /\ Exact(Fam, mapped)
  /\ MetaInv
-----------------------------------------------------------------------------
(***************************************************************************)
(* Families of disjoint sets of pages                                      *)
(***************************************************************************)

\* A mapping of pages that were not mapped is added.
LEMMA ExactAdd ==
  ASSUME NEW F, NEW M, Exact(F, M), NEW o, o[3] \cap M = {}
  PROVE  Exact(F \cup {o}, M \cup o[3])
<1>1. M \cup o[3] = Foreign \cup UNION {x[3] : x \in F \cup {o}}
  BY DEF Exact
<1>2. \A x \in F : x[3] \subseteq M /\ x[3] \cap o[3] = {}
  BY DEF Exact
<1>3. o[3] \cap Foreign = {}
  BY DEF Exact
<1> QED BY <1>1, <1>2, <1>3 DEF Exact

\* A mapping o leaves with its pages.
LEMMA ExactRemove ==
  ASSUME NEW F, NEW M, Exact(F, M), NEW o \in F
  PROVE  Exact(F \ {o}, M \ o[3])
<1>1. \A x \in F \ {o} : x[3] \cap o[3] = {}
  BY DEF Exact
<1>2. o[3] \cap Foreign = {}
  BY DEF Exact
<1>3. M \ o[3] = Foreign \cup UNION {x[3] : x \in F \ {o}}
  <2>1. ASSUME NEW p \in M \ o[3] PROVE p \in Foreign \cup UNION {x[3] : x \in F \ {o}}
    BY DEF Exact
  <2>2. ASSUME NEW p \in Foreign \cup UNION {x[3] : x \in F \ {o}} PROVE p \in M \ o[3]
    BY <1>1, <1>2 DEF Exact
  <2> QED BY <2>1, <2>2
<1> QED BY <1>3 DEF Exact

\* A mapping o loses the pages Y.
LEMMA ExactShrink ==
  ASSUME NEW F, NEW M, Exact(F, M), NEW o \in F, NEW q, NEW Y, Y \subseteq o[3], q[3] = o[3] \ Y
  PROVE  Exact((F \ {o}) \cup {q}, M \ Y)
<1>1. Exact(F \ {o}, M \ o[3])
  BY ExactRemove
<1>2. q[3] \cap (M \ o[3]) = {}
  OBVIOUS
<1>3. Exact((F \ {o}) \cup {q}, (M \ o[3]) \cup q[3])
  BY <1>1, <1>2, ExactAdd
<1>4. o[3] \subseteq M
  BY DEF Exact
<1>5. (M \ o[3]) \cup q[3] = M \ Y
  BY <1>4
<1> QED BY <1>3, <1>5

\* What mmap guarantees when it succeeds.
LEMMA MmapOK ==
  ASSUME NEW p \in Nat, NEW len \in Nat, mmap(p, len) = "OK"
  PROVE  /\ len > 0 /\ p >= MinPage /\ p # 0 /\ p \in Span(p, len)
         /\ Span(p, len) \subseteq 0 .. TaskSize - 1
         /\ Span(p, len) \cap mapped = {}
<1>1. MinPage \in Nat \ {0} /\ TaskSize \in Nat
  BY ArenaAssumption
<1>2. len # 0
  BY DEF mmap
<1>3. ~(p + len > TaskSize)
  BY <1>2 DEF mmap
<1>4. ~(p < MinPage)
  BY <1>1, <1>2, <1>3 DEF mmap
<1>5. Span(p, len) \cap mapped = {}
  BY <1>1, <1>2, <1>3, <1>4 DEF mmap
<1> QED BY <1>1, <1>2, <1>3, <1>4, <1>5 DEF Span

-----------------------------------------------------------------------------
(***************************************************************************)
(* Metadata slots                                                          *)
(***************************************************************************)

\* A root that is not full has a least free slot.
LEMMA FreeSlotFacts ==
  ASSUME NEW r, r.used \subseteq Slots, r.used # Slots
  PROVE  FreeSlot(r) \in Slots \ r.used
<1> DEFINE S == Slots \ r.used
<1>1. S \subseteq Nat /\ S # {}
  BY ArenaAssumption
<1>2. FreeSlot(r) = CHOOSE s \in S : \A t \in S : s <= t
  BY DEF FreeSlot
<1> HIDE DEF S
<1>3. \E s \in S : \A t \in S : s <= t
  BY <1>1, Lib!LeastNatural, 1 \in Nat \ {0}, Zenon
<1>4. FreeSlot(r) \in S
  BY <1>2, <1>3
<1> QED BY <1>4 DEF S

\* The root that metadata is taken from has a free slot.
LEMMA FirstRoomyFacts ==
  ASSUME roots \in Seq(Root), Roomy # {}
  PROVE  FirstRoomy \in DOMAIN roots /\ roots[FirstRoomy].used # Slots
<1>1. Roomy \subseteq Nat
  BY LenProperties DEF Roomy
<1>2. \E n \in Roomy : \A m \in Roomy : n <= m
  BY <1>1, Lib!LeastNatural, 1 \in Nat \ {0}, Zenon
<1>3. FirstRoomy \in Roomy
  BY <1>2 DEF FirstRoomy
<1> QED BY <1>3 DEF Roomy

DistinctKeys(R) == \A m, n \in DOMAIN R : m # n => R[m].key # R[n].key

\* The roots have the same keys: only slots changed.
SameKeys(R, Q) ==
  /\ Q \in Seq(Root) /\ DOMAIN Q = DOMAIN R
  /\ \A n \in DOMAIN R : Q[n].key = R[n].key

\* A member of Seq(Root), by its items.
LEMMA RootFacts ==
  ASSUME NEW R \in Seq(Root)
  PROVE  /\ DOMAIN R = 1 .. Len(R) /\ Len(R) \in Nat
         /\ \A n \in DOMAIN R : R[n] \in Root /\ R[n].key \in Nat /\ R[n].used \subseteq Slots
<1>1. DOMAIN R = 1 .. Len(R) /\ Len(R) \in Nat /\ \A n \in DOMAIN R : R[n] \in Root
  BY LenProperties, ElementOfSeq
<1> QED BY <1>1 DEF Root

\* The metadata slots in use, root by root.
LEMMA UsedFacts ==
  ASSUME NEW R \in Seq(Root)
  PROVE  /\ Used(R) \subseteq Meta
         /\ \A m : m \in Used(R) <=> \E n \in DOMAIN R : \E s \in R[n].used : m = <<R[n].key, s>>
<1>1. \A m : m \in Used(R) <=> \E n \in DOMAIN R : \E s \in R[n].used : m = <<R[n].key, s>>
  BY DEF Used
<1>2. Used(R) \subseteq Meta
  BY <1>1, RootFacts DEF Meta
<1> QED BY <1>1, <1>2

\* arena_internal_alloc from root n.
LEMMA TakeSlot ==
  ASSUME NEW R \in Seq(Root), DistinctKeys(R), NEW n \in DOMAIN R, NEW s \in Slots \ R[n].used
  PROVE  LET Q == [R EXCEPT ![n].used = @ \cup {s}]
         IN /\ SameKeys(R, Q)
            /\ <<R[n].key, s>> \notin Used(R)
            /\ Used(Q) = Used(R) \cup {<<R[n].key, s>>}
<1> DEFINE Q == [R EXCEPT ![n].used = @ \cup {s}]
<1>1. /\ DOMAIN R = 1 .. Len(R) /\ Len(R) \in Nat
      /\ \A m \in DOMAIN R : R[m] \in Root /\ R[m].key \in Nat /\ R[m].used \subseteq Slots
  BY RootFacts
<1>2. /\ DOMAIN Q = DOMAIN R
      /\ \A m \in DOMAIN R :
           Q[m] = IF m = n THEN [R[n] EXCEPT !.used = R[n].used \cup {s}] ELSE R[m]
  BY <1>1
<1>3. \A m \in DOMAIN R : /\ Q[m] \in Root /\ Q[m].key = R[m].key
                          /\ Q[m].used = IF m = n THEN R[n].used \cup {s} ELSE R[m].used
  BY <1>1, <1>2 DEF Root
<1>4. Q \in Seq(Root)
  <2>1. [R[n] EXCEPT !.used = R[n].used \cup {s}] \in Root
    BY <1>2, <1>3
  <2>2. Q = [R EXCEPT ![n] = [R[n] EXCEPT !.used = R[n].used \cup {s}]]
    OBVIOUS
  <2> QED BY <2>1, <2>2, <1>1, ExceptSeq
<1> HIDE DEF Q
<1>5. SameKeys(R, Q)
  BY <1>2, <1>3, <1>4 DEF SameKeys
<1>6. <<R[n].key, s>> \notin Used(R)
  <2> SUFFICES ASSUME NEW m \in DOMAIN R, NEW t \in R[m].used, <<R[n].key, s>> = <<R[m].key, t>>
               PROVE  FALSE
    BY UsedFacts
  <2>1. R[n].key = R[m].key /\ s = t
    OBVIOUS
  <2>2. m = n
    BY <2>1 DEF DistinctKeys
  <2> QED BY <2>1, <2>2
<1>7. Used(Q) = Used(R) \cup {<<R[n].key, s>>}
  <2>1. ASSUME NEW m \in Used(Q) PROVE m \in Used(R) \cup {<<R[n].key, s>>}
    <3>1. PICK i \in DOMAIN Q : \E t \in Q[i].used : m = <<Q[i].key, t>>
      BY <1>4, UsedFacts, Zenon
    <3>2. PICK t \in Q[i].used : m = <<Q[i].key, t>>
      BY <3>1
    <3>3. i \in DOMAIN R /\ Q[i].key = R[i].key /\ (t \in R[i].used \/ (i = n /\ t = s))
      BY <1>2, <1>3
    <3> QED BY <3>2, <3>3, UsedFacts, Zenon
  <2>2. ASSUME NEW m \in Used(R) \cup {<<R[n].key, s>>} PROVE m \in Used(Q)
    <3>1. CASE m = <<R[n].key, s>>
      <4>1. n \in DOMAIN Q /\ Q[n].key = R[n].key /\ s \in Q[n].used
        BY <1>2, <1>3
      <4> QED BY <3>1, <4>1, <1>4, UsedFacts, Zenon
    <3>2. CASE m \in Used(R)
      <4>1. PICK i \in DOMAIN R : \E t \in R[i].used : m = <<R[i].key, t>>
        BY <3>2, UsedFacts, Zenon
      <4>2. i \in DOMAIN Q /\ Q[i].key = R[i].key /\ R[i].used \subseteq Q[i].used
        BY <1>2, <1>3
      <4> QED BY <4>1, <4>2, <1>4, UsedFacts, Zenon
    <3> QED BY <3>1, <3>2
  <2> QED BY <2>1, <2>2
<1> QED BY <1>5, <1>6, <1>7 DEF Q

\* arena_internal_free.
LEMMA FreeSlotOf ==
  ASSUME NEW R \in Seq(Root), DistinctKeys(R), NEW m \in Used(R)
  PROVE  LET Q == [n \in DOMAIN R |-> IF R[n].key = m[1] THEN [R[n] EXCEPT !.used = @ \ {m[2]}]
                                                        ELSE R[n]]
         IN SameKeys(R, Q) /\ Used(Q) = Used(R) \ {m}
<1> DEFINE Q == [n \in DOMAIN R |-> IF R[n].key = m[1] THEN [R[n] EXCEPT !.used = @ \ {m[2]}]
                                                      ELSE R[n]]
<1>1. /\ DOMAIN R = 1 .. Len(R) /\ Len(R) \in Nat
      /\ \A n \in DOMAIN R : R[n] \in Root /\ R[n].key \in Nat /\ R[n].used \subseteq Slots
  BY RootFacts
<1>2. DOMAIN Q = DOMAIN R
  OBVIOUS
<1>3. \A n \in DOMAIN R : /\ Q[n] \in Root /\ Q[n].key = R[n].key
                          /\ Q[n].used = IF R[n].key = m[1] THEN R[n].used \ {m[2]} ELSE R[n].used
  BY <1>1 DEF Root
<1> HIDE DEF Q
<1>4. Q \in Seq(Root)
  <2>1. Q \in [1 .. Len(R) -> Root]
    <3>1. Q = [n \in DOMAIN R |-> Q[n]]
      BY DEF Q
    <3> QED BY <3>1, <1>1, <1>3
  <2> QED BY <2>1, <1>1, SeqDef
<1>5. SameKeys(R, Q)
  BY <1>2, <1>3, <1>4 DEF SameKeys
<1>6. PICK k \in DOMAIN R : \E z \in R[k].used : m = <<R[k].key, z>>
  BY UsedFacts
<1>7. m[1] = R[k].key /\ m[2] \in R[k].used /\ m = <<m[1], m[2]>>
  BY <1>6
<1>8. Used(Q) = Used(R) \ {m}
  <2>1. ASSUME NEW x \in Used(Q) PROVE x \in Used(R) /\ x # m
    <3>0. PICK n \in DOMAIN Q : \E s \in Q[n].used : x = <<Q[n].key, s>>
      BY DEF Used
    <3>1. n \in DOMAIN R /\ \E s \in Q[n].used : x = <<R[n].key, s>>
      BY <3>0, <1>2, <1>3
    <3>2. PICK s \in Q[n].used : x = <<R[n].key, s>>
      BY <3>1
    <3>3. s \in R[n].used /\ (R[n].key = m[1] => s # m[2])
      BY <3>1, <3>2, <1>3
    <3> QED BY <3>1, <3>2, <3>3, <1>7, UsedFacts
  <2>2. ASSUME NEW x \in Used(R), x # m PROVE x \in Used(Q)
    <3>1. PICK n \in DOMAIN R : \E s \in R[n].used : x = <<R[n].key, s>>
      BY UsedFacts
    <3>2. PICK s \in R[n].used : x = <<R[n].key, s>>
      BY <3>1
    <3>3. s \in Q[n].used
      BY <3>2, <2>2, <1>3, <1>7
    <3> QED BY <3>2, <3>3, <1>2, <1>3, <1>4, UsedFacts
  <2> QED BY <2>1, <2>2
<1> QED BY <1>5, <1>8 DEF Q

\* Q is R with a new root of key k in front, its slot s taken.
IsPushed(R, k, s, Q) ==
  /\ Q \in Seq(Root)
  /\ {Q[n] : n \in DOMAIN Q} = {[key |-> k, used |-> {s}]} \cup {R[n] : n \in DOMAIN R}
  /\ DistinctKeys(R) => DistinctKeys(Q)
  /\ Used(Q) = Used(R) \cup {<<k, s>>} /\ <<k, s>> \notin Used(R)
  /\ RootFam(Q) = RootFam(R) \cup {<<"root", k, Span(k, RootLen)>>}

\* A new root comes first in the list, with one slot in use.
LEMMA PushRoot ==
  ASSUME NEW R \in Seq(Root), NEW k \in Nat, NEW s \in Slots, \A n \in DOMAIN R : R[n].key # k
  PROVE  IsPushed(R, k, s, <<[key |-> k, used |-> {s}]>> \o R)
<1> DEFINE r == [key |-> k, used |-> {s}]
           Q == <<r>> \o R
<1>1. DOMAIN R = 1 .. Len(R) /\ Len(R) \in Nat
  BY RootFacts
<1>2. r \in Root /\ r.key = k /\ r.used = {s}
  BY DEF Root
<1>3. /\ Q \in Seq(Root) /\ Len(Q) = Len(R) + 1
      /\ \A n \in 1 .. Len(R) + 1 : Q[n] = IF n <= 1 THEN r ELSE R[n - 1]
  <2> HIDE DEF r
  <2>1. <<r>> \in Seq(Root) /\ Len(<<r>>) = 1 /\ <<r>>[1] = r
    BY <1>2
  <2> QED BY <2>1, <1>1, ConcatProperties
<1> HIDE DEF Q, r
<1>4. DOMAIN Q = 1 .. Len(R) + 1
  BY <1>3, RootFacts
<1>5. /\ 1 \in DOMAIN Q /\ Q[1] = r
      /\ \A n \in DOMAIN R : n + 1 \in DOMAIN Q /\ Q[n + 1] = R[n]
      /\ \A n \in DOMAIN Q : n = 1 \/ (n - 1 \in DOMAIN R /\ Q[n] = R[n - 1])
  BY <1>1, <1>3, <1>4
<1>6. {Q[n] : n \in DOMAIN Q} = {r} \cup {R[n] : n \in DOMAIN R}
  <2>1. ASSUME NEW x \in {Q[n] : n \in DOMAIN Q} PROVE x \in {r} \cup {R[n] : n \in DOMAIN R}
    BY <1>5
  <2>2. ASSUME NEW x \in {r} \cup {R[n] : n \in DOMAIN R} PROVE x \in {Q[n] : n \in DOMAIN Q}
    BY <1>5
  <2> QED BY <2>1, <2>2
<1>7. DistinctKeys(R) => DistinctKeys(Q)
  <2> SUFFICES ASSUME DistinctKeys(R), NEW m \in DOMAIN Q, NEW n \in DOMAIN Q, m # n
               PROVE  Q[m].key # Q[n].key
    BY DEF DistinctKeys
  <2>1. m \in Nat /\ n \in Nat
    BY <1>1, <1>4
  <2>2. CASE m # 1 /\ n # 1
    BY <2>1, <2>2, <1>5 DEF DistinctKeys
  <2>3. CASE m = 1 \/ n = 1
    BY <2>3, <1>2, <1>5
  <2> QED BY <2>2, <2>3
<1>8. Used(Q) = Used(R) \cup {<<k, s>>} /\ <<k, s>> \notin Used(R)
  <2>1. <<k, s>> \notin Used(R)
    BY UsedFacts
  <2>2. ASSUME NEW x \in Used(Q) PROVE x \in Used(R) \cup {<<k, s>>}
    <3>1. PICK n \in DOMAIN Q : \E t \in Q[n].used : x = <<Q[n].key, t>>
      BY DEF Used
    <3>2. CASE n = 1
      BY <3>1, <3>2, <1>2, <1>5
    <3>3. CASE n # 1
      BY <3>1, <3>3, <1>5, UsedFacts
    <3> QED BY <3>2, <3>3
  <2>3. ASSUME NEW x \in Used(R) PROVE x \in Used(Q)
    BY <1>3, <1>5, UsedFacts
  <2>4. <<k, s>> \in Used(Q)
    BY <1>2, <1>3, <1>5, UsedFacts
  <2> QED BY <2>1, <2>2, <2>3, <2>4
<1>9. RootFam(Q) = RootFam(R) \cup {<<"root", k, Span(k, RootLen)>>}
  <2>1. ASSUME NEW x \in RootFam(Q) PROVE x \in RootFam(R) \cup {<<"root", k, Span(k, RootLen)>>}
    BY <1>2, <1>5 DEF RootFam
  <2>2. ASSUME NEW x \in RootFam(R) PROVE x \in RootFam(Q)
    BY <1>5 DEF RootFam
  <2>3. <<"root", k, Span(k, RootLen)>> \in RootFam(Q)
    BY <1>2, <1>5 DEF RootFam
  <2> QED BY <2>1, <2>2, <2>3
<1>10. IsPushed(R, k, s, Q)
  BY <1>3, <1>6, <1>7, <1>8, <1>9 DEF r, IsPushed
<1> QED BY <1>10 DEF Q, r

-----------------------------------------------------------------------------
(***************************************************************************)
(* Facts about a state                                                     *)
(***************************************************************************)

\* No metadata is no slot of any root.
LEMMA NoMeta == NoCall.meta \notin Meta /\ NoCall \in CallRec
<1>1. NoCall = [op |-> "none", len |-> 0, old |-> -1, meta |-> <<-1, -1>>]
  BY DEF NoCall, Request, NONE
<1>2. NoCall.meta = <<-1, -1>>
  BY <1>1
<1>3. NoCall \in CallRec
  <2> DEFINE M == Meta \cup {NoCall.meta}
  <2>1. <<-1, -1>> \in M
    BY <1>2
  <2> HIDE DEF M
  <2>2. NoCall \in [op : OpNames, len : Nat, old : Int, meta : M]
    BY <1>1, <2>1 DEF OpNames
  <2> QED BY <2>2 DEF CallRec, M
<1> QED BY <1>2, <1>3 DEF Meta

\* A listed mapping has pages, all of them mapped.
LEMMA FamMapped ==
  ASSUME IInv
  PROVE  /\ \A n \in DOMAIN roots : /\ roots[n].key \in Nat /\ roots[n].key \in mapped
                                    /\ Span(roots[n].key, RootLen) \subseteq mapped
         /\ \A h \in huges : h.key \in mapped /\ Span(h.key, h.len) \subseteq mapped
         /\ \A c \in chunks : c.left # {} /\ c.left \subseteq mapped
<1>1. \A o \in Fam : o[3] \subseteq mapped
  BY DEF IInv, Exact
<1>2. ASSUME NEW n \in DOMAIN roots
      PROVE  /\ roots[n].key \in Nat /\ roots[n].key \in mapped
             /\ Span(roots[n].key, RootLen) \subseteq mapped
  <2>1. roots[n].key \in Nat /\ RootLen \in Nat \ {0}
    BY RootFacts, ArenaAssumption DEF IInv, TypeInv
  <2>2. <<"root", roots[n].key, Span(roots[n].key, RootLen)>> \in Fam
    BY DEF Fam, RootFam
  <2>3. Span(roots[n].key, RootLen) \subseteq mapped
    BY <2>2, <1>1
  <2>4. roots[n].key \in Span(roots[n].key, RootLen)
    BY <2>1 DEF Span
  <2> QED BY <2>1, <2>3, <2>4
<1>3. ASSUME NEW h \in huges PROVE h.key \in mapped /\ Span(h.key, h.len) \subseteq mapped
  <2>1. h.key \in Nat /\ h.len \in Nat \ {0}
    BY DEF IInv, TypeInv, Huge
  <2>2. <<"huge", h.key, Span(h.key, h.len)>> \in Fam
    BY DEF Fam, HugeFam
  <2>3. Span(h.key, h.len) \subseteq mapped
    BY <2>2, <1>1
  <2>4. h.key \in Span(h.key, h.len)
    BY <2>1 DEF Span
  <2> QED BY <2>3, <2>4
<1>4. ASSUME NEW c \in chunks PROVE c.left # {} /\ c.left \subseteq mapped
  <2>1. <<"chunk", c.key, c.left>> \in Fam
    BY DEF Fam, ChunkFam
  <2> QED BY <2>1, <1>1 DEF IInv, LeftInv
<1> QED BY <1>2, <1>3, <1>4

\* The address of a new mapping is a new key.
LEMMA FreshKey ==
  ASSUME IInv, NEW map \in Nat, NEW len \in Nat, mmap(map, len) = "OK"
  PROVE  /\ map # 0
         /\ \A n \in DOMAIN roots : roots[n].key # map
         /\ \A h \in huges : h.key # map
         /\ len = ChunkLen => \A c \in chunks : c.key # map
<1>1. map # 0 /\ map \in Span(map, len) /\ Span(map, len) \cap mapped = {}
  BY MmapOK
<1>2. map \notin mapped
  BY <1>1
<1>3. ASSUME NEW c \in chunks, len = ChunkLen PROVE c.key # map
  <2>1. c.left # {} /\ c.left \subseteq mapped /\ c.left \subseteq Span(c.key, ChunkLen)
    BY FamMapped DEF IInv, LeftInv
  <2> QED BY <2>1, <1>1, <1>3
<1> QED BY <1>1, <1>2, <1>3, FamMapped

\* What a reallocation unmaps is the mapping it replaces; other calls unmap nothing.
LEMMA UnmappedFacts ==
  ASSUME IInv
  PROVE  /\ call.old = NONE => Unmapped = {}
         /\ \A h \in huges : h.key = call.old => Unmapped = Span(h.key, h.len)
<1>1. \A h \in huges : h.key \in Nat
  BY DEF IInv, TypeInv, Huge
<1>2. \A g, h \in huges : g.key = h.key => g = h
  BY DEF IInv, KeysUnique
<1>3. call.old = NONE => Unmapped = {}
  BY <1>1 DEF Unmapped, NONE
<1>4. ASSUME NEW h \in huges, h.key = call.old PROVE Unmapped = Span(h.key, h.len)
  <2>1. {g \in huges : g.key = call.old} = {h}
    BY <1>2, <1>4
  <2> QED BY <2>1 DEF Unmapped
<1> QED BY <1>3, <1>4

\* A call that holds no metadata takes the free slot c.meta.
LEMMA GotMeta ==
  ASSUME IInv, call.meta = NoCall.meta, pc' \in {"idle", "core"},
         NEW c \in CallRec, c.op \in {"run", "chunk", "huge"}, c.op \in Ops,
         c.old = NONE, c.meta \in Meta, c.meta \notin Used(roots),
         WithMetadata(c), new_probe' = NONE, Used(roots') = Used(roots) \cup {c.meta}
  PROVE  /\ chunks' = chunks /\ huges' = huges
         /\ runs' \subseteq Meta /\ IsFiniteSet(runs')
         /\ call' \in CallRec /\ job' \in Jobs
         /\ CallInv' /\ MetaInv'
<1>1. chunks' = chunks /\ huges' = huges
  BY DEF WithMetadata
<1>2. /\ runs \subseteq Meta /\ IsFiniteSet(runs)
      /\ Metas = Used(roots) /\ job \in Jobs
  BY DEF IInv, TypeInv, MetaInv
<1>3. Metas = runs \cup {x.meta : x \in chunks} \cup {x.meta : x \in huges}
  BY DEF Metas
<1>4. /\ c.meta \notin runs /\ \A x \in chunks : x.meta # c.meta
      /\ \A x \in huges : x.meta # c.meta
  BY <1>2, <1>3
<1>5. NoCall.op = "none" /\ NoCall.old = NONE
  BY DEF NoCall, Request
<1>6. /\ \A x \in chunks : x.meta \in Meta
      /\ \A x \in huges : x.meta \in Meta
  BY DEF IInv, TypeInv, Chunks, Huge
<1>7. /\ \A x, y \in chunks : x.meta = y.meta => x = y
      /\ \A x, y \in huges : x.meta = y.meta => x = y
      /\ \A x \in chunks : x.meta \notin runs /\ \A h \in huges : x.meta # h.meta
      /\ \A h \in huges : h.meta \notin runs
  BY DEF IInv, MetaInv
<1>8. CASE c.op = "run"
  <2>1. runs' = runs \cup {c.meta} /\ pc' = "idle" /\ call' = NoCall /\ job' = job
    BY <1>8 DEF WithMetadata
  <2>2. runs' \subseteq Meta /\ IsFiniteSet(runs')
    BY <2>1, <1>2, FS_AddElement
  <2>3. CallInv'
    BY <2>1, <1>5 DEF CallInv
  <2>4. Metas' = Used(roots')
    BY <2>1, <1>1, <1>2, <1>3 DEF Metas
  <2>5. MetaInv'
    BY <2>1, <2>4, <1>1, <1>2, <1>4, <1>6, <1>7, NoMeta DEF MetaInv
  <2> QED BY <2>1, <2>2, <2>3, <2>5, <1>1, <1>2, NoMeta
<1>9. CASE c.op # "run"
  <2>1. pc' = "core" /\ call' = c /\ job' = c.op /\ runs' = runs
    BY <1>9 DEF WithMetadata
  <2>2. c.meta # NoCall.meta
    BY NoMeta
  <2>3. CallInv'
    BY <2>1, <2>2, <1>9 DEF CallInv
  <2>4. Metas' = Used(roots')
    BY <2>1, <2>2, <1>1, <1>2, <1>3 DEF Metas
  <2>5. MetaInv'
    BY <2>1, <2>4, <1>1, <1>4, <1>7 DEF MetaInv
  <2> QED BY <2>1, <2>3, <2>5, <1>1, <1>2, <1>9 DEF Jobs
<1> QED BY <1>8, <1>9

\* A root is added in front: keys, pages and metadata.
LEMMA ListRoot ==
  ASSUME IInv, NEW map \in Nat, mmap(map, RootLen) = "OK", NEW s \in Slots,
         roots' = <<[key |-> map, used |-> {s}]>> \o roots,
         mapped' = mapped \cup Span(map, RootLen), chunks' = chunks, huges' = huges
  PROVE  /\ roots' \in Seq(Root) /\ mapped' \subseteq 0 .. TaskSize - 1
         /\ KeysUnique' /\ LeftInv' /\ Exact(Fam', mapped')
         /\ <<map, s>> \notin Used(roots) /\ Used(roots') = Used(roots) \cup {<<map, s>>}
<1> DEFINE r == [key |-> map, used |-> {s}]
           o == <<"root", map, Span(map, RootLen)>>
<1>1. RootLen \in Nat /\ roots \in Seq(Root)
  BY ArenaAssumption DEF IInv, TypeInv
<1>2. /\ map # 0 /\ \A n \in DOMAIN roots : roots[n].key # map
  BY <1>1, FreshKey
<1>3. DistinctKeys(roots)
  BY DEF IInv, KeysUnique, DistinctKeys
<1>4. IsPushed(roots, map, s, roots')
  BY <1>1, <1>2, PushRoot
<1>5. /\ roots' \in Seq(Root)
      /\ {roots'[n] : n \in DOMAIN roots'} = {r} \cup {roots[n] : n \in DOMAIN roots}
      /\ DistinctKeys(roots')
      /\ Used(roots') = Used(roots) \cup {<<map, s>>} /\ <<map, s>> \notin Used(roots)
      /\ RootFam(roots') = RootFam(roots) \cup {o}
  BY <1>4, <1>3 DEF IsPushed
<1>6. r.key = map
  OBVIOUS
<1> HIDE DEF r
<1>7. KeysUnique'
  BY <1>2, <1>5, <1>6 DEF IInv, KeysUnique, DistinctKeys
<1>8. LeftInv'
  BY DEF IInv, LeftInv
<1>9. o[3] \cap mapped = {} /\ o[3] \subseteq 0 .. TaskSize - 1 /\ o[3] = Span(map, RootLen)
  BY <1>1, MmapOK
<1>10. Fam' = Fam \cup {o}
  BY <1>5 DEF Fam
<1> HIDE DEF o
<1>11. Exact(Fam', mapped')
  <2>1. Exact(Fam \cup {o}, mapped \cup o[3])
    BY <1>9, ExactAdd DEF IInv
  <2> QED BY <2>1, <1>9, <1>10
<1>12. mapped' \subseteq 0 .. TaskSize - 1
  BY <1>9 DEF IInv, TypeInv
<1> QED BY <1>5, <1>7, <1>8, <1>11, <1>12

\* A chunk is added.
LEMMA ListChunk ==
  ASSUME IInv, NEW map \in Nat, mmap(map, ChunkLen) = "OK", NEW m,
         chunks' = chunks \cup {[key |-> map, left |-> Span(map, ChunkLen), meta |-> m]},
         mapped' = mapped \cup Span(map, ChunkLen), roots' = roots, huges' = huges
  PROVE  /\ mapped' \subseteq 0 .. TaskSize - 1
         /\ KeysUnique' /\ LeftInv' /\ Exact(Fam', mapped')
<1> DEFINE c == [key |-> map, left |-> Span(map, ChunkLen), meta |-> m]
           o == <<"chunk", map, Span(map, ChunkLen)>>
<1>1. ChunkLen \in Nat
  BY ArenaAssumption
<1>2. map # 0 /\ \A x \in chunks : x.key # map
  BY <1>1, FreshKey
<1>3. c.key = map /\ c.left = Span(map, ChunkLen) /\ chunks' = chunks \cup {c}
  OBVIOUS
<1> HIDE DEF c
<1>4. /\ o[3] \cap mapped = {} /\ o[3] \subseteq 0 .. TaskSize - 1 /\ o[3] = Span(map, ChunkLen)
      /\ o[3] # {}
  BY <1>1, MmapOK
<1>5. KeysUnique'
  BY <1>2, <1>3 DEF IInv, KeysUnique
<1>6. LeftInv'
  BY <1>3, <1>4 DEF IInv, LeftInv
<1>7. Fam' = Fam \cup {o}
  BY <1>3 DEF Fam, ChunkFam
<1> HIDE DEF o
<1>8. Exact(Fam', mapped')
  <2>1. Exact(Fam \cup {o}, mapped \cup o[3])
    BY <1>4, ExactAdd DEF IInv
  <2> QED BY <2>1, <1>4, <1>7
<1>9. mapped' \subseteq 0 .. TaskSize - 1
  BY <1>4 DEF IInv, TypeInv
<1> QED BY <1>5, <1>6, <1>8, <1>9

\* A huge mapping is added.
LEMMA ListHuge ==
  ASSUME IInv, NEW map \in Nat, NEW len \in Nat, mmap(map, len) = "OK", NEW m,
         huges' = huges \cup {[key |-> map, len |-> len, meta |-> m]},
         mapped' = mapped \cup Span(map, len), roots' = roots, chunks' = chunks
  PROVE  /\ mapped' \subseteq 0 .. TaskSize - 1
         /\ KeysUnique' /\ LeftInv' /\ Exact(Fam', mapped')
<1> DEFINE h == [key |-> map, len |-> len, meta |-> m]
           o == <<"huge", map, Span(map, len)>>
<1>1. map # 0 /\ \A x \in huges : x.key # map
  BY FreshKey
<1>2. h.key = map /\ h.len = len /\ huges' = huges \cup {h}
  OBVIOUS
<1> HIDE DEF h
<1>3. o[3] \cap mapped = {} /\ o[3] \subseteq 0 .. TaskSize - 1 /\ o[3] = Span(map, len)
  BY MmapOK
<1>4. KeysUnique'
  BY <1>1, <1>2 DEF IInv, KeysUnique
<1>5. LeftInv'
  BY DEF IInv, LeftInv
<1>6. Fam' = Fam \cup {o}
  BY <1>2 DEF Fam, HugeFam
<1> HIDE DEF o
<1>7. Exact(Fam', mapped')
  <2>1. Exact(Fam \cup {o}, mapped \cup o[3])
    BY <1>3, ExactAdd DEF IInv
  <2> QED BY <2>1, <1>3, <1>6
<1>8. mapped' \subseteq 0 .. TaskSize - 1
  BY <1>3 DEF IInv, TypeInv
<1> QED BY <1>4, <1>5, <1>7, <1>8

\* The huge mappings once a reallocation has moved the one at k.
Replaced(k, map, len) ==
  {IF h.key = k THEN [key |-> map, len |-> len, meta |-> h.meta] ELSE h : h \in huges}

\* Mapping g has another address and length, and its metadata.
Moved(g) == \E n \in Huge : huges' = (huges \ {g}) \cup {n} /\ n.meta = g.meta

\* Huge mapping g is replaced by one at map.
LEMMA ListRealloc ==
  ASSUME IInv, NEW map \in Nat, NEW len \in Nat, mmap(map, len) = "OK", NEW g \in huges,
         huges' = Replaced(g.key, map, len),
         mapped' = (mapped \cup Span(map, len)) \ Span(g.key, g.len),
         roots' = roots, chunks' = chunks
  PROVE  /\ mapped' \subseteq 0 .. TaskSize - 1
         /\ KeysUnique' /\ LeftInv' /\ Exact(Fam', mapped')
         /\ Moved(g)
<1> DEFINE n == [key |-> map, len |-> len, meta |-> g.meta]
           o == <<"huge", map, Span(map, len)>>
           p == <<"huge", g.key, Span(g.key, g.len)>>
<1>1. map # 0 /\ \A x \in huges : x.key # map
  BY FreshKey
<1>2. /\ o[3] \cap mapped = {} /\ o[3] \subseteq 0 .. TaskSize - 1 /\ o[3] = Span(map, len)
      /\ len > 0
  BY MmapOK
<1>3. \A x, y \in huges : x.key = y.key => x = y
  BY DEF IInv, KeysUnique
<1>4. huges \subseteq Huge
  BY DEF IInv, TypeInv
<1>5. \A h \in huges : h.key = g.key => [key |-> map, len |-> len, meta |-> h.meta] = n
  BY <1>3
<1>6. n.key = map /\ n.len = len /\ n.meta = g.meta /\ n \in Huge
  BY <1>2, <1>4 DEF Huge
<1> HIDE DEF n
<1>7. huges' = (huges \ {g}) \cup {n}
  <2>1. ASSUME NEW x \in huges' PROVE x \in (huges \ {g}) \cup {n}
    <3>1. PICK h \in huges :
            x = IF h.key = g.key THEN [key |-> map, len |-> len, meta |-> h.meta] ELSE h
      BY <2>1 DEF Replaced
    <3> QED BY <3>1, <1>3, <1>5
  <2>2. ASSUME NEW x \in huges \ {g} PROVE x \in huges'
    BY <1>3 DEF Replaced
  <2>3. n \in huges'
    BY <1>5 DEF Replaced
  <2> QED BY <2>1, <2>2, <2>3
<1>8. KeysUnique'
  BY <1>1, <1>6, <1>7 DEF IInv, KeysUnique
<1>9. LeftInv'
  BY DEF IInv, LeftInv
<1>10. p \in Fam /\ p # o /\ p[3] = Span(g.key, g.len)
  BY <1>1 DEF Fam, HugeFam
<1>11. Fam' = (Fam \cup {o}) \ {p}
  <2>1. HugeFam(huges') = (HugeFam(huges) \cup {o}) \ {p}
    <3>1. ASSUME NEW x \in HugeFam(huges') PROVE x \in (HugeFam(huges) \cup {o}) \ {p}
      <4>1. PICK h \in huges' : x = <<"huge", h.key, Span(h.key, h.len)>>
        BY DEF HugeFam
      <4>2. CASE h = n
        BY <4>1, <4>2, <1>6, <1>10
      <4>3. CASE h \in huges \ {g}
        <5>1. h.key # g.key
          BY <4>3, <1>3
        <5>2. x # p
          BY <4>1, <5>1
        <5>3. x \in HugeFam(huges)
          BY <4>1, <4>3 DEF HugeFam
        <5> QED BY <5>2, <5>3
      <4> QED BY <4>1, <4>2, <4>3, <1>7
    <3>2. ASSUME NEW x \in (HugeFam(huges) \cup {o}) \ {p} PROVE x \in HugeFam(huges')
      <4>1. CASE x = o
        BY <4>1, <1>6, <1>7 DEF HugeFam
      <4>2. CASE x \in HugeFam(huges)
        <5>1. PICK h \in huges : x = <<"huge", h.key, Span(h.key, h.len)>>
          BY <4>2 DEF HugeFam
        <5>2. h # g
          BY <3>2, <5>1
        <5> QED BY <5>1, <5>2, <1>7 DEF HugeFam
      <4> QED BY <4>1, <4>2, <3>2
    <3> QED BY <3>1, <3>2
  <2>2. p \notin RootFam(roots) /\ p \notin ChunkFam(chunks)
    BY DEF RootFam, ChunkFam
  <2> HIDE DEF o, p
  <2> QED BY <2>1, <2>2 DEF Fam
<1> HIDE DEF o, p
<1>12. Exact(Fam', mapped')
  <2>1. Exact(Fam \cup {o}, mapped \cup o[3])
    BY <1>2, ExactAdd DEF IInv
  <2>2. Exact((Fam \cup {o}) \ {p}, (mapped \cup o[3]) \ p[3])
    BY <2>1, <1>10, ExactRemove
  <2> QED BY <2>2, <1>2, <1>10, <1>11
<1>13. mapped' \subseteq 0 .. TaskSize - 1
  BY <1>2 DEF IInv, TypeInv
<1>14. Moved(g)
  BY <1>6, <1>7 DEF Moved
<1> QED BY <1>8, <1>9, <1>12, <1>13, <1>14

\* Steps that change no root, chunk or huge mapping, but perhaps what a root has used.
LEMMA KeepRoots ==
  ASSUME IInv, SameKeys(roots, roots'), UNCHANGED <<chunks, huges, mapped>>
  PROVE  /\ roots' \in Seq(Root) /\ KeysUnique' /\ LeftInv' /\ Exact(Fam', mapped')
<1>1. /\ roots' \in Seq(Root) /\ DOMAIN roots' = DOMAIN roots
      /\ \A n \in DOMAIN roots : roots'[n].key = roots[n].key
  BY DEF SameKeys
<1>2. KeysUnique'
  BY <1>1 DEF IInv, KeysUnique
<1>3. LeftInv'
  BY DEF IInv, LeftInv
<1>4. RootFam(roots') = RootFam(roots)
  BY <1>1 DEF RootFam
<1>5. Fam' = Fam
  BY <1>4 DEF Fam
<1>6. Exact(Fam', mapped')
  BY <1>5 DEF IInv
<1> QED BY <1>1, <1>2, <1>3, <1>6

\* A step that changes neither lists nor pages keeps what is said of them.
LEMMA KeepLists ==
  ASSUME IInv, UNCHANGED <<lists, mapped>>
  PROVE  KeysUnique' /\ LeftInv' /\ Exact(Fam', mapped')
<1>1. SameKeys(roots, roots') /\ UNCHANGED <<chunks, huges, mapped>>
  BY DEF lists, SameKeys, IInv, TypeInv
<1> QED BY <1>1, KeepRoots

\* The place arena_morecore asks for.
LEMMA PlaceType ==
  ASSUME IInv, pc = "core"
  PROVE  At \in Nat /\ Ceil \in Nat /\ MapLen \in Nat
<1>1. /\ brk \in Nat /\ Ceiling \in Nat /\ probe[job] \in Nat /\ call.len \in Nat
      /\ RootLen \in Nat /\ ChunkLen \in Nat
  BY ArenaAssumption DEF IInv, TypeInv, CallRec
<1>2. new_probe = NONE \/ new_probe \in Nat
  BY <1>1 DEF IInv, CallInv
<1> QED BY <1>1, <1>2 DEF At, Ceil, MapLen

\* The caller of arena_morecore lists a mapping that the kernel made at map.
LEMMA ListInv ==
  ASSUME IInv, pc = "core", NEW map \in Nat, mmap(map, MapLen) = "OK",
         mapped' = (mapped \cup Span(map, MapLen)) \ Unmapped,
         List(map), new_probe' = NONE, brk' \in 0 .. Ceiling, probe' \in [Jobs -> Nat]
  PROVE  IInv'
<1>1. /\ roots \in Seq(Root)
      /\ chunks \subseteq Chunks /\ IsFiniteSet(chunks)
      /\ huges \subseteq Huge /\ IsFiniteSet(huges)
      /\ runs \subseteq Meta /\ IsFiniteSet(runs)
      /\ call \in CallRec /\ job \in Jobs
  BY DEF IInv, TypeInv
<1>2. call.op \in Ops \cup {"none"} /\ call.len \in Nat
      /\ call.meta \in Meta \cup {NoCall.meta}
  BY <1>1 DEF IInv, CallInv, CallRec
<1>3. MetaInv
  BY DEF IInv
<1>4. NoCall.op = "none" /\ NoCall.old = NONE
  BY DEF NoCall, Request
<1>5. CASE /\ job = "internal" /\ call.op \in {"run", "chunk", "huge"}
           /\ call.meta = NoCall.meta /\ call.old = NONE
  <2> DEFINE s == FreeSlot([used |-> {}])
             c == [call EXCEPT !.meta = <<map, s>>]
  <2>1. s \in Slots
    BY FreeSlotFacts, ArenaAssumption
  <2>2. roots' = <<[key |-> map, used |-> {s}]>> \o roots /\ WithMetadata(c)
    BY <1>5 DEF List
  <2>3. /\ c \in CallRec /\ c.op = call.op /\ c.old = NONE /\ c.meta = <<map, s>>
        /\ <<map, s>> \in Meta
    BY <1>1, <1>5, <2>1 DEF CallRec, Meta
  <2> HIDE DEF c, s
  <2>4. chunks' = chunks /\ huges' = huges /\ pc' \in {"idle", "core"}
    BY <2>2 DEF WithMetadata
  <2>5. MapLen = RootLen /\ Unmapped = {}
    BY <1>5, UnmappedFacts DEF MapLen
  <2>6. mmap(map, RootLen) = "OK" /\ mapped' = mapped \cup Span(map, RootLen)
    BY <2>5
  <2>7. /\ roots' \in Seq(Root) /\ mapped' \subseteq 0 .. TaskSize - 1
        /\ KeysUnique' /\ LeftInv' /\ Exact(Fam', mapped')
        /\ <<map, s>> \notin Used(roots) /\ Used(roots') = Used(roots) \cup {<<map, s>>}
    BY <2>1, <2>2, <2>4, <2>6, ListRoot
  <2>8. c.op \in {"run", "chunk", "huge"} /\ c.op \in Ops
    BY <2>3, <1>2, <1>5
  <2>9. /\ runs' \subseteq Meta /\ IsFiniteSet(runs')
        /\ call' \in CallRec /\ job' \in Jobs /\ CallInv' /\ MetaInv'
    BY <2>2, <2>3, <2>4, <2>7, <2>8, <1>5, GotMeta
  <2> QED BY <2>4, <2>7, <2>9, <1>1 DEF IInv, TypeInv
<1>6. CASE job = "chunk" /\ call.op = "chunk" /\ call.meta # NoCall.meta /\ call.old = NONE
  <2> DEFINE c == [key |-> map, left |-> Span(map, ChunkLen), meta |-> call.meta]
  <2>1. /\ chunks' = chunks \cup {c} /\ pc' = "idle" /\ call' = NoCall /\ job' = job
        /\ roots' = roots /\ huges' = huges /\ runs' = runs
    BY <1>6 DEF List
  <2>2. MapLen = ChunkLen /\ Unmapped = {}
    BY <1>6, UnmappedFacts DEF MapLen
  <2>3. mmap(map, ChunkLen) = "OK" /\ mapped' = mapped \cup Span(map, ChunkLen)
    BY <2>2
  <2>4. /\ mapped' \subseteq 0 .. TaskSize - 1
        /\ KeysUnique' /\ LeftInv' /\ Exact(Fam', mapped')
    BY <2>1, <2>3, ListChunk
  <2>5. c \in Chunks /\ c.meta = call.meta
    <3>1. ChunkLen \in Nat
      BY ArenaAssumption
    <3>2. Span(map, ChunkLen) \in SUBSET Nat
      BY <3>1 DEF Span
    <3> QED BY <3>2, <1>2, <1>6 DEF Chunks
  <2> HIDE DEF c
  <2>6. chunks' \subseteq Chunks /\ IsFiniteSet(chunks')
    BY <2>1, <2>5, <1>1, FS_AddElement
  <2>7. CallInv'
    BY <2>1, <1>4 DEF CallInv
  <2>8. Metas' = Metas
    BY <2>1, <2>5, <1>6 DEF Metas
  <2>9. \A x \in chunks \cup huges : x.meta \in Meta
    BY <1>1 DEF Chunks, Huge
  <2>10. MetaInv'
    BY <2>1, <2>5, <2>8, <2>9, <1>1, <1>2, <1>3, <1>6, NoMeta DEF MetaInv
  <2> QED BY <2>1, <2>4, <2>6, <2>7, <2>10, <1>1, NoMeta DEF IInv, TypeInv
<1>7. CASE job = "huge" /\ call.op = "huge" /\ call.meta # NoCall.meta /\ call.old = NONE
  <2> DEFINE h == [key |-> map, len |-> call.len, meta |-> call.meta]
  <2>1. /\ huges' = huges \cup {h} /\ pc' = "idle" /\ call' = NoCall /\ job' = job
        /\ roots' = roots /\ chunks' = chunks /\ runs' = runs
    BY <1>7 DEF List
  <2>2. MapLen = call.len /\ Unmapped = {}
    BY <1>7, UnmappedFacts DEF MapLen
  <2>3. mmap(map, call.len) = "OK" /\ mapped' = mapped \cup Span(map, call.len)
    BY <2>2
  <2>4. /\ mapped' \subseteq 0 .. TaskSize - 1
        /\ KeysUnique' /\ LeftInv' /\ Exact(Fam', mapped')
    BY <2>1, <2>3, <1>2, ListHuge
  <2>5. h \in Huge /\ h.meta = call.meta
    <3>1. call.len \in Nat \ {0}
      BY <2>3, <1>2, MmapOK
    <3> QED BY <3>1, <1>2, <1>7 DEF Huge
  <2> HIDE DEF h
  <2>6. huges' \subseteq Huge /\ IsFiniteSet(huges')
    BY <2>1, <2>5, <1>1, FS_AddElement
  <2>7. CallInv'
    BY <2>1, <1>4 DEF CallInv
  <2>8. Metas' = Metas
    BY <2>1, <2>5, <1>7 DEF Metas
  <2>9. \A x \in chunks \cup huges : x.meta \in Meta
    BY <1>1 DEF Chunks, Huge
  <2>10. MetaInv'
    BY <2>1, <2>5, <2>8, <2>9, <1>1, <1>2, <1>3, <1>7, NoMeta DEF MetaInv
  <2> QED BY <2>1, <2>4, <2>6, <2>7, <2>10, <1>1, NoMeta DEF IInv, TypeInv
<1>8. CASE /\ job = "huge" /\ call.op = "realloc"
           /\ call.meta = NoCall.meta /\ \E h \in huges : h.key = call.old
  <2>1. PICK g \in huges : g.key = call.old
    BY <1>8
  <2>2. /\ huges' = Replaced(g.key, map, call.len)
        /\ pc' = "idle" /\ call' = NoCall /\ job' = job
        /\ roots' = roots /\ chunks' = chunks /\ runs' = runs
    BY <1>8, <2>1 DEF List, Replaced
  <2>3. MapLen = call.len /\ Unmapped = Span(g.key, g.len)
    BY <1>8, <2>1, UnmappedFacts DEF MapLen
  <2>4. mmap(map, call.len) = "OK" /\ mapped' = (mapped \cup Span(map, call.len)) \ Span(g.key, g.len)
    BY <2>3
  <2>5. /\ mapped' \subseteq 0 .. TaskSize - 1
        /\ KeysUnique' /\ LeftInv' /\ Exact(Fam', mapped')
        /\ Moved(g)
    BY <2>2, <2>4, <1>2, ListRealloc
  <2>6. PICK n \in Huge : huges' = (huges \ {g}) \cup {n} /\ n.meta = g.meta
    BY <2>5 DEF Moved
  <2>7. huges' \subseteq Huge /\ IsFiniteSet(huges')
    BY <2>6, <1>1, FS_AddElement, FS_RemoveElement
  <2>8. CallInv'
    BY <2>2, <1>4 DEF CallInv
  <2>9. Metas' = Metas
    BY <2>2, <2>6, <1>8 DEF Metas
  <2>10. MetaInv'
    BY <2>2, <2>6, <2>9, <1>3, <1>8 DEF MetaInv
  <2> QED BY <2>2, <2>5, <2>7, <2>8, <2>10, <1>1, NoMeta DEF IInv, TypeInv
<1> QED BY <1>5, <1>6, <1>7, <1>8 DEF IInv, CallInv

-----------------------------------------------------------------------------
(***************************************************************************)
(* The calls                                                               *)
(***************************************************************************)
LEMMA AllocateInv ==
  ASSUME IInv, NEW op \in {"run", "chunk", "huge"}, NEW len \in Nat, Allocate(op, len)
  PROVE  IInv'
<1> DEFINE c == Request(op, len, NONE)
<1>1. /\ roots \in Seq(Root) /\ chunks \subseteq Chunks /\ huges \subseteq Huge
      /\ runs \subseteq Meta
  BY DEF IInv, TypeInv
<1>2. /\ pc = "idle" /\ op \in Ops /\ brk' = brk /\ probe' = probe /\ mapped' = mapped
      /\ new_probe' = new_probe
  BY DEF Allocate
<1>3. call = NoCall /\ new_probe = NONE
  BY <1>2 DEF IInv, CallInv
<1>4. c \in CallRec /\ c.op = op /\ c.old = NONE /\ c.meta = NoCall.meta /\ c.len = len
  BY DEF Request, NoCall, CallRec, OpNames, NONE
<1>5. CASE Roomy # {}
  <2> DEFINE n == FirstRoomy
             s == FreeSlot(roots[n])
             m == <<roots[n].key, s>>
             d == [c EXCEPT !.meta = m]
  <2>1. n \in DOMAIN roots /\ roots[n].used # Slots
    BY <1>1, <1>5, FirstRoomyFacts
  <2>2. roots[n].key \in Nat /\ roots[n].used \subseteq Slots
    BY <2>1, <1>1, RootFacts
  <2>3. s \in Slots \ roots[n].used
    BY <2>1, <2>2, FreeSlotFacts
  <2>4. roots' = [roots EXCEPT ![n].used = @ \cup {s}] /\ WithMetadata(d)
    BY <1>5 DEF Allocate
  <2>5. m \in Meta
    BY <2>2, <2>3 DEF Meta
  <2> HIDE DEF n, s
  <2>6. DistinctKeys(roots)
    BY DEF IInv, KeysUnique, DistinctKeys
  <2>7. /\ SameKeys(roots, roots') /\ m \notin Used(roots)
        /\ Used(roots') = Used(roots) \cup {m}
    BY <2>1, <2>3, <2>4, <2>6, <1>1, TakeSlot
  <2>8. d \in CallRec /\ d.op = op /\ d.old = NONE /\ d.meta = m
    BY <1>4, <2>5 DEF CallRec
  <2> HIDE DEF c, d, m
  <2>9. pc' \in {"idle", "core"}
    BY <2>4 DEF WithMetadata
  <2>10. /\ chunks' = chunks /\ huges' = huges
         /\ runs' \subseteq Meta /\ IsFiniteSet(runs')
         /\ call' \in CallRec /\ job' \in Jobs /\ CallInv' /\ MetaInv'
    BY <2>4, <2>5, <2>7, <2>8, <2>9, <1>2, <1>3, GotMeta
  <2>11. /\ roots' \in Seq(Root) /\ KeysUnique' /\ LeftInv' /\ Exact(Fam', mapped')
    BY <2>7, <2>10, <1>2, KeepRoots
  <2> QED BY <2>9, <2>10, <2>11, <1>2 DEF IInv, TypeInv
<1>6. CASE Roomy = {}
  <2>1. /\ pc' = "core" /\ call' = c /\ job' = "internal" /\ UNCHANGED lists
    BY <1>6 DEF Allocate
  <2>2. TypeInv'
    BY <2>1, <1>2, <1>4 DEF IInv, TypeInv, lists, Jobs
  <2>3. CallInv'
    BY <2>1, <1>2, <1>3, <1>4 DEF CallInv
  <2> HIDE DEF c
  <2>4. KeysUnique' /\ LeftInv' /\ Exact(Fam', mapped')
    BY <2>1, <1>2, KeepLists
  <2>5. MetaInv'
    BY <2>1, <1>2, <1>3, <1>4 DEF lists, IInv, MetaInv, Metas
  <2> QED BY <2>2, <2>3, <2>4, <2>5 DEF IInv
<1> QED BY <1>5, <1>6

\* A realloc of a huge mapping begins: the old mapping stays listed.
LEMMA ReallocateInv ==
  ASSUME IInv, NEW h \in huges, NEW len \in Nat, Reallocate(h, len)
  PROVE  IInv'
<1> DEFINE c == Request("realloc", len, h.key)
<1>1. /\ pc = "idle" /\ "realloc" \in Ops /\ pc' = "core" /\ job' = "huge" /\ call' = c
      /\ UNCHANGED <<brk, probe, lists, mapped, new_probe>>
  BY DEF Reallocate
<1>2. call = NoCall /\ new_probe = NONE
  BY <1>1 DEF IInv, CallInv
<1>3. h.key \in Nat
  BY DEF IInv, TypeInv, Huge
<1>4. c \in CallRec /\ c.op = "realloc" /\ c.old = h.key /\ c.meta = NoCall.meta
  BY <1>3 DEF Request, NoCall, CallRec, OpNames, NONE
<1> HIDE DEF c
<1>5. TypeInv'
  BY <1>1, <1>4 DEF IInv, TypeInv, lists, Jobs
<1>6. CallInv'
  <2>1. \E g \in huges' : g.key = call'.old
    BY <1>1, <1>4 DEF lists
  <2> QED BY <2>1, <1>1, <1>2, <1>4 DEF CallInv
<1>7. KeysUnique' /\ LeftInv' /\ Exact(Fam', mapped')
  BY <1>1, KeepLists
<1>8. MetaInv'
  BY <1>1, <1>2, <1>4 DEF lists, IInv, MetaInv, Metas
<1> QED BY <1>5, <1>6, <1>7, <1>8 DEF IInv

\* Freeing metadata m changes no root but the one that m is in, and there only slots.
LEMMA FreeMeta ==
  ASSUME IInv, NEW m \in Metas, arena_internal_free(m)
  PROVE  /\ SameKeys(roots, roots') /\ RootFam(roots') = RootFam(roots)
         /\ Used(roots') = Used(roots) \ {m}
<1>1. roots \in Seq(Root) /\ m \in Used(roots)
  BY DEF IInv, TypeInv, MetaInv
<1>2. DistinctKeys(roots)
  BY DEF IInv, KeysUnique, DistinctKeys
<1>3. SameKeys(roots, roots') /\ Used(roots') = Used(roots) \ {m}
  BY <1>1, <1>2, FreeSlotOf DEF arena_internal_free
<1>4. RootFam(roots') = RootFam(roots)
  BY <1>3 DEF SameKeys, RootFam
<1> QED BY <1>3, <1>4

\* A state in which no call is in progress.
LEMMA IdleFacts ==
  ASSUME IInv, pc = "idle"
  PROVE  /\ call = NoCall /\ call.meta = NoCall.meta /\ new_probe = NONE
         /\ Metas = runs \cup {c.meta : c \in chunks} \cup {h.meta : h \in huges}
BY DEF IInv, CallInv, Metas

\* arena_deallocate_huge_mapping
LEMMA HugeFreeInv ==
  ASSUME IInv, NEW h \in huges, arena_deallocate_huge_mapping(h)
  PROVE  IInv'
<1> DEFINE p == <<"huge", h.key, Span(h.key, h.len)>>
<1>1. /\ pc = "idle" /\ mapped' = mapped \ Span(h.key, h.len) /\ huges' = huges \ {h}
      /\ arena_internal_free(h.meta)
      /\ UNCHANGED <<brk, probe, chunks, runs, control>>
  BY DEF arena_deallocate_huge_mapping
<1>2. /\ call = NoCall /\ call.meta = NoCall.meta /\ new_probe = NONE
      /\ Metas = runs \cup {c.meta : c \in chunks} \cup {g.meta : g \in huges}
  BY <1>1, IdleFacts
<1>3. /\ SameKeys(roots, roots') /\ RootFam(roots') = RootFam(roots)
      /\ Used(roots') = Used(roots) \ {h.meta}
  <2>1. h.meta \in Metas
    BY <1>2
  <2> QED BY <2>1, <1>1, FreeMeta
<1>4. TypeInv'
  BY <1>1, <1>3, FS_RemoveElement DEF IInv, TypeInv, SameKeys, control
<1>5. CallInv'
  BY <1>1, <1>2 DEF IInv, CallInv, control
<1>6. KeysUnique' /\ LeftInv'
  BY <1>1, <1>3 DEF SameKeys, IInv, KeysUnique, LeftInv
<1>7. Fam' = Fam \ {p}
  <2>1. \A x, y \in huges : x.key = y.key => x = y
    BY DEF IInv, KeysUnique
  <2>2. HugeFam(huges') = HugeFam(huges) \ {p}
    <3>1. ASSUME NEW x \in HugeFam(huges') PROVE x \in HugeFam(huges) \ {p}
      <4>1. PICK g \in huges' : x = <<"huge", g.key, Span(g.key, g.len)>>
        BY DEF HugeFam
      <4>2. g \in huges /\ g.key # h.key
        BY <4>1, <1>1, <2>1
      <4>3. x # p
        BY <4>1, <4>2
      <4> QED BY <4>1, <4>2, <4>3 DEF HugeFam
    <3>2. ASSUME NEW x \in HugeFam(huges) \ {p} PROVE x \in HugeFam(huges')
      BY <1>1 DEF HugeFam
    <3> QED BY <3>1, <3>2
  <2>3. p \notin RootFam(roots) /\ p \notin ChunkFam(chunks)
    BY DEF RootFam, ChunkFam
  <2> HIDE DEF p
  <2> QED BY <2>2, <2>3, <1>1, <1>3 DEF Fam
<1>8. p \in Fam /\ p[3] = Span(h.key, h.len)
  BY DEF Fam, HugeFam
<1> HIDE DEF p
<1>9. Exact(Fam', mapped')
  <2>1. Exact(Fam \ {p}, mapped \ p[3])
    BY <1>8, ExactRemove DEF IInv
  <2> QED BY <2>1, <1>1, <1>7, <1>8
<1>10. MetaInv'
  <2>1. MetaInv
    BY DEF IInv
  <2>2. Metas' = Metas \ {h.meta}
    <3>1. h.meta \notin runs /\ \A c \in chunks : c.meta # h.meta
      BY <2>1 DEF MetaInv
    <3>2. \A g \in huges \ {h} : g.meta # h.meta
      BY <2>1 DEF MetaInv
    <3>3. Metas' = runs \cup {c.meta : c \in chunks} \cup {g.meta : g \in huges \ {h}}
      BY <1>1, <1>2 DEF Metas, control
    <3> QED BY <3>1, <3>2, <3>3, <1>2
  <2> QED BY <2>1, <2>2, <1>1, <1>3 DEF MetaInv, control
<1> QED BY <1>4, <1>5, <1>6, <1>9, <1>10 DEF IInv

\* The metadata of a run goes back to its root.
LEMMA FreeRunInv ==
  ASSUME IInv, NEW m \in runs, FreeRun(m)
  PROVE  IInv'
<1>1. /\ pc = "idle" /\ runs' = runs \ {m} /\ arena_internal_free(m)
      /\ UNCHANGED <<brk, probe, chunks, huges, mapped, control>>
  BY DEF FreeRun
<1>2. /\ call = NoCall /\ call.meta = NoCall.meta /\ new_probe = NONE
      /\ Metas = runs \cup {c.meta : c \in chunks} \cup {g.meta : g \in huges}
  BY <1>1, IdleFacts
<1>3. SameKeys(roots, roots') /\ Used(roots') = Used(roots) \ {m}
  <2>1. m \in Metas
    BY <1>2
  <2> QED BY <2>1, <1>1, FreeMeta
<1>4. TypeInv'
  BY <1>1, <1>3, FS_RemoveElement DEF IInv, TypeInv, SameKeys, control
<1>5. CallInv'
  BY <1>1, <1>2 DEF IInv, CallInv, control
<1>6. KeysUnique' /\ LeftInv' /\ Exact(Fam', mapped')
  BY <1>1, <1>3, KeepRoots
<1>7. MetaInv'
  <2>1. MetaInv
    BY DEF IInv
  <2>2. Metas' = Metas \ {m}
    <3>1. (\A c \in chunks : c.meta # m) /\ \A h \in huges : h.meta # m
      BY <2>1 DEF MetaInv
    <3>2. Metas' = (runs \ {m}) \cup {c.meta : c \in chunks} \cup {g.meta : g \in huges}
      BY <1>1, <1>2 DEF Metas, control
    <3> QED BY <3>1, <3>2, <1>2
  <2> QED BY <2>1, <2>2, <1>1, <1>3 DEF MetaInv, control
<1> QED BY <1>4, <1>5, <1>6, <1>7 DEF IInv

\* A chunk unmaps a page, and is dropped with its last one.
LEMMA UnmapPartInv ==
  ASSUME IInv, NEW c \in chunks, NEW p \in c.left, UnmapPart(c, p)
  PROVE  IInv'
<1> DEFINE o == <<"chunk", c.key, c.left>>
<1>1. /\ pc = "idle" /\ mapped' = mapped \ {p}
      /\ UNCHANGED <<brk, probe, huges, runs, control>>
  BY DEF UnmapPart
<1>2. /\ call = NoCall /\ call.meta = NoCall.meta /\ new_probe = NONE
      /\ Metas = runs \cup {x.meta : x \in chunks} \cup {g.meta : g \in huges}
  BY <1>1, IdleFacts
<1>3. MetaInv /\ KeysUnique /\ LeftInv
  BY DEF IInv
<1>4. \A x, y \in chunks : x.key = y.key => x = y
  BY <1>3 DEF KeysUnique
<1>5. CallInv'
  BY <1>1, <1>2 DEF IInv, CallInv, control
<1>6. o \in Fam /\ o[3] = c.left /\ o \notin RootFam(roots) /\ o \notin HugeFam(huges)
  BY DEF Fam, RootFam, ChunkFam, HugeFam
<1>7. ChunkFam(chunks \ {c}) = ChunkFam(chunks) \ {o}
  <2>1. ASSUME NEW x \in ChunkFam(chunks \ {c}) PROVE x \in ChunkFam(chunks) \ {o}
    <3>1. PICK d \in chunks \ {c} : x = <<"chunk", d.key, d.left>>
      BY DEF ChunkFam
    <3>2. d.key # c.key
      BY <1>4
    <3>3. x # o
      BY <3>1, <3>2
    <3> QED BY <3>1, <3>3 DEF ChunkFam
  <2>2. ASSUME NEW x \in ChunkFam(chunks) \ {o} PROVE x \in ChunkFam(chunks \ {c})
    BY DEF ChunkFam
  <2> QED BY <2>1, <2>2
<1>8. CASE c.left = {p}
  <2>1. chunks' = chunks \ {c} /\ arena_internal_free(c.meta)
    BY <1>8 DEF UnmapPart
  <2>2. /\ SameKeys(roots, roots') /\ RootFam(roots') = RootFam(roots)
        /\ Used(roots') = Used(roots) \ {c.meta}
    <3>1. c.meta \in Metas
      BY <1>2
    <3> QED BY <3>1, <2>1, FreeMeta
  <2>3. TypeInv'
    BY <1>1, <2>1, <2>2, FS_RemoveElement DEF IInv, TypeInv, SameKeys, control
  <2>4. KeysUnique' /\ LeftInv'
    BY <1>1, <1>3, <2>1, <2>2 DEF SameKeys, KeysUnique, LeftInv
  <2>5. Fam' = Fam \ {o}
    <3> HIDE DEF o
    <3> QED BY <1>1, <1>6, <1>7, <2>1, <2>2 DEF Fam
  <2>6. Exact(Fam', mapped')
    <3> HIDE DEF o
    <3>1. Exact(Fam \ {o}, mapped \ o[3])
      BY <1>6, ExactRemove DEF IInv
    <3> QED BY <3>1, <1>1, <1>6, <1>8, <2>5
  <2>7. Metas' = Metas \ {c.meta}
    <3>1. c.meta \notin runs /\ \A h \in huges : c.meta # h.meta
      BY <1>3 DEF MetaInv
    <3>2. \A x \in chunks \ {c} : x.meta # c.meta
      BY <1>3 DEF MetaInv
    <3>3. Metas' = runs \cup {x.meta : x \in chunks \ {c}} \cup {g.meta : g \in huges}
      BY <1>1, <1>2, <2>1 DEF Metas, control
    <3> QED BY <3>1, <3>2, <3>3, <1>2
  <2>8. MetaInv'
    BY <1>1, <1>3, <2>1, <2>2, <2>7 DEF MetaInv, control
  <2> QED BY <1>5, <2>3, <2>4, <2>6, <2>8 DEF IInv
<1>9. CASE c.left # {p}
  <2> DEFINE d == [c EXCEPT !.left = @ \ {p}]
             q == <<"chunk", d.key, d.left>>
  <2>1. chunks' = (chunks \ {c}) \cup {d} /\ roots' = roots
    BY <1>9 DEF UnmapPart
  <2>2. /\ d \in Chunks /\ d.key = c.key /\ d.left = c.left \ {p} /\ d.meta = c.meta
        /\ d.left # {} /\ d.left \subseteq Span(d.key, ChunkLen)
    <3>1. c \in Chunks
      BY DEF IInv, TypeInv
    <3>2. d \in Chunks /\ d.key = c.key /\ d.left = c.left \ {p} /\ d.meta = c.meta
      BY <3>1 DEF Chunks
    <3> HIDE DEF d
    <3> QED BY <3>2, <1>3, <1>9 DEF LeftInv
  <2> HIDE DEF d
  <2>3. TypeInv'
    <3>1. chunks' \subseteq Chunks /\ IsFiniteSet(chunks')
      BY <2>1, <2>2, FS_AddElement, FS_RemoveElement DEF IInv, TypeInv
    <3> QED BY <3>1, <1>1, <2>1 DEF IInv, TypeInv, control
  <2>4. KeysUnique' /\ LeftInv'
    BY <1>1, <1>3, <2>1, <2>2 DEF KeysUnique, LeftInv
  <2>5. q[3] = c.left \ {p}
    BY <2>2
  <2>6. ChunkFam(chunks') = ChunkFam(chunks \ {c}) \cup {q}
    BY <2>1 DEF ChunkFam
  <2> HIDE DEF q
  <2>7. Fam' = (Fam \ {o}) \cup {q}
    <3> HIDE DEF o
    <3> QED BY <1>1, <1>6, <1>7, <2>1, <2>6 DEF Fam
  <2>8. Exact(Fam', mapped')
    <3> HIDE DEF o
    <3>1. {p} \subseteq o[3] /\ q[3] = o[3] \ {p}
      BY <1>6, <2>5
    <3>2. Exact((Fam \ {o}) \cup {q}, mapped \ {p})
      BY <3>1, <1>6, ExactShrink DEF IInv
    <3> QED BY <3>2, <1>1, <2>7
  <2>9. Metas' = Metas
    BY <1>1, <1>2, <2>1, <2>2 DEF Metas, control
  <2>10. MetaInv'
    BY <1>1, <1>3, <2>1, <2>2, <2>9 DEF MetaInv, control
  <2> QED BY <1>5, <2>3, <2>4, <2>8, <2>10 DEF IInv
<1> QED BY <1>8, <1>9

-----------------------------------------------------------------------------
(***************************************************************************)
(* arena_morecore, and the theorems                                        *)
(***************************************************************************)

\* Steps of arena_morecore that map nothing.
LEMMA SearchInv ==
  ASSUME IInv, pc = "core", UNCHANGED <<lists, mapped, pc, call, job>>,
         brk' \in 0 .. Ceiling, probe' \in [Jobs -> Nat],
         new_probe' \in {NONE} \cup (1 .. IF job' = "chunk" THEN brk' ELSE Ceiling)
  PROVE  IInv'
<1>1. TypeInv'
  BY DEF IInv, TypeInv, lists
<1>2. CallInv'
  BY DEF IInv, CallInv, lists
<1>3. KeysUnique' /\ LeftInv' /\ Exact(Fam', mapped')
  BY KeepLists
<1>4. MetaInv'
  BY DEF IInv, MetaInv, Metas, lists
<1> QED BY <1>1, <1>2, <1>3, <1>4 DEF IInv

\* An iteration of arena_morecore, whatever the kernel answers.
LEMMA MorecoreInv == IInv /\ morecore => IInv'
<1> SUFFICES ASSUME IInv, morecore PROVE IInv'
  OBVIOUS
<1>1. pc = "core"
  BY DEF morecore, Redraw, CeilingHit, Occupied, Refused, Placed, Relocated
<1>2. /\ At \in Nat /\ Ceil \in Nat /\ MapLen \in Nat
      /\ brk \in 0 .. Ceiling /\ probe \in [Jobs -> Nat] /\ job \in Jobs
  BY <1>1, PlaceType DEF IInv, TypeInv
<1>3. ASSUME NEW p \in 0 .. Ceiling, NEW b \in 0 .. Ceiling, CeilingHit(p, b) PROVE IInv'
  <2>1. /\ probe' = [probe EXCEPT ![job] = p] /\ brk' = b /\ new_probe' = NONE
        /\ UNCHANGED <<lists, mapped, pc, call, job>>
    BY <1>3 DEF CeilingHit
  <2>2. p \in Nat
    BY ArenaAssumption
  <2>3. probe' \in [Jobs -> Nat]
    BY <2>1, <2>2, <1>2
  <2> QED BY <2>1, <2>3, <1>1, SearchInv
<1>4. CASE Occupied
  <2>1. /\ At < Ceil /\ new_probe' = At + 1
        /\ UNCHANGED <<brk, probe, lists, mapped, pc, call, job>>
    BY <1>4 DEF Occupied
  <2>2. new_probe' \in 1 .. IF job' = "chunk" THEN brk' ELSE Ceiling
    <3>1. Ceiling \in Nat
      BY ArenaAssumption
    <3>2. CASE job = "chunk"
      BY <3>1, <3>2, <2>1, <1>2 DEF Ceil
    <3>3. CASE job # "chunk"
      BY <3>1, <3>3, <2>1, <1>2 DEF Ceil
    <3> QED BY <3>2, <3>3
  <2>3. brk' \in 0 .. Ceiling /\ probe' \in [Jobs -> Nat]
    BY <2>1, <1>2
  <2> QED BY <2>1, <2>2, <2>3, <1>1, SearchInv
<1>5. CASE Refused
  <2>1. new_probe' = NONE /\ UNCHANGED <<brk, probe, lists, mapped, pc, call, job>>
    BY <1>5 DEF Refused
  <2> QED BY <2>1, <1>1, <1>2, SearchInv
<1>6. CASE Placed
  <2>1. /\ mmap(At, MapLen) = "OK" /\ mapped' = (mapped \cup Span(At, MapLen)) \ Unmapped
        /\ probe' = [probe EXCEPT ![job] = Bump(At, At)] /\ new_probe' = NONE
        /\ List(At) /\ brk' = brk
    BY <1>6 DEF Placed
  <2>2. Bump(At, At) \in Nat
    BY <1>2 DEF Bump
  <2>3. probe' \in [Jobs -> Nat]
    BY <2>1, <2>2, <1>2
  <2> QED BY <2>1, <2>3, <1>1, <1>2, ListInv
<1>7. ASSUME NEW map \in MinPage .. TaskSize, NEW p \in 0 .. Ceiling, NEW b \in 0 .. Ceiling,
             Relocated(map, p, b)
      PROVE  IInv'
  <2>1. /\ mmap(map, MapLen) = "OK" /\ mapped' = (mapped \cup Span(map, MapLen)) \ Unmapped
        /\ probe' = [probe EXCEPT ![job] = Bump(map, p)] /\ brk' = b /\ new_probe' = NONE
        /\ List(map)
    BY <1>7 DEF Relocated, Result
  <2>2. map \in Nat /\ p \in Nat
    BY ArenaAssumption
  <2>3. Bump(map, p) \in Nat
    BY <2>2, <1>2 DEF Bump
  <2>4. probe' \in [Jobs -> Nat]
    BY <2>1, <2>3, <1>2
  <2> QED BY <2>1, <2>2, <2>4, <1>1, ListInv
<1> QED BY <1>3, <1>4, <1>5, <1>6, <1>7 DEF morecore, Redraw

\* The state before the first call.
LEMMA InitInv == Init => IInv
<1> SUFFICES ASSUME Init PROVE IInv
  OBVIOUS
<1>1. /\ roots = <<>> /\ chunks = {} /\ huges = {} /\ runs = {} /\ mapped = Foreign
      /\ pc = "uninit" /\ call = NoCall /\ job = "internal" /\ new_probe = NONE
  BY DEF Init
<1>2. TypeInv
  <2>1. brk \in 0 .. Ceiling /\ probe \in [Jobs -> Nat]
    BY ArenaAssumption DEF Init
  <2>2. roots \in Seq(Root) /\ mapped \subseteq 0 .. TaskSize - 1
    BY <1>1, ArenaAssumption
  <2> QED BY <2>1, <2>2, <1>1, NoMeta, FS_EmptySet DEF TypeInv, Jobs
<1>3. CallInv
  BY <1>1 DEF CallInv, NoCall, Request
<1>4. DOMAIN roots = {}
  BY <1>1
<1>5. KeysUnique /\ LeftInv
  BY <1>1, <1>4 DEF KeysUnique, LeftInv
<1>6. Fam = {}
  BY <1>1, <1>4 DEF Fam, RootFam, ChunkFam, HugeFam
<1>7. Exact(Fam, mapped)
  BY <1>1, <1>6 DEF Exact
<1>8. MetaInv
  BY <1>1, <1>4 DEF MetaInv, Metas, Used
<1> QED BY <1>2, <1>3, <1>5, <1>7, <1>8 DEF IInv

\* The calls that begin while no other is in progress.
LEMMA CallsInv == IInv /\ Calls => IInv'
<1>1. \A len \in HugeLens : len \in Nat
  BY ArenaAssumption
<1> QED BY <1>1, AllocateInv, ReallocateInv, HugeFreeInv, FreeRunInv, UnmapPartInv DEF Calls

\* Every step keeps the invariant.
LEMMA NextInv == IInv /\ [Next]_vars => IInv'
<1> SUFFICES ASSUME IInv, [Next]_vars PROVE IInv'
  OBVIOUS
<1>1. CASE arena_init
  <2>1. /\ brk' \in 0 .. Ceiling /\ probe' \in [Jobs -> Nat]
        /\ pc = "uninit" /\ pc' = "idle" /\ UNCHANGED <<lists, mapped, call, job, new_probe>>
    BY <1>1, ArenaAssumption DEF arena_init, Jobs
  <2>2. TypeInv'
    BY <2>1 DEF IInv, TypeInv, lists
  <2>3. CallInv'
    BY <2>1 DEF IInv, CallInv
  <2>4. KeysUnique' /\ LeftInv' /\ Exact(Fam', mapped')
    BY <2>1, KeepLists
  <2>5. MetaInv'
    BY <2>1 DEF IInv, MetaInv, Metas, lists
  <2> QED BY <2>2, <2>3, <2>4, <2>5 DEF IInv
<1>2. CASE Calls
  BY <1>2, CallsInv
<1>3. CASE morecore
  BY <1>3, MorecoreInv
<1>4. CASE UNCHANGED vars
  <2>1. UNCHANGED <<brk, probe, lists, mapped, pc, call, job, new_probe>>
    BY <1>4 DEF vars, control
  <2>2. TypeInv' /\ CallInv'
    BY <2>1 DEF IInv, TypeInv, CallInv, lists
  <2>3. KeysUnique' /\ LeftInv' /\ Exact(Fam', mapped')
    BY <2>1, KeepLists
  <2>4. MetaInv'
    BY <2>1 DEF IInv, MetaInv, Metas, lists
  <2> QED BY <2>2, <2>3, <2>4 DEF IInv
<1> QED BY <1>1, <1>2, <1>3, <1>4 DEF Next

\* Whatever the kernel answers and however the probes are drawn, the arena keeps its
\* invariant: types, the stages of a call, the lists and the metadata.
THEOREM Invariance == Spec => []IInv
BY InitInv, NextInv, PTL DEF Spec

\* The invariant gives the types.
LEMMA ImpliesTypeOK == IInv => TypeOK
<1> SUFFICES ASSUME IInv PROVE TypeOK
  OBVIOUS
<1>1. \A n \in DOMAIN roots : roots[n].used \subseteq Slots
  BY RootFacts DEF IInv, TypeInv
<1> QED BY <1>1 DEF IInv, TypeInv, CallInv, TypeOK

\* The arena's variables have their types; above all, a probe that arena_morecore
\* moves on page by page stops at the ceiling of its kind.
THEOREM TypeCorrect == Spec => []TypeOK
BY Invariance, ImpliesTypeOK, PTL

\* ll_add's assertions hold on every list of the arena: a new key is new in its list,
\* and no key is NULL.
THEOREM KeysCorrect == Spec => []KeysUnique
<1>1. IInv => KeysUnique
  BY DEF IInv
<1> QED BY <1>1, Invariance, PTL

\* The members of Owned are those of Fam, one to one.
RootOwned == {[of |-> r, pages |-> Span(r.key, RootLen)] : r \in {roots[n] : n \in DOMAIN roots}}
ChunkOwned == {[of |-> c, pages |-> c.left] : c \in chunks}
HugeOwned == {[of |-> h, pages |-> Span(h.key, h.len)] : h \in huges}

\* The owners of pages are the members of the family of mappings.
LEMMA OwnedFam ==
  ASSUME KeysUnique
  PROVE  /\ \A o \in Owned : \E f \in Fam : f[3] = o.pages
         /\ \A f \in Fam : \E o \in Owned : f[3] = o.pages
         /\ \A o, q \in Owned : o # q => \E f, g \in Fam : f # g /\ f[3] = o.pages /\ g[3] = q.pages
<1> DEFINE Tag(o, k) == <<k, o.of.key, o.pages>>
<1>1. Owned = RootOwned \cup ChunkOwned \cup HugeOwned
  BY DEF Owned, RootOwned, ChunkOwned, HugeOwned
<1>2. \A o \in RootOwned : Tag(o, "root") \in Fam
  BY DEF RootOwned, Fam, RootFam
<1>3. \A o \in ChunkOwned : Tag(o, "chunk") \in Fam
  BY DEF ChunkOwned, Fam, ChunkFam
<1>4. \A o \in HugeOwned : Tag(o, "huge") \in Fam
  BY DEF HugeOwned, Fam, HugeFam
<1>5. \A o \in Owned : \A k : Tag(o, k)[3] = o.pages
  OBVIOUS
<1>6. \A o \in Owned : \E f \in Fam : f[3] = o.pages
  <2> HIDE DEF Tag
  <2> QED BY <1>1, <1>2, <1>3, <1>4, <1>5
<1>7. \A f \in Fam : \E o \in Owned : f[3] = o.pages
  <2>1. \A f \in RootFam(roots) : \E o \in Owned : f[3] = o.pages
    <3> SUFFICES ASSUME NEW n \in DOMAIN roots
                 PROVE  \E o \in Owned : Span(roots[n].key, RootLen) = o.pages
      BY DEF RootFam
    <3>1. [of |-> roots[n], pages |-> Span(roots[n].key, RootLen)] \in Owned
      BY <1>1 DEF RootOwned
    <3> QED BY <3>1
  <2>2. \A f \in ChunkFam(chunks) : \E o \in Owned : f[3] = o.pages
    <3> SUFFICES ASSUME NEW c \in chunks PROVE \E o \in Owned : c.left = o.pages
      BY DEF ChunkFam
    <3>1. [of |-> c, pages |-> c.left] \in Owned
      BY <1>1 DEF ChunkOwned
    <3> QED BY <3>1
  <2>3. \A f \in HugeFam(huges) : \E o \in Owned : f[3] = o.pages
    <3> SUFFICES ASSUME NEW h \in huges PROVE \E o \in Owned : Span(h.key, h.len) = o.pages
      BY DEF HugeFam
    <3>1. [of |-> h, pages |-> Span(h.key, h.len)] \in Owned
      BY <1>1 DEF HugeOwned
    <3> QED BY <3>1
  <2> QED BY <2>1, <2>2, <2>3 DEF Fam
<1>8. \A o, q \in RootOwned : o # q => Tag(o, "root") # Tag(q, "root")
  BY DEF KeysUnique, RootOwned
<1>9. \A o, q \in ChunkOwned : o # q => Tag(o, "chunk") # Tag(q, "chunk")
  BY DEF KeysUnique, ChunkOwned
<1>10. \A o, q \in HugeOwned : o # q => Tag(o, "huge") # Tag(q, "huge")
  BY DEF KeysUnique, HugeOwned
<1>11. \A o, q : /\ Tag(o, "root") # Tag(q, "chunk") /\ Tag(o, "root") # Tag(q, "huge")
                 /\ Tag(o, "chunk") # Tag(q, "huge")
  OBVIOUS
<1>12. \A o, q \in Owned : o # q => \E f, g \in Fam : f # g /\ f[3] = o.pages /\ g[3] = q.pages
  <2> HIDE DEF Tag
  <2> SUFFICES ASSUME NEW o \in Owned, NEW q \in Owned, o # q
               PROVE  \E f, g \in Fam : f # g /\ f[3] = o.pages /\ g[3] = q.pages
    OBVIOUS
  <2>1. CASE o \in RootOwned
    <3>1. Tag(o, "root") \in Fam /\ Tag(o, "root")[3] = o.pages
      BY <2>1, <1>2, <1>3, <1>4, <1>5
    <3>2. \E g \in Fam : g # Tag(o, "root") /\ g[3] = q.pages
      BY <2>1, <1>1, <1>2, <1>3, <1>4, <1>5, <1>8, <1>11
    <3> QED BY <3>1, <3>2
  <2>2. CASE o \in ChunkOwned
    <3>1. Tag(o, "chunk") \in Fam /\ Tag(o, "chunk")[3] = o.pages
      BY <2>2, <1>2, <1>3, <1>4, <1>5
    <3>2. \E g \in Fam : g # Tag(o, "chunk") /\ g[3] = q.pages
      BY <2>2, <1>1, <1>2, <1>3, <1>4, <1>5, <1>9, <1>11
    <3> QED BY <3>1, <3>2
  <2>3. CASE o \in HugeOwned
    <3>1. Tag(o, "huge") \in Fam /\ Tag(o, "huge")[3] = o.pages
      BY <2>3, <1>2, <1>3, <1>4, <1>5
    <3>2. \E g \in Fam : g # Tag(o, "huge") /\ g[3] = q.pages
      BY <2>3, <1>1, <1>2, <1>3, <1>4, <1>5, <1>10, <1>11
    <3> QED BY <3>1, <3>2
  <2> QED BY <2>1, <2>2, <2>3, <1>1
<1> QED BY <1>6, <1>7, <1>12

\* The invariant accounts for the mapped pages.
LEMMA ImpliesMappedExact == IInv => MappedExact
<1> SUFFICES ASSUME IInv PROVE MappedExact
  OBVIOUS
<1>1. /\ \A o \in Owned : \E f \in Fam : f[3] = o.pages
      /\ \A f \in Fam : \E o \in Owned : f[3] = o.pages
      /\ \A o, q \in Owned : o # q => \E f, g \in Fam : f # g /\ f[3] = o.pages /\ g[3] = q.pages
  BY OwnedFam DEF IInv
<1>2. Exact(Fam, mapped)
  BY DEF IInv
<1>3. UNION {o.pages : o \in Owned} = UNION {f[3] : f \in Fam}
  <2>1. ASSUME NEW x \in UNION {o.pages : o \in Owned} PROVE x \in UNION {f[3] : f \in Fam}
    <3>1. PICK o \in Owned : x \in o.pages
      OBVIOUS
    <3> QED BY <3>1, <1>1
  <2>2. ASSUME NEW x \in UNION {f[3] : f \in Fam} PROVE x \in UNION {o.pages : o \in Owned}
    <3>1. PICK f \in Fam : x \in f[3]
      OBVIOUS
    <3> QED BY <3>1, <1>1
  <2> QED BY <2>1, <2>2
<1>4. mapped = Foreign \cup UNION {o.pages : o \in Owned}
  BY <1>2, <1>3 DEF Exact
<1>5. \A o \in Owned : o.pages \cap Foreign = {}
  BY <1>1, <1>2 DEF Exact
<1>6. ASSUME NEW o \in Owned, NEW q \in Owned, o # q PROVE o.pages \cap q.pages = {}
  <2>1. PICK f \in Fam, g \in Fam : f # g /\ f[3] = o.pages /\ g[3] = q.pages
    BY <1>1, <1>6
  <2> QED BY <2>1, <1>2 DEF Exact
<1> QED BY <1>4, <1>5, <1>6 DEF MappedExact

\* The lists account for exactly the pages that the kernel mapped for the arena, none
\* of them twice: arena_morecore and platform_map_probe leak no mapping on any path,
\* and no two mappings overlap.
THEOREM MappedCorrect == Spec => []MappedExact
BY Invariance, ImpliesMappedExact, PTL

\* Items with distinct metadata have as many.
LEMMA MetaCount ==
  ASSUME NEW S, IsFiniteSet(S), \A x, y \in S : x.meta = y.meta => x = y
  PROVE  IsFiniteSet({x.meta : x \in S}) /\ Cardinality({x.meta : x \in S}) = Cardinality(S)
<1> DEFINE T == {x.meta : x \in S}
           f == [x \in S |-> x.meta]
<1>1. f \in Surjection(S, T)
  BY DEF Surjection
<1>2. f \in Injection(S, T)
  BY DEF Injection, IsInjective
<1>3. ExistsBijection(S, T)
  BY <1>1, <1>2 DEF ExistsBijection, Bijection
<1> HIDE DEF T
<1>4. IsFiniteSet(T) /\ Cardinality(T) = Cardinality(S)
  BY <1>3, FS_Bijection
<1> QED BY <1>4 DEF T

\* The cardinality of a disjoint union.
LEMMA DisjointCount ==
  ASSUME NEW S, IsFiniteSet(S), NEW T, IsFiniteSet(T), S \cap T = {}
  PROVE  IsFiniteSet(S \cup T) /\ Cardinality(S \cup T) = Cardinality(S) + Cardinality(T)
<1>1. Cardinality(S \cap T) = 0
  BY FS_EmptySet
<1>2. Cardinality(S) \in Nat /\ Cardinality(T) \in Nat
  BY FS_CardinalityType
<1>3. /\ IsFiniteSet(S \cup T)
      /\ Cardinality(S \cup T) = Cardinality(S) + Cardinality(T) - Cardinality(S \cap T)
  BY FS_Union
<1> QED BY <1>1, <1>2, <1>3

\* The invariant accounts for the metadata slots.
LEMMA ImpliesMetadataExact == IInv => MetadataExact
<1> SUFFICES ASSUME IInv PROVE MetadataExact
  OBVIOUS
<1> DEFINE A == {c.meta : c \in chunks}
           B == {h.meta : h \in huges}
           C == {call.meta} \ {NoCall.meta}
<1>1. /\ Metas = Used(roots) /\ Metas = ((runs \cup A) \cup B) \cup C
      /\ runs \cap A = {} /\ (runs \cup A) \cap B = {} /\ ((runs \cup A) \cup B) \cap C = {}
  BY DEF IInv, MetaInv, Metas
<1>2. /\ IsFiniteSet(runs) /\ IsFiniteSet(chunks) /\ IsFiniteSet(huges)
  BY DEF IInv, TypeInv
<1>3. IsFiniteSet(A) /\ Cardinality(A) = Cardinality(chunks)
  BY <1>2, MetaCount DEF IInv, MetaInv
<1>4. IsFiniteSet(B) /\ Cardinality(B) = Cardinality(huges)
  BY <1>2, MetaCount DEF IInv, MetaInv
<1>5. IsFiniteSet(C) /\ Cardinality(C) = IF call.meta = NoCall.meta THEN 0 ELSE 1
  <2>1. CASE call.meta = NoCall.meta
    <3>1. C = {}
      BY <2>1
    <3> QED BY <3>1, <2>1, FS_EmptySet
  <2>2. CASE call.meta # NoCall.meta
    <3>1. C = {call.meta}
      BY <2>2
    <3> QED BY <3>1, <2>2, FS_Singleton
  <2> QED BY <2>1, <2>2
<1> HIDE DEF A, B, C
<1>6. /\ IsFiniteSet(runs \cup A)
      /\ Cardinality(runs \cup A) = Cardinality(runs) + Cardinality(A)
  BY <1>1, <1>2, <1>3, DisjointCount
<1>7. /\ IsFiniteSet((runs \cup A) \cup B)
      /\ Cardinality((runs \cup A) \cup B) = Cardinality(runs \cup A) + Cardinality(B)
  BY <1>1, <1>4, <1>6, DisjointCount
<1>8. Cardinality(Metas) = Cardinality((runs \cup A) \cup B) + Cardinality(C)
  BY <1>1, <1>5, <1>7, DisjointCount
<1>9. /\ Cardinality(runs) \in Nat /\ Cardinality(chunks) \in Nat /\ Cardinality(huges) \in Nat
  BY <1>2, FS_CardinalityType
<1>10. Cardinality(Metas) = NoItems + (IF call.meta = NoCall.meta THEN 0 ELSE 1)
  BY <1>3, <1>4, <1>5, <1>6, <1>7, <1>8, <1>9 DEF NoItems
<1> QED BY <1>1, <1>10 DEF MetadataExact, Used

\* arena_internal_alloc and arena_internal_free: every slot in use is the metadata of
\* exactly one run, chunk, huge mapping or call, so that none leaks and none is shared.
THEOREM MetadataCorrect == Spec => []MetadataExact
BY Invariance, ImpliesMetadataExact, PTL
=============================================================================
