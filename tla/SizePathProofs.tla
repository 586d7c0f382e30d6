--------------------------- MODULE SizePathProofs ---------------------------
(***************************************************************************)
(* The way of a size for every size that does not wrap around and for all  *)
(* size classes with the shape that size_class.h gives them.               *)
(***************************************************************************)
EXTENDS SizePath, TLAPS, FiniteSetTheorems, FunctionTheorems

\* The facts about naturals and powers of two that the proofs share.
Lib == INSTANCE BuddyTreeProofs WITH Depth <- 1

-----------------------------------------------------------------------------
(***************************************************************************)
(* Powers of two                                                           *)
(***************************************************************************)

\* The two definitions of the powers of two are one.
LEMMA PowSame == Pow2 = Lib!Pow2
BY DEF Pow2, Lib!Pow2

\* Pow2 satisfies its equations.
LEMMA PowDef ==
  /\ Pow2[0] = 1
  /\ \A i \in Nat : Pow2[i] \in Nat \ {0} /\ Pow2[i + 1] = 2 * Pow2[i]
<1>1. 1 \in Nat \ {0}
  OBVIOUS
<1>2. /\ Lib!Pow2 \in [Nat -> Nat] /\ Lib!Pow2[0] = 1
      /\ \A i \in Nat : Lib!Pow2[i + 1] = 2 * Lib!Pow2[i]
  BY <1>1, Lib!Pow2Def, Zenon
<1>3. \A i \in Nat : Lib!Pow2[i] \in Nat \ {0}
  BY <1>1, Lib!Pow2Positive, Zenon
<1> QED BY <1>2, <1>3, PowSame, Zenon

\* Powers multiply.
LEMMA PowSum ==
  ASSUME NEW i \in Nat, NEW j \in Nat
  PROVE  Pow2[i + j] = Pow2[i] * Pow2[j]
<1>1. 1 \in Nat \ {0}
  OBVIOUS
<1> QED BY <1>1, Lib!Pow2Sum, PowSame, Zenon

\* Powers grow.
LEMMA PowMono ==
  ASSUME NEW i \in Nat, NEW j \in Nat
  PROVE  /\ i < j => 2 * Pow2[i] <= Pow2[j]
         /\ i <= j => Pow2[i] <= Pow2[j]
         /\ Pow2[i] < Pow2[j] => i < j
         /\ Pow2[i] = Pow2[j] => i = j
<1>1. 1 \in Nat \ {0}
  OBVIOUS
<1>2. ASSUME NEW a \in Nat, NEW b \in Nat, a < b PROVE 2 * Pow2[a] <= Pow2[b]
  BY <1>1, <1>2, Lib!Pow2Monotone, PowSame, Zenon
<1>3. Pow2[i] \in Nat \ {0} /\ Pow2[j] \in Nat \ {0}
  BY PowDef
<1>4. i < j => 2 * Pow2[i] <= Pow2[j]
  BY <1>2
<1>5. j < i => 2 * Pow2[j] <= Pow2[i]
  BY <1>2
<1>6. i = j => Pow2[i] = Pow2[j]
  OBVIOUS
<1> QED BY <1>3, <1>4, <1>5, <1>6

-----------------------------------------------------------------------------
(***************************************************************************)
(* Division                                                                *)
(***************************************************************************)

\* Quotient and remainder are unique.
LEMMA DivMod ==
  ASSUME NEW b \in Nat \ {0}, NEW q \in Int, NEW r \in 0 .. b - 1, NEW a \in Int, a = b * q + r
  PROVE  a \div b = q /\ a % b = r
<1>1. 1 \in Nat \ {0}
  OBVIOUS
<1> QED BY <1>1, Lib!DivModUnique, Zenon

\* A multiple is divided by what it is a multiple of.
LEMMA MulDiv ==
  ASSUME NEW n \in Nat \ {0}, NEW i \in Nat
  PROVE  (n * i) \div n = i /\ (n * i) % n = 0
<1>1. n * i \in Int /\ n * i = n * i + 0 /\ 0 \in 0 .. n - 1
  OBVIOUS
<1> QED BY <1>1, DivMod

\* A number below the divisor is its own remainder.
LEMMA ModSmall ==
  ASSUME NEW n \in Nat \ {0}, NEW a \in 0 .. n - 1
  PROVE  a \div n = 0 /\ a % n = a
<1>1. a \in Int /\ a = n * 0 + a
  OBVIOUS
<1> QED BY <1>1, DivMod

\* WORD is positive; what is below it is a word.
LEMMA WordFacts ==
  /\ WordBits \in Nat \ {0} /\ WORD \in Nat \ {0} /\ WORD = Pow2[WordBits]
  /\ \A n \in Nat : n < WORD => Word(n) = n
<1>1. WordBits \in Nat \ {0}
  BY SizeClassAssumption
<1>2. WORD \in Nat \ {0} /\ WORD = Pow2[WordBits]
  BY <1>1, PowDef DEF WORD
<1>3. ASSUME NEW n \in Nat, n < WORD PROVE Word(n) = n
  <2>1. n \in 0 .. WORD - 1
    BY <1>2, <1>3
  <2> QED BY <2>1, <1>2, ModSmall DEF Word
<1> QED BY <1>1, <1>2, <1>3

\* The same of the words of a size_t, of which there are at least as many.
LEMMA SizeWordFacts ==
  /\ SIZE_WORD \in Nat \ {0} /\ WORD <= SIZE_WORD
  /\ \A n \in Nat : n < SIZE_WORD => SizeWord(n) = n
<1>1. WordBits \in Nat /\ SizeBits \in Nat /\ WordBits <= SizeBits
  BY SizeClassAssumption
<1>2. SIZE_WORD \in Nat \ {0} /\ WORD <= SIZE_WORD
  BY <1>1, PowDef, PowMono DEF WORD, SIZE_WORD
<1>3. ASSUME NEW n \in Nat, n < SIZE_WORD PROVE SizeWord(n) = n
  <2>1. n \in 0 .. SIZE_WORD - 1
    BY <1>2, <1>3
  <2> QED BY <2>1, <1>2, ModSmall DEF SizeWord
<1> QED BY <1>2, <1>3

-----------------------------------------------------------------------------
(***************************************************************************)
(* npow2                                                                   *)
(***************************************************************************)

\* A word that is not 0 has a highest bit.
LEMMA TopBit ==
  ASSUME NEW m \in Nat \ {0}, NEW w \in Nat, m < Pow2[w]
  PROVE  \E t \in 0 .. w - 1 : Pow2[t] <= m /\ m < 2 * Pow2[t]
<1> DEFINE S == {i \in Nat : m < Pow2[i]}
<1>1. S \subseteq Nat /\ w \in S
  OBVIOUS
<1>2. PICK k \in S : \A j \in S : k <= j
  <2>1. S # {} /\ 1 \in Nat \ {0}
    BY <1>1
  <2> HIDE DEF S
  <2> QED BY <1>1, <2>1, Lib!LeastNatural, Zenon
<1>3. k \in Nat /\ m < Pow2[k] /\ k <= w
  BY <1>1, <1>2
<1>4. k # 0
  BY <1>3, PowDef
<1>5. k - 1 \in Nat /\ k - 1 \notin S
  BY <1>2, <1>3, <1>4
<1>6. Pow2[k - 1] \in Nat /\ Pow2[(k - 1) + 1] = 2 * Pow2[k - 1]
  BY <1>5, PowDef
<1>7. Pow2[k - 1] <= m /\ m < 2 * Pow2[k - 1]
  BY <1>3, <1>5, <1>6
<1> QED BY <1>3, <1>5, <1>7

\* The bits of a word with highest bit t.
LEMMA BitsTop ==
  ASSUME NEW t \in 0 .. WordBits - 1, NEW m \in Nat, Pow2[t] <= m, m < 2 * Pow2[t]
  PROVE  t \in Bits(m) /\ Bits(m) \subseteq 0 .. t
<1>1. t \in Nat /\ Pow2[t] \in Nat \ {0} /\ Pow2[t + 1] = 2 * Pow2[t]
  BY PowDef
<1>2. m \div Pow2[t] = 1
  <2>1. ASSUME NEW p \in Nat \ {0}, p <= m, m < 2 * p PROVE m \div p = 1
    <3> DEFINE r == m - p
    <3>1. r \in 0 .. p - 1 /\ m = p * 1 + r /\ m \in Int /\ 1 \in Int
      BY <2>1
    <3> HIDE DEF r
    <3> QED BY <3>1, DivMod, Zenon
  <2> QED BY <2>1, <1>1
<1>3. t \in Bits(m)
  BY <1>2 DEF Bits
<1>4. ASSUME NEW i \in Bits(m) PROVE i \in 0 .. t
  <2>1. i \in 0 .. WordBits - 1 /\ (m \div Pow2[i]) % 2 = 1
    BY DEF Bits
  <2>2. SUFFICES ASSUME i > t PROVE FALSE
    BY <2>1
  <2>3. Pow2[i] \in Nat \ {0} /\ 2 * Pow2[t] <= Pow2[i]
    BY <2>1, <2>2, <1>1, PowDef, PowMono
  <2>4. m \in 0 .. Pow2[i] - 1
    BY <2>3, <1>1
  <2>5. m \div Pow2[i] = 0
    BY <2>3, <2>4, ModSmall
  <2> QED BY <2>1, <2>5
<1> QED BY <1>3, <1>4

\* Shifting by k doubles the number of bits below the highest that are set.
LEMMA SmearStep ==
  ASSUME NEW t \in Nat, NEW B \in SUBSET (0 .. t), NEW k \in Nat \ {0},
         \A i \in 0 .. t : i > t - k => i \in B
  PROVE  /\ Smear(B, k) \in SUBSET (0 .. t)
         /\ \A i \in 0 .. t : i > t - 2 * k => i \in Smear(B, k)
<1>1. Smear(B, k) \in SUBSET (0 .. t)
  <2>1. ASSUME NEW i \in Smear(B, k) PROVE i \in 0 .. t
    <3>1. CASE i \in B
      BY <3>1
    <3>2. CASE i \notin B
      <4>1. PICK j \in B : j >= k /\ i = j - k
        BY <3>2 DEF Smear
      <4>2. j \in 0 .. t
        OBVIOUS
      <4> QED BY <4>1, <4>2
    <3> QED BY <3>1, <3>2
  <2> QED BY <2>1
<1>2. ASSUME NEW i \in 0 .. t, i > t - 2 * k, i \notin B PROVE i \in Smear(B, k)
  <2>1. i <= t - k /\ i + k \in 0 .. t /\ i + k > t - k
    BY <1>2
  <2>2. i + k \in B /\ i + k >= k /\ i = (i + k) - k
    BY <2>1
  <2> QED BY <2>2 DEF Smear
<1> QED BY <1>1, <1>2 DEF Smear

\* What the five shifts of npow2 make of the bits of a word.
LEMMA SmearFull ==
  ASSUME NEW t \in 0 .. 31, NEW B \in SUBSET (0 .. t), t \in B
  PROVE  Smear(Smear(Smear(Smear(Smear(B, 1), 2), 4), 8), 16) = 0 .. t
<1> DEFINE C1 == Smear(B, 1)
           C2 == Smear(C1, 2)
           C4 == Smear(C2, 4)
           C8 == Smear(C4, 8)
           C16 == Smear(C8, 16)
<1>0. t \in Nat
  OBVIOUS
<1>1. C1 \in SUBSET (0 .. t) /\ \A i \in 0 .. t : i > t - 2 => i \in C1
  <2>1. \A i \in 0 .. t : i > t - 1 => i \in B
    OBVIOUS
  <2>2. C1 \in SUBSET (0 .. t) /\ \A i \in 0 .. t : i > t - 2 * 1 => i \in C1
    BY <2>1, <1>0, 1 \in Nat \ {0}, SmearStep, Zenon
  <2> QED BY <2>2
<1> HIDE DEF C1
<1>2. C2 \in SUBSET (0 .. t) /\ \A i \in 0 .. t : i > t - 4 => i \in C2
  <2>2. C2 \in SUBSET (0 .. t) /\ \A i \in 0 .. t : i > t - 2 * 2 => i \in C2
    BY <1>1, <1>0, 2 \in Nat \ {0}, SmearStep, Zenon
  <2> QED BY <2>2
<1> HIDE DEF C2
<1>4. C4 \in SUBSET (0 .. t) /\ \A i \in 0 .. t : i > t - 8 => i \in C4
  <2>2. C4 \in SUBSET (0 .. t) /\ \A i \in 0 .. t : i > t - 2 * 4 => i \in C4
    BY <1>2, <1>0, SmearStep
  <2> QED BY <2>2
<1> HIDE DEF C4
<1>8. C8 \in SUBSET (0 .. t) /\ \A i \in 0 .. t : i > t - 16 => i \in C8
  <2>2. C8 \in SUBSET (0 .. t) /\ \A i \in 0 .. t : i > t - 2 * 8 => i \in C8
    BY <1>4, <1>0, SmearStep
  <2> QED BY <2>2
<1> HIDE DEF C8
<1>16. C16 \in SUBSET (0 .. t) /\ \A i \in 0 .. t : i > t - 32 => i \in C16
  <2>2. C16 \in SUBSET (0 .. t) /\ \A i \in 0 .. t : i > t - 2 * 16 => i \in C16
    BY <1>8, <1>0, SmearStep
  <2> QED BY <2>2
<1> HIDE DEF C16
<1>17. C16 = 0 .. t
  <2>1. \A i \in 0 .. t : i > t - 32
    OBVIOUS
  <2> QED BY <2>1, <1>16, Zenon
<1> QED BY <1>17 DEF C1, C2, C4, C8, C16

\* The bits 0 .. t - 1 are worth 2^t - 1.
LEMMA ValueFull ==
  ASSUME NEW t \in 0 .. WordBits
  PROVE  Value(0 .. t - 1) = Pow2[t] - 1
<1> DEFINE B == 0 .. t - 1
           Term(k) == IF k - 1 \in B THEN Pow2[k - 1] ELSE 0
           F(g) == [k \in Nat |-> IF k = 0 THEN 0 ELSE g[k - 1] + Term(k)]
           s == CHOOSE g : g = F(g)
           e == [k \in Nat |-> IF k <= t THEN Pow2[k] - 1 ELSE Pow2[t] - 1]
<1>0. t \in Nat /\ WordBits \in Nat /\ t <= WordBits
  BY WordFacts
<1>1. Value(B) = s[WordBits]
  BY Zenon DEF Value
<1>2. ASSUME NEW k \in Nat PROVE e[k + 1] = e[k] + Term(k + 1) /\ e[0] = 0
  <2>1. Pow2[0] = 1 /\ Pow2[k] \in Nat /\ Pow2[t] \in Nat /\ Pow2[k + 1] = 2 * Pow2[k]
    BY <1>0, PowDef
  <2>2. e[0] = 0
    BY <2>1, <1>0
  <2>3. CASE k < t
    <3>1. Term(k + 1) = Pow2[k]
      BY <2>3, <1>0
    <3>2. e[k] = Pow2[k] - 1 /\ e[k + 1] = Pow2[k + 1] - 1
      BY <2>3, <1>0
    <3> QED BY <3>1, <3>2, <2>1, <2>2
  <2>4. CASE k >= t
    <3>1. Term(k + 1) = 0
      BY <2>4, <1>0
    <3>2. e[k] = Pow2[t] - 1 /\ e[k + 1] = Pow2[t] - 1
      BY <2>4, <1>0
    <3> QED BY <3>1, <3>2, <2>1, <2>2
  <2> QED BY <2>3, <2>4, <1>0
<1>3. e = F(e)
  <2>1. ASSUME NEW k \in Nat PROVE e[k] = F(e)[k]
    <3>1. CASE k = 0
      BY <3>1, <1>2
    <3>2. CASE k # 0
      <4>1. k - 1 \in Nat /\ (k - 1) + 1 = k
        BY <3>2
      <4>2. e[k] = e[k - 1] + Term(k)
        <5>1. e[(k - 1) + 1] = e[k - 1] + Term((k - 1) + 1)
          <6> HIDE DEF e, Term
          <6> QED BY <4>1, <1>2, Zenon
        <5> HIDE DEF e, Term
        <5> QED BY <5>1, <4>1, Zenon
      <4> QED BY <4>2, <3>2
    <3> QED BY <3>1, <3>2
  <2> QED BY <2>1
<1>4. s = F(s)
  <2> HIDE DEF e, F
  <2> QED BY <1>3, Zenon
<1> HIDE DEF s, e
<1>5. s[0] = 0 /\ \A k \in Nat : s[k + 1] = s[k] + Term(k + 1)
  <2>1. \A k \in Nat : s[k] = F(s)[k]
    BY <1>4
  <2>2. s[0] = 0
    BY <2>1
  <2>3. ASSUME NEW k \in Nat PROVE s[k + 1] = s[k] + Term(k + 1)
    <3>1. k + 1 \in Nat /\ k + 1 # 0 /\ (k + 1) - 1 = k
      OBVIOUS
    <3>2. s[k + 1] = F(s)[k + 1]
      BY <3>1, <2>1
    <3>3. F(s)[k + 1] = s[(k + 1) - 1] + Term(k + 1)
      BY <3>1, Zenon
    <3> QED BY <3>1, <3>2, <3>3
  <2> QED BY <2>2, <2>3
<1> DEFINE S == {k \in Nat : s[k] = e[k]}
<1>6. S = Nat
  <2>1. S \subseteq Nat /\ 0 \in S
    BY <1>2, <1>5
  <2>2. ASSUME NEW k \in S PROVE k + 1 \in S
    <3>1. k \in Nat /\ s[k] = e[k] /\ k + 1 \in Nat
      OBVIOUS
    <3>2. s[k + 1] = e[k + 1]
      BY <3>1, <1>2, <1>5, Zenon
    <3> QED BY <3>1, <3>2
  <2>3. 1 \in Nat \ {0}
    OBVIOUS
  <2> HIDE DEF S
  <2> QED BY <2>1, <2>2, <2>3, Lib!NatSetInduction, Zenon
<1>7. s[WordBits] = e[WordBits]
  BY <1>0, <1>6
<1>8. e[WordBits] = Pow2[t] - 1
  BY <1>0 DEF e
<1> QED BY <1>1, <1>7, <1>8

\* npow2 computes the least power of two that is not less than n.
LEMMA Npow2Least ==
  ASSUME NEW n \in Nat \ {0}, n <= Pow2[WordBits - 1]
  PROVE  \E i \in 0 .. WordBits - 1 :
           /\ npow2(n) = Pow2[i] /\ n <= Pow2[i]
           /\ \A j \in 0 .. i - 1 : Pow2[j] < n
<1> DEFINE m == n - 1
           Full(B) == Smear(Smear(Smear(Smear(Smear(B, 1), 2), 4), 8), 16)
<1>1. /\ WordBits \in Nat \ {0} /\ WordBits - 1 \in Nat /\ WordBits <= 32 /\ WORD \in Nat
      /\ Pow2[WordBits - 1] \in Nat \ {0} /\ WORD = 2 * Pow2[WordBits - 1]
  <2>1. WordBits \in Nat \ {0} /\ WordBits - 1 \in Nat /\ WordBits <= 32 /\ (WordBits - 1) + 1 = WordBits
    BY SizeClassAssumption
  <2>2. Pow2[(WordBits - 1) + 1] = 2 * Pow2[WordBits - 1] /\ Pow2[WordBits - 1] \in Nat \ {0}
    BY <2>1, PowDef
  <2> QED BY <2>1, <2>2, WordFacts
<1>2. m \in Nat /\ m < WORD /\ n = m + 1 /\ m < Pow2[WordBits - 1]
  BY <1>1
<1>3. Word(n - 1) = m
  BY <1>2, WordFacts
<1> HIDE DEF m
<1>4. npow2(n) = Word(Value(Full(Bits(m))) + 1)
  BY <1>3 DEF npow2
<1> HIDE DEF Full
<1>5. CASE m = 0
  <2>1. Bits(m) = {}
    <3>1. ASSUME NEW i \in 0 .. WordBits - 1 PROVE (m \div Pow2[i]) % 2 = 0
      <4>1. Pow2[i] \in Nat \ {0} /\ 0 \in 0 .. Pow2[i] - 1
        BY PowDef
      <4>2. m \div Pow2[i] = 0
        BY <4>1, <1>5, ModSmall
      <4> QED BY <4>2
    <3> QED BY <3>1 DEF Bits
  <2>2. Full({}) = {}
    BY DEF Full, Smear
  <2>3. Value({}) = 0
    <3>1. 0 \in 0 .. WordBits /\ 0 .. 0 - 1 = {} /\ Pow2[0] = 1
      BY <1>1, PowDef
    <3>2. Value(0 .. 0 - 1) = Pow2[0] - 1
      BY <3>1, ValueFull, Zenon
    <3> QED BY <3>1, <3>2
  <2>4. npow2(n) = Word(1)
    BY <2>1, <2>2, <2>3, <1>4
  <2>5. Word(1) = 1
    BY <1>1, WordFacts
  <2>6. 0 \in 0 .. WordBits - 1 /\ npow2(n) = Pow2[0] /\ n <= Pow2[0] /\ 0 .. 0 - 1 = {}
    BY <2>4, <2>5, <1>1, <1>2, <1>5, PowDef
  <2> QED BY <2>6
<1>6. CASE m # 0
  <2>1. PICK t \in 0 .. (WordBits - 1) - 1 : Pow2[t] <= m /\ m < 2 * Pow2[t]
    BY <1>1, <1>2, <1>6, TopBit
  <2>2. t \in Nat /\ t \in 0 .. WordBits - 1 /\ t \in 0 .. 31 /\ t + 1 \in 0 .. WordBits - 1 /\ t + 1 \in 0 .. WordBits
    BY <1>1
  <2>3. Bits(m) \in SUBSET (0 .. t) /\ t \in Bits(m)
    BY <2>1, <2>2, <1>2, BitsTop
  <2>4. Full(Bits(m)) = 0 .. t
    BY <2>2, <2>3, SmearFull DEF Full
  <2>5. Value(0 .. t) = Pow2[t + 1] - 1
    <3>1. Value(0 .. (t + 1) - 1) = Pow2[t + 1] - 1
      BY <2>2, ValueFull, Zenon
    <3>2. (t + 1) - 1 = t
      BY <2>2
    <3> QED BY <3>1, <3>2
  <2>6. Pow2[t] \in Nat \ {0} /\ Pow2[t + 1] \in Nat \ {0} /\ Pow2[t + 1] = 2 * Pow2[t]
    BY <2>2, PowDef
  <2>7. 2 * Pow2[t + 1] <= WORD
    <3>1. t + 1 \in Nat /\ WordBits \in Nat /\ t + 1 < WordBits
      BY <2>2, <1>1
    <3>2. 2 * Pow2[t + 1] <= Pow2[WordBits]
      BY <3>1, PowMono
    <3> QED BY <3>2, WordFacts
  <2>8. npow2(n) = Pow2[t + 1]
    <3>1. npow2(n) = Word((Pow2[t + 1] - 1) + 1)
      BY <2>4, <2>5, <1>4
    <3>2. (Pow2[t + 1] - 1) + 1 = Pow2[t + 1] /\ Pow2[t + 1] < WORD
      BY <2>6, <2>7, <1>1
    <3>3. Word(Pow2[t + 1]) = Pow2[t + 1]
      BY <3>2, <2>6, WordFacts
    <3> QED BY <3>1, <3>2, <3>3
  <2>9. n <= Pow2[t + 1]
    BY <2>1, <2>6, <1>2
  <2>10. ASSUME NEW j \in 0 .. (t + 1) - 1 PROVE Pow2[j] < n
    <3>1. j \in Nat /\ j <= t /\ Pow2[j] \in Nat
      BY <2>2, PowDef
    <3>2. Pow2[j] <= Pow2[t]
      BY <3>1, <2>2, PowMono
    <3> QED BY <3>1, <3>2, <2>1, <2>6, <1>2
  <2> QED BY <2>2, <2>8, <2>9, <2>10
<1> QED BY <1>5, <1>6

-----------------------------------------------------------------------------
(***************************************************************************)
(* Rounding                                                                *)
(***************************************************************************)

\* ceil_div rounds up.
LEMMA CeilDiv ==
  ASSUME NEW a \in Nat \ {0}, NEW b \in Nat \ {0}
  PROVE  /\ ceil_div(a, b) \in Nat \ {0}
         /\ a <= b * ceil_div(a, b) /\ b * (ceil_div(a, b) - 1) < a
<1> DEFINE q == a \div b
           r == a % b
<1>1. q \in Int /\ r \in 0 .. b - 1 /\ a = b * q + r
  OBVIOUS
<1>2. ceil_div(a, b) = q + (IF r = 0 THEN 0 ELSE 1)
  BY DEF ceil_div
<1> HIDE DEF q, r
<1>3. q >= 0
  <2>1. SUFFICES ASSUME q <= -1 PROVE FALSE
    BY <1>1
  <2>2. b * q <= -b
    BY <2>1, <1>1
  <2> QED BY <2>2, <1>1
<1>4. CASE r = 0
  <2>1. ceil_div(a, b) = q /\ a = b * q
    BY <1>1, <1>2, <1>4
  <2>2. q # 0
    BY <2>1
  <2>3. b * (q - 1) = b * q - b
    BY <1>1
  <2> QED BY <2>1, <2>2, <2>3, <1>1, <1>3
<1>5. CASE r # 0
  <2>1. ceil_div(a, b) = q + 1
    BY <1>1, <1>2, <1>5
  <2>2. b * (q + 1) = b * q + b /\ (q + 1) - 1 = q
    BY <1>1
  <2> QED BY <2>1, <2>2, <1>1, <1>3, <1>5
<1> QED BY <1>4, <1>5

\* Rounding to a power of two of a base, as alignup_medium_size and
\* alignup_large_size do, for the c classes that start at the base.
LEMMA RoundPow ==
  ASSUME NEW base \in Nat \ {0}, NEW c \in Nat \ {0}, NEW n \in Nat \ {0},
         n <= base * Pow2[c - 1], 2 * (base * Pow2[c - 1]) <= WORD
  PROVE  \E i \in 0 .. c - 1 :
           /\ Word(npow2(ceil_div(n, base)) * base) = base * Pow2[i]
           /\ n <= base * Pow2[i]
           /\ \A j \in 0 .. i - 1 : base * Pow2[j] < n
<1> DEFINE d == ceil_div(n, base)
           top == Pow2[c - 1]
<1>1. d \in Nat \ {0} /\ n <= base * d /\ base * (d - 1) < n
  BY CeilDiv
<1>2. top \in Nat \ {0} /\ c - 1 \in Nat
  BY PowDef
<1>3. WordBits - 1 \in Nat /\ Pow2[WordBits - 1] \in Nat /\ WORD = 2 * Pow2[WordBits - 1]
  <2>1. WordBits - 1 \in Nat /\ (WordBits - 1) + 1 = WordBits
    BY WordFacts
  <2> QED BY <2>1, PowDef, WordFacts
<1>4. n <= base * top /\ 2 * (base * top) <= WORD
  OBVIOUS
<1> HIDE DEF d, top
<1>5. d <= top
  <2>1. SUFFICES ASSUME d - 1 >= top PROVE FALSE
    BY <1>1, <1>2
  <2>2. base * (d - 1) >= base * top
    <3>1. ASSUME NEW x \in Nat, NEW y \in Nat, x >= y PROVE base * x >= base * y
      BY <3>1
    <3> QED BY <3>1, <2>1, <1>1, <1>2
  <2> QED BY <2>2, <1>1, <1>2, <1>4
<1>6. top <= Pow2[WordBits - 1]
  <2>1. ASSUME NEW x \in Nat PROVE x <= base * x
    OBVIOUS
  <2>2. top <= base * top
    BY <2>1, <1>2
  <2> QED BY <2>2, <1>2, <1>3, <1>4
<1>7. d <= Pow2[WordBits - 1]
  BY <1>1, <1>2, <1>3, <1>5, <1>6
<1>8. PICK i \in 0 .. WordBits - 1 :
        npow2(d) = Pow2[i] /\ d <= Pow2[i] /\ \A j \in 0 .. i - 1 : Pow2[j] < d
  BY <1>1, <1>7, Npow2Least
<1>9. i \in Nat /\ Pow2[i] \in Nat \ {0}
  BY <1>3, PowDef
<1>10. i <= c - 1
  <2>1. SUFFICES ASSUME c - 1 < i PROVE FALSE
    BY <1>2, <1>9
  <2>2. c - 1 \in 0 .. i - 1
    BY <2>1, <1>2, <1>9
  <2>3. top < d
    BY <2>2, <1>8 DEF top
  <2> QED BY <2>3, <1>1, <1>2, <1>5
<1>11. Pow2[i] <= top
  BY <1>2, <1>9, <1>10, PowMono DEF top
<1>12. ASSUME NEW x \in Nat, NEW y \in Nat, x <= y PROVE base * x <= base * y /\ base * x \in Nat
  BY <1>12
<1>13. base * Pow2[i] \in Nat /\ base * d <= base * Pow2[i] /\ base * Pow2[i] <= base * top
  BY <1>1, <1>2, <1>8, <1>9, <1>11, <1>12
<1>14. n <= base * Pow2[i]
  BY <1>1, <1>12, <1>13
<1>15. base * Pow2[i] < WORD
  BY <1>2, <1>4, <1>13, <1>14, WordFacts
<1>16. Word(npow2(d) * base) = base * Pow2[i]
  <2>1. npow2(d) * base = base * Pow2[i]
    BY <1>8, <1>9
  <2> QED BY <2>1, <1>13, <1>15, WordFacts
<1>17. ASSUME NEW j \in 0 .. i - 1 PROVE base * Pow2[j] < n
  <2>1. Pow2[j] \in Nat /\ Pow2[j] <= d - 1 /\ d - 1 \in Nat
    BY <1>1, <1>8, <1>9, PowDef
  <2>2. base * Pow2[j] <= base * (d - 1) /\ base * Pow2[j] \in Nat
    BY <2>1, <1>12
  <2> QED BY <2>2, <1>1
<1> QED BY <1>2, <1>9, <1>10, <1>14, <1>16, <1>17 DEF d

\* Alignment rounds up to the least multiple.
LEMMA AlignUpLeast ==
  ASSUME NEW n \in Nat, NEW a \in Nat \ {0}, n + a - 1 < SIZE_WORD
  PROVE  \E q \in Nat : AlignUp(n, a) = q * a /\ n <= q * a /\ q * a < n + a
<1> DEFINE m == n + a - 1
           q == m \div a
           r == m % a
<1>1. m \in Nat /\ m < SIZE_WORD
  OBVIOUS
<1>2. q \in Int /\ r \in 0 .. a - 1 /\ m = a * q + r
  OBVIOUS
<1>3. AlignUp(n, a) = m - r
  BY <1>1, SizeWordFacts DEF AlignUp
<1>4. m = n + a - 1
  OBVIOUS
<1> HIDE DEF m, q, r
<1>5. q >= 0
  <2>1. SUFFICES ASSUME q <= -1 PROVE FALSE
    BY <1>2
  <2>2. a * q <= -a
    BY <2>1, <1>2
  <2> QED BY <2>2, <1>1, <1>2
<1>6. q * a = m - r /\ q \in Nat
  BY <1>1, <1>2, <1>5
<1> QED BY <1>1, <1>2, <1>3, <1>4, <1>6

-----------------------------------------------------------------------------
(***************************************************************************)
(* The size classes                                                        *)
(***************************************************************************)

\* The constants are naturals and the kinds of sizes follow one another.
LEMMA Shape ==
  /\ {PAGE_SIZE, SMALL_SIZE_CLASS_ALIGNMENT, SMALL_SIZE_MAX_REGION, MEDIUM_SIZE_MIN_REGION,
      MEDIUM_SIZE_MAX_REGION, LARGE_SIZE_MIN_REGION, LARGE_SIZE_MAX_REGION,
      NO_SMALL_SIZE_CLASSES, NO_MEDIUM_SIZE_CLASSES, NO_LARGE_SIZE_CLASSES} \subseteq Nat \ {0}
  /\ SMALL_SIZE_CLASS_ALIGNMENT <= SMALL_SIZE_MAX_REGION
  /\ SMALL_SIZE_MAX_REGION < MEDIUM_SIZE_MIN_REGION
  /\ MEDIUM_SIZE_MIN_REGION <= MEDIUM_SIZE_MAX_REGION
  /\ MEDIUM_SIZE_MAX_REGION < LARGE_SIZE_MIN_REGION
  /\ LARGE_SIZE_MIN_REGION <= LARGE_SIZE_MAX_REGION
  /\ 2 * LARGE_SIZE_MAX_REGION <= WORD
<1>1. ASSUME NEW x \in Nat \ {0}, NEW y \in Nat \ {0}
      PROVE  x * y \in Nat \ {0} /\ x <= x * y /\ y <= x * y
  OBVIOUS
<1>2. ASSUME NEW i \in Nat \ {0} PROVE Pow2[i - 1] \in Nat \ {0}
  BY PowDef
<1>3. /\ SMALL_SIZE_MAX_REGION \in Nat \ {0}
      /\ SMALL_SIZE_CLASS_ALIGNMENT <= SMALL_SIZE_MAX_REGION
  BY <1>1, SizeClassAssumption
<1>4. /\ MEDIUM_SIZE_MAX_REGION \in Nat \ {0}
      /\ MEDIUM_SIZE_MIN_REGION <= MEDIUM_SIZE_MAX_REGION
  BY <1>1, <1>2, SizeClassAssumption
<1>5. /\ LARGE_SIZE_MAX_REGION \in Nat \ {0}
      /\ LARGE_SIZE_MIN_REGION <= LARGE_SIZE_MAX_REGION
  BY <1>1, <1>2, SizeClassAssumption
<1> QED BY <1>3, <1>4, <1>5, SizeClassAssumption DEF WORD

\* Where the classes of each kind lie.
LEMMA ClassBounds ==
  /\ \A i \in 1 .. NO_SMALL_SIZE_CLASSES :
       i * SMALL_SIZE_CLASS_ALIGNMENT \in SMALL_SIZE_CLASS_ALIGNMENT .. SMALL_SIZE_MAX_REGION
  /\ \A i \in 0 .. NO_MEDIUM_SIZE_CLASSES - 1 :
       MEDIUM_SIZE_MIN_REGION * Pow2[i] \in MEDIUM_SIZE_MIN_REGION .. MEDIUM_SIZE_MAX_REGION
  /\ \A i \in 0 .. NO_LARGE_SIZE_CLASSES - 1 :
       LARGE_SIZE_MIN_REGION * Pow2[i] \in LARGE_SIZE_MIN_REGION .. LARGE_SIZE_MAX_REGION
<1>1. ASSUME NEW a \in Nat \ {0}, NEW n \in Nat, NEW i \in 1 .. n
      PROVE  i * a \in a .. n * a
  <2>1. i * a >= 1 * a /\ i * a <= n * a /\ i * a \in Int
    OBVIOUS
  <2> QED BY <2>1
<1>2. ASSUME NEW a \in Nat \ {0}, NEW n \in Nat \ {0}, NEW i \in 0 .. n - 1
      PROVE  a * Pow2[i] \in a .. a * Pow2[n - 1]
  <2>1. Pow2[i] \in Nat \ {0} /\ Pow2[n - 1] \in Nat \ {0} /\ Pow2[i] <= Pow2[n - 1]
    BY PowDef, PowMono
  <2>2. ASSUME NEW x \in Nat \ {0}, NEW y \in Nat, x <= y
        PROVE  a * x >= a /\ a * x <= a * y /\ a * x \in Int
    BY <2>2
  <2> QED BY <2>1, <2>2
<1>3. \A i \in 1 .. NO_SMALL_SIZE_CLASSES :
        i * SMALL_SIZE_CLASS_ALIGNMENT \in SMALL_SIZE_CLASS_ALIGNMENT .. SMALL_SIZE_MAX_REGION
  BY <1>1, SizeClassAssumption
<1>4. \A i \in 0 .. NO_MEDIUM_SIZE_CLASSES - 1 :
        MEDIUM_SIZE_MIN_REGION * Pow2[i] \in MEDIUM_SIZE_MIN_REGION .. MEDIUM_SIZE_MAX_REGION
  BY <1>2, SizeClassAssumption
<1>5. \A i \in 0 .. NO_LARGE_SIZE_CLASSES - 1 :
        LARGE_SIZE_MIN_REGION * Pow2[i] \in LARGE_SIZE_MIN_REGION .. LARGE_SIZE_MAX_REGION
  BY <1>2, SizeClassAssumption
<1> QED BY <1>3, <1>4, <1>5

\* The classes are naturals up to the largest region.
LEMMA ClassNat ==
  ASSUME NEW c \in Classes
  PROVE  c \in 1 .. LARGE_SIZE_MAX_REGION
<1>1. CASE \E i \in 1 .. NO_SMALL_SIZE_CLASSES : c = i * SMALL_SIZE_CLASS_ALIGNMENT
  BY <1>1, ClassBounds, Shape
<1>2. CASE \E i \in 0 .. NO_MEDIUM_SIZE_CLASSES - 1 : c = MEDIUM_SIZE_MIN_REGION * Pow2[i]
  BY <1>2, ClassBounds, Shape
<1>3. CASE \E i \in 0 .. NO_LARGE_SIZE_CLASSES - 1 : c = LARGE_SIZE_MIN_REGION * Pow2[i]
  BY <1>3, ClassBounds, Shape
<1> QED BY <1>1, <1>2, <1>3 DEF Classes

\* r is the least class that holds n.
IsLeast(r, n) == r \in Classes /\ n <= r /\ \A c \in Classes : n <= c => r <= c

\* A small size is rounded to the least class.
LEMMA SmallLeast ==
  ASSUME NEW n \in Nat, IS_SIZE_SMALL(n)
  PROVE  IsLeast(ALIGNUP_SMALL_SIZE(n), n)
<1> DEFINE a == SMALL_SIZE_CLASS_ALIGNMENT
           k == NO_SMALL_SIZE_CLASSES
<1>1. 1 <= n /\ n <= k * a /\ a \in Nat \ {0} /\ k \in Nat \ {0} /\ n + a - 1 < SIZE_WORD
  BY SizeClassAssumption, Shape, WordFacts, SizeWordFacts DEF IS_SIZE_SMALL
<1>2. PICK q \in Nat : ALIGNUP_SMALL_SIZE(n) = q * a /\ n <= q * a /\ q * a < n + a
  BY <1>1, AlignUpLeast DEF ALIGNUP_SMALL_SIZE
<1>3. \A i \in 1 .. k : i * a \in Classes
  BY DEF Classes
<1>4. ASSUME NEW c \in Classes, n <= c
      PROVE  c > k * a \/ \E i \in 1 .. k : c = i * a
  <2>1. SMALL_SIZE_MAX_REGION = k * a
    BY SizeClassAssumption
  <2>2. ASSUME NEW i \in 0 .. NO_MEDIUM_SIZE_CLASSES - 1, c = MEDIUM_SIZE_MIN_REGION * Pow2[i]
        PROVE  c > k * a
    BY <2>1, <2>2, ClassBounds, Shape
  <2>3. ASSUME NEW i \in 0 .. NO_LARGE_SIZE_CLASSES - 1, c = LARGE_SIZE_MIN_REGION * Pow2[i]
        PROVE  c > k * a
    BY <2>1, <2>3, ClassBounds, Shape
  <2> QED BY <2>2, <2>3 DEF Classes
<1> HIDE DEF a, k
<1>5. q \in 1 .. k
  <2>1. q # 0
    BY <1>1, <1>2
  <2>2. ~(q >= k + 1)
    <3>1. SUFFICES ASSUME q >= k + 1 PROVE FALSE
      OBVIOUS
    <3>2. q * a >= (k + 1) * a /\ (k + 1) * a = k * a + a
      BY <3>1, <1>1
    <3> QED BY <3>2, <1>1, <1>2
  <2> QED BY <2>1, <2>2, <1>1
<1>6. ASSUME NEW c \in Classes, n <= c PROVE q * a <= c
  <2>1. CASE c > k * a
    <3>1. q * a <= k * a
      BY <1>1, <1>5
    <3> QED BY <3>1, <2>1, <1>1, ClassNat
  <2>2. CASE \E i \in 1 .. k : c = i * a
    <3>1. PICK i \in 1 .. k : c = i * a
      BY <2>2
    <3>2. ~(i + 1 <= q)
      <4>1. SUFFICES ASSUME i + 1 <= q PROVE FALSE
        OBVIOUS
      <4>2. (i + 1) * a <= q * a /\ (i + 1) * a = i * a + a
        BY <4>1, <1>1
      <4> QED BY <4>2, <3>1, <1>1, <1>2, <1>6
    <3>3. q <= i
      BY <3>2, <1>5
    <3>4. q * a <= i * a
      BY <3>3, <1>1
    <3> QED BY <3>4, <3>1
  <2> QED BY <2>1, <2>2, <1>4, <1>6
<1> QED BY <1>2, <1>3, <1>5, <1>6 DEF IsLeast

\* A medium size is rounded to the least class.
LEMMA MediumLeast ==
  ASSUME NEW n \in Nat, IS_SIZE_MEDIUM(n)
  PROVE  IsLeast(alignup_medium_size(n), n)
<1> DEFINE b == MEDIUM_SIZE_MIN_REGION
           k == NO_MEDIUM_SIZE_CLASSES
<1>1. /\ n \in Nat \ {0} /\ n > SMALL_SIZE_MAX_REGION /\ n <= b * Pow2[k - 1]
      /\ b \in Nat \ {0} /\ k \in Nat \ {0}
  BY SizeClassAssumption, Shape DEF IS_SIZE_MEDIUM
<1>2. 2 * (b * Pow2[k - 1]) <= WORD
  <2>1. b * Pow2[k - 1] = MEDIUM_SIZE_MAX_REGION
    BY SizeClassAssumption
  <2> QED BY <2>1, Shape, WordFacts
<1>3. PICK i \in 0 .. k - 1 :
        /\ alignup_medium_size(n) = b * Pow2[i] /\ n <= b * Pow2[i]
        /\ \A j \in 0 .. i - 1 : b * Pow2[j] < n
  BY <1>1, <1>2, RoundPow DEF alignup_medium_size
<1>4. b * Pow2[i] \in Classes
  BY DEF Classes
<1>5. b * Pow2[i] <= MEDIUM_SIZE_MAX_REGION /\ b * Pow2[i] \in Nat
  BY ClassBounds, Shape
<1>6. ASSUME NEW c \in Classes, n <= c PROVE b * Pow2[i] <= c
  <2>1. ASSUME NEW j \in 1 .. NO_SMALL_SIZE_CLASSES, c = j * SMALL_SIZE_CLASS_ALIGNMENT
        PROVE  FALSE
    BY <2>1, <1>1, <1>6, ClassBounds, Shape
  <2>2. ASSUME NEW j \in 0 .. k - 1, c = b * Pow2[j]
        PROVE  b * Pow2[i] <= c
    <3>1. j \notin 0 .. i - 1
      BY <1>3, <1>6, <2>2, ClassNat
    <3>2. i <= j /\ i \in Nat /\ j \in Nat
      BY <3>1, <1>1
    <3>3. Pow2[i] <= Pow2[j] /\ Pow2[i] \in Nat /\ Pow2[j] \in Nat
      BY <3>2, PowMono, PowDef
    <3>4. ASSUME NEW x \in Nat, NEW y \in Nat, x <= y PROVE b * x <= b * y
      BY <3>4, <1>1
    <3> QED BY <3>3, <3>4, <2>2
  <2>3. ASSUME NEW j \in 0 .. NO_LARGE_SIZE_CLASSES - 1, c = LARGE_SIZE_MIN_REGION * Pow2[j]
        PROVE  b * Pow2[i] <= c
    BY <2>3, <1>5, ClassBounds, Shape
  <2> QED BY <2>1, <2>2, <2>3 DEF Classes
<1> QED BY <1>3, <1>4, <1>6 DEF IsLeast

\* A large size is rounded to the least class.
LEMMA LargeLeast ==
  ASSUME NEW n \in Nat, IS_SIZE_LARGE(n)
  PROVE  IsLeast(alignup_large_size(n), n)
<1> DEFINE b == LARGE_SIZE_MIN_REGION
           k == NO_LARGE_SIZE_CLASSES
<1>1. /\ n \in Nat \ {0} /\ n > MEDIUM_SIZE_MAX_REGION /\ n <= b * Pow2[k - 1]
      /\ b \in Nat \ {0} /\ k \in Nat \ {0}
  BY SizeClassAssumption, Shape DEF IS_SIZE_LARGE
<1>2. 2 * (b * Pow2[k - 1]) <= WORD
  <2>1. b * Pow2[k - 1] = LARGE_SIZE_MAX_REGION
    BY SizeClassAssumption
  <2> QED BY <2>1, Shape, WordFacts
<1>3. PICK i \in 0 .. k - 1 :
        /\ alignup_large_size(n) = b * Pow2[i] /\ n <= b * Pow2[i]
        /\ \A j \in 0 .. i - 1 : b * Pow2[j] < n
  BY <1>1, <1>2, RoundPow DEF alignup_large_size
<1>4. b * Pow2[i] \in Classes
  BY DEF Classes
<1>6. ASSUME NEW c \in Classes, n <= c PROVE b * Pow2[i] <= c
  <2>1. ASSUME NEW j \in 1 .. NO_SMALL_SIZE_CLASSES, c = j * SMALL_SIZE_CLASS_ALIGNMENT
        PROVE  FALSE
    BY <2>1, <1>1, <1>6, ClassBounds, Shape
  <2>2. ASSUME NEW j \in 0 .. NO_MEDIUM_SIZE_CLASSES - 1, c = MEDIUM_SIZE_MIN_REGION * Pow2[j]
        PROVE  FALSE
    BY <2>2, <1>1, <1>6, ClassBounds, Shape
  <2>3. ASSUME NEW j \in 0 .. k - 1, c = b * Pow2[j]
        PROVE  b * Pow2[i] <= c
    <3>1. j \notin 0 .. i - 1
      BY <1>3, <1>6, <2>3, ClassNat
    <3>2. i <= j /\ i \in Nat /\ j \in Nat
      BY <3>1, <1>1
    <3>3. Pow2[i] <= Pow2[j] /\ Pow2[i] \in Nat /\ Pow2[j] \in Nat
      BY <3>2, PowMono, PowDef
    <3>4. ASSUME NEW x \in Nat, NEW y \in Nat, x <= y PROVE b * x <= b * y
      BY <3>4, <1>1
    <3> QED BY <3>3, <3>4, <2>3
  <2> QED BY <2>1, <2>2, <2>3 DEF Classes
<1> QED BY <1>3, <1>4, <1>6 DEF IsLeast

\* What sealloc_malloc and sealloc_realloc round a size to that is not huge.
LEMMA AlignedLeast ==
  ASSUME NEW n \in 1 .. LARGE_SIZE_MAX_REGION
  PROVE  IsLeast(AlignedSize(n), n)
<1>1. n \in Nat
  BY Shape
<1>2. CASE IS_SIZE_SMALL(n)
  <2>1. ~IS_SIZE_MEDIUM(n)
    BY <1>1, <1>2, Shape DEF IS_SIZE_SMALL, IS_SIZE_MEDIUM
  <2> QED BY <2>1, <1>1, <1>2, SmallLeast DEF AlignedSize
<1>3. CASE IS_SIZE_MEDIUM(n)
  <2>1. ~IS_SIZE_SMALL(n)
    BY <1>1, <1>3, Shape DEF IS_SIZE_SMALL, IS_SIZE_MEDIUM
  <2> QED BY <2>1, <1>1, <1>3, MediumLeast DEF AlignedSize
<1>4. CASE ~IS_SIZE_SMALL(n) /\ ~IS_SIZE_MEDIUM(n)
  <2>1. IS_SIZE_LARGE(n)
    BY <1>1, <1>4, Shape DEF IS_SIZE_SMALL, IS_SIZE_MEDIUM, IS_SIZE_LARGE
  <2> QED BY <2>1, <1>1, <1>4, LargeLeast DEF AlignedSize
<1> QED BY <1>2, <1>3, <1>4

\* The least class is the minimum that LeastClass names.
LEMMA LeastMin ==
  ASSUME NEW n \in Nat, NEW r, IsLeast(r, n)
  PROVE  r = Min({c \in Classes : c >= n})
<1> DEFINE S == {c \in Classes : c >= n}
<1>1. S \subseteq Nat /\ \A c \in Classes : c \in Nat
  BY ClassNat, Shape
<1>2. r \in S /\ \A c \in S : r <= c
  BY <1>1 DEF IsLeast
<1> HIDE DEF S
<1>3. Min(S) \in S /\ \A c \in S : Min(S) <= c
  BY <1>2, Zenon DEF Min
<1>4. Min(S) <= r /\ r <= Min(S)
  BY <1>2, <1>3
<1>5. r = Min(S)
  <2>1. ASSUME NEW x \in Nat, NEW y \in Nat, x <= y, y <= x PROVE x = y
    BY <2>1
  <2>2. Min(S) \in Nat /\ r \in Nat
    BY <1>1, <1>2, <1>3, Zenon
  <2> QED BY <2>1, <2>2, <1>4, Zenon
<1> QED BY <1>5 DEF S

-----------------------------------------------------------------------------
(***************************************************************************)
(* Bins                                                                    *)
(***************************************************************************)

\* ctz of a power of two is its exponent.
LEMMA CtzPow ==
  ASSUME NEW i \in 0 .. WordBits - 1
  PROVE  ctz(Pow2[i]) = i
<1> DEFINE S == {k \in 0 .. WordBits - 1 : Pow2[i] \div Pow2[k] > 1}
<1>1. i \in Nat /\ WordBits \in Nat /\ i <= WordBits - 1
  BY WordFacts
<1>2. ASSUME NEW k \in 0 .. i - 1 PROVE k \in S
  <2>1. k \in Nat /\ k \in 0 .. WordBits - 1 /\ i - k \in Nat \ {0} /\ k + (i - k) = i
    BY <1>1
  <2>2. Pow2[i] = Pow2[k] * Pow2[i - k]
    BY <2>1, PowSum
  <2>3. Pow2[k] \in Nat \ {0} /\ Pow2[i - k] \in Nat
    BY <2>1, PowDef
  <2>4. Pow2[i] \div Pow2[k] = Pow2[i - k]
    BY <2>2, <2>3, MulDiv
  <2>5. 2 * Pow2[0] <= Pow2[i - k] /\ Pow2[0] = 1
    BY <2>1, PowMono, PowDef
  <2> QED BY <2>1, <2>3, <2>4, <2>5
<1>3. ASSUME NEW k \in S, k >= i PROVE FALSE
  <2>1. k \in Nat /\ Pow2[k] \in Nat \ {0} /\ Pow2[i] \in Nat \ {0} /\ Pow2[i] \div Pow2[k] > 1
    BY <1>1, PowDef
  <2>2. CASE k = i
    <3>1. ASSUME NEW p \in Nat \ {0} PROVE p \div p = 1
      <4>1. p * 1 = p /\ 1 \in Nat
        OBVIOUS
      <4>2. (p * 1) \div p = 1
        BY <4>1, MulDiv, Zenon
      <4> QED BY <4>1, <4>2
    <3> QED BY <3>1, <2>1, <2>2
  <2>3. CASE k > i
    <3>1. 2 * Pow2[i] <= Pow2[k]
      BY <2>1, <2>3, <1>1, PowMono
    <3>2. Pow2[i] \in 0 .. Pow2[k] - 1
      BY <3>1, <2>1
    <3>3. Pow2[i] \div Pow2[k] = 0
      BY <3>2, <2>1, ModSmall
    <3> QED BY <3>3, <2>1
  <2> QED BY <2>1, <2>2, <2>3, <1>1, <1>3
<1>4. S = 0 .. i - 1
  <2>1. ASSUME NEW k \in S PROVE k \in 0 .. i - 1
    <3>1. k \in 0 .. WordBits - 1
      OBVIOUS
    <3>2. ~(k >= i)
      BY <1>3
    <3> HIDE DEF S
    <3> QED BY <3>1, <3>2, <1>1
  <2> QED BY <2>1, <1>2
<1>5. Cardinality(0 .. i - 1) = i
  <2>1. Cardinality(0 .. i - 1) = IF 0 > i - 1 THEN 0 ELSE (i - 1) - 0 + 1
    BY <1>1, FS_Interval
  <2> QED BY <2>1, <1>1
<1> QED BY <1>4, <1>5 DEF ctz

\* The bin of the i-th small class is bin i - 1.
LEMMA SmallBin ==
  ASSUME NEW i \in 1 .. NO_SMALL_SIZE_CLASSES, NEW c, c = i * SMALL_SIZE_CLASS_ALIGNMENT
  PROVE  /\ IS_SIZE_SMALL(c) /\ ~IS_SIZE_MEDIUM(c)
         /\ arena_get_bin_by_reg_size(c) = i - 1
<1> DEFINE a == SMALL_SIZE_CLASS_ALIGNMENT
<1>1. a \in Nat \ {0} /\ i \in Nat \ {0} /\ c \in a .. SMALL_SIZE_MAX_REGION
  BY ClassBounds, Shape
<1>2. IS_SIZE_SMALL(c) /\ ~IS_SIZE_MEDIUM(c)
  BY <1>1, Shape DEF IS_SIZE_SMALL, IS_SIZE_MEDIUM
<1>3. c \div a = i
  <2>1. c = a * i /\ i \in Nat
    BY <1>1
  <2> QED BY <2>1, <1>1, MulDiv
<1>4. i - 1 \in Nat /\ i - 1 < WORD
  <2>1. ASSUME NEW x \in Nat \ {0} PROVE i <= i * x
    BY <1>1
  <2>2. i <= c
    BY <2>1, <1>1
  <2> QED BY <2>2, <1>1, Shape, WordFacts
<1>5. SIZE_TO_IDX_SMALL(c) = i - 1
  BY <1>3, <1>4, WordFacts DEF SIZE_TO_IDX_SMALL
<1> QED BY <1>2, <1>5 DEF arena_get_bin_by_reg_size

\* The exponent of a class below WORD is below the number of bits, and the division
\* that size_to_idx_medium and size_to_idx_large begin with is exact.
LEMMA PowBits ==
  ASSUME NEW b \in Nat \ {0}, NEW i \in Nat, b * Pow2[i] < WORD
  PROVE  i \in 0 .. WordBits - 1 /\ (b * Pow2[i]) \div b = Pow2[i]
<1>1. Pow2[i] \in Nat \ {0} /\ WordBits \in Nat /\ WORD = Pow2[WordBits] /\ WORD \in Nat
  BY PowDef, WordFacts
<1>2. ASSUME NEW x \in Nat PROVE x <= b * x /\ b * x \in Nat
  OBVIOUS
<1>3. Pow2[i] < Pow2[WordBits]
  BY <1>1, <1>2
<1>4. i < WordBits
  BY <1>1, <1>3, PowMono
<1> QED BY <1>1, <1>4, MulDiv

\* The bins of the medium classes follow those of the small ones.
LEMMA MediumBin ==
  ASSUME NEW i \in 0 .. NO_MEDIUM_SIZE_CLASSES - 1, NEW c, c = MEDIUM_SIZE_MIN_REGION * Pow2[i]
  PROVE  /\ ~IS_SIZE_SMALL(c) /\ IS_SIZE_MEDIUM(c)
         /\ arena_get_bin_by_reg_size(c) = NO_SMALL_SIZE_CLASSES + i
<1>1. c \in MEDIUM_SIZE_MIN_REGION .. MEDIUM_SIZE_MAX_REGION
  BY ClassBounds
<1>2. ~IS_SIZE_SMALL(c) /\ IS_SIZE_MEDIUM(c)
  BY <1>1, Shape DEF IS_SIZE_SMALL, IS_SIZE_MEDIUM
<1>3. MEDIUM_SIZE_MIN_REGION \in Nat \ {0} /\ i \in Nat /\ c < WORD
  BY <1>1, Shape, WordFacts
<1>4. i \in 0 .. WordBits - 1 /\ c \div MEDIUM_SIZE_MIN_REGION = Pow2[i]
  BY <1>3, PowBits
<1>5. size_to_idx_medium(c) = i
  BY <1>4, CtzPow DEF size_to_idx_medium
<1> QED BY <1>2, <1>5 DEF arena_get_bin_by_reg_size

\* The bins of the large classes follow those of the medium ones.
LEMMA LargeBin ==
  ASSUME NEW i \in 0 .. NO_LARGE_SIZE_CLASSES - 1, NEW c, c = LARGE_SIZE_MIN_REGION * Pow2[i]
  PROVE  /\ ~IS_SIZE_SMALL(c) /\ ~IS_SIZE_MEDIUM(c)
         /\ arena_get_bin_by_reg_size(c) = NO_SMALL_SIZE_CLASSES + NO_MEDIUM_SIZE_CLASSES + i
<1>1. c \in LARGE_SIZE_MIN_REGION .. LARGE_SIZE_MAX_REGION
  BY ClassBounds
<1>2. ~IS_SIZE_SMALL(c) /\ ~IS_SIZE_MEDIUM(c)
  BY <1>1, Shape DEF IS_SIZE_SMALL, IS_SIZE_MEDIUM
<1>3. LARGE_SIZE_MIN_REGION \in Nat \ {0} /\ i \in Nat /\ c < WORD
  BY <1>1, Shape, WordFacts
<1>4. i \in 0 .. WordBits - 1 /\ c \div LARGE_SIZE_MIN_REGION = Pow2[i]
  BY <1>3, PowBits
<1>5. size_to_idx_large(c) = i
  BY <1>4, CtzPow DEF size_to_idx_large
<1> QED BY <1>2, <1>5 DEF arena_get_bin_by_reg_size

\* Every class has an index in the array of bins, in the order of the classes.
LEMMA BinOrder ==
  /\ \A c \in Classes : arena_get_bin_by_reg_size(c) \in 0 .. ARENA_NO_BINS - 1
  /\ \A c, d \in Classes : c < d => arena_get_bin_by_reg_size(c) < arena_get_bin_by_reg_size(d)
<1> DEFINE bin_of(c) == arena_get_bin_by_reg_size(c)
           s == NO_SMALL_SIZE_CLASSES
           m == NO_MEDIUM_SIZE_CLASSES
           l == NO_LARGE_SIZE_CLASSES
           Small(c, i) == i \in 1 .. s /\ c = i * SMALL_SIZE_CLASS_ALIGNMENT
           Medium(c, i) == i \in 0 .. m - 1 /\ c = MEDIUM_SIZE_MIN_REGION * Pow2[i]
           Large(c, i) == i \in 0 .. l - 1 /\ c = LARGE_SIZE_MIN_REGION * Pow2[i]
<1>1. s \in Nat \ {0} /\ m \in Nat \ {0} /\ l \in Nat \ {0} /\ ARENA_NO_BINS = s + m + l
  BY Shape DEF ARENA_NO_BINS
<1>2. \A c \in Classes : \/ \E i \in 1 .. s : Small(c, i)
                         \/ \E i \in 0 .. m - 1 : Medium(c, i)
                         \/ \E i \in 0 .. l - 1 : Large(c, i)
  BY DEF Classes
<1>3. \A c, i : Small(c, i) => i \in 1 .. s /\ bin_of(c) = i - 1 /\ c \in Nat /\ c <= SMALL_SIZE_MAX_REGION
  BY SmallBin, ClassBounds, Shape
<1>4. \A c, i : Medium(c, i) => /\ i \in 0 .. m - 1 /\ bin_of(c) = s + i /\ c \in Nat
                                /\ MEDIUM_SIZE_MIN_REGION <= c /\ c <= MEDIUM_SIZE_MAX_REGION
  BY MediumBin, ClassBounds, Shape
<1>5. \A c, i : Large(c, i) => /\ i \in 0 .. l - 1 /\ bin_of(c) = s + m + i /\ c \in Nat
                               /\ LARGE_SIZE_MIN_REGION <= c
  BY LargeBin, ClassBounds, Shape
<1>6. ASSUME NEW c, NEW d, NEW i, NEW j, Small(c, i), Small(d, j), c < d PROVE i < j
  <2>1. i \in Nat /\ j \in Nat /\ SMALL_SIZE_CLASS_ALIGNMENT \in Nat
    BY <1>6, <1>1, Shape
  <2>2. ASSUME NEW x \in Nat, j <= i PROVE j * x <= i * x
    BY <2>1, <2>2
  <2> QED BY <2>1, <2>2, <1>6
<1>7. ASSUME NEW b \in Nat, NEW i \in Nat, NEW j \in Nat, b * Pow2[i] < b * Pow2[j] PROVE i < j
  <2>1. Pow2[i] \in Nat /\ Pow2[j] \in Nat
    BY PowDef
  <2>2. ASSUME NEW x \in Nat, NEW y \in Nat, y <= x PROVE b * y <= b * x
    BY <2>2
  <2>3. Pow2[i] < Pow2[j]
    BY <2>1, <2>2, <1>7
  <2> QED BY <2>3, PowMono
<1>8. ASSUME NEW c, NEW d, NEW i, NEW j, Medium(c, i), Medium(d, j), c < d PROVE i < j
  <2>1. i \in Nat /\ j \in Nat /\ MEDIUM_SIZE_MIN_REGION \in Nat
    BY <1>8, <1>1, Shape
  <2> QED BY <2>1, <1>7, <1>8
<1>9. ASSUME NEW c, NEW d, NEW i, NEW j, Large(c, i), Large(d, j), c < d PROVE i < j
  <2>1. i \in Nat /\ j \in Nat /\ LARGE_SIZE_MIN_REGION \in Nat
    BY <1>9, <1>1, Shape
  <2> QED BY <2>1, <1>7, <1>9
<1> HIDE DEF s, m, l, bin_of, Small, Medium, Large
<1>10. ASSUME NEW c \in Classes PROVE bin_of(c) \in 0 .. ARENA_NO_BINS - 1
  <2>1. ASSUME NEW i, Small(c, i) PROVE bin_of(c) \in 0 .. ARENA_NO_BINS - 1
    BY <2>1, <1>1, <1>3
  <2>2. ASSUME NEW i, Medium(c, i) PROVE bin_of(c) \in 0 .. ARENA_NO_BINS - 1
    BY <2>2, <1>1, <1>4
  <2>3. ASSUME NEW i, Large(c, i) PROVE bin_of(c) \in 0 .. ARENA_NO_BINS - 1
    BY <2>3, <1>1, <1>5
  <2> QED BY <2>1, <2>2, <2>3, <1>2
<1>11. ASSUME NEW c \in Classes, NEW d \in Classes, c < d PROVE bin_of(c) < bin_of(d)
  <2>1. ASSUME NEW i, Small(c, i) PROVE bin_of(c) < bin_of(d)
    <3>1. ASSUME NEW j, Small(d, j) PROVE bin_of(c) < bin_of(d)
      BY <3>1, <2>1, <1>1, <1>3, <1>6, <1>11
    <3>2. ASSUME NEW j, Medium(d, j) PROVE bin_of(c) < bin_of(d)
      BY <3>2, <2>1, <1>1, <1>3, <1>4
    <3>3. ASSUME NEW j, Large(d, j) PROVE bin_of(c) < bin_of(d)
      BY <3>3, <2>1, <1>1, <1>3, <1>5
    <3> QED BY <3>1, <3>2, <3>3, <1>2
  <2>2. ASSUME NEW i, Medium(c, i) PROVE bin_of(c) < bin_of(d)
    <3>1. ASSUME NEW j, Small(d, j) PROVE FALSE
      BY <3>1, <2>2, <1>3, <1>4, <1>11, Shape
    <3>2. ASSUME NEW j, Medium(d, j) PROVE bin_of(c) < bin_of(d)
      BY <3>2, <2>2, <1>1, <1>4, <1>8, <1>11
    <3>3. ASSUME NEW j, Large(d, j) PROVE bin_of(c) < bin_of(d)
      BY <3>3, <2>2, <1>1, <1>4, <1>5
    <3> QED BY <3>1, <3>2, <3>3, <1>2
  <2>3. ASSUME NEW i, Large(c, i) PROVE bin_of(c) < bin_of(d)
    <3>1. ASSUME NEW j, Small(d, j) PROVE FALSE
      BY <3>1, <2>3, <1>3, <1>5, <1>11, Shape
    <3>2. ASSUME NEW j, Medium(d, j) PROVE FALSE
      BY <3>2, <2>3, <1>4, <1>5, <1>11, Shape
    <3>3. ASSUME NEW j, Large(d, j) PROVE bin_of(c) < bin_of(d)
      BY <3>3, <2>3, <1>1, <1>5, <1>9, <1>11
    <3> QED BY <3>1, <3>2, <3>3, <1>2
  <2> QED BY <2>1, <2>2, <2>3, <1>2
<1> QED BY <1>10, <1>11 DEF bin_of

\* Every bin has a class.
LEMMA BinOnto ==
  ASSUME NEW b \in 0 .. ARENA_NO_BINS - 1
  PROVE  \E c \in Classes : arena_get_bin_by_reg_size(c) = b
<1> DEFINE s == NO_SMALL_SIZE_CLASSES
           m == NO_MEDIUM_SIZE_CLASSES
           l == NO_LARGE_SIZE_CLASSES
<1>1. s \in Nat \ {0} /\ m \in Nat \ {0} /\ l \in Nat \ {0} /\ b \in 0 .. s + m + l - 1
  BY Shape DEF ARENA_NO_BINS
<1>2. CASE b < s
  <2> DEFINE i == b + 1
             c == i * SMALL_SIZE_CLASS_ALIGNMENT
  <2>1. i \in 1 .. NO_SMALL_SIZE_CLASSES /\ i - 1 = b
    BY <1>1, <1>2
  <2> HIDE DEF i
  <2>2. c \in Classes
    BY <2>1 DEF Classes
  <2>3. arena_get_bin_by_reg_size(c) = b
    BY <2>1, SmallBin
  <2> QED BY <2>2, <2>3
<1>3. CASE s <= b /\ b < s + m
  <2> DEFINE i == b - s
             c == MEDIUM_SIZE_MIN_REGION * Pow2[i]
  <2>1. i \in 0 .. NO_MEDIUM_SIZE_CLASSES - 1 /\ s + i = b
    BY <1>1, <1>3
  <2> HIDE DEF i
  <2>2. c \in Classes
    BY <2>1 DEF Classes
  <2>3. arena_get_bin_by_reg_size(c) = b
    BY <2>1, MediumBin
  <2> QED BY <2>2, <2>3
<1>4. CASE s + m <= b
  <2> DEFINE i == b - s - m
             c == LARGE_SIZE_MIN_REGION * Pow2[i]
  <2>1. i \in 0 .. NO_LARGE_SIZE_CLASSES - 1 /\ s + m + i = b
    BY <1>1, <1>4
  <2> HIDE DEF i
  <2>2. c \in Classes
    BY <2>1 DEF Classes
  <2>3. arena_get_bin_by_reg_size(c) = b
    BY <2>1, LargeBin
  <2> QED BY <2>2, <2>3
<1> QED BY <1>1, <1>2, <1>3, <1>4

\* The index of the bin of a class is the number of classes below it.
LEMMA BinCount ==
  ASSUME NEW r \in Classes
  PROVE  Cardinality({c \in Classes : c < r}) = arena_get_bin_by_reg_size(r)
<1> DEFINE bin_of(c) == arena_get_bin_by_reg_size(c)
           k == bin_of(r)
           S == {c \in Classes : c < r}
           f == [c \in S |-> bin_of(c)]
<1>1. k \in 0 .. ARENA_NO_BINS - 1 /\ ARENA_NO_BINS \in Nat
  BY BinOrder, Shape DEF ARENA_NO_BINS
<1>2. \A c \in Classes : c \in Nat
  BY ClassNat, Shape
<1>3. \A c \in Classes : bin_of(c) \in 0 .. ARENA_NO_BINS - 1
  BY BinOrder
<1>4. \A c, d \in Classes : c < d => bin_of(c) < bin_of(d)
  BY BinOrder
<1>5. \A b \in 0 .. ARENA_NO_BINS - 1 : \E c \in Classes : bin_of(c) = b
  BY BinOnto
<1> HIDE DEF bin_of
<1>6. \A c, d \in Classes : bin_of(c) = bin_of(d) => c = d
  BY <1>1, <1>2, <1>3, <1>4
<1>7. \A c \in S : f[c] \in 0 .. k - 1
  BY <1>1, <1>3, <1>4
<1>8. \A b \in 0 .. k - 1 : \E c \in S : f[c] = b
  <2>1. SUFFICES ASSUME NEW b \in 0 .. k - 1 PROVE \E c \in S : f[c] = b
    OBVIOUS
  <2>2. PICK c \in Classes : bin_of(c) = b
    BY <1>1, <1>5
  <2>3. c # r /\ ~(r < c)
    BY <2>2, <1>1, <1>4
  <2>4. c \in S
    BY <2>3, <1>2
  <2> QED BY <2>2, <2>4
<1>9. f \in Bijection(S, 0 .. k - 1)
  <2>1. f \in [S -> 0 .. k - 1]
    BY <1>7
  <2>2. \A c, d \in S : f[c] = f[d] => c = d
    BY <1>6
  <2> HIDE DEF f
  <2> QED BY <2>1, <2>2, <1>8 DEF Bijection, Injection, Surjection, IsInjective
<1>10. ExistsBijection(0 .. k - 1, S)
  <2>1. ExistsBijection(S, 0 .. k - 1)
    BY <1>9 DEF ExistsBijection
  <2> HIDE DEF S, k
  <2> QED BY <2>1, Fun_ExistsBijSymmetric
<1>11. IsFiniteSet(0 .. k - 1) /\ Cardinality(0 .. k - 1) = k
  <2>1. k \in Int /\ k >= 0
    BY <1>1
  <2> HIDE DEF k
  <2>2. IsFiniteSet(0 .. k - 1) /\ Cardinality(0 .. k - 1) = IF 0 > k - 1 THEN 0 ELSE (k - 1) - 0 + 1
    BY <2>1, FS_Interval
  <2> QED BY <2>1, <2>2
<1>12. Cardinality(S) = k
  <2> HIDE DEF S, k
  <2> QED BY <1>10, <1>11, FS_Bijection
<1> QED BY <1>12 DEF bin_of

-----------------------------------------------------------------------------
(***************************************************************************)
(* Runs                                                                    *)
(***************************************************************************)

\* The leaf mark of a run, as chunk_allocate_run sets it.
MarkOf(r) ==
  IF RunSizeOf(r) = LARGE_SIZE_MIN_REGION THEN LeafMark(r) ELSE REG_MARK_BAD_VALUE

\* A number of whole pages is not rounded.
LEMMA WholePages ==
  ASSUME NEW i \in Nat, NEW c, c = LARGE_SIZE_MIN_REGION * Pow2[i]
  PROVE  (c \div PAGE_SIZE) * PAGE_SIZE = c
<1> DEFINE p == PAGE_SIZE
           q == LARGE_SIZE_MIN_REGION \div p
           t == Pow2[i]
<1>1. p \in Nat \ {0} /\ t \in Nat /\ LARGE_SIZE_MIN_REGION \in Nat
  BY Shape, PowDef
<1>2. q \in Int /\ LARGE_SIZE_MIN_REGION = p * q
  BY <1>1, SizeClassAssumption
<1>3. c = (p * q) * t
  BY <1>2
<1> HIDE DEF p, q, t
<1>4. c = p * (q * t) /\ q * t \in Int
  BY <1>1, <1>2, <1>3
<1>5. c \div p = q * t
  <2>1. c \in Int /\ 0 \in 0 .. p - 1 /\ c = p * (q * t) + 0
    BY <1>1, <1>4
  <2> QED BY <2>1, <1>1, <1>4, DivMod
<1>6. (c \div p) * p = c
  BY <1>1, <1>4, <1>5
<1> QED BY <1>6 DEF p

\* A run of small or of medium regions is a leaf, of larger ones as large as the
\* region; it holds one at least.
LEMMA RunSizes ==
  ASSUME NEW r \in Classes
  PROVE  /\ IF IS_SIZE_SMALL(r) \/ IS_SIZE_MEDIUM(r)
            THEN RunSizeOf(r) = LARGE_SIZE_MIN_REGION /\ r < LARGE_SIZE_MIN_REGION
                 /\ r < REG_MARK_BAD_VALUE
            ELSE RunSizeOf(r) = r
         /\ \E i \in 0 .. NO_LARGE_SIZE_CLASSES - 1 : RunSizeOf(r) = LARGE_SIZE_MIN_REGION * Pow2[i]
         /\ ElemsOf(r) >= 1
<1>1. ASSUME NEW a \in Nat \ {0}, NEW b \in Nat, a <= b PROVE b \div a >= 1
  <2> DEFINE q == b \div a
             m == b % a
  <2>1. q \in Int /\ m \in 0 .. a - 1 /\ b = a * q + m
    OBVIOUS
  <2> HIDE DEF q, m
  <2>2. SUFFICES ASSUME q <= 0 PROVE FALSE
    BY <2>1 DEF q
  <2>3. a * q <= 0
    BY <2>1, <2>2
  <2> QED BY <2>1, <2>3, <1>1
<1>2. r \in Nat \ {0} /\ LARGE_SIZE_MIN_REGION \in Nat \ {0}
  BY ClassNat, Shape
<1>3. CASE IS_SIZE_SMALL(r) \/ IS_SIZE_MEDIUM(r)
  <2>1. Pow2[0] = 1 /\ 0 \in Nat /\ LARGE_SIZE_MIN_REGION = LARGE_SIZE_MIN_REGION * Pow2[0]
    BY <1>2, PowDef
  <2>2. (LARGE_SIZE_MIN_REGION \div PAGE_SIZE) * PAGE_SIZE = LARGE_SIZE_MIN_REGION
    BY <2>1, WholePages
  <2>3. RunSizeOf(r) = LARGE_SIZE_MIN_REGION
    BY <2>2, <1>3, SizeClassAssumption DEF RunSizeOf
  <2>4. r <= MEDIUM_SIZE_MAX_REGION
    BY <1>2, <1>3, Shape DEF IS_SIZE_SMALL, IS_SIZE_MEDIUM
  <2>5. r < LARGE_SIZE_MIN_REGION /\ r < 65535
    BY <2>4, <1>2, Shape, SizeClassAssumption DEF REG_MARK_BAD_VALUE
  <2>6. ElemsOf(r) >= 1
    BY <2>3, <2>5, <1>1, <1>2 DEF ElemsOf
  <2>7. 0 \in 0 .. NO_LARGE_SIZE_CLASSES - 1
    BY Shape
  <2> QED BY <2>1, <2>3, <2>5, <2>6, <2>7, <1>3 DEF REG_MARK_BAD_VALUE
<1>4. CASE ~(IS_SIZE_SMALL(r) \/ IS_SIZE_MEDIUM(r))
  <2>1. PICK i \in 0 .. NO_LARGE_SIZE_CLASSES - 1 : r = LARGE_SIZE_MIN_REGION * Pow2[i]
    BY <1>4, SmallBin, MediumBin DEF Classes
  <2>2. i \in Nat
    OBVIOUS
  <2>3. (r \div PAGE_SIZE) * PAGE_SIZE = r
    BY <2>1, <2>2, WholePages
  <2>4. RunSizeOf(r) = r
    BY <2>3, <1>4 DEF RunSizeOf
  <2>5. ElemsOf(r) >= 1
    BY <2>4, <1>1, <1>2 DEF ElemsOf
  <2> QED BY <2>1, <2>4, <2>5, <1>4
<1> QED BY <1>3, <1>4

\* The lookup of a run selects by the size of its regions.
LEMMA LookupBack ==
  ASSUME NEW r \in Classes
  PROVE  LookupSize(RunSizeOf(r), MarkOf(r)) = r
<1>1. r \in Nat
  BY ClassNat, Shape
<1>2. CASE IS_SIZE_SMALL(r) \/ IS_SIZE_MEDIUM(r)
  <2>1. RunSizeOf(r) = LARGE_SIZE_MIN_REGION /\ r < LARGE_SIZE_MIN_REGION /\ r < 65535
    BY <1>2, RunSizes DEF REG_MARK_BAD_VALUE
  <2>2. r # LARGE_SIZE_MIN_REGION /\ r % 65536 = r /\ r # 65535
    BY <2>1, <1>1, Shape
  <2>3. MarkOf(r) = r /\ r # REG_MARK_BAD_VALUE
    BY <2>1, <2>2 DEF MarkOf, LeafMark, REG_MARK_BAD_VALUE
  <2> QED BY <2>1, <2>3 DEF LookupSize
<1>3. CASE ~(IS_SIZE_SMALL(r) \/ IS_SIZE_MEDIUM(r))
  <2>1. RunSizeOf(r) = r
    BY <1>3, RunSizes
  <2>2. CASE r = LARGE_SIZE_MIN_REGION
    <3>1. MarkOf(r) = REG_MARK_BAD_VALUE
      BY <2>1, <2>2 DEF MarkOf, LeafMark
    <3> QED BY <3>1, <2>1 DEF LookupSize
  <2>3. CASE r # LARGE_SIZE_MIN_REGION
    BY <2>1, <2>3 DEF LookupSize
  <2> QED BY <2>2, <2>3
<1> QED BY <1>2, <1>3

\* npow2 wraps around at 0: all bits of n - 1 are set.
LEMMA Npow2Zero == npow2(0) = 0
<1> DEFINE t == WordBits - 1
           m == WORD - 1
<1>1. t \in 0 .. WordBits - 1 /\ t \in 0 .. 31 /\ t + 1 = WordBits /\ WordBits \in 0 .. WordBits
  BY SizeClassAssumption
<1>2. Pow2[t] \in Nat \ {0} /\ WORD = 2 * Pow2[t] /\ WORD \in Nat \ {0}
  <2>1. t \in Nat
    BY <1>1
  <2> QED BY <2>1, <1>1, PowDef, WordFacts
<1>3. m \in Nat /\ Pow2[t] <= m /\ m < 2 * Pow2[t] /\ m \in 0 .. WORD - 1
  BY <1>2
<1>4. Word(0 - 1) = m
  <2> DEFINE a == 0 - 1
  <2>1. a \in Int /\ a = WORD * a + m
    BY <1>2
  <2> HIDE DEF a, m
  <2>2. a % WORD = m
    BY <2>1, <1>2, <1>3, DivMod
  <2> QED BY <2>2 DEF Word, a
<1> HIDE DEF t, m
<1>5. t \in Bits(m) /\ Bits(m) \in SUBSET (0 .. t)
  BY <1>1, <1>3, BitsTop
<1>6. Smear(Smear(Smear(Smear(Smear(Bits(m), 1), 2), 4), 8), 16) = 0 .. t
  BY <1>1, <1>5, SmearFull
<1>7. Value(0 .. t) = WORD - 1
  <2>1. Value(0 .. WordBits - 1) = Pow2[WordBits] - 1
    BY <1>1, ValueFull
  <2> QED BY <2>1, WordFacts DEF t
<1>8. npow2(0) = Word((WORD - 1) + 1)
  BY <1>4, <1>6, <1>7 DEF npow2
<1>9. (WORD - 1) + 1 = WORD * 1 /\ 1 \in Nat
  BY <1>2
<1>10. (WORD * 1) % WORD = 0
  BY <1>2, <1>9, MulDiv
<1> QED BY <1>8, <1>9, <1>10 DEF Word

\* What the rest of the allocator relies on: a size is rounded to a class that
\* holds it, 0 to 0; a run of a class is a number of leaves and holds regions, and
\* a run of several leaves holds one.
LEMMA SizeFacts ==
  /\ \A n \in 1 .. LARGE_SIZE_MAX_REGION : AlignedSize(n) \in Classes /\ n <= AlignedSize(n)
  /\ AlignedSize(0) = 0
  /\ \A n \in 0 .. SIZE_WORD - PAGE_SIZE : ALIGNUP_PAGE(n) \in Nat /\ n <= ALIGNUP_PAGE(n)
  /\ LARGE_SIZE_MIN_REGION \in Classes
  /\ \A r \in Classes :
       /\ r \in 1 .. LARGE_SIZE_MAX_REGION /\ RunSizeOf(r) \in Nat
       /\ RunSizeOf(r) % LARGE_SIZE_MIN_REGION = 0 /\ ElemsOf(r) >= 1
       /\ RunSizeOf(r) = LARGE_SIZE_MIN_REGION \/ ElemsOf(r) = 1
<1>1. ASSUME NEW n \in 1 .. LARGE_SIZE_MAX_REGION
      PROVE  AlignedSize(n) \in Classes /\ n <= AlignedSize(n)
  BY AlignedLeast DEF IsLeast
<1>2. AlignedSize(0) = 0
  <2>1. LARGE_SIZE_MIN_REGION \in Nat \ {0} /\ 0 \in 0 .. LARGE_SIZE_MIN_REGION - 1
    BY Shape
  <2>2. 0 \div LARGE_SIZE_MIN_REGION = 0 /\ 0 % LARGE_SIZE_MIN_REGION = 0
    BY <2>1, ModSmall
  <2>3. ceil_div(0, LARGE_SIZE_MIN_REGION) = 0
    BY <2>2 DEF ceil_div
  <2>4. alignup_large_size(0) = Word(0 * LARGE_SIZE_MIN_REGION)
    BY <2>3, Npow2Zero DEF alignup_large_size
  <2>5. 0 * LARGE_SIZE_MIN_REGION = 0 /\ Word(0) = 0
    BY <2>1, WordFacts
  <2>6. ~IS_SIZE_SMALL(0) /\ ~IS_SIZE_MEDIUM(0)
    BY Shape DEF IS_SIZE_SMALL, IS_SIZE_MEDIUM
  <2> QED BY <2>4, <2>5, <2>6 DEF AlignedSize
<1>3. ASSUME NEW n \in 0 .. SIZE_WORD - PAGE_SIZE
      PROVE  ALIGNUP_PAGE(n) \in Nat /\ n <= ALIGNUP_PAGE(n)
  <2>1. n \in Nat /\ PAGE_SIZE \in Nat \ {0} /\ n + PAGE_SIZE - 1 < SIZE_WORD
    BY Shape, SizeWordFacts
  <2>2. PICK q \in Nat : AlignUp(n, PAGE_SIZE) = q * PAGE_SIZE /\ n <= q * PAGE_SIZE
    BY <2>1, AlignUpLeast
  <2> QED BY <2>1, <2>2 DEF ALIGNUP_PAGE
<1>4. LARGE_SIZE_MIN_REGION \in Classes
  <2>1. /\ 0 \in 0 .. NO_LARGE_SIZE_CLASSES - 1
        /\ LARGE_SIZE_MIN_REGION = LARGE_SIZE_MIN_REGION * Pow2[0]
    BY Shape, PowDef
  <2> QED BY <2>1 DEF Classes
<1>5. ASSUME NEW r \in Classes
      PROVE  /\ r \in 1 .. LARGE_SIZE_MAX_REGION /\ RunSizeOf(r) \in Nat
             /\ RunSizeOf(r) % LARGE_SIZE_MIN_REGION = 0 /\ ElemsOf(r) >= 1
             /\ RunSizeOf(r) = LARGE_SIZE_MIN_REGION \/ ElemsOf(r) = 1
  <2>1. PICK i \in 0 .. NO_LARGE_SIZE_CLASSES - 1 : RunSizeOf(r) = LARGE_SIZE_MIN_REGION * Pow2[i]
    BY RunSizes
  <2>2. LARGE_SIZE_MIN_REGION \in Nat \ {0} /\ Pow2[i] \in Nat
    BY Shape, PowDef
  <2>3. RunSizeOf(r) % LARGE_SIZE_MIN_REGION = 0 /\ RunSizeOf(r) \in Nat
    BY <2>1, <2>2, MulDiv
  <2>4. RunSizeOf(r) = LARGE_SIZE_MIN_REGION \/ RunSizeOf(r) = r
    BY RunSizes
  <2>5. ASSUME RunSizeOf(r) = r PROVE ElemsOf(r) = 1
    <3>1. r \in Nat \ {0} /\ 1 \in Nat
      BY ClassNat, Shape
    <3>2. (r * 1) \div r = 1 /\ r * 1 = r
      BY <3>1, MulDiv
    <3> QED BY <3>2, <2>5 DEF ElemsOf
  <2> QED BY <2>3, <2>4, <2>5, ClassNat, RunSizes
<1> QED BY <1>1, <1>2, <1>3, <1>4, <1>5

-----------------------------------------------------------------------------
(***************************************************************************)
(* The specification                                                       *)
(***************************************************************************)

Calls == ({"malloc"} \X MallocSizes) \cup ({"realloc"} \X ReallocSizes)

\* What each stage has computed.
PathInv ==
  /\ call \in Calls
  /\ stage \in {"asked", "huge", "aligned", "bin", "placed", "drawn", "found"}
  /\ stage = "huge" => Size > LARGE_SIZE_MAX_REGION /\ reg_size = ALIGNUP_PAGE(Size)
  /\ stage \in {"aligned", "bin", "placed", "drawn", "found"} => IsLeast(reg_size, Size)
  /\ stage \in {"bin", "placed", "drawn", "found"} => bin = arena_get_bin_by_reg_size(reg_size)
  /\ stage \in {"placed", "drawn", "found"} =>
       run = [size |-> RunSizeOf(reg_size), mark |-> MarkOf(reg_size)]
  /\ stage = "found" => found = bin

\* The sizes asked for are naturals; without a realloc to 0 only malloc may be
\* asked for 0.
LEMMA CallFacts ==
  ASSUME 0 \notin ReallocSizes, call \in Calls
  PROVE  /\ Size \in Nat /\ Size <= SIZE_WORD - PAGE_SIZE
         /\ call[1] = "malloc" \/ Size # 0
<1>1. SIZE_WORD \in Nat /\ PAGE_SIZE \in Nat
  BY SizeWordFacts, Shape
<1>2. Size \in MallocSizes \cup ReallocSizes /\ (call[1] = "malloc" \/ Size \in ReallocSizes)
  BY DEF Calls, Size
<1>3. Size \in 0 .. SIZE_WORD - PAGE_SIZE
  BY <1>2, SizesAssumption
<1> QED BY <1>1, <1>2, <1>3

\* Align leaves the least class, or a number of pages.
LEMMA AlignStep ==
  ASSUME 0 \notin ReallocSizes, PathInv, Align
  PROVE  PathInv'
<1> DEFINE n == IF call[1] = "malloc" /\ Size = 0 THEN SMALL_SIZE_MIN_REGION ELSE Size
<1>1. /\ stage' = IF IS_SIZE_HUGE(n) THEN "huge" ELSE "aligned"
      /\ reg_size' = IF IS_SIZE_HUGE(n) THEN ALIGNUP_PAGE(n) ELSE AlignedSize(n)
      /\ call' = call /\ call \in Calls
  BY DEF Align, PathInv
<1>2. Size \in Nat /\ (call[1] = "malloc" \/ Size # 0) /\ Size' = Size
  BY <1>1, CallFacts DEF Size
<1>3. /\ n \in Nat \ {0} /\ n >= Size /\ (Size # 0 => n = Size)
      /\ Size = 0 => n = SMALL_SIZE_CLASS_ALIGNMENT
  BY <1>2, Shape DEF SMALL_SIZE_MIN_REGION
<1> HIDE DEF n
<1>4. CASE IS_SIZE_HUGE(n)
  <2>1. n > LARGE_SIZE_MAX_REGION
    BY <1>4 DEF IS_SIZE_HUGE
  <2>2. Size = n
    BY <2>1, <1>2, <1>3, Shape
  <2>3. stage' = "huge" /\ reg_size' = ALIGNUP_PAGE(n)
    BY <1>1, <1>4
  <2> QED BY <2>1, <2>2, <2>3, <1>1, <1>2 DEF PathInv
<1>5. CASE ~IS_SIZE_HUGE(n)
  <2>1. n \in 1 .. LARGE_SIZE_MAX_REGION
    BY <1>3, <1>5, Shape DEF IS_SIZE_HUGE
  <2>2. IsLeast(AlignedSize(n), n)
    BY <2>1, AlignedLeast
  <2>3. IsLeast(AlignedSize(n), Size)
    <3>1. CASE Size # 0
      BY <3>1, <2>2, <1>3
    <3>2. CASE Size = 0
      <4>1. \A c \in Classes : c \in Nat /\ n <= c
        <5>1. SUFFICES ASSUME NEW c \in Classes PROVE c \in Nat /\ n <= c
          OBVIOUS
        <5>2. n = SMALL_SIZE_CLASS_ALIGNMENT /\ c \in Nat
          BY <3>2, <1>3, ClassNat, Shape
        <5>3. c >= SMALL_SIZE_CLASS_ALIGNMENT
          BY ClassBounds, Shape DEF Classes
        <5> QED BY <5>2, <5>3
      <4>2. AlignedSize(n) \in Classes /\ \A c \in Classes : AlignedSize(n) <= c
        BY <4>1, <2>2 DEF IsLeast
      <4>3. Size <= AlignedSize(n)
        BY <3>2, <4>1, <4>2
      <4> QED BY <4>2, <4>3 DEF IsLeast
    <3> QED BY <3>1, <3>2
  <2>4. stage' = "aligned" /\ reg_size' = AlignedSize(n)
    BY <1>1, <1>5
  <2> QED BY <2>3, <2>4, <1>1, <1>2 DEF PathInv, IsLeast
<1> QED BY <1>4, <1>5

\* The stages after Align.
LEMMA LaterSteps ==
  ASSUME PathInv, [GetBin \/ Place \/ run_init \/ Lookup \/ Done]_vars
  PROVE  PathInv'
<1>1. CASE GetBin
  <2>1. stage = "aligned" /\ stage' = "bin" /\ bin' = arena_get_bin_by_reg_size(reg_size)
    BY <1>1 DEF GetBin
  <2>2. call' = call /\ reg_size' = reg_size /\ Size' = Size
    BY <1>1 DEF GetBin, Size
  <2> QED BY <2>1, <2>2 DEF PathInv, IsLeast
<1>2. CASE Place
  <2>1. stage = "bin" /\ stage' = "placed"
    BY <1>2 DEF Place
  <2>2. run' = [size |-> RunSizeOf(reg_size), mark |-> MarkOf(reg_size)]
    BY <1>2 DEF Place, MarkOf
  <2>3. call' = call /\ reg_size' = reg_size /\ bin' = bin /\ Size' = Size
    BY <1>2 DEF Place, Size
  <2> QED BY <2>1, <2>2, <2>3 DEF PathInv, IsLeast
<1>3. CASE run_init
  <2>1. stage = "placed" /\ stage' = "drawn"
    BY <1>3 DEF run_init
  <2>2. call' = call /\ reg_size' = reg_size /\ bin' = bin /\ run' = run /\ Size' = Size
    BY <1>3 DEF run_init, Size
  <2> QED BY <2>1, <2>2 DEF PathInv, IsLeast
<1>4. CASE Lookup
  <2>1. /\ stage = "placed" /\ stage' = "found"
        /\ found' = arena_get_bin_by_reg_size(LookupSize(run.size, run.mark))
    BY <1>4 DEF Lookup
  <2>2. call' = call /\ reg_size' = reg_size /\ bin' = bin /\ run' = run /\ Size' = Size
    BY <1>4 DEF Lookup, Size
  <2>3. /\ run = [size |-> RunSizeOf(reg_size), mark |-> MarkOf(reg_size)]
        /\ reg_size \in Classes /\ bin = arena_get_bin_by_reg_size(reg_size)
    BY <2>1 DEF PathInv, IsLeast
  <2>4. LookupSize(run.size, run.mark) = reg_size
    BY <2>3, LookupBack
  <2>5. found' = bin
    BY <2>1, <2>3, <2>4
  <2> QED BY <2>1, <2>2, <2>5 DEF PathInv, IsLeast
<1>5. CASE Done \/ UNCHANGED vars
  <2>1. UNCHANGED vars
    BY <1>5 DEF Done
  <2>2. /\ stage' = stage /\ call' = call /\ reg_size' = reg_size /\ bin' = bin
        /\ run' = run /\ found' = found /\ Size' = Size
    BY <2>1 DEF vars, Size
  <2> QED BY <2>2 DEF PathInv, IsLeast
<1> QED BY <1>1, <1>2, <1>3, <1>4, <1>5

\* Every stage of the way of a size has computed what PathInv says, unless realloc
\* is asked for 0 (the run size_realloc shows what happens then).
THEOREM Invariance ==
  ASSUME 0 \notin ReallocSizes
  PROVE  Spec => []PathInv
<1>1. Init => PathInv
  BY DEF Init, PathInv, Calls
<1>2. PathInv /\ [Next]_vars => PathInv'
  <2>1. PathInv /\ Align => PathInv'
    BY AlignStep
  <2>2. PathInv /\ [GetBin \/ Place \/ run_init \/ Lookup \/ Done]_vars => PathInv'
    BY LaterSteps
  <2> QED BY <2>1, <2>2 DEF Next
<1> QED BY <1>1, <1>2, PTL DEF Spec

\* What PathInv says of the rounded size.
LEMMA ImpliesLeastClass ==
  ASSUME 0 \notin ReallocSizes, PathInv
  PROVE  LeastClass
<1>1. Size \in Nat /\ Size <= SIZE_WORD - PAGE_SIZE
  BY CallFacts DEF PathInv
<1>2. ASSUME stage \in {"aligned", "bin", "placed", "found"}
      PROVE  reg_size = Min({c \in Classes : c >= Size})
  <2>1. IsLeast(reg_size, Size)
    BY <1>2 DEF PathInv
  <2> QED BY <2>1, <1>1, LeastMin
<1>3. ASSUME stage = "huge"
      PROVE  /\ \A c \in Classes : c < Size
             /\ reg_size % PAGE_SIZE = 0
             /\ Size <= reg_size /\ reg_size < Size + PAGE_SIZE
  <2>1. Size > LARGE_SIZE_MAX_REGION /\ reg_size = AlignUp(Size, PAGE_SIZE)
    BY <1>3 DEF PathInv, ALIGNUP_PAGE
  <2>2. \A c \in Classes : c < Size
    <3>1. SUFFICES ASSUME NEW c \in Classes PROVE c < Size
      OBVIOUS
    <3>2. c \in 1 .. LARGE_SIZE_MAX_REGION
      BY ClassNat
    <3> QED BY <3>2, <2>1, <1>1, Shape
  <2>3. PAGE_SIZE \in Nat \ {0} /\ Size + PAGE_SIZE - 1 < SIZE_WORD
    BY <1>1, Shape, SizeWordFacts
  <2>4. PICK q \in Nat :
          reg_size = q * PAGE_SIZE /\ Size <= q * PAGE_SIZE /\ q * PAGE_SIZE < Size + PAGE_SIZE
    BY <2>1, <2>3, <1>1, AlignUpLeast
  <2>5. q * PAGE_SIZE = PAGE_SIZE * q
    BY <2>3
  <2>6. reg_size % PAGE_SIZE = 0
    BY <2>3, <2>4, <2>5, MulDiv
  <2> QED BY <2>2, <2>4, <2>6
<1> QED BY <1>2, <1>3 DEF LeastClass

\* A size is rounded to the least class that holds it, a huge one to the least
\* number of pages (sealloc_malloc, sealloc_realloc, npow2).
THEOREM LeastClassCorrect ==
  ASSUME 0 \notin ReallocSizes
  PROVE  Spec => []LeastClass
<1>1. PathInv => LeastClass
  BY ImpliesLeastClass
<1> QED BY <1>1, Invariance, PTL

\* The bin of a size is the one of its class: arena_get_bin_by_reg_size indexes the
\* bins in the order of their region sizes, without gap or overlap.
THEOREM BinCorrect ==
  ASSUME 0 \notin ReallocSizes
  PROVE  Spec => []BinExact
<1>1. PathInv => BinExact
  <2>1. SUFFICES ASSUME PathInv, stage = "bin"
                 PROVE  bin = Cardinality({c \in Classes : c < reg_size})
    BY DEF BinExact
  <2>2. reg_size \in Classes /\ bin = arena_get_bin_by_reg_size(reg_size)
    BY <2>1 DEF PathInv, IsLeast
  <2> QED BY <2>2, BinCount
<1> QED BY <1>1, Invariance, PTL

\* Every run is a power of two of leaves and holds a region (bin_init).
THEOREM RunFitsCorrect ==
  ASSUME 0 \notin ReallocSizes
  PROVE  Spec => []RunFits
<1>1. PathInv => RunFits
  <2>1. SUFFICES ASSUME PathInv, stage = "placed"
                 PROVE  /\ \E i \in 0 .. NO_LARGE_SIZE_CLASSES - 1 :
                             run.size = LARGE_SIZE_MIN_REGION * Pow2[i]
                        /\ ElemsOf(reg_size) >= 1
    BY DEF RunFits
  <2>2. reg_size \in Classes /\ run.size = RunSizeOf(reg_size)
    BY <2>1 DEF PathInv, IsLeast
  <2> QED BY <2>2, RunSizes
<1> QED BY <1>1, Invariance, PTL

\* free finds the bin of a run from the run alone (locate_metadata_for_ptr).
THEOREM LookupCorrect ==
  ASSUME 0 \notin ReallocSizes
  PROVE  Spec => []LookupExact
<1>1. PathInv => LookupExact
  BY DEF PathInv, LookupExact
<1> QED BY <1>1, Invariance, PTL
=============================================================================
