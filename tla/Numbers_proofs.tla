--------------------------- MODULE Numbers_proofs ---------------------------
(***************************************************************************)
(* Facts about numbers that the proofs share: induction, powers of two,    *)
(* division, the binary digits of a word, and sums that are defined        *)
(* recursively.                                                            *)
(*                                                                         *)
(* Induction is stated of a set instead of a predicate, and is applied to  *)
(* the set of the numbers that have the property.                          *)
(***************************************************************************)
EXTENDS Integers, FiniteSetTheorems, WellFoundedInduction, TLAPS

(***************************************************************************)
(* Induction.                                                              *)
(***************************************************************************)
\* A set that has zero and the successor of each of its members has every
\* natural number; otherwise there would be a least one it lacks.
LEMMA NatInd ==
  ASSUME NEW S, 0 \in S, \A n \in Nat : n \in S => n + 1 \in S
  PROVE  \A n \in Nat : n \in S
<1> DEFINE T == Nat \ S
<1> SUFFICES ASSUME T # {} PROVE FALSE
  OBVIOUS
<1>1. PICK n \in T : \A m \in T : ~(<<m, n>> \in OpToRel(<, Nat))
  <2>1. T \subseteq Nat
    OBVIOUS
  <2> QED BY <2>1, NatLessThanWellFounded, WFMin
<1>2. n # 0 /\ n \in Nat /\ n \notin S
  OBVIOUS
<1>3. n - 1 \in Nat /\ (n - 1) + 1 = n /\ n - 1 < n
  BY <1>2
<1>4. n - 1 \notin T
  BY <1>1, <1>2, <1>3 DEF OpToRel
<1> QED BY <1>2, <1>3, <1>4

\* A set of natural numbers that is not empty has a least one.
LEMMA LeastElement ==
  ASSUME NEW T \in SUBSET Nat, T # {}
  PROVE  \E n \in T : \A m \in T : n <= m
<1>1. PICK n \in T : \A m \in T : ~(<<m, n>> \in OpToRel(<, Nat))
  BY NatLessThanWellFounded, WFMin
<1>2. \A m \in T : ~(m < n)
  BY <1>1 DEF OpToRel
<1> QED BY <1>2

(***************************************************************************)
(* Powers of two, as the number of subsets.                                *)
(***************************************************************************)
LEMMA PowerIsCount ==
  ASSUME NEW n \in Nat
  PROVE  /\ IsFiniteSet(SUBSET (1 .. n))
         /\ Cardinality(SUBSET (1 .. n)) = 2^n
         /\ 2^n \in Nat
<1>1. IsFiniteSet(1 .. n) /\ Cardinality(1 .. n) = n
  <2>1. Cardinality(1 .. n) = IF 1 > n THEN 0 ELSE n - 1 + 1
    BY FS_Interval
  <2> QED BY <2>1, FS_Interval
<1>2. IsFiniteSet(SUBSET (1 .. n)) /\ Cardinality(SUBSET (1 .. n)) = 2^n
  BY <1>1, FS_SUBSET
<1> QED BY <1>2, FS_CardinalityType

\* Half of the subsets of 1 .. n + 1 have the element n + 1.
LEMMA PowerStep ==
  ASSUME NEW n \in Nat
  PROVE  2^(n + 1) = 2 * 2^n
<1> DEFINE S == SUBSET (1 .. n)
           W == {s \union {n + 1} : s \in S}
<1>1. IsFiniteSet(S) /\ Cardinality(S) = 2^n /\ 2^n \in Nat
  BY PowerIsCount
<1>2. Cardinality(SUBSET (1 .. n + 1)) = 2^(n + 1)
  BY PowerIsCount, n + 1 \in Nat
<1>3. SUBSET (1 .. n + 1) = S \union W
  <2>1. ASSUME NEW s \in SUBSET (1 .. n + 1) PROVE s \in S \union W
    <3>1. CASE n + 1 \in s
      <4>1. s \ {n + 1} \in S
        OBVIOUS
      <4>2. s = (s \ {n + 1}) \union {n + 1}
        BY <3>1
      <4> QED BY <4>1, <4>2
    <3>2. CASE n + 1 \notin s
      BY <3>2
    <3> QED BY <3>1, <3>2
  <2>2. ASSUME NEW s \in S \union W PROVE s \in SUBSET (1 .. n + 1)
    OBVIOUS
  <2> QED BY <2>1, <2>2
<1>4. S \cap W = {}
  OBVIOUS
<1>5. IsFiniteSet(W) /\ Cardinality(W) = Cardinality(S)
  <2> DEFINE f == [s \in S |-> s \union {n + 1}]
  <2>1. f \in Bijection(S, W)
    <3>1. f \in [S -> W]
      OBVIOUS
    <3>2. \A s, t \in S : f[s] = f[t] => s = t
      <4> SUFFICES ASSUME NEW s \in S, NEW t \in S, s \union {n + 1} = t \union {n + 1}
                   PROVE  s = t
        OBVIOUS
      <4>1. n + 1 \notin s /\ n + 1 \notin t
        OBVIOUS
      <4> QED BY <4>1
    <3>3. \A w \in W : \E s \in S : f[s] = w
      OBVIOUS
    <3> QED BY <3>1, <3>2, <3>3 DEF Bijection, Injection, Surjection, IsInjective
  <2> QED BY <1>1, <2>1, FS_Bijection DEF ExistsBijection
<1>6. Cardinality(S \union W) = Cardinality(S) + Cardinality(W)
  <2>1. Cardinality(S \union W) = Cardinality(S) + Cardinality(W) - Cardinality(S \cap W)
    BY <1>1, <1>5, FS_Union
  <2>2. Cardinality(S \cap W) = 0
    BY <1>4, FS_EmptySet
  <2>3. Cardinality(S) \in Nat /\ Cardinality(W) \in Nat
    BY <1>1, <1>5
  <2> QED BY <2>1, <2>2, <2>3
<1>7. /\ Cardinality(S) = 2^n /\ 2^n \in Nat
      /\ Cardinality(SUBSET (1 .. n + 1)) = Cardinality(S) + Cardinality(S)
  BY <1>1, <1>3, <1>5, <1>6
<1> HIDE DEF S, W
<1>8. 2^(n + 1) = 2^n + 2^n
  BY <1>2, <1>7
<1> QED BY <1>7, <1>8

\* A power of two is positive.
LEMMA PowerType == \A n \in Nat : 2^n \in Nat \ {0}
<1> DEFINE S == {n \in Nat : 2^n \in Nat \ {0}}
<1>1. 0 \in S
  OBVIOUS
<1>2. \A n \in Nat : n \in S => n + 1 \in S
  BY PowerStep
<1>3. \A n \in Nat : n \in S
  <2> HIDE DEF S
  <2> QED BY <1>1, <1>2, NatInd
<1> QED BY <1>3

\* 2^(m + n) is the product of 2^m and 2^n.
LEMMA PowerSum ==
  ASSUME NEW m \in Nat, NEW n \in Nat
  PROVE  2^(m + n) = 2^m * 2^n
<1> DEFINE S == {k \in Nat : 2^(m + k) = 2^m * 2^k}
<1>1. 0 \in S
  BY PowerType
<1>2. \A k \in Nat : k \in S => k + 1 \in S
  <2> SUFFICES ASSUME NEW k \in Nat, 2^(m + k) = 2^m * 2^k
               PROVE  2^(m + (k + 1)) = 2^m * 2^(k + 1)
    OBVIOUS
  <2>1. 2^((m + k) + 1) = 2 * 2^(m + k) /\ m + (k + 1) = (m + k) + 1
    BY PowerStep
  <2>2. 2^(k + 1) = 2 * 2^k /\ 2^k \in Nat /\ 2^m \in Nat
    BY PowerStep, PowerType
  <2> DEFINE a == 2^m
             b == 2^k
  <2>3. a \in Nat /\ b \in Nat
    BY <2>2
  <2>4. 2 * (a * b) = a * (2 * b)
    <3> HIDE DEF a, b
    <3> QED BY <2>3
  <2> QED BY <2>1, <2>2, <2>4
<1>3. \A k \in Nat : k \in S
  <2> HIDE DEF S
  <2> QED BY <1>1, <1>2, NatInd
<1> QED BY <1>3

\* The powers grow.
LEMMA PowerGrows ==
  ASSUME NEW m \in Nat, NEW n \in Nat, m < n
  PROVE  2 * 2^m <= 2^n
<1>1. n - m - 1 \in Nat /\ n = (m + 1) + (n - m - 1) /\ m + 1 \in Nat
  OBVIOUS
<1>2. 2^n = 2^(m + 1) * 2^(n - m - 1)
  BY <1>1, PowerSum
<1>3. 2^(m + 1) = 2 * 2^m
  BY PowerStep
<1>4. 2^m \in Nat \ {0} /\ 2^(n - m - 1) \in Nat \ {0}
  BY <1>1, PowerType
<1> DEFINE a == 2 * 2^m
           b == 2^(n - m - 1)
<1>5. a \in Nat /\ b \in Nat \ {0}
  BY <1>4
<1>6. a <= a * b
  <2> HIDE DEF a, b
  <2> QED BY <1>5
<1> QED BY <1>2, <1>3, <1>6

(***************************************************************************)
(* Sums that are defined recursively.                                      *)
(***************************************************************************)
\* A sum written as a recursive function exists, and adds its terms one by one.
LEMMA SumExists ==
  ASSUME NEW T
  PROVE  \A n \in Nat : \E f : f = [i \in 0 .. n |-> IF i = 0 THEN 0 ELSE f[i - 1] + T[i]]
<1> DEFINE S == {n \in Nat : \E f : f = [i \in 0 .. n |-> IF i = 0 THEN 0 ELSE f[i - 1] + T[i]]}
<1>1. 0 \in S
  <2> DEFINE f == [i \in {0} |-> 0]
  <2>1. f = [i \in 0 .. 0 |-> IF i = 0 THEN 0 ELSE f[i - 1] + T[i]]
    OBVIOUS
  <2> HIDE DEF f
  <2> QED BY <2>1
<1>2. ASSUME NEW n \in S PROVE n + 1 \in S
  <2>1. PICK f : f = [i \in 0 .. n |-> IF i = 0 THEN 0 ELSE f[i - 1] + T[i]]
    OBVIOUS
  <2> DEFINE g == [i \in 0 .. n + 1 |-> IF i = n + 1 THEN f[n] + T[n + 1] ELSE f[i]]
  <2>2. ASSUME NEW i \in 0 .. n + 1 PROVE g[i] = IF i = 0 THEN 0 ELSE g[i - 1] + T[i]
    <3>1. CASE i = 0
      <4>1. f[0] = 0
        BY <2>1
      <4> QED BY <3>1, <4>1
    <3>2. CASE i = n + 1
      BY <3>2
    <3>3. CASE i \in 1 .. n
      <4>1. f[i] = f[i - 1] + T[i]
        BY <2>1, <3>3
      <4> QED BY <3>3, <4>1
    <3> QED BY <3>1, <3>2, <3>3
  <2>3. g = [i \in 0 .. n + 1 |-> IF i = 0 THEN 0 ELSE g[i - 1] + T[i]]
    <3> DEFINE h == [i \in 0 .. n + 1 |-> IF i = 0 THEN 0 ELSE g[i - 1] + T[i]]
    <3>1. \A i \in 0 .. n + 1 : g[i] = h[i]
      BY <2>2
    <3>2. DOMAIN g = 0 .. n + 1 /\ DOMAIN h = 0 .. n + 1
      OBVIOUS
    <3>3. g = [i \in 0 .. n + 1 |-> g[i]] /\ h = [i \in 0 .. n + 1 |-> h[i]]
      OBVIOUS
    <3> HIDE DEF g, h
    <3>4. g = h
      BY <3>1, <3>3
    <3> QED BY <3>4 DEF h
  <2> HIDE DEF g
  <2> QED BY <2>3
<1> HIDE DEF S
<1>3. \A n \in Nat : n \in S
  BY <1>1, <1>2, NatInd
<1> QED BY <1>3 DEF S

(***************************************************************************)
(* Division and binary digits.                                             *)
(***************************************************************************)
\* A quotient is the number that leaves a remainder below the divisor.
LEMMA DivUnique ==
  ASSUME NEW m \in Nat \ {0}, NEW q \in Nat, NEW r \in Nat, r < m
  PROVE  (m * q + r) \div m = q /\ (m * q + r) % m = r
<1> DEFINE y == m * q + r
           d == y \div m
           e == y % m
<1>1. y \in Nat /\ m * q \in Nat
  OBVIOUS
<1>2. d \in Nat /\ e \in Nat /\ e < m /\ y = m * d + e
  <2> HIDE DEF y
  <2> QED BY <1>1
<1>3. \A a \in Nat, b \in Nat : a > b => m * a >= m * b + m
  <2> SUFFICES ASSUME NEW a \in Nat, NEW b \in Nat, a > b PROVE m * a >= m * b + m
    OBVIOUS
  <2>1. a - b - 1 \in Nat /\ m * (a - b - 1) \in Nat
    OBVIOUS
  <2>2. m * (a - b - 1) = m * a - m * b - m
    OBVIOUS
  <2>3. m * a \in Nat /\ m * b \in Nat
    OBVIOUS
  <2> QED BY <2>1, <2>2, <2>3
<1>4. m * d + e = m * q + r
  BY <1>2
<1>5. m * d \in Nat /\ m * q \in Nat
  BY <1>2
<1> HIDE DEF d, e
<1>6. d = q
  <2>1. ~(d > q)
    BY <1>2, <1>3, <1>4, <1>5
  <2>2. ~(q > d)
    BY <1>2, <1>3, <1>4, <1>5
  <2> QED BY <1>2, <2>1, <2>2
<1>7. e = r
  BY <1>2, <1>4, <1>5, <1>6
<1> QED BY <1>6, <1>7 DEF d, e

\* A multiple of the divisor adds to the quotient only.
LEMMA DivAdd ==
  ASSUME NEW m \in Nat \ {0}, NEW x \in Nat, NEW c \in Nat
  PROVE  (x + m * c) \div m = (x \div m) + c
<1> DEFINE q == x \div m
           r == x % m
<1>1. q \in Nat /\ r \in Nat /\ r < m /\ x = m * q + r
  OBVIOUS
<1> HIDE DEF q, r
<1>2. x + m * c = m * (q + c) + r /\ q + c \in Nat
  <2>1. m * (q + c) = m * q + m * c
    BY <1>1
  <2>2. m * q \in Nat /\ m * c \in Nat
    BY <1>1
  <2> QED BY <1>1, <2>1, <2>2
<1>3. (m * (q + c) + r) \div m = q + c
  BY <1>1, <1>2, DivUnique
<1> QED BY <1>2, <1>3 DEF q

\* The binary digit of weight 2^i.
Digit(a, i) == (a \div 2^i) % 2

\* The positions of the ones among the lowest n digits.
DigitsOf(a, n) == {i \in 0 .. n - 1 : Digit(a, i) = 1}

\* A higher power changes no digit below it.
LEMMA DigitBelow ==
  ASSUME NEW n \in Nat, NEW i \in Nat, i < n, NEW x \in Nat
  PROVE  Digit(x + 2^n, i) = Digit(x, i)
<1>1. /\ n - i - 1 \in Nat /\ n = (i + 1) + (n - i - 1) /\ i + 1 \in Nat
  OBVIOUS
<1> DEFINE m == 2^i
           b == 2^(n - i - 1)
<1>2. m \in Nat \ {0} /\ b \in Nat
  BY <1>1, PowerType
<1>3. 2^n = (2 * m) * b
  BY <1>1, PowerSum, PowerStep
<1> HIDE DEF m, b
<1>4. 2^n = m * (2 * b) /\ 2 * b \in Nat
  BY <1>2, <1>3
<1>5. (x + m * (2 * b)) \div m = (x \div m) + 2 * b
  BY <1>2, <1>4, DivAdd
<1> DEFINE q == x \div m
<1>6. q \in Nat
  BY <1>2
<1> HIDE DEF q
<1>7. (q + 2 * b) % 2 = q % 2
  BY <1>2, <1>6
<1> QED BY <1>4, <1>5, <1>7 DEF Digit, m, q

\* The digit of weight 2^n of a number below 2^n, and of its sum with 2^n.
LEMMA DigitAt ==
  ASSUME NEW n \in Nat, NEW x \in Nat, x < 2^n
  PROVE  Digit(x, n) = 0 /\ Digit(x + 2^n, n) = 1
<1> DEFINE m == 2^n
<1>1. m \in Nat \ {0}
  BY PowerType
<1>2. x < m
  OBVIOUS
<1> HIDE DEF m
<1>3. (m * 0 + x) \div m = 0 /\ m * 0 + x = x
  BY <1>1, <1>2, DivUnique
<1>4. (m * 1 + x) \div m = 1 /\ m * 1 + x = x + m
  BY <1>1, <1>2, DivUnique
<1> QED BY <1>3, <1>4 DEF Digit, m

\* f adds up the powers of two with exponents in s, below n.
DigitSteps(s, f, n) ==
  /\ f[0] = 0
  /\ \A i \in 1 .. n : f[i] = f[i - 1] + (IF i - 1 \in s THEN 2^(i - 1) ELSE 0)

\* The sum of the powers with exponents in s is the number with these digits.
LEMMA SumHasDigits ==
  ASSUME NEW s, NEW f, NEW n \in Nat, DigitSteps(s, f, n)
  PROVE  f[n] \in 0 .. 2^n - 1 /\ DigitsOf(f[n], n) = s \intersect 0 .. n - 1
<1> DEFINE Good(k) == /\ f[k] \in Nat /\ f[k] < 2^k
                      /\ \A i \in Nat : i < k => (Digit(f[k], i) = 1 <=> i \in s)
           S == {k \in Nat : k <= n => Good(k)}
<1>1. 0 \in S
  BY DEF DigitSteps
<1>2. ASSUME NEW k \in Nat, k \in S PROVE k + 1 \in S
  <2> SUFFICES ASSUME k + 1 <= n PROVE Good(k + 1)
    OBVIOUS
  <2>1. Good(k)
    BY <1>2
  <2>2. f[k + 1] = f[k] + (IF k \in s THEN 2^k ELSE 0)
    <3>1. k + 1 \in 1 .. n /\ (k + 1) - 1 = k
      OBVIOUS
    <3> QED BY <3>1 DEF DigitSteps
  <2>3. 2^(k + 1) = 2 * 2^k /\ 2^k \in Nat \ {0} /\ 2^(k + 1) \in Nat
    BY PowerStep, PowerType
  <2>4. f[k + 1] \in Nat /\ f[k + 1] < 2^(k + 1)
    BY <2>1, <2>2, <2>3
  <2>5. Digit(f[k + 1], k) = 1 <=> k \in s
    BY <2>1, <2>2, DigitAt
  <2>6. ASSUME NEW i \in Nat, i < k PROVE Digit(f[k + 1], i) = 1 <=> i \in s
    <3>1. Digit(f[k] + 2^k, i) = Digit(f[k], i)
      BY <2>1, <2>6, DigitBelow
    <3> QED BY <2>1, <2>2, <2>6, <3>1
  <2>7. \A i \in Nat : i < k + 1 => i < k \/ i = k
    OBVIOUS
  <2> QED BY <2>4, <2>5, <2>6, <2>7
<1>3. \A k \in Nat : k \in S
  <2> HIDE DEF S
  <2> QED BY <1>1, <1>2, NatInd
<1>4. Good(n)
  BY <1>3
<1>5. f[n] \in 0 .. 2^n - 1
  BY <1>4, PowerType
<1> QED BY <1>4, <1>5 DEF DigitsOf

\* A number has one set of digits, and no other number of that length has it.
LEMMA DigitsDetermine ==
  ASSUME NEW n \in Nat, NEW a \in 0 .. 2^n - 1, NEW b \in 0 .. 2^n - 1,
         DigitsOf(a, n) = DigitsOf(b, n)
  PROVE  a = b
<1> DEFINE Same(x, y, k) == \A i \in Nat : i < k => (Digit(x, i) = 1 <=> Digit(y, i) = 1)
           S == {k \in Nat : \A x, y \in Nat : x < 2^k /\ y < 2^k /\ Same(x, y, k) => x = y}
<1>1. 0 \in S
  OBVIOUS
<1>2. ASSUME NEW k \in Nat, k \in S PROVE k + 1 \in S
  <2> SUFFICES ASSUME NEW x \in Nat, NEW y \in Nat,
                      x < 2^(k + 1), y < 2^(k + 1), Same(x, y, k + 1)
               PROVE  x = y
    OBVIOUS
  <2>1. 2^(k + 1) = 2 * 2^k /\ 2^k \in Nat \ {0}
    BY PowerStep, PowerType
  <2> DEFINE Low(z) == IF z < 2^k THEN z ELSE z - 2^k
  <2>2. ASSUME NEW z \in Nat, z < 2^(k + 1)
        PROVE  /\ Low(z) \in Nat /\ Low(z) < 2^k
               /\ z = IF Digit(z, k) = 1 THEN Low(z) + 2^k ELSE Low(z)
               /\ \A i \in Nat : i < k => Digit(z, i) = Digit(Low(z), i)
    <3>1. Low(z) \in Nat /\ Low(z) < 2^k /\ (z < 2^k \/ z = Low(z) + 2^k)
      BY <2>1, <2>2
    <3>2. CASE z < 2^k
      BY <3>1, <3>2, DigitAt
    <3>3. CASE ~(z < 2^k)
      <4>1. z = Low(z) + 2^k
        BY <3>1, <3>3
      <4>2. Digit(z, k) = 1
        BY <3>1, <4>1, DigitAt
      <4>3. \A i \in Nat : i < k => Digit(z, i) = Digit(Low(z), i)
        <5> HIDE DEF Low
        <5> QED BY <3>1, <4>1, DigitBelow
      <4> QED BY <3>1, <4>1, <4>2, <4>3
    <3> QED BY <3>2, <3>3
  <2> HIDE DEF Low
  <2>3. Same(Low(x), Low(y), k)
    BY <2>2
  <2>4. Low(x) = Low(y)
    BY <1>2, <2>2, <2>3
  <2>5. Digit(x, k) = 1 <=> Digit(y, k) = 1
    OBVIOUS
  <2> QED BY <2>2, <2>4, <2>5
<1>3. \A k \in Nat : k \in S
  <2> HIDE DEF S
  <2> QED BY <1>1, <1>2, NatInd
<1>4. a \in Nat /\ b \in Nat /\ a < 2^n /\ b < 2^n
  BY PowerType
<1>5. Same(a, b, n)
  BY DEF DigitsOf
<1> QED BY <1>3, <1>4, <1>5

\* There is such a sum for every set of exponents.
LEMMA DigitSum ==
  ASSUME NEW s, NEW n \in Nat
  PROVE  \E f : f = [i \in 0 .. n |-> IF i = 0 THEN 0
                                      ELSE f[i - 1] + (IF i - 1 \in s THEN 2^(i - 1) ELSE 0)]
<1> DEFINE T == [i \in 1 .. n |-> IF i - 1 \in s THEN 2^(i - 1) ELSE 0]
           Sum(f) == [i \in 0 .. n |-> IF i = 0 THEN 0
                                       ELSE f[i - 1] + (IF i - 1 \in s THEN 2^(i - 1) ELSE 0)]
<1>1. PICK f : f = [i \in 0 .. n |-> IF i = 0 THEN 0 ELSE f[i - 1] + T[i]]
  BY SumExists
<1>2. \A h : Sum(h) = [i \in 0 .. n |-> IF i = 0 THEN 0 ELSE h[i - 1] + T[i]]
  <2>1. \A i \in 0 .. n : i # 0 => T[i] = IF i - 1 \in s THEN 2^(i - 1) ELSE 0
    OBVIOUS
  <2> HIDE DEF T
  <2> QED BY <2>1
<1>3. f = Sum(f)
  <2> HIDE DEF Sum, T
  <2> QED BY <1>1, <1>2
<1> QED BY <1>3

\* Every set of positions is the set of the ones of a number.
LEMMA DigitsExist ==
  ASSUME NEW n \in Nat, NEW s \in SUBSET (0 .. n - 1)
  PROVE  \E w \in 0 .. 2^n - 1 : DigitsOf(w, n) = s
<1>1. PICK f : f = [i \in 0 .. n |-> IF i = 0 THEN 0
                                     ELSE f[i - 1] + (IF i - 1 \in s THEN 2^(i - 1) ELSE 0)]
  BY DigitSum
<1>2. DigitSteps(s, f, n)
  BY <1>1 DEF DigitSteps
<1>3. f[n] \in 0 .. 2^n - 1 /\ DigitsOf(f[n], n) = s \intersect 0 .. n - 1
  BY <1>2, SumHasDigits
<1>4. s \intersect 0 .. n - 1 = s
  OBVIOUS
<1> QED BY <1>3, <1>4

\* f is defined by recursion: it begins with start and goes on by G.
Recursive(f, n, start, G) == f = [i \in 0 .. n |-> IF i = 0 THEN start ELSE G[i][f[i - 1]]]

\* There is such a function.
LEMMA RecursionExists ==
  ASSUME NEW V, NEW start \in V, NEW G, \A i \in Nat, v \in V : G[i][v] \in V
  PROVE  \A n \in Nat : \E f \in [0 .. n -> V] : Recursive(f, n, start, G)
<1> USE DEF Recursive
<1> DEFINE S == {n \in Nat : \E f \in [0 .. n -> V] :
                   f = [i \in 0 .. n |-> IF i = 0 THEN start ELSE G[i][f[i - 1]]]}
<1>1. 0 \in S
  <2> DEFINE f == [i \in 0 .. 0 |-> start]
  <2>1. f \in [0 .. 0 -> V] /\ f = [i \in 0 .. 0 |-> IF i = 0 THEN start ELSE G[i][f[i - 1]]]
    OBVIOUS
  <2> HIDE DEF f
  <2> QED BY <2>1
<1>2. ASSUME NEW n \in S PROVE n + 1 \in S
  <2>0. n \in Nat
    OBVIOUS
  <2>1. PICK f \in [0 .. n -> V] : f = [i \in 0 .. n |-> IF i = 0 THEN start ELSE G[i][f[i - 1]]]
    OBVIOUS
  <2>9. \A i \in 0 .. n : f[i] = IF i = 0 THEN start ELSE G[i][f[i - 1]]
    BY <2>1, Zenon
  <2> DEFINE g == [i \in 0 .. n + 1 |-> IF i = n + 1 THEN G[n + 1][f[n]] ELSE f[i]]
  <2>2. ASSUME NEW i \in 0 .. n + 1
        PROVE  g[i] \in V /\ g[i] = IF i = 0 THEN start ELSE G[i][g[i - 1]]
    <3>1. CASE i = 0
      <4>1. f[0] = start /\ g[0] = f[0]
        BY <2>0, <2>9
      <4> QED BY <3>1, <4>1
    <3>2. CASE i = n + 1
      <4>1. g[i] = G[n + 1][f[n]] /\ g[i - 1] = f[n] /\ i # 0 /\ f[n] \in V /\ n + 1 \in Nat
        BY <2>0, <3>2
      <4> QED BY <3>2, <4>1
    <3>3. CASE i \in 1 .. n
      <4>1. f[i] = G[i][f[i - 1]] /\ f[i] \in V
        BY <2>0, <2>9, <3>3
      <4>2. g[i] = f[i] /\ g[i - 1] = f[i - 1] /\ i # 0
        BY <2>0, <3>3
      <4> QED BY <4>1, <4>2
    <3> QED BY <2>0, <3>1, <3>2, <3>3
  <2>3. g = [i \in 0 .. n + 1 |-> IF i = 0 THEN start ELSE G[i][g[i - 1]]]
    <3> DEFINE h == [i \in 0 .. n + 1 |-> IF i = 0 THEN start ELSE G[i][g[i - 1]]]
    <3>1. \A i \in 0 .. n + 1 : g[i] = h[i]
      BY <2>2
    <3>3. g = [i \in 0 .. n + 1 |-> g[i]] /\ h = [i \in 0 .. n + 1 |-> h[i]]
      OBVIOUS
    <3> HIDE DEF g, h
    <3>4. g = h
      BY <3>1, <3>3
    <3> QED BY <3>4 DEF h
  <2>4. g \in [0 .. n + 1 -> V]
    <3>1. DOMAIN g = 0 .. n + 1 /\ g = [i \in 0 .. n + 1 |-> g[i]]
      OBVIOUS
    <3> HIDE DEF g
    <3> QED BY <2>2, <3>1
  <2>5. n + 1 \in Nat
    BY <2>0
  <2> HIDE DEF g
  <2> QED BY <2>3, <2>4, <2>5
<1> HIDE DEF S
<1>3. \A n \in Nat : n \in S
  BY <1>1, <1>2, NatInd
<1> QED BY <1>3 DEF S

\* Multiplying by a power of two moves the digits up.
LEMMA DigitsShifted ==
  ASSUME NEW a \in Nat, NEW k \in Nat
  PROVE  /\ \A i \in Nat : Digit(a * 2^k, i + k) = Digit(a, i)
         /\ \A i \in Nat : i < k => Digit(a * 2^k, i) = 0
<1> DEFINE c == a * 2^k
<1>1. a \in Nat /\ c \in Nat
  BY PowerType
<1>2. ASSUME NEW i \in Nat PROVE Digit(c, i + k) = Digit(a, i)
  <2>1. 2^(i + k) = 2^i * 2^k
    BY PowerSum
  <2> DEFINE m == 2^i
             p == 2^k
             q == a \div m
             r == a % m
  <2>2. m \in Nat \ {0} /\ p \in Nat \ {0}
    BY PowerType
  <2>3. q \in Nat /\ r \in Nat /\ r < m /\ a = m * q + r
    <3> HIDE DEF m
    <3> QED BY <1>1, <2>2
  <2>4. (a * p) \div (m * p) = q
    <3> HIDE DEF m, p, q, r
    <3>1. m * p \in Nat \ {0} /\ r * p \in Nat /\ r * p < m * p
      BY <2>2, <2>3
    <3>2. ((m * p) * q + r * p) \div (m * p) = q
      BY <2>3, <3>1, DivUnique
    <3>3. a * p = (m * q + r) * p
      BY <2>3
    <3>4. (m * q + r) * p = (m * p) * q + r * p
      BY <2>2, <2>3
    <3> QED BY <3>2, <3>3, <3>4
  <2> QED BY <2>1, <2>4 DEF Digit
<1>3. ASSUME NEW i \in Nat, i < k PROVE Digit(c, i) = 0
  <2>1. k - i - 1 \in Nat /\ (i + 1) + (k - i - 1) = k /\ i + 1 \in Nat
    BY <1>3
  <2> DEFINE m == 2^i
             p == 2^(k - i - 1)
  <2>2. m \in Nat \ {0} /\ p \in Nat
    BY <2>1, PowerType
  <2>3. 2^k = (2 * m) * p
    BY <2>1, PowerSum, PowerStep
  <2>4. (c \div m) % 2 = 0
    <3>1. c = m * (2 * (a * p)) + 0
      <4> HIDE DEF m, p
      <4> QED BY <1>1, <2>2, <2>3
    <3> HIDE DEF m, p, c
    <3>2. 2 * (a * p) \in Nat /\ a * p \in Nat
      BY <1>1, <2>2
    <3>3. c \div m = 2 * (a * p)
      BY <2>2, <3>1, <3>2, DivUnique
    <3> DEFINE u == a * p
    <3> HIDE DEF u
    <3> QED BY <3>2, <3>3 DEF u
  <2> QED BY <2>4 DEF Digit
<1> QED BY <1>2, <1>3

\* A number is less than the power of two it names.
LEMMA PowerExceeds == \A n \in Nat : n < 2^n
<1> DEFINE S == {n \in Nat : n < 2^n}
<1>1. 0 \in S
  OBVIOUS
<1>2. \A n \in Nat : n \in S => n + 1 \in S
  <2> SUFFICES ASSUME NEW n \in Nat, n < 2^n PROVE n + 1 < 2^(n + 1)
    OBVIOUS
  <2>1. 2^(n + 1) = 2 * 2^n /\ 2^n \in Nat \ {0}
    BY PowerStep, PowerType
  <2> QED BY <2>1
<1> HIDE DEF S
<1>3. \A n \in Nat : n \in S
  BY <1>1, <1>2, NatInd
<1> QED BY <1>3 DEF S

\* Quotients by successive powers of two.
Shifted(u, e) == u \div 2^e

\* Each is half the one before.
LEMMA ShiftedHalves ==
  ASSUME NEW u \in Nat, NEW e \in Nat
  PROVE  Shifted(u, e + 1) = Shifted(u, e) \div 2
<1> DEFINE m == 2^e
           q == u \div m
           r == u % m
           h == q \div 2
           b == q % 2
           w == m * b + r
<1>1. m \in Nat \ {0} /\ 2^(e + 1) = 2 * m
  BY PowerType, PowerStep
<1>2. q \in Nat /\ r \in Nat /\ r < m /\ u = m * q + r
  <2> HIDE DEF m
  <2> QED BY <1>1
<1>3. h \in Nat /\ b \in {0, 1} /\ q = 2 * h + b
  <2> HIDE DEF q
  <2> QED BY <1>2
<1> HIDE DEF m, q, r, h, b
<1>4. w \in Nat /\ w < 2 * m
  BY <1>1, <1>2, <1>3
<1>5. u = (2 * m) * h + w
  <2>1. m * q = (2 * m) * h + m * b /\ m * b \in Nat /\ (2 * m) * h \in Nat
    BY <1>1, <1>2, <1>3
  <2> QED BY <1>2, <2>1
<1>6. 2 * m \in Nat \ {0}
  BY <1>1
<1>7. u \div (2 * m) = h
  <2> DEFINE n == 2 * m
  <2>1. n \in Nat \ {0} /\ w < n /\ u = n * h + w
    BY <1>4, <1>5, <1>6
  <2> HIDE DEF n, w
  <2> QED BY <1>3, <1>4, <2>1, DivUnique DEF n
<1> QED BY <1>1, <1>7 DEF Shifted, m, q, h
=============================================================================
