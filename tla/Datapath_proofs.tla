-------------------------- MODULE Datapath_proofs --------------------------
(***************************************************************************)
(* Proofs about the executors, for registers and floats of every width and *)
(* for every register file.  First what every helper returns, so that the  *)
(* results are words: the binary searches, the parallel count, rounding    *)
(* and the operations of the host; then the effects, the steps, and the    *)
(* types.  Next what the results mean: one order of words and of floats,   *)
(* conversions that are exact or saturate, the law of division, whole      *)
(* products, counts of zeros and of ones, and rotations.  Last: traps      *)
(* leave nothing behind, flags accrue, NaNs are canonical and the dynamic  *)
(* rounding mode is the one in frm.                                        *)
(***************************************************************************)
EXTENDS Datapath, Words_proofs

\* The numbers a word is measured by.
LEMMA Widths ==
  /\ XLEN \in Nat /\ XLEN >= 8 /\ XLEN - 1 \in Nat
  /\ 2^XLEN \in Nat /\ 2^XLEN >= 256 /\ 2^XLEN = 2 * MinSigned
  /\ MinSigned \in Nat \ {0} /\ MinSigned >= 128
  /\ AllOnes = 2^XLEN - 1
<1>1. ShamtBits \in Nat /\ ShamtBits >= 3
  BY WordAssumption, HartAssumption
<1>2. 2^3 = 8
  BY PowerStep
<1>3. XLEN >= 8 /\ XLEN \in Nat
  <2>1. CASE ShamtBits = 3
    BY <1>2, <2>1, HartAssumption
  <2>2. CASE ShamtBits > 3
    <3>1. 2 * 2^3 <= 2^ShamtBits
      BY <1>1, <2>2, PowerGrows
    <3> QED BY <1>2, <3>1, HartAssumption, WordAssumption
  <2> QED BY <1>1, <2>1, <2>2
<1>4. 2^7 = 128
  OBVIOUS
<1>5. 2^(XLEN - 1) \in Nat \ {0} /\ 2^(XLEN - 1) >= 128
  <2>1. CASE XLEN = 8
    BY <1>4, <2>1
  <2>2. CASE XLEN > 8
    <3>1. XLEN - 1 \in Nat /\ 7 < XLEN - 1
      BY <1>3, <2>2
    <3>2. PICK m \in Nat : m = 7
      OBVIOUS
    <3>3. 2 * 2^m <= 2^(XLEN - 1)
      BY <3>1, <3>2, PowerGrows
    <3>4. 2^m = 128
      BY <1>4, <3>2
    <3> QED BY <3>1, <3>3, <3>4, PowerType
  <2> QED BY <1>3, <2>1, <2>2
<1>6. 2^((XLEN - 1) + 1) = 2 * 2^(XLEN - 1) /\ (XLEN - 1) + 1 = XLEN
  BY <1>3, PowerStep
<1> QED BY <1>3, <1>5, <1>6 DEF MinSigned, AllOnes

\* The low part of any integer is a word.
LEMMA TruncWord == ASSUME NEW n \in Int PROVE Trunc(n) \in Word
<1> DEFINE m == 2^XLEN
<1>1. m \in Nat \ {0}
  BY Widths
<1>2. n % m \in 0 .. m - 1
  <2> HIDE DEF m
  <2> QED BY <1>1
<1> QED BY <1>2 DEF Trunc, Word

\* Words are natural numbers; some of them.
LEMMA WordType ==
  /\ \A a \in Word : a \in Nat /\ a <= AllOnes
  /\ \A a \in Nat : a <= AllOnes => a \in Word
  /\ 0 \in Word /\ 1 \in Word /\ AllOnes \in Word /\ MinSigned \in Word /\ MinSigned - 1 \in Word
BY Widths DEF Word

\* Both ends of what a word means read with a sign.
LEMMA SignedType ==
  ASSUME NEW a \in Word
  PROVE  Signed(a) \in Int /\ Signed(a) >= -MinSigned /\ Signed(a) < MinSigned
BY Widths DEF Signed, Word, MinSigned

\* A quotient by a power of two, and a remainder.
LEMMA QuotientWord ==
  ASSUME NEW a \in Nat, NEW m \in Nat \ {0}
  PROVE  a \div m \in Nat /\ a \div m <= a /\ a % m \in Nat /\ a % m <= a /\ a % m < m
<1> DEFINE q == a \div m
           r == a % m
<1>1. q \in Nat /\ r \in Nat /\ r < m /\ a = m * q + r
  OBVIOUS
<1> HIDE DEF q, r
<1>2. q <= m * q /\ m * q \in Nat
  BY <1>1
<1> QED BY <1>1, <1>2 DEF q, r

\* The bit operations give words, whatever they are given.
LEMMA SetWords ==
  ASSUME NEW a, NEW b
  PROVE  And(a, b) \in Word /\ Or(a, b) \in Word /\ Xor(a, b) \in Word
BY WordOfOnes DEF And, Or, Xor

\* A shift to the left gives a word,
LEMMA ShlWord == ASSUME NEW a, NEW k PROVE Shl(a, k) \in Word
BY WordOfOnes DEF Shl

\* and so does the complement,
LEMMA NotWord == ASSUME NEW a \in Word PROVE Not(a) \in Word
BY WordType, Widths DEF Not

\* a shift to the right,
LEMMA ShrWord ==
  ASSUME NEW a \in Word, NEW k \in Nat
  PROVE  Shr(a, k) \in Word /\ Shr(a, k) <= a
<1> DEFINE m == 2^k
<1>1. m \in Nat \ {0}
  BY PowerType
<1>2. a \div m \in Nat /\ a \div m <= a
  <2> HIDE DEF m
  <2> QED BY <1>1, QuotientWord, WordType
<1> HIDE DEF m
<1>3. Shr(a, k) = IF k >= XLEN THEN 0 ELSE a \div m
  BY DEF Shr, m
<1> QED BY <1>2, <1>3, WordType, Widths

\* and one that copies the sign.
LEMMA SarWord ==
  ASSUME NEW a \in Word, NEW k \in Nat
  PROVE  Sar(a, k) \in Word
<1> DEFINE j == IF k >= XLEN THEN XLEN - 1 ELSE k
           m == 2^j
<1>1. j \in Nat
  BY Widths
<1>2. m \in Nat \ {0}
  <2> HIDE DEF j
  <2> QED BY <1>1, PowerType
<1>3. Signed(a) \div m \in Int
  <2> HIDE DEF m
  <2> QED BY <1>2, SignedType
<1> QED BY <1>3, TruncWord DEF Sar

\* A shift amount is a position of a word.
LEMMA ShamtType ==
  ASSUME NEW b \in Int
  PROVE  Shamt(b) \in Nat /\ Shamt(b) < XLEN
<1> DEFINE m == 2^ShamtBits
<1>1. m \in Nat \ {0} /\ m = XLEN
  BY HartAssumption, Widths
<1>2. b % m \in 0 .. m - 1
  <2> HIDE DEF m
  <2> QED BY <1>1
<1> QED BY <1>1, <1>2 DEF Shamt

\* A part of a word, extended by its sign.
LEMMA ExtendWord ==
  ASSUME NEW a \in Word, NEW n \in Nat
  PROVE  SignExtend(a, n) \in Word /\ a % 2^n \in Word
<1> DEFINE m == 2^n
           h == 2^(n - 1)
<1>1. m \in Nat \ {0}
  BY PowerType
<1>2. a % m \in Word /\ Trunc((a % m) - m) \in Word
  <2> HIDE DEF m
  <2>1. a % m \in Nat /\ a % m <= a
    BY <1>1, QuotientWord, WordType
  <2>2. (a % m) - m \in Int
    BY <1>1, <2>1
  <2> QED BY <2>1, <2>2, TruncWord, WordType, Widths
<1>3. SignExtend(a, n) = IF a % m >= h THEN Trunc((a % m) - m) ELSE a % m
  BY DEF SignExtend
<1> HIDE DEF m, h
<1> QED BY <1>2, <1>3 DEF m

\* The widths the binary searches halve.
Half(k) == XLEN \div 2^k

\* They begin with the word and end with one bit.
LEMMA Halves ==
  /\ ShamtBits \in Nat /\ ShamtBits >= 3
  /\ Half(0) = XLEN /\ Half(ShamtBits) = 1
  /\ \A k \in Nat : Half(k) \in Nat
  /\ \A k \in Nat : k < ShamtBits => Half(k) = 2 * Half(k + 1) /\ Half(k + 1) >= 1
<1>1. ShamtBits \in Nat /\ ShamtBits >= 3 /\ XLEN = 2^ShamtBits /\ XLEN \in Nat
  BY WordAssumption, HartAssumption
<1>2. ASSUME NEW k \in Nat PROVE Half(k) \in Nat
  <2> DEFINE m == 2^k
  <2>1. m \in Nat \ {0}
    BY PowerType
  <2>2. XLEN \div m \in Nat
    <3> HIDE DEF m
    <3> QED BY <1>1, <2>1, QuotientWord
  <2> QED BY <2>2 DEF Half
<1>3. ASSUME NEW k \in Nat, k <= ShamtBits PROVE Half(k) = 2^(ShamtBits - k)
  <2> DEFINE m == 2^k
             h == 2^(ShamtBits - k)
  <2>1. ShamtBits - k \in Nat /\ k + (ShamtBits - k) = ShamtBits
    BY <1>1, <1>3
  <2>2. XLEN = m * h
    BY <1>1, <2>1, PowerSum
  <2>3. m \in Nat \ {0} /\ h \in Nat
    BY <2>1, PowerType
  <2>4. XLEN \div m = h
    <3> HIDE DEF m, h
    <3>1. (m * h + 0) \div m = h
      BY <2>3, DivUnique
    <3>2. m * h + 0 = m * h
      BY <2>3
    <3> QED BY <2>2, <3>1, <3>2
  <2> QED BY <2>4 DEF Half
<1>4. ASSUME NEW k \in Nat, k < ShamtBits PROVE Half(k) = 2 * Half(k + 1) /\ Half(k + 1) >= 1
  <2>1. ShamtBits - (k + 1) \in Nat /\ (ShamtBits - (k + 1)) + 1 = ShamtBits - k /\ k + 1 \in Nat
        /\ k + 1 <= ShamtBits /\ k <= ShamtBits
    BY <1>1, <1>4
  <2>2. 2^((ShamtBits - (k + 1)) + 1) = 2 * 2^(ShamtBits - (k + 1))
    BY <2>1, PowerStep
  <2>3. Half(k) = 2^(ShamtBits - k) /\ Half(k + 1) = 2^(ShamtBits - (k + 1))
    BY <1>3, <2>1
  <2>4. 2^(ShamtBits - (k + 1)) \in Nat \ {0}
    BY <2>1, PowerType
  <2> QED BY <2>1, <2>2, <2>3, <2>4
<1>5. Half(0) = XLEN
  BY <1>1, <1>3
<1>6. Half(ShamtBits) = 1
  <2>1. ShamtBits \in Nat /\ ShamtBits <= ShamtBits /\ ShamtBits - ShamtBits = 0
    BY <1>1
  <2>2. Half(ShamtBits) = 2^(ShamtBits - ShamtBits)
    BY <1>3, <2>1, Zenon
  <2>3. 2^0 = 1
    OBVIOUS
  <2> QED BY <2>1, <2>2, <2>3, Zenon
<1> QED BY <1>1, <1>2, <1>4, <1>5, <1>6

\* One step of the searches of clz and ctz: a count and what is left.
Searching == [n : Nat, x : Word]
ClzStep(k, s) ==
  IF Shr(s.x, XLEN - Half(k)) = 0 THEN [n |-> s.n + Half(k), x |-> Shl(s.x, Half(k))] ELSE s
CtzStep(k, s) ==
  IF s.x % 2^Half(k) = 0 THEN [n |-> s.n + Half(k), x |-> Shr(s.x, Half(k))] ELSE s

\* A step leaves a count and a word.
LEMMA SearchSteps ==
  ASSUME NEW k \in Nat, NEW s \in Searching
  PROVE  ClzStep(k, s) \in Searching /\ CtzStep(k, s) \in Searching
<1>1. Half(k) \in Nat /\ s.n \in Nat /\ s.x \in Word
  BY Halves DEF Searching
<1>2. ClzStep(k, s) \in Searching
  BY <1>1, ShlWord DEF ClzStep, Searching
<1>3. CtzStep(k, s) \in Searching
  BY <1>1, ShrWord DEF CtzStep, Searching
<1> QED BY <1>2, <1>3

\* The states the search of clz goes through.
LEMMA ClzSearch ==
  ASSUME NEW a \in Word
  PROVE  \E trail \in [0 .. ShamtBits -> Searching] :
           /\ trail[0] = [n |-> 0, x |-> a]
           /\ \A k \in Nat : k < ShamtBits => trail[k + 1] = ClzStep(k + 1, trail[k])
           /\ Clz(a) = IF a = 0 THEN XLEN ELSE trail[ShamtBits].n
<1> DEFINE start == [n |-> 0, x |-> a]
           G == [k \in Nat |-> [s \in Searching |-> ClzStep(k, s)]]
           F(trail) == [k \in 0 .. ShamtBits |-> IF k = 0 THEN [n |-> 0, x |-> a]
                      ELSE LET s == trail[k - 1]
                               half == XLEN \div 2^k
                           IN  IF Shr(s.x, XLEN - half) = 0
                               THEN [n |-> s.n + half, x |-> Shl(s.x, half)] ELSE s]
           g == CHOOSE trail : trail = F(trail)
<1>1. start \in Searching
  BY DEF Searching
<1>2. \A k \in Nat, s \in Searching : G[k][s] \in Searching
  BY SearchSteps
<1>3. ShamtBits \in Nat
  BY Halves
<1>4. PICK trail \in [0 .. ShamtBits -> Searching] :
        trail = [k \in 0 .. ShamtBits |-> IF k = 0 THEN start ELSE G[k][trail[k - 1]]]
  <2> HIDE DEF start, G
  <2>1. \E trail \in [0 .. ShamtBits -> Searching] : Recursive(trail, ShamtBits, start, G)
    BY <1>1, <1>2, <1>3, RecursionExists
  <2> QED BY <2>1 DEF Recursive
<1>5. \A h : F(h) = [k \in 0 .. ShamtBits |-> IF k = 0 THEN start ELSE ClzStep(k, h[k - 1])]
  BY DEF ClzStep, Half
<1>6. trail = F(trail)
  <2>1. \A k \in 0 .. ShamtBits : k # 0 => G[k][trail[k - 1]] = ClzStep(k, trail[k - 1])
    <3> SUFFICES ASSUME NEW k \in 0 .. ShamtBits, k # 0
                 PROVE  G[k][trail[k - 1]] = ClzStep(k, trail[k - 1])
      OBVIOUS
    <3>1. k \in Nat /\ k - 1 \in 0 .. ShamtBits
      BY <1>3
    <3>2. trail[k - 1] \in Searching
      BY <3>1
    <3> QED BY <3>1, <3>2
  <2>2. trail = [k \in 0 .. ShamtBits |-> IF k = 0 THEN start ELSE ClzStep(k, trail[k - 1])]
    <3> HIDE DEF start, G
    <3> QED BY <1>4, <2>1
  <2> HIDE DEF F, start
  <2> QED BY <1>5, <2>2
<1>7. g = F(g)
  <2> HIDE DEF F
  <2> QED BY <1>6
<1>8. Clz(a) = IF a = 0 THEN XLEN ELSE g[ShamtBits].n
  BY DEF Clz
<1> HIDE DEF g, F, G, start
<1>9. g = [k \in 0 .. ShamtBits |-> IF k = 0 THEN start ELSE ClzStep(k, g[k - 1])]
  BY <1>5, <1>7
<1>10. \A k \in 0 .. ShamtBits : g[k] = IF k = 0 THEN start ELSE ClzStep(k, g[k - 1])
  BY <1>9, Zenon
<1>11. g[0] = start /\ \A k \in Nat : k < ShamtBits => g[k + 1] = ClzStep(k + 1, g[k])
  <2>1. 0 \in 0 .. ShamtBits
    BY <1>3
  <2>2. g[0] = start
    BY <1>10, <2>1
  <2>3. ASSUME NEW k \in Nat, k < ShamtBits PROVE g[k + 1] = ClzStep(k + 1, g[k])
    <3>1. k + 1 \in 0 .. ShamtBits /\ k + 1 # 0 /\ (k + 1) - 1 = k
      BY <1>3, <2>3
    <3>2. g[k + 1] = IF k + 1 = 0 THEN start ELSE ClzStep(k + 1, g[(k + 1) - 1])
      BY <1>10, <3>1, Zenon
    <3> QED BY <3>1, <3>2
  <2> QED BY <2>2, <2>3
<1>12. g \in [0 .. ShamtBits -> Searching]
  <2> DEFINE S == {k \in Nat : k <= ShamtBits => g[k] \in Searching}
  <2>1. 0 \in S
    BY <1>1, <1>11
  <2>2. \A k \in Nat : k \in S => k + 1 \in S
    <3> SUFFICES ASSUME NEW k \in Nat, k \in S, k + 1 <= ShamtBits PROVE g[k + 1] \in Searching
      OBVIOUS
    <3>1. k < ShamtBits /\ g[k] \in Searching /\ k + 1 \in Nat
      BY <1>3
    <3> QED BY <1>11, <3>1, SearchSteps
  <2>3. \A k \in Nat : k \in S
    <3> HIDE DEF S
    <3> QED BY <2>1, <2>2, NatInd
  <2>4. DOMAIN g = 0 .. ShamtBits /\ \A k \in 0 .. ShamtBits : g[k] \in Searching
    BY <1>3, <1>9, <2>3
  <2>5. g = [k \in 0 .. ShamtBits |-> g[k]]
    BY <1>9, Zenon
  <2> QED BY <2>4, <2>5
<1> QED BY <1>8, <1>11, <1>12 DEF start

\* The states the search of ctz goes through.
LEMMA CtzSearch ==
  ASSUME NEW a \in Word
  PROVE  \E trail \in [0 .. ShamtBits -> Searching] :
           /\ trail[0] = [n |-> 0, x |-> a]
           /\ \A k \in Nat : k < ShamtBits => trail[k + 1] = CtzStep(k + 1, trail[k])
           /\ Ctz(a) = IF a = 0 THEN XLEN ELSE trail[ShamtBits].n
<1> DEFINE start == [n |-> 0, x |-> a]
           G == [k \in Nat |-> [s \in Searching |-> CtzStep(k, s)]]
           F(trail) == [k \in 0 .. ShamtBits |-> IF k = 0 THEN [n |-> 0, x |-> a]
                      ELSE LET s == trail[k - 1]
                               half == XLEN \div 2^k
                           IN  IF s.x % 2^half = 0
                               THEN [n |-> s.n + half, x |-> Shr(s.x, half)] ELSE s]
           g == CHOOSE trail : trail = F(trail)
<1>1. start \in Searching
  BY DEF Searching
<1>2. \A k \in Nat, s \in Searching : G[k][s] \in Searching
  BY SearchSteps
<1>3. ShamtBits \in Nat
  BY Halves
<1>4. PICK trail \in [0 .. ShamtBits -> Searching] :
        trail = [k \in 0 .. ShamtBits |-> IF k = 0 THEN start ELSE G[k][trail[k - 1]]]
  <2> HIDE DEF start, G
  <2>1. \E trail \in [0 .. ShamtBits -> Searching] : Recursive(trail, ShamtBits, start, G)
    BY <1>1, <1>2, <1>3, RecursionExists
  <2> QED BY <2>1 DEF Recursive
<1>5. \A h : F(h) = [k \in 0 .. ShamtBits |-> IF k = 0 THEN start ELSE CtzStep(k, h[k - 1])]
  BY DEF CtzStep, Half
<1>6. trail = F(trail)
  <2>1. \A k \in 0 .. ShamtBits : k # 0 => G[k][trail[k - 1]] = CtzStep(k, trail[k - 1])
    <3> SUFFICES ASSUME NEW k \in 0 .. ShamtBits, k # 0
                 PROVE  G[k][trail[k - 1]] = CtzStep(k, trail[k - 1])
      OBVIOUS
    <3>1. k \in Nat /\ k - 1 \in 0 .. ShamtBits
      BY <1>3
    <3>2. trail[k - 1] \in Searching
      BY <3>1
    <3> QED BY <3>1, <3>2
  <2>2. trail = [k \in 0 .. ShamtBits |-> IF k = 0 THEN start ELSE CtzStep(k, trail[k - 1])]
    <3> HIDE DEF start, G
    <3> QED BY <1>4, <2>1
  <2> HIDE DEF F, start
  <2> QED BY <1>5, <2>2
<1>7. g = F(g)
  <2> HIDE DEF F
  <2> QED BY <1>6
<1>8. Ctz(a) = IF a = 0 THEN XLEN ELSE g[ShamtBits].n
  BY DEF Ctz
<1> HIDE DEF g, F, G, start
<1>9. g = [k \in 0 .. ShamtBits |-> IF k = 0 THEN start ELSE CtzStep(k, g[k - 1])]
  BY <1>5, <1>7
<1>10. \A k \in 0 .. ShamtBits : g[k] = IF k = 0 THEN start ELSE CtzStep(k, g[k - 1])
  BY <1>9, Zenon
<1>11. g[0] = start /\ \A k \in Nat : k < ShamtBits => g[k + 1] = CtzStep(k + 1, g[k])
  <2>1. 0 \in 0 .. ShamtBits
    BY <1>3
  <2>2. g[0] = start
    BY <1>10, <2>1
  <2>3. ASSUME NEW k \in Nat, k < ShamtBits PROVE g[k + 1] = CtzStep(k + 1, g[k])
    <3>1. k + 1 \in 0 .. ShamtBits /\ k + 1 # 0 /\ (k + 1) - 1 = k
      BY <1>3, <2>3
    <3>2. g[k + 1] = IF k + 1 = 0 THEN start ELSE CtzStep(k + 1, g[(k + 1) - 1])
      BY <1>10, <3>1, Zenon
    <3> QED BY <3>1, <3>2
  <2> QED BY <2>2, <2>3
<1>12. g \in [0 .. ShamtBits -> Searching]
  <2> DEFINE S == {k \in Nat : k <= ShamtBits => g[k] \in Searching}
  <2>1. 0 \in S
    BY <1>1, <1>11
  <2>2. \A k \in Nat : k \in S => k + 1 \in S
    <3> SUFFICES ASSUME NEW k \in Nat, k \in S, k + 1 <= ShamtBits PROVE g[k + 1] \in Searching
      OBVIOUS
    <3>1. k < ShamtBits /\ g[k] \in Searching /\ k + 1 \in Nat
      BY <1>3
    <3> QED BY <1>11, <3>1, SearchSteps
  <2>3. \A k \in Nat : k \in S
    <3> HIDE DEF S
    <3> QED BY <2>1, <2>2, NatInd
  <2>4. DOMAIN g = 0 .. ShamtBits /\ \A k \in 0 .. ShamtBits : g[k] \in Searching
    BY <1>3, <1>9, <2>3
  <2>5. g = [k \in 0 .. ShamtBits |-> g[k]]
    BY <1>9, Zenon
  <2> QED BY <2>4, <2>5
<1> QED BY <1>8, <1>11, <1>12 DEF start

\* A shift to the left multiplies, as long as nothing is shifted out.
LEMMA ShlMultiplies ==
  ASSUME NEW a \in Word, NEW k \in Nat, a * 2^k < 2^XLEN
  PROVE  Shl(a, k) = a * 2^k
<1> DEFINE c == a * 2^k
           s == {i + k : i \in Ones(a)}
<1>1. a \in Nat /\ XLEN \in Nat
  BY WordType, Widths
<1>2. c \in Word /\ c \in Nat
  BY <1>1, PowerType, Widths DEF Word
<1>3. ASSUME NEW i \in Nat PROVE Digit(c, i + k) = Digit(a, i)
  BY <1>1, DigitsShifted
<1>4. ASSUME NEW i \in Nat, i < k PROVE Digit(c, i) = 0
  BY <1>1, <1>4, DigitsShifted
<1>5. ASSUME NEW i \in Nat, i >= XLEN PROVE Digit(c, i) = 0
  <2>1. 2^XLEN <= 2^i
    <3>1. CASE i = XLEN
      BY <3>1, PowerType
    <3>2. CASE i > XLEN
      BY <1>1, <3>2, PowerGrows, PowerType
    <3> QED BY <1>1, <1>5, <3>1, <3>2
  <2> HIDE DEF c
  <2>2. c < 2^i
    BY <1>2, <2>1, PowerType, Widths DEF Word
  <2> QED BY <1>2, <2>2, DigitAt
<1>6. \A i : i \in Ones(c) <=> i \in Positions /\ Digit(c, i) = 1
  BY DEF Ones, Bit, Digit
<1>7. \A i : i \in Ones(a) <=> i \in Positions /\ Digit(a, i) = 1
  BY DEF Ones, Bit, Digit
<1> HIDE DEF c
<1>8. ASSUME NEW i \in Ones(c) PROVE i \in s
  <2>1. i \in Nat /\ i < XLEN /\ Digit(c, i) = 1
    BY <1>1, <1>6 DEF Positions
  <2>2. i >= k
    BY <1>4, <2>1
  <2>3. i - k \in Nat /\ (i - k) + k = i /\ i - k < XLEN
    BY <1>1, <2>1, <2>2
  <2>4. Digit(a, i - k) = 1
    BY <1>3, <2>1, <2>3
  <2> QED BY <1>1, <1>7, <2>3, <2>4 DEF Positions
<1>9. ASSUME NEW i \in s PROVE i \in Ones(c)
  <2>1. PICK j \in Ones(a) : i = j + k
    BY <1>9
  <2>2. j \in Nat /\ Digit(a, j) = 1
    BY <1>1, <1>7, <2>1 DEF Positions
  <2>3. Digit(c, i) = 1 /\ i \in Nat
    BY <1>3, <2>1, <2>2
  <2>4. i < XLEN
    BY <1>1, <1>5, <2>3
  <2> QED BY <1>1, <1>6, <2>3, <2>4 DEF Positions
<1>10. Ones(c) = s
  <2> HIDE DEF s
  <2> QED BY <1>8, <1>9
<1> QED BY <1>2, <1>10, OnesOfWord DEF Shl, c

\* Powers of two keep their order, and divide each other.
LEMMA PowerOrder ==
  ASSUME NEW m \in Nat, NEW n \in Nat, m <= n
  PROVE  2^m <= 2^n /\ 2^n = 2^m * 2^(n - m) /\ 2^(n - m) \in Nat \ {0} /\ 2^m \in Nat \ {0}
<1>1. n - m \in Nat /\ m + (n - m) = n
  OBVIOUS
<1>2. 2^n = 2^m * 2^(n - m)
  BY <1>1, PowerSum
<1>3. 2^(n - m) \in Nat \ {0} /\ 2^m \in Nat \ {0}
  BY <1>1, PowerType
<1> DEFINE a == 2^m
           b == 2^(n - m)
<1>4. a <= a * b
  <2>1. a \in Nat \ {0} /\ b \in Nat \ {0}
    BY <1>3
  <2> HIDE DEF a, b
  <2> QED BY <2>1
<1> QED BY <1>2, <1>3, <1>4

\* The search of clz ends with the highest one moved to the top.
LEMMA ClzFinds ==
  ASSUME NEW a \in Word, a # 0
  PROVE  /\ Clz(a) \in Nat /\ Clz(a) < XLEN
         /\ a * 2^Clz(a) < 2^XLEN /\ a * 2^Clz(a) >= 2^(XLEN - 1)
<1>1. PICK trail \in [0 .. ShamtBits -> Searching] :
        /\ trail[0] = [n |-> 0, x |-> a]
        /\ \A k \in Nat : k < ShamtBits => trail[k + 1] = ClzStep(k + 1, trail[k])
        /\ Clz(a) = trail[ShamtBits].n
  BY ClzSearch
<1> DEFINE Good(k) ==
             /\ trail[k].x = a * 2^trail[k].n
             /\ trail[k].n + Half(k) <= XLEN
             /\ trail[k].x >= 2^(XLEN - Half(k))
           S == {k \in Nat : k <= ShamtBits => Good(k)}
<1>2. a \in Nat /\ a >= 1 /\ XLEN \in Nat
  BY WordType, Widths
<1>3. 0 \in S
  <2>1. trail[0].n = 0 /\ trail[0].x = a
    BY <1>1
  <2>2. Half(0) = XLEN /\ XLEN - XLEN = 0 /\ 2^0 = 1
    BY <1>2, Halves
  <2>3. a * 1 = a /\ 0 + XLEN <= XLEN
    BY <1>2
  <2>4. Good(0)
    BY <1>2, <2>1, <2>2, <2>3
  <2> HIDE DEF Good
  <2> QED BY <2>4
<1>4. ASSUME NEW k \in Nat, k \in S, k + 1 <= ShamtBits PROVE Good(k + 1)
  <2> DEFINE h == Half(k + 1)
             s == trail[k]
             t == trail[k + 1]
  <2>1. k < ShamtBits /\ k \in 0 .. ShamtBits /\ k + 1 \in 0 .. ShamtBits
    BY <1>4, Halves
  <2>2. Half(k) = 2 * h /\ h \in Nat /\ h >= 1
    <3>1. k + 1 \in Nat
      OBVIOUS
    <3> QED BY <2>1, <3>1, Halves
  <2>3. s.n \in Nat /\ s.x \in Word /\ s.x \in Nat
    BY <1>1, <2>1, WordType DEF Searching
  <2>4. s.x = a * 2^s.n /\ s.n + Half(k) <= XLEN /\ s.x >= 2^(XLEN - Half(k))
    BY <1>4, <2>1
  <2>5. t = ClzStep(k + 1, s)
    BY <1>1, <2>1
  <2> HIDE DEF s, t, h
  <2>6. XLEN - h \in Nat /\ XLEN - h < XLEN /\ XLEN - 2 * h \in Nat /\ h \in Nat
    BY <1>2, <2>2, <2>3, <2>4
  <2>7. Shr(s.x, XLEN - h) = s.x \div 2^(XLEN - h)
    BY <2>6, <1>2 DEF Shr
  <2> DEFINE p == 2^(XLEN - h)
             y == 2^h
             z == 2^(XLEN - 2 * h)
  <2>8. /\ p \in Nat \ {0} /\ y \in Nat \ {0} /\ z \in Nat \ {0}
        /\ 2^XLEN = p * y /\ p = z * y
    <3>1. (XLEN - h) + h = XLEN /\ (XLEN - 2 * h) + h = XLEN - h
      BY <2>6, <1>2
    <3>2. 2^((XLEN - h) + h) = p * y /\ 2^((XLEN - 2 * h) + h) = z * y
      BY <2>6, PowerSum
    <3> QED BY <2>6, <3>1, <3>2, PowerType
  <2>9. CASE s.x >= p
    <3>1. Shr(s.x, XLEN - h) # 0
      <4> DEFINE q == s.x \div p
                 r == s.x % p
      <4>1. q \in Nat /\ r < p /\ s.x = p * q + r /\ r \in Nat
        <5>1. p \in Nat \ {0}
          BY <2>8
        <5> DEFINE u == s.x
        <5>2. u \in Nat
          BY <2>3
        <5> HIDE DEF p, u
        <5>3. u = p * (u \div p) + (u % p) /\ u \div p \in Nat /\ u % p \in Nat /\ u % p < p
          BY <5>1, <5>2
        <5> QED BY <5>3 DEF u
      <4>2. q # 0
        <5> HIDE DEF p, q, r
        <5> QED BY <4>1, <2>8, <2>9
      <4> QED BY <2>7, <4>2
    <3>2. t = s
      BY <2>5, <3>1 DEF ClzStep, h
    <3>3. t.x = a * 2^t.n /\ t.n + h <= XLEN /\ t.x >= p
      <4>1. s.n + h <= XLEN
        BY <1>2, <2>2, <2>3, <2>4
      <4> QED BY <2>4, <2>9, <3>2, <4>1
    <3> QED BY <3>3 DEF t, h
  <2>10. CASE s.x < p
    <3>1. Shr(s.x, XLEN - h) = 0
      <4>1. p * 0 + s.x = s.x /\ (p * 0 + s.x) \div p = 0
        <5> DEFINE u == s.x
        <5>1. u \in Nat /\ u < p /\ p \in Nat \ {0}
          BY <2>3, <2>8, <2>10
        <5> HIDE DEF p, u
        <5>2. (p * 0 + u) \div p = 0
          BY <5>1, DivUnique
        <5>3. p * 0 + u = u
          BY <5>1
        <5> QED BY <5>2, <5>3 DEF u
      <4> QED BY <2>7, <4>1
    <3>2. t.n = s.n + h /\ t.x = Shl(s.x, h)
      BY <2>5, <3>1 DEF ClzStep, h
    <3>3. s.x * y < 2^XLEN
      <4> HIDE DEF p, y
      <4> QED BY <2>3, <2>8, <2>10
    <3>4. t.x = s.x * y
      BY <2>3, <2>6, <3>2, <3>3, ShlMultiplies
    <3>5. 2^t.n = 2^s.n * y
      BY <2>3, <2>6, <3>2, PowerSum
    <3>6. t.x = a * 2^t.n
      <4> DEFINE w == 2^s.n
                 v == 2^t.n
      <4>1. w \in Nat /\ y \in Nat
        BY <2>3, <2>8, PowerType
      <4>2. s.x = a * w /\ v = w * y
        BY <2>4, <3>5
      <4> HIDE DEF w, y, v
      <4>3. (a * w) * y = a * (w * y)
        BY <1>2, <4>1
      <4>4. t.x = a * v
        BY <3>4, <4>2, <4>3
      <4> QED BY <4>4 DEF v
    <3>7. t.x >= p
      <4>1. s.x >= z
        BY <2>2, <2>4
      <4> HIDE DEF p, y, z
      <4> QED BY <2>3, <2>8, <3>4, <4>1
    <3>8. t.n + h <= XLEN
      BY <2>2, <2>3, <2>4, <3>2, <1>2
    <3> QED BY <3>6, <3>7, <3>8 DEF t, h
  <2> QED BY <2>3, <2>8, <2>9, <2>10
<1>5. \A k \in Nat : k \in S
  <2>1. \A k \in Nat : k \in S => k + 1 \in S
    BY <1>4
  <2> HIDE DEF S
  <2> QED BY <1>3, <2>1, NatInd
<1>6. ShamtBits \in Nat /\ ShamtBits \in 0 .. ShamtBits /\ Half(ShamtBits) = 1
  BY Halves
<1>7. Good(ShamtBits)
  <2>1. ShamtBits \in S
    <3> HIDE DEF S
    <3> QED BY <1>5, <1>6
  <2>2. ShamtBits <= ShamtBits
    BY <1>6
  <2> HIDE DEF Good
  <2> QED BY <2>1, <2>2
<1>8. trail[ShamtBits].n \in Nat /\ trail[ShamtBits].x \in Word
  BY <1>6 DEF Searching
<1> QED BY <1>1, <1>2, <1>6, <1>7, <1>8, Widths DEF Word

\* The search of ctz ends with the lowest one moved to the bottom.
LEMMA CtzFinds ==
  ASSUME NEW a \in Word, a # 0
  PROVE  /\ Ctz(a) \in Nat /\ Ctz(a) < XLEN
         /\ \E odd \in Nat : odd % 2 = 1 /\ a = odd * 2^Ctz(a)
<1>1. PICK trail \in [0 .. ShamtBits -> Searching] :
        /\ trail[0] = [n |-> 0, x |-> a]
        /\ \A k \in Nat : k < ShamtBits => trail[k + 1] = CtzStep(k + 1, trail[k])
        /\ Ctz(a) = trail[ShamtBits].n
  BY CtzSearch
<1> DEFINE Good(k) ==
             /\ a = trail[k].x * 2^trail[k].n
             /\ trail[k].n + Half(k) <= XLEN
             /\ trail[k].x % 2^Half(k) # 0
           S == {k \in Nat : k <= ShamtBits => Good(k)}
<1>2. a \in Nat /\ a >= 1 /\ XLEN \in Nat
  BY WordType, Widths
<1>3. 0 \in S
  <2>1. trail[0].n = 0 /\ trail[0].x = a
    BY <1>1
  <2>2. Half(0) = XLEN /\ 2^0 = 1
    BY <1>2, Halves
  <2>3. a * 1 = a /\ 0 + XLEN <= XLEN
    BY <1>2
  <2>4. a % 2^XLEN = a
    <3> DEFINE m == 2^XLEN
    <3>1. m \in Nat \ {0} /\ a < m
      BY Widths DEF Word
    <3>2. (m * 0 + a) % m = a /\ m * 0 + a = a
      <4> HIDE DEF m
      <4> QED BY <1>2, <3>1, DivUnique
    <3> QED BY <3>2
  <2>5. Good(0)
    BY <1>2, <2>1, <2>2, <2>3, <2>4
  <2> HIDE DEF Good
  <2> QED BY <2>5
<1>4. ASSUME NEW k \in Nat, k \in S, k + 1 <= ShamtBits PROVE Good(k + 1)
  <2> DEFINE h == Half(k + 1)
             s == trail[k]
             t == trail[k + 1]
  <2>1. k < ShamtBits /\ k \in 0 .. ShamtBits /\ k + 1 \in 0 .. ShamtBits /\ k + 1 \in Nat
    BY <1>4, Halves
  <2>2. Half(k) = 2 * h /\ h \in Nat /\ h >= 1
    BY <2>1, Halves
  <2>3. s.n \in Nat /\ s.x \in Word /\ s.x \in Nat
    BY <1>1, <2>1, WordType DEF Searching
  <2>4. a = s.x * 2^s.n /\ s.n + Half(k) <= XLEN /\ s.x % 2^Half(k) # 0
    BY <1>4, <2>1
  <2>5. t = CtzStep(k + 1, s)
    BY <1>1, <2>1
  <2> HIDE DEF s, t, h
  <2>6. h < XLEN /\ s.n + h + h <= XLEN
    BY <1>2, <2>2, <2>3, <2>4
  <2> DEFINE p == 2^h
             u == s.x
             y == u \div p
             z == u % p
  <2>7. p \in Nat \ {0} /\ 2^Half(k) = p * p
    <3>1. 2^(h + h) = p * p /\ Half(k) = h + h
      BY <2>2, PowerSum
    <3> QED BY <2>2, <3>1, PowerType
  <2>8. y \in Nat /\ z \in Nat /\ z < p /\ u = p * y + z
    <3>1. u \in Nat /\ p \in Nat \ {0}
      BY <2>3, <2>7
    <3> HIDE DEF p, u
    <3> QED BY <3>1
  <2>9. CASE z # 0
    <3>1. t = s
      BY <2>5, <2>9 DEF CtzStep, h
    <3>2. Good(k + 1)
      BY <1>2, <2>2, <2>3, <2>4, <2>6, <2>9, <3>1 DEF t, h
    <3> QED BY <3>2
  <2>10. CASE z = 0
    <3>1. t.n = s.n + h /\ t.x = Shr(u, h)
      BY <2>5, <2>10 DEF CtzStep, h
    <3>2. t.x = y
      BY <1>2, <2>2, <2>6, <3>1 DEF Shr
    <3>3. u = p * y
      <4> HIDE DEF p, u, y, z
      <4> QED BY <2>7, <2>8, <2>10
    <3>4. 2^t.n = 2^s.n * p
      BY <2>2, <2>3, <3>1, PowerSum
    <3>5. a = t.x * 2^t.n
      <4> DEFINE w == 2^s.n
                 v == 2^t.n
      <4>1. w \in Nat /\ p \in Nat /\ y \in Nat
        BY <2>3, <2>7, <2>8, PowerType
      <4>2. a = u * w /\ v = w * p
        BY <2>4, <3>4
      <4> HIDE DEF w, y, v, p, u
      <4>3. (p * y) * w = y * (w * p)
        BY <4>1
      <4>4. a = t.x * v
        BY <3>2, <3>3, <4>2, <4>3
      <4> QED BY <4>4 DEF v
    <3>6. y % p # 0
      <4>1. SUFFICES ASSUME y % p = 0 PROVE FALSE
        OBVIOUS
      <4>2. PICK c \in Nat : y = p * c
        <5>1. y \in Nat /\ p \in Nat \ {0}
          BY <2>7, <2>8
        <5> DEFINE c == y \div p
        <5>2. c \in Nat /\ y = p * c
          <6> HIDE DEF y, p
          <6> QED BY <4>1, <5>1
        <5> QED BY <5>2
      <4>3. (p * p) * c + 0 = u /\ p * p \in Nat \ {0}
        <5> HIDE DEF p, y, u
        <5> QED BY <2>7, <3>3, <4>2
      <4>4. ((p * p) * c + 0) % (p * p) = 0
        <5> HIDE DEF p, u
        <5> QED BY <4>3, DivUnique
      <4> QED BY <2>4, <2>7, <4>3, <4>4
    <3>7. t.x % p # 0
      BY <3>2, <3>6
    <3>8. t.n + h <= XLEN
      BY <1>2, <2>2, <2>3, <2>6, <3>1
    <3>9. Good(k + 1)
      BY <3>5, <3>7, <3>8 DEF t, h
    <3> QED BY <3>9
  <2> QED BY <2>9, <2>10
<1>5. \A k \in Nat : k \in S
  <2>1. \A k \in Nat : k \in S => k + 1 \in S
    BY <1>4
  <2> HIDE DEF S
  <2> QED BY <1>3, <2>1, NatInd
<1>6. ShamtBits \in Nat /\ ShamtBits \in 0 .. ShamtBits /\ Half(ShamtBits) = 1
  BY Halves
<1>7. Good(ShamtBits)
  <2>1. ShamtBits \in S
    <3> HIDE DEF S
    <3> QED BY <1>5, <1>6
  <2>2. ShamtBits <= ShamtBits
    BY <1>6
  <2> HIDE DEF Good
  <2> QED BY <2>1, <2>2
<1>8. trail[ShamtBits].n \in Nat /\ trail[ShamtBits].x \in Nat
  BY <1>6, WordType DEF Searching
<1>9. 2^1 = 2
  OBVIOUS
<1>10. trail[ShamtBits].x % 2 = 1
  BY <1>6, <1>7, <1>8, <1>9
<1> QED BY <1>1, <1>2, <1>6, <1>7, <1>8, <1>10

\* Counts are words: they are less than the width, or the width.
LEMMA CountWords ==
  ASSUME NEW n \in Nat, n <= XLEN
  PROVE  n \in Word
<1>1. \A k \in Nat : k < 2^k
  <2> DEFINE S == {k \in Nat : k < 2^k}
  <2>1. 0 \in S
    OBVIOUS
  <2>2. \A k \in Nat : k \in S => k + 1 \in S
    BY PowerStep, PowerType
  <2>3. \A k \in Nat : k \in S
    <3> HIDE DEF S
    <3> QED BY <2>1, <2>2, NatInd
  <2> QED BY <2>3
<1> QED BY <1>1, Widths DEF Word

\* The sums of the parallel count: of the bytes side by side, then of halves.
AddStep(k, v) == Trunc(v + Shr(v, 2^(k - 1)))
CountBytes(a) ==
  LET pairs == a - And(Shr(a, 1), Mask(1))
      nibbles == And(pairs, Mask(2)) + And(Shr(pairs, 2), Mask(2))
  IN  And(Trunc(nibbles + Shr(nibbles, 4)), Mask(4))

\* One addition of the parallel count.
LEMMA AddStepWord ==
  ASSUME NEW k \in Nat, k >= 1, NEW v \in Word
  PROVE  AddStep(k, v) \in Word
<1> DEFINE j == 2^(k - 1)
<1>1. j \in Nat
  <2>1. k - 1 \in Nat
    OBVIOUS
  <2> QED BY <2>1, PowerType
<1>2. Trunc(v + Shr(v, j)) \in Word
  <2> HIDE DEF j
  <2>1. Shr(v, j) \in Nat /\ v \in Nat
    BY <1>1, ShrWord, WordType
  <2>2. v + Shr(v, j) \in Int
    BY <2>1
  <2> QED BY <2>2, TruncWord
<1> QED BY <1>2 DEF AddStep

\* The sums the parallel count goes through.
LEMMA CountSums ==
  ASSUME NEW a
  PROVE  \E g :
           /\ \A k \in 3 .. ShamtBits : g[k] \in Word
           /\ g[3] = CountBytes(a)
           /\ \A k \in Nat : 3 <= k /\ k < ShamtBits => g[k + 1] = AddStep(k + 1, g[k])
           /\ PopCount(a) = g[ShamtBits] % 2^(ShamtBits + 1)
<1> DEFINE bytes == CountBytes(a)
           n == ShamtBits - 3
           G == [i \in Nat |-> [v \in Word |-> IF i = 0 THEN v ELSE AddStep(i + 3, v)]]
           F(trail) == [k \in 3 .. ShamtBits |-> IF k = 3 THEN bytes
                                             ELSE Trunc(trail[k - 1] + Shr(trail[k - 1], 2^(k - 1)))]
           g == CHOOSE trail : trail = F(trail)
<1>1. bytes \in Word
  BY SetWords DEF CountBytes
<1>2. n \in Nat /\ ShamtBits \in Nat /\ ShamtBits >= 3 /\ ShamtBits = n + 3
  BY Halves
<1>3. ASSUME NEW i \in Nat, NEW v \in Word PROVE G[i][v] \in Word
  <2>1. i + 3 \in Nat /\ i + 3 >= 1
    OBVIOUS
  <2>2. AddStep(i + 3, v) \in Word
    BY <2>1, AddStepWord
  <2> QED BY <2>2
<1>4. PICK trail \in [0 .. n -> Word] : Recursive(trail, n, bytes, G)
  <2> HIDE DEF bytes, n, G
  <2> QED BY <1>1, <1>2, <1>3, RecursionExists
<1>5. \A h : F(h) = [k \in 3 .. ShamtBits |-> IF k = 3 THEN bytes ELSE AddStep(k, h[k - 1])]
  BY DEF AddStep
<1>6. \E h : h = F(h)
  <2> DEFINE h == [k \in 3 .. ShamtBits |-> trail[k - 3]]
  <2>1. trail[0] = bytes
    <3>1. 0 \in 0 .. n
      BY <1>2
    <3> HIDE DEF n, bytes, G
    <3> QED BY <1>4, <3>1 DEF Recursive
  <2>2. ASSUME NEW k \in 3 .. ShamtBits PROVE h[k] = IF k = 3 THEN bytes ELSE AddStep(k, h[k - 1])
    <3>1. CASE k = 3
      BY <2>1, <3>1
    <3>2. CASE k # 3
      <4>1. k - 3 \in 0 .. n /\ k - 3 # 0 /\ k - 3 \in Nat /\ (k - 3) - 1 \in 0 .. n
            /\ k - 1 \in 3 .. ShamtBits /\ (k - 1) - 3 = (k - 3) - 1 /\ (k - 3) + 3 = k
        BY <1>2, <3>2
      <4>2. trail[k - 3] = G[k - 3][trail[(k - 3) - 1]]
        <5> HIDE DEF n, bytes, G
        <5> QED BY <1>4, <4>1 DEF Recursive
      <4>3. trail[(k - 3) - 1] \in Word
        BY <4>1
      <4>4. trail[k - 3] = AddStep(k, trail[(k - 3) - 1])
        BY <4>1, <4>2, <4>3
      <4>5. h[k] = trail[k - 3] /\ h[k - 1] = trail[(k - 3) - 1]
        BY <4>1
      <4> QED BY <3>2, <4>4, <4>5
    <3> QED BY <3>1, <3>2
  <2>3. h = [k \in 3 .. ShamtBits |-> h[k]]
    OBVIOUS
  <2> HIDE DEF h, bytes, F
  <2>4. h = [k \in 3 .. ShamtBits |-> IF k = 3 THEN bytes ELSE AddStep(k, h[k - 1])]
    BY <2>2, <2>3
  <2> QED BY <1>5, <2>4
<1>7. g = F(g)
  <2> HIDE DEF F
  <2> QED BY <1>6
<1>8. PopCount(a) = g[ShamtBits] % 2^(ShamtBits + 1)
  BY DEF PopCount, CountBytes
<1> HIDE DEF g, F, bytes
<1>9. \A k \in 3 .. ShamtBits : g[k] = IF k = 3 THEN bytes ELSE AddStep(k, g[k - 1])
  <2>1. g = [k \in 3 .. ShamtBits |-> IF k = 3 THEN bytes ELSE AddStep(k, g[k - 1])]
    BY <1>5, <1>7
  <2> QED BY <2>1, Zenon
<1>10. g[3] = bytes /\ \A k \in Nat : 3 <= k /\ k < ShamtBits => g[k + 1] = AddStep(k + 1, g[k])
  <2>1. 3 \in 3 .. ShamtBits
    BY <1>2
  <2>2. g[3] = bytes
    BY <1>9, <2>1
  <2>3. ASSUME NEW k \in Nat, 3 <= k, k < ShamtBits PROVE g[k + 1] = AddStep(k + 1, g[k])
    <3>1. k + 1 \in 3 .. ShamtBits /\ k + 1 # 3 /\ (k + 1) - 1 = k
      BY <1>2, <2>3
    <3>2. g[k + 1] = IF k + 1 = 3 THEN bytes ELSE AddStep(k + 1, g[(k + 1) - 1])
      BY <1>9, <3>1, Zenon
    <3> QED BY <3>1, <3>2
  <2> QED BY <2>2, <2>3
<1>11. \A k \in 3 .. ShamtBits : g[k] \in Word
  <2> DEFINE S == {i \in Nat : i + 3 <= ShamtBits => g[i + 3] \in Word}
  <2>1. 0 \in S
    BY <1>1, <1>10
  <2>2. \A i \in Nat : i \in S => i + 1 \in S
    <3> SUFFICES ASSUME NEW i \in Nat, i \in S, (i + 1) + 3 <= ShamtBits PROVE g[(i + 1) + 3] \in Word
      OBVIOUS
    <3>1. g[i + 3] \in Word /\ i + 3 \in Nat /\ 3 <= i + 3 /\ i + 3 < ShamtBits
          /\ (i + 3) + 1 = (i + 1) + 3 /\ (i + 3) + 1 \in Nat /\ (i + 3) + 1 >= 1
      BY <1>2
    <3>2. g[(i + 3) + 1] = AddStep((i + 3) + 1, g[i + 3])
      BY <1>10, <3>1
    <3>3. AddStep((i + 3) + 1, g[i + 3]) \in Word
      BY <3>1, AddStepWord
    <3> QED BY <3>1, <3>2, <3>3
  <2>3. \A i \in Nat : i \in S
    <3> HIDE DEF S
    <3> QED BY <2>1, <2>2, NatInd
  <2>4. ASSUME NEW k \in 3 .. ShamtBits PROVE g[k] \in Word
    <3>1. k - 3 \in Nat /\ (k - 3) + 3 = k /\ k <= ShamtBits
      BY <1>2
    <3>2. k - 3 \in S
      <4> HIDE DEF S
      <4> QED BY <2>3, <3>1
    <3> QED BY <3>1, <3>2
  <2> QED BY <2>4
<1> QED BY <1>8, <1>10, <1>11 DEF bytes

\* The number of ones is a word.
LEMMA PopCountWord == ASSUME NEW a PROVE PopCount(a) \in Word
<1>1. PICK g : /\ \A k \in 3 .. ShamtBits : g[k] \in Word
               /\ PopCount(a) = g[ShamtBits] % 2^(ShamtBits + 1)
  BY CountSums
<1> DEFINE v == g[ShamtBits]
           m == 2^(ShamtBits + 1)
<1>2. v \in Word /\ v \in Nat
  <2>1. ShamtBits \in 3 .. ShamtBits
    BY Halves
  <2>2. v \in Word
    BY <1>1, <2>1
  <2> QED BY <2>2, WordType
<1>3. m \in Nat \ {0}
  <2>1. ShamtBits + 1 \in Nat
    BY Halves
  <2> QED BY <2>1, PowerType
<1>4. v % m \in Word
  <2> HIDE DEF v, m
  <2>1. v % m \in Nat /\ v % m <= v
    BY <1>2, <1>3, QuotientWord
  <2> QED BY <1>2, <2>1, Widths DEF Word
<1> QED BY <1>1, <1>4

\* Four bytes are a word.
LEMMA BytesWord ==
  ASSUME NEW b0, NEW b1, NEW b2, NEW b3,
         \A b \in {b0, b1, b2, b3} : b \in Nat /\ b < 2^ByteBits
  PROVE  OfBytes(b0, b1, b2, b3) \in Word
<1> DEFINE p == 2^ByteBits
<1>1. ByteBits \in Nat /\ 4 * ByteBits <= XLEN
  BY Widths DEF ByteBits
<1>2. p \in Nat \ {0}
  BY <1>1, PowerType
<1>3. 2^(2 * ByteBits) = p * p /\ 2^(3 * ByteBits) = p * p * p /\ p * p * p * p <= 2^XLEN
  <2>1. 2 * ByteBits = ByteBits + ByteBits /\ 3 * ByteBits = (2 * ByteBits) + ByteBits
        /\ 4 * ByteBits = (3 * ByteBits) + ByteBits /\ 2 * ByteBits \in Nat
        /\ 3 * ByteBits \in Nat /\ 4 * ByteBits \in Nat
    BY <1>1
  <2>2. 2^(2 * ByteBits) = p * p
    BY <1>1, <2>1, PowerSum
  <2>3. 2^(3 * ByteBits) = 2^(2 * ByteBits) * p
    BY <1>1, <2>1, PowerSum
  <2>4. 2^(4 * ByteBits) = 2^(3 * ByteBits) * p
    BY <1>1, <2>1, PowerSum
  <2>5. 2^(4 * ByteBits) <= 2^XLEN
    BY <1>1, <2>1, PowerOrder, Widths
  <2> QED BY <2>2, <2>3, <2>4, <2>5
<1>4. b0 \in Nat /\ b1 \in Nat /\ b2 \in Nat /\ b3 \in Nat /\ b0 < p /\ b1 < p /\ b2 < p /\ b3 < p
  OBVIOUS
<1>5. OfBytes(b0, b1, b2, b3) = b0 + b1 * p + b2 * (p * p) + b3 * (p * p * p)
  BY <1>3 DEF OfBytes
<1>6. /\ b0 + b1 * p + b2 * (p * p) + b3 * (p * p * p) \in Nat
      /\ b0 + b1 * p + b2 * (p * p) + b3 * (p * p * p) < p * p * p * p
  <2> HIDE DEF p
  <2> DEFINE q == p * p
             r == q * p
  <2>1. q \in Nat /\ b1 * p \in Nat /\ b1 * p + p <= q
    <3>1. (b1 + 1) * p <= p * p
      BY <1>2, <1>4
    <3> QED BY <1>2, <1>4, <3>1
  <2>2. r \in Nat /\ b2 * q \in Nat /\ b2 * q + q <= r
    <3> HIDE DEF q
    <3>1. (b2 + 1) * q <= p * q /\ p * q = q * p
      BY <1>2, <1>4, <2>1
    <3> QED BY <1>2, <1>4, <2>1, <3>1
  <2>3. b3 * r \in Nat /\ b3 * r + r <= r * p
    <3> HIDE DEF r
    <3>1. (b3 + 1) * r <= p * r /\ p * r = r * p
      BY <1>2, <1>4, <2>2
    <3> QED BY <1>2, <1>4, <2>2, <3>1
  <2> QED BY <1>2, <1>4, <2>1, <2>2, <2>3
<1> HIDE DEF p
<1>7. OfBytes(b0, b1, b2, b3) \in Nat /\ OfBytes(b0, b1, b2, b3) < 2^XLEN
  <2> DEFINE sum == b0 + b1 * p + b2 * (p * p) + b3 * (p * p * p)
             top == p * p * p * p
  <2>1. top \in Nat
    BY <1>2
  <2> HIDE DEF sum, top
  <2> QED BY <1>3, <1>5, <1>6, <2>1, Widths DEF sum, top
<1> QED BY <1>7, Widths DEF Word

\* What the executors compute from words are words, one group of instructions
\* after the other.
LEMMA BaseImmWord ==
  ASSUME NEW type \in ImmTypes, NEW a \in Word, NEW imm \in Int
  PROVE  BaseImm(type, a, imm) \in Word
<1>1. a \in Nat /\ a + imm \in Int
  BY WordType
<1>2. Shamt(imm) \in Nat
  BY ShamtType
<1>3. /\ Trunc(a + imm) \in Word /\ \A p : Truth(p) \in Word
      /\ \A s : Xor(a, s) \in Word /\ Or(a, s) \in Word /\ And(a, s) \in Word
      /\ Shl(a, Shamt(imm)) \in Word /\ Shr(a, Shamt(imm)) \in Word /\ Sar(a, Shamt(imm)) \in Word
  BY <1>1, <1>2, TruncWord, SetWords, ShlWord, ShrWord, SarWord, WordType DEF Truth
<1> QED BY <1>3 DEF BaseImm, ImmTypes

\* The register forms give words.
LEMMA BaseRegWord ==
  ASSUME NEW type \in RegTypes, NEW a \in Word, NEW b \in Word
  PROVE  BaseReg(type, a, b) \in Word
<1>1. a \in Nat /\ b \in Nat /\ a + b \in Int /\ a - b \in Int
  BY WordType
<1>2. Shamt(b) \in Nat
  BY <1>1, ShamtType
<1>3. /\ Trunc(a + b) \in Word /\ Trunc(a - b) \in Word /\ \A p : Truth(p) \in Word
      /\ Xor(a, b) \in Word /\ Or(a, b) \in Word /\ And(a, b) \in Word
      /\ Shl(a, Shamt(b)) \in Word /\ Shr(a, Shamt(b)) \in Word /\ Sar(a, Shamt(b)) \in Word
  BY <1>1, <1>2, TruncWord, SetWords, ShlWord, ShrWord, SarWord, WordType DEF Truth
<1> QED BY <1>3 DEF BaseReg, RegTypes

\* Magnitudes and quotients are whole numbers.
LEMMA QuotientType ==
  ASSUME NEW n \in Int, NEW d \in Int, d # 0
  PROVE  Quotient(n, d) \in Int /\ Remainder(n, d) \in Int
<1> DEFINE p == Magnitude(n)
           q == Magnitude(d)
<1>1. p \in Nat /\ q \in Nat \ {0}
  BY DEF Magnitude
<1>2. p \div q \in Nat
  <2> HIDE DEF p, q
  <2> QED BY <1>1, QuotientWord
<1>3. Quotient(n, d) = IF (n < 0) = (d < 0) THEN p \div q ELSE -(p \div q)
  BY DEF Quotient
<1> HIDE DEF p, q
<1>4. Quotient(n, d) \in Int
  BY <1>2, <1>3
<1> QED BY <1>4 DEF Remainder

\* The upper half of any product is a word.
LEMMA UpperWord ==
  ASSUME NEW n \in Int
  PROVE  UpperHalf(n) \in Word /\ UpperHalf(Signed64(n)) \in Word
<1> DEFINE m == 2^XLEN
<1>1. m \in Nat \ {0}
  BY Widths
<1>2. ASSUME NEW k \in Int PROVE UpperHalf(k) \in Word
  <2>1. k \div m \in Int
    <3> HIDE DEF m
    <3> QED BY <1>1
  <2> QED BY <2>1, TruncWord DEF UpperHalf
<1>3. Signed64(n) \in Int
  <2> DEFINE p == 2^(2 * XLEN)
             h == 2^(2 * XLEN - 1)
  <2>1. p \in Nat \ {0}
    <3>1. 2 * XLEN \in Nat
      BY Widths
    <3> QED BY <3>1, PowerType
  <2>2. n % p \in Int /\ (n % p) - p \in Int
    <3> HIDE DEF p
    <3> QED BY <2>1
  <2>3. Signed64(n) = IF n % p >= h THEN (n % p) - p ELSE n % p
    BY DEF Signed64
  <2> HIDE DEF p, h
  <2> QED BY <2>2, <2>3
<1> QED BY <1>2, <1>3

\* Multiplication and division give words.
LEMMA MulDivWord ==
  ASSUME NEW type \in MTypes, NEW a \in Word, NEW b \in Word
  PROVE  MulDiv(type, a, b) \in Word
<1>1. a \in Nat /\ b \in Nat /\ Signed(a) \in Int /\ Signed(b) \in Int
  BY WordType, SignedType
<1>2. Trunc(a * b) \in Word /\ UpperHalf(a * b) \in Word /\ UpperHalf(Signed(a) * Signed(b)) \in Word
  <2>1. a * b \in Int /\ Signed(a) * Signed(b) \in Int
    BY <1>1
  <2> QED BY <2>1, TruncWord, UpperWord
<1>3. MulHsu(a, b) \in Word
  <2> DEFINE p == 2^(2 * XLEN)
             m == Signed(a) % p
  <2>1. p \in Nat \ {0}
    <3>1. 2 * XLEN \in Nat
      BY Widths
    <3> QED BY <3>1, PowerType
  <2>2. m \in Int
    <3> HIDE DEF p
    <3> QED BY <1>1, <2>1
  <2>3. m * b \in Int
    <3> HIDE DEF m
    <3> QED BY <1>1, <2>2
  <2> QED BY <2>3, UpperWord DEF MulHsu
<1>4. Divide(a, b) \in Word /\ Modulo(a, b) \in Word
  <2>1. CASE b = 0
    BY <2>1, WordType DEF Divide, Modulo
  <2>2. CASE b # 0
    <3>1. Signed(b) # 0
      BY <1>1, <2>2, Widths DEF Signed, Word
    <3>2. Trunc(Quotient(Signed(a), Signed(b))) \in Word /\ Trunc(Remainder(Signed(a), Signed(b))) \in Word
      BY <1>1, <3>1, QuotientType, TruncWord
    <3> QED BY <2>2, <3>2, WordType DEF Divide, Modulo
  <2> QED BY <2>1, <2>2
<1>5. b # 0 => a \div b \in Word /\ a % b \in Word
  <2> SUFFICES ASSUME b # 0 PROVE a \div b \in Word /\ a % b \in Word
    OBVIOUS
  <2>1. a \div b \in Nat /\ a \div b <= a /\ a % b \in Nat /\ a % b <= a
    BY <1>1, QuotientWord
  <2> QED BY <1>1, <2>1, Widths DEF Word
<1> HIDE DEF MulHsu, Divide, Modulo
<1>6. CASE type \in {"MUL", "MULH", "MULHSU", "MULHU"}
  BY <1>2, <1>3, <1>6 DEF MulDiv
<1>7. CASE type \in {"DIV", "REM"}
  BY <1>4, <1>7 DEF MulDiv
<1>8. CASE type = "DIVU"
  <2>1. MulDiv(type, a, b) = IF b = 0 THEN AllOnes ELSE a \div b
    BY <1>8 DEF MulDiv
  <2> QED BY <1>5, <2>1, WordType
<1>9. CASE type = "REMU"
  <2>1. MulDiv(type, a, b) = IF b = 0 THEN a ELSE a % b
    BY <1>9 DEF MulDiv
  <2> QED BY <1>5, <2>1
<1> QED BY <1>6, <1>7, <1>8, <1>9 DEF MTypes

\* The instructions of zbb give words.
LEMMA BitManipWord ==
  ASSUME NEW type \in ZbbTypes, NEW a \in Word, NEW b \in Word, NEW imm \in Int
  PROVE  BitManip(type, a, b, imm) \in Word
<1>1. a \in Nat /\ b \in Nat /\ Signed(a) \in Int /\ Signed(b) \in Int
  BY WordType, SignedType
<1>2. And(a, Not(b)) \in Word /\ Or(a, Not(b)) \in Word /\ Not(Xor(a, b)) \in Word
  BY SetWords, NotWord
<1>3. Clz(a) \in Word /\ Ctz(a) \in Word
  <2>1. CASE a = 0
    <3>1. Clz(a) = XLEN /\ Ctz(a) = XLEN
      BY <2>1 DEF Clz, Ctz
    <3> QED BY <3>1, CountWords, Widths
  <2>2. CASE a # 0
    BY <2>2, ClzFinds, CtzFinds, CountWords, Widths
  <2> QED BY <2>1, <2>2
<1>4. PopCount(a) \in Word
  BY PopCountWord
<1>5. /\ Trunc(Least(Signed(a), Signed(b))) \in Word /\ Trunc(Greatest(Signed(a), Signed(b))) \in Word
      /\ Least(a, b) \in Word /\ Greatest(a, b) \in Word
  BY <1>1, TruncWord DEF Least, Greatest
<1>6. ByteBits \in Nat /\ HalfBits \in Nat
  BY Widths DEF ByteBits, HalfBits
<1>7. SignExtend(a, ByteBits) \in Word /\ SignExtend(a, HalfBits) \in Word /\ a % 2^HalfBits \in Word
  BY <1>6, ExtendWord
<1>8. ASSUME NEW k PROVE RotateLeft(a, k) \in Word /\ RotateRight(a, k) \in Word
  BY SetWords DEF RotateLeft, RotateRight
<1>9. OrcB(a) \in Word /\ Rev8(a) \in Word
  <2> DEFINE p == 2^ByteBits
  <2>1. p \in Nat \ {0} /\ p >= 1
    BY <1>6, PowerType
  <2>2. ASSUME NEW i \in Nat PROVE Byte(a, i) \in Nat /\ Byte(a, i) < p
    <3> DEFINE m == 2^(i * ByteBits)
               q == a \div m
    <3>1. m \in Nat \ {0}
      <4>1. i * ByteBits \in Nat
        BY <1>6
      <4> QED BY <4>1, PowerType
    <3>2. q \in Nat
      <4> HIDE DEF m
      <4> QED BY <1>1, <3>1, QuotientWord
    <3>3. q % p \in Nat /\ q % p < p
      <4> HIDE DEF q, p
      <4> QED BY <2>1, <3>2, QuotientWord
    <3> QED BY <3>3 DEF Byte
  <2> DEFINE spread(i) == IF Byte(a, i) = 0 THEN 0 ELSE p - 1
  <2>3. \A i \in Nat : spread(i) \in Nat /\ spread(i) < p
    <3> HIDE DEF p
    <3> QED BY <2>1
  <2>4. OrcB(a) = OfBytes(spread(0), spread(1), spread(2), spread(3))
    BY DEF OrcB
  <2>5. OfBytes(spread(0), spread(1), spread(2), spread(3)) \in Word
    <3> HIDE DEF spread
    <3> QED BY <2>3, BytesWord
  <2>6. Rev8(a) \in Word
    BY <2>2, BytesWord DEF Rev8
  <2> QED BY <2>4, <2>5, <2>6
<1> QED BY <1>2, <1>3, <1>4, <1>5, <1>7, <1>8, <1>9 DEF BitManip, ZbbTypes

\* Those of zba, zbs and zicond give words.
LEMMA OtherWords ==
  ASSUME NEW a \in Word, NEW b \in Word, NEW imm \in Int
  PROVE  /\ \A type \in ZbaTypes : ShiftAdd(type, a, b) \in Word
         /\ \A type \in ZbsTypes : SingleBit(type, a, b, imm) \in Word
         /\ \A type \in ZicondTypes : CZero(type, a, b) \in Word
<1>1. a \in Nat /\ b \in Nat
  BY WordType
<1>2. ASSUME NEW type \in ZbaTypes PROVE ShiftAdd(type, a, b) \in Word
  <2>1. \A k : Trunc(Shl(a, k) + b) \in Word
    <3> SUFFICES ASSUME NEW k PROVE Trunc(Shl(a, k) + b) \in Word
      OBVIOUS
    <3>1. Shl(a, k) \in Nat
      BY ShlWord, WordType
    <3>2. Shl(a, k) + b \in Int
      BY <1>1, <3>1
    <3> QED BY <3>2, TruncWord
  <2> QED BY <2>1 DEF ShiftAdd, ZbaTypes
<1>3. ASSUME NEW type \in ZbsTypes PROVE SingleBit(type, a, b, imm) \in Word
  <2>1. \A s, t : Or(s, t) \in Word /\ And(s, t) \in Word /\ Xor(s, t) \in Word
    BY SetWords
  <2> QED BY <2>1 DEF SingleBit, ZbsTypes, ZbsRegTypes
<1>4. ASSUME NEW type \in ZicondTypes PROVE CZero(type, a, b) \in Word
  BY WordType DEF CZero, ZicondTypes
<1> QED BY <1>2, <1>3, <1>4

\* Whatever an integer instruction computes is a word.
LEMMA ComputeWord ==
  ASSUME NEW type, NEW a \in Word, NEW b \in Word, NEW imm \in Int,
         type \in ImmTypes \union RegTypes \union MTypes \union ZbbTypes \union ZbaTypes
                    \union ZbsTypes \union ZicondTypes
  PROVE  Compute(type, a, b, imm) \in Word
<1>1. CASE type \in ImmTypes
  <2>1. Compute(type, a, b, imm) = BaseImm(type, a, imm)
    BY <1>1 DEF Compute, ImmTypes, RegTypes, MTypes, ZbbTypes, ZbaTypes,
             ZbsTypes, ZbsRegTypes, ZicondTypes
  <2> QED BY <1>1, <2>1, BaseImmWord
<1>2. CASE type \in RegTypes
  <2>1. Compute(type, a, b, imm) = BaseReg(type, a, b)
    BY <1>2 DEF Compute, ImmTypes, RegTypes, MTypes, ZbbTypes, ZbaTypes,
             ZbsTypes, ZbsRegTypes, ZicondTypes
  <2> QED BY <1>2, <2>1, BaseRegWord
<1>3. CASE type \in MTypes
  <2>1. Compute(type, a, b, imm) = MulDiv(type, a, b)
    BY <1>3 DEF Compute, ImmTypes, RegTypes, MTypes, ZbbTypes, ZbaTypes,
             ZbsTypes, ZbsRegTypes, ZicondTypes
  <2> QED BY <1>3, <2>1, MulDivWord
<1>4. CASE type \in ZbbTypes
  <2>1. Compute(type, a, b, imm) = BitManip(type, a, b, imm)
    BY <1>4 DEF Compute, ImmTypes, RegTypes, MTypes, ZbbTypes, ZbaTypes,
             ZbsTypes, ZbsRegTypes, ZicondTypes
  <2> QED BY <1>4, <2>1, BitManipWord
<1>5. CASE type \in ZbaTypes
  <2>1. Compute(type, a, b, imm) = ShiftAdd(type, a, b)
    BY <1>5 DEF Compute, ImmTypes, RegTypes, MTypes, ZbbTypes, ZbaTypes,
             ZbsTypes, ZbsRegTypes, ZicondTypes
  <2> QED BY <1>5, <2>1, OtherWords
<1>6. CASE type \in ZbsTypes
  <2>1. Compute(type, a, b, imm) = SingleBit(type, a, b, imm)
    BY <1>6 DEF Compute, ImmTypes, RegTypes, MTypes, ZbbTypes, ZbaTypes,
             ZbsTypes, ZbsRegTypes, ZicondTypes
  <2> QED BY <1>6, <2>1, OtherWords
<1>7. CASE type \in ZicondTypes
  <2>1. Compute(type, a, b, imm) = CZero(type, a, b)
    BY <1>7 DEF Compute, ImmTypes, RegTypes, MTypes, ZbbTypes, ZbaTypes,
             ZbsTypes, ZbsRegTypes, ZicondTypes
  <2> QED BY <1>7, <2>1, OtherWords
<1> QED BY <1>1, <1>2, <1>3, <1>4, <1>5, <1>6, <1>7

\* The measures of a float.
LEMMA FloatWidths ==
  /\ FracBits \in Nat /\ ExpBits \in Nat /\ Scale \in Nat
  /\ Hidden \in Nat /\ Hidden >= 2 /\ 2^ExpBits \in Nat /\ 2^ExpBits >= 4
  /\ TopExponent = 2^ExpBits - 1 /\ TopExponent \in Nat /\ TopExponent >= 3
  /\ MinSigned = 2^ExpBits * Hidden
  /\ Infinity = TopExponent * Hidden /\ Infinity = MinSigned - Hidden /\ Infinity \in Nat
  /\ QuietBit \in Nat /\ QuietBit >= 1 /\ Hidden = 2 * QuietBit
  /\ CanonicalNaN \in Nat /\ CanonicalNaN < MinSigned
  /\ One \in Nat /\ One >= 1
<1>1. FracBits \in Nat /\ FracBits >= 1 /\ ExpBits \in Nat /\ ExpBits >= 2 /\ Scale \in Nat
      /\ XLEN - 1 = ExpBits + FracBits /\ FracBits - 1 \in Nat /\ (FracBits - 1) + 1 = FracBits
      /\ ExpBits - 2 \in Nat /\ ExpBits = 2 + (ExpBits - 2)
  BY FloatAssumption, Widths
<1> DEFINE h == Hidden
           e == 2^ExpBits
           r == QuietBit
<1>2. h = 2 * r /\ r \in Nat \ {0}
  <2>1. 2^((FracBits - 1) + 1) = 2 * 2^(FracBits - 1)
    BY <1>1, PowerStep
  <2>2. 2^(FracBits - 1) \in Nat \ {0}
    BY <1>1, PowerType
  <2> QED BY <1>1, <2>1, <2>2 DEF Hidden, QuietBit
<1>3. e \in Nat /\ e >= 4
  <2> DEFINE k == 2^(ExpBits - 2)
  <2>1. PICK two \in Nat : two = 2
    OBVIOUS
  <2>2. 2^(two + (ExpBits - 2)) = 2^two * k
    BY <1>1, PowerSum
  <2>3. 2^two = 4
    BY <2>1
  <2>4. k \in Nat \ {0}
    BY <1>1, PowerType
  <2>5. e = 4 * k
    BY <1>1, <2>1, <2>2, <2>3
  <2> HIDE DEF k, e
  <2> QED BY <2>4, <2>5
<1>4. MinSigned = e * h
  BY <1>1, PowerSum DEF MinSigned, Hidden
<1>5. Scale \in Nat => One \in Nat /\ One >= 1
  <2>1. Scale \in Nat => 2^Scale \in Nat \ {0}
    BY PowerType
  <2> QED BY <2>1 DEF One
<1>6. TopExponent = e - 1 /\ Infinity = TopExponent * h /\ CanonicalNaN = Infinity + r
  BY DEF TopExponent, Infinity, CanonicalNaN, Hidden
<1>7. h \in Nat /\ h >= 2
  <2> HIDE DEF h, r
  <2> QED BY <1>2
<1> HIDE DEF h, e, r
<1>8. (e - 1) * h = e * h - h /\ (e - 1) * h \in Nat
  BY <1>3, <1>7
<1>9. Infinity = MinSigned - h /\ Infinity \in Nat
  BY <1>4, <1>6, <1>8
<1>10. CanonicalNaN \in Nat /\ CanonicalNaN < MinSigned
  <2>1. MinSigned \in Nat
    BY Widths
  <2>2. r < h /\ r \in Nat /\ h \in Nat
    BY <1>2
  <2>3. CanonicalNaN = Infinity + r
    BY <1>6
  <2> QED BY <1>9, <2>1, <2>2, <2>3
<1>11. TopExponent \in Nat /\ TopExponent >= 3
  BY <1>3, <1>6
<1> QED BY <1>1, <1>2, <1>3, <1>4, <1>5, <1>6, <1>7, <1>9, <1>10, <1>11 DEF h, e, r

\* The sign of a word, and its magnitude.
LEMMA SignOfWord ==
  ASSUME NEW a \in Word
  PROVE  /\ Sign(a) \in {0, 1} /\ (Sign(a) = 1 <=> a >= MinSigned)
         /\ Magn(a) = a - SignWord(Sign(a)) /\ Magn(a) \in Nat /\ Magn(a) < MinSigned
         /\ SignWord(Sign(a)) \in Nat
<1> DEFINE m == MinSigned
<1>1. m \in Nat \ {0} /\ a \in Nat /\ a < 2 * m
  BY Widths, WordType
<1>2. Sign(a) = (a \div m) % 2 /\ Magn(a) = a % m /\ SignWord(Sign(a)) = Sign(a) * m
  BY DEF Sign, Bit, Magn, SignWord, MinSigned
<1> HIDE DEF m
<1>3. CASE a < m
  <2>1. (m * 0 + a) \div m = 0 /\ (m * 0 + a) % m = a
    BY <1>1, <1>3, DivUnique
  <2>2. m * 0 + a = a
    BY <1>1
  <2>3. a \div m = 0 /\ a % m = a
    BY <2>1, <2>2
  <2>4. Sign(a) = 0 /\ Magn(a) = a
    BY <1>2, <2>3
  <2>5. SignWord(Sign(a)) = 0
    BY <1>1, <1>2, <2>4
  <2> QED BY <1>1, <1>3, <2>4, <2>5 DEF m
<1>4. CASE a >= m
  <2>1. (m * 1 + (a - m)) \div m = 1 /\ (m * 1 + (a - m)) % m = a - m
    <3>1. a - m \in Nat /\ a - m < m
      BY <1>1, <1>4
    <3> QED BY <1>1, <3>1, DivUnique
  <2>2. m * 1 + (a - m) = a
    BY <1>1
  <2>3. a \div m = 1 /\ a % m = a - m
    BY <2>1, <2>2
  <2>4. Sign(a) = 1 /\ Magn(a) = a - m
    BY <1>2, <2>3
  <2>5. SignWord(Sign(a)) = m
    BY <1>1, <1>2, <2>4
  <2> QED BY <1>1, <1>4, <2>4, <2>5 DEF m
<1> QED BY <1>1, <1>3, <1>4

\* A sign and a magnitude make a word, and so does a changed sign.
LEMMA SignedWord ==
  ASSUME NEW s \in {0, 1}, NEW v \in Nat, v < MinSigned
  PROVE  WithSign(s, v) \in Word /\ SignWord(s) \in Word
<1>1. SignWord(s) = IF s = 1 THEN MinSigned ELSE 0
  BY Widths DEF SignWord
<1>2. 0 \in Word /\ MinSigned \in Word /\ MinSigned \in Nat /\ AllOnes = 2 * MinSigned - 1
  BY WordType, Widths
<1> QED BY <1>1, <1>2, WordType DEF WithSign

\* A changed sign leaves a word.
LEMMA NegatedWord == ASSUME NEW a \in Word PROVE Negated(a) \in Word
<1>1. a \in Nat /\ AllOnes = 2 * MinSigned - 1 /\ MinSigned \in Nat /\ a <= AllOnes
  BY WordType, Widths
<1>2. Sign(a) = 1 <=> a >= MinSigned
  BY SignOfWord
<1> QED BY <1>1, <1>2, WordType DEF Negated

\* The NaNs and infinities are words.
LEMMA SpecialWords == CanonicalNaN \in Word /\ HostNaN \in Word /\ Infinity \in Word
<1>1. CanonicalNaN \in Nat /\ CanonicalNaN < MinSigned /\ Infinity \in Nat /\ Infinity <= CanonicalNaN
  BY FloatWidths DEF CanonicalNaN
<1>2. CanonicalNaN \in Word /\ Infinity \in Word
  BY <1>1, WordType, Widths
<1> QED BY <1>2, NegatedWord DEF HostNaN

\* The fields of a float: a zero is the only one without units.
LEMMA FloatFields ==
  ASSUME NEW a \in Word
  PROVE  /\ Exponent(a) \in Nat /\ Exponent(a) <= TopExponent
         /\ Fraction(a) \in Nat /\ Fraction(a) < Hidden
         /\ Magn(a) = Hidden * Exponent(a) + Fraction(a)
<1> DEFINE h == Hidden
           e == 2^ExpBits
           q == a \div h
           r == a % h
           t == q \div e
           u == q % e
<1>1. h \in Nat \ {0} /\ e \in Nat \ {0} /\ MinSigned = e * h /\ TopExponent = e - 1
  BY FloatWidths
<1>2. a \in Nat
  BY WordType
<1>3. Exponent(a) = u /\ Fraction(a) = r /\ Magn(a) = a % (e * h)
  BY <1>1 DEF Exponent, Fraction, Magn, Hidden
<1>4. q \in Nat /\ r \in Nat /\ r < h /\ a = h * q + r
  <2> HIDE DEF h
  <2> QED BY <1>1, <1>2
<1>5. t \in Nat /\ u \in Nat /\ u < e /\ q = e * t + u
  <2> HIDE DEF q, e
  <2> QED BY <1>1, <1>4
<1> HIDE DEF h, e, q, r, t, u
<1>6. h * u <= h * (e - 1)
  BY <1>1, <1>5
<1>7. h * u + r \in Nat /\ h * u + r < e * h
  BY <1>1, <1>4, <1>5, <1>6
<1>8. a = (e * h) * t + (h * u + r)
  <2>1. h * q = h * (e * t) + h * u
    BY <1>1, <1>5
  <2>2. h * (e * t) = (e * h) * t
    BY <1>1, <1>5
  <2>3. h * q \in Nat /\ h * u \in Nat /\ (e * h) * t \in Nat
    BY <1>1, <1>4, <1>5
  <2> DEFINE v == (e * h) * t
             y == h * u
             z == h * q
  <2>4. a = z + r /\ z = v + y /\ z \in Nat /\ y \in Nat /\ v \in Nat
    BY <1>4, <2>1, <2>2, <2>3
  <2> HIDE DEF v, y, z
  <2>5. a = v + (y + r)
    BY <1>4, <2>4
  <2> QED BY <2>5 DEF v, y
<1>9. e * h \in Nat \ {0}
  BY <1>1
<1>10. a % (e * h) = h * u + r
  <2> DEFINE m == e * h
             z == h * u + r
  <2>1. m \in Nat \ {0} /\ z \in Nat /\ z < m /\ t \in Nat /\ a = m * t + z
    BY <1>5, <1>7, <1>8, <1>9
  <2> HIDE DEF m, z
  <2>2. a % m = z
    BY <2>1, DivUnique
  <2> QED BY <2>2 DEF m, z
<1> QED BY <1>1, <1>3, <1>4, <1>5, <1>10 DEF h

\* The magnitude of a float that is not zero has units.
LEMMA UnitsType ==
  ASSUME NEW a \in Word
  PROVE  Units(a) \in Nat /\ (~IsZero(a) => Units(a) # 0) /\ Value(a) \in Int
<1>1. /\ Exponent(a) \in Nat /\ Fraction(a) \in Nat
      /\ Magn(a) = Hidden * Exponent(a) + Fraction(a) /\ Hidden \in Nat /\ Hidden >= 2
  BY FloatFields, FloatWidths
<1>2. CASE Exponent(a) = 0
  <2>1. Units(a) = Fraction(a)
    BY <1>2 DEF Units
  <2>2. Magn(a) = Fraction(a)
    BY <1>1, <1>2
  <2> QED BY <1>1, <2>1, <2>2 DEF IsZero, Value
<1>3. CASE Exponent(a) # 0
  <2> DEFINE k == 2^(Exponent(a) - 1)
             s == Hidden + Fraction(a)
  <2>1. k \in Nat \ {0}
    <3>1. Exponent(a) - 1 \in Nat
      BY <1>1, <1>3
    <3> QED BY <3>1, PowerType
  <2>2. s \in Nat \ {0}
    BY <1>1
  <2>3. Units(a) = s * k
    BY <1>3 DEF Units
  <2> HIDE DEF k, s
  <2>4. Units(a) \in Nat /\ Units(a) # 0
    BY <2>1, <2>2, <2>3
  <2> QED BY <2>4 DEF Value
<1> QED BY <1>2, <1>3

\* Every normal number lies in a binade, whose step is a power of two.
InBinade(u, e) == u \div 2^e \in Hidden .. 2 * Hidden - 1

\* The step of a normal number is that of its binade.
LEMMA StepShape ==
  ASSUME NEW u \in Nat, u >= Hidden
  PROVE  \E e \in Nat : Step(u) = 2^e /\ InBinade(u, e)
<1> DEFINE T == {e \in Nat : Shifted(u, e) < 2 * Hidden}
<1>1. Hidden \in Nat /\ Hidden >= 2
  BY FloatWidths
<1>2. \A e \in Nat : Shifted(u, e) \in Nat
  <2> SUFFICES ASSUME NEW e \in Nat PROVE Shifted(u, e) \in Nat
    OBVIOUS
  <2> DEFINE m == 2^e
  <2>1. m \in Nat \ {0}
    BY PowerType
  <2>2. u \div m \in Nat
    <3> HIDE DEF m
    <3> QED BY <2>1, QuotientWord
  <2> QED BY <2>2 DEF Shifted
<1>3. u \in T
  <2> DEFINE m == 2^u
  <2>1. m \in Nat \ {0} /\ u < m
    BY PowerType, PowerExceeds
  <2>2. u \div m = 0
    <3> HIDE DEF m
    <3>1. (m * 0 + u) \div m = 0
      BY <2>1, DivUnique
    <3>2. m * 0 + u = u
      BY <2>1
    <3> QED BY <3>1, <3>2
  <2> QED BY <1>1, <2>2 DEF Shifted
<1>4. PICK e \in T : \A k \in T : e <= k
  <2> HIDE DEF T
  <2>1. T \in SUBSET Nat
    BY DEF T
  <2> QED BY <1>3, <2>1, LeastElement
<1>5. e \in Nat /\ e <= u /\ Shifted(u, e) < 2 * Hidden
  BY <1>3, <1>4
<1>6. Shifted(u, e) >= Hidden
  <2>1. CASE e = 0
    <3>1. Shifted(u, 0) = u
      BY DEF Shifted
    <3> QED BY <2>1, <3>1
  <2>2. CASE e # 0
    <3>1. e - 1 \in Nat /\ e - 1 < e /\ (e - 1) + 1 = e
      BY <1>5, <2>2
    <3>2. e - 1 \notin T
      <4> HIDE DEF T
      <4> QED BY <1>4, <1>5, <3>1
    <3>3. Shifted(u, e - 1) >= 2 * Hidden /\ Shifted(u, e - 1) \in Nat
      BY <1>1, <1>2, <3>1, <3>2
    <3>4. Shifted(u, e) = Shifted(u, e - 1) \div 2
      BY <3>1, ShiftedHalves
    <3> DEFINE a == Shifted(u, e - 1)
    <3> HIDE DEF a
    <3>5. a \in Nat /\ a >= 2 * Hidden => a \div 2 >= Hidden
      BY <1>1
    <3> QED BY <3>3, <3>4, <3>5 DEF a
  <2> QED BY <2>1, <2>2
<1>7. InBinade(u, e) /\ e \in 0 .. u
  BY <1>1, <1>2, <1>5, <1>6 DEF InBinade, Shifted
<1> DEFINE c == CHOOSE k \in 0 .. u : InBinade(u, k)
<1>8. c \in 0 .. u /\ InBinade(u, c)
  <2> HIDE DEF T
  <2> QED BY <1>7
<1>9. Step(u) = 2^c
  <2>1. ~(u < Hidden)
    BY <1>1
  <2> QED BY <2>1 DEF Step, InBinade
<1> HIDE DEF c, T
<1> QED BY <1>8, <1>9

\* Every number of units has a step.
LEMMA StepType == ASSUME NEW u \in Nat PROVE Step(u) \in Nat \ {0}
<1>1. CASE u < Hidden
  BY <1>1 DEF Step
<1>2. CASE u >= Hidden
  BY <1>2, StepShape, PowerType
<1> QED BY <1>1, <1>2, FloatWidths

\* A number of units that is not too many has the fields of a finite float.
LEMMA PackedShape ==
  ASSUME NEW u \in Nat, u <= LargestUnits
  PROVE  \E e \in 0 .. TopExponent - 1, r \in 0 .. Hidden - 1 :
           /\ Packed(u) = e * Hidden + r
           /\ e = 0 => u = r /\ Step(u) = 1
           /\ e # 0 => Step(u) = 2^(e - 1) /\ u \div Step(u) = Hidden + r
<1>1. /\ Hidden \in Nat /\ Hidden >= 2 /\ TopExponent \in Nat /\ TopExponent >= 3
      /\ Infinity = TopExponent * Hidden /\ Infinity \in Nat
  BY FloatWidths
<1>2. CASE u < Hidden
  <2>1. Packed(u) = u /\ Step(u) = 1
    BY <1>2 DEF Packed, Step
  <2>2. 0 \in 0 .. TopExponent - 1 /\ u \in 0 .. Hidden - 1 /\ u = 0 * Hidden + u
    BY <1>1, <1>2
  <2> QED BY <2>1, <2>2
<1>3. CASE u >= Hidden
  <2>1. PICK e \in Nat : Step(u) = 2^e /\ InBinade(u, e)
    BY <1>3, StepShape
  <2> DEFINE m == 2^e
             q == u \div m
             p == 2^(TopExponent - 2)
  <2>2. m \in Nat \ {0} /\ p \in Nat \ {0}
    <3>1. TopExponent - 2 \in Nat
      BY <1>1
    <3> QED BY <3>1, PowerType
  <2>3. q \in Nat /\ Hidden <= q /\ q < 2 * Hidden
    BY <1>1, <2>1 DEF InBinade
  <2>4. m * q <= u
    <3> HIDE DEF m
    <3> QED BY <2>2
  <2>5. u <= (2 * Hidden - 1) * p
    BY DEF LargestUnits
  <2>6. e <= TopExponent - 2
    <3> SUFFICES ASSUME e > TopExponent - 2 PROVE FALSE
      BY <1>1
    <3>1. 2 * p <= m
      <4>1. TopExponent - 2 \in Nat
        BY <1>1
      <4> QED BY <4>1, PowerGrows
    <3> HIDE DEF m, q, p
    <3>2. (2 * p) * Hidden <= m * q
      BY <1>1, <2>2, <2>3, <3>1
    <3>3. (2 * Hidden - 1) * p < (2 * p) * Hidden
      BY <1>1, <2>2
    <3>4. (2 * Hidden - 1) * p \in Int /\ m * q \in Int /\ (2 * p) * Hidden \in Int
      BY <1>1, <2>2, <2>3
    <3> QED BY <2>4, <2>5, <3>2, <3>3, <3>4
  <2> DEFINE c == CHOOSE k \in 1 .. TopExponent - 1 : Step(u) = 2^(k - 1)
  <2>7. c \in 1 .. TopExponent - 1 /\ Step(u) = 2^(c - 1)
    <3>1. e + 1 \in 1 .. TopExponent - 1 /\ (e + 1) - 1 = e
      BY <1>1, <2>6
    <3>2. Step(u) = 2^((e + 1) - 1)
      BY <2>1, <3>1
    <3> QED BY <3>1, <3>2
  <2>8. Packed(u) = c * Hidden + q - Hidden
    <3>1. ~(u < Hidden)
      BY <1>1, <1>3
    <3> QED BY <2>1, <3>1 DEF Packed
  <2> DEFINE r == q - Hidden
  <2>9. /\ c \in 0 .. TopExponent - 1 /\ r \in 0 .. Hidden - 1 /\ c # 0
        /\ u \div Step(u) = Hidden + r
    <3>1. u \div Step(u) = q
      BY <2>1
    <3> HIDE DEF c, q
    <3> QED BY <1>1, <2>3, <2>7, <3>1
  <2>10. Packed(u) = c * Hidden + r
    <3> HIDE DEF c, q
    <3>1. c * Hidden \in Nat
      BY <1>1, <2>7
    <3> QED BY <1>1, <2>3, <2>8, <3>1
  <2> HIDE DEF c, q, r
  <2> QED BY <2>7, <2>9, <2>10
<1> QED BY <1>1, <1>2, <1>3

\* A packed magnitude is that of a finite float.
LEMMA PackedRange ==
  ASSUME NEW u \in Nat, u <= LargestUnits
  PROVE  Packed(u) \in Nat /\ Packed(u) < Infinity
<1>1. /\ Hidden \in Nat /\ Hidden >= 2 /\ TopExponent \in Nat /\ TopExponent >= 3
      /\ Infinity = TopExponent * Hidden
  BY FloatWidths
<1>2. PICK e \in 0 .. TopExponent - 1, r \in 0 .. Hidden - 1 : Packed(u) = e * Hidden + r
  BY PackedShape
<1>3. e * Hidden \in Nat /\ e * Hidden <= (TopExponent - 1) * Hidden
      /\ (TopExponent - 1) * Hidden = TopExponent * Hidden - Hidden
  BY <1>1
<1>4. TopExponent * Hidden \in Nat
  BY <1>1
<1> QED BY <1>1, <1>2, <1>3, <1>4

\* A quotient is rounded to a natural number in every mode.
LEMMA NearestType ==
  ASSUME NEW s, NEW p \in Nat, NEW q \in Nat \ {0}, NEW rm
  PROVE  Nearest(s, p, q, rm) \in Nat
<1> DEFINE n == p \div q
<1>1. n \in Nat
  BY QuotientWord
<1>2. n + 1 \in Nat
  <2> HIDE DEF n
  <2> QED BY <1>1
<1>3. Nearest(s, p, q, rm) = n \/ Nearest(s, p, q, rm) = n + 1
  BY Zenon DEF Nearest
<1> QED BY <1>1, <1>2, <1>3

\* What a floating-point operation yields: a word, and flags.
Yields(o) == o \in [bits : Word, flags : SUBSET Flags]

\* The outcomes the host's operations are made of.
LEMMA OutcomeYields ==
  /\ \A bits \in Word, flags \in SUBSET Flags : Yields(Outcome(bits, flags))
  /\ \A bits \in Word : Yields(Exact(bits))
  /\ Yields(Invalid)
  /\ \A operands : Yields(QuietNaN(operands))
<1>1. \A bits \in Word, flags \in SUBSET Flags : Yields(Outcome(bits, flags))
  BY DEF Yields, Outcome
<1>2. {} \in SUBSET Flags /\ {"NV"} \in SUBSET Flags
  BY DEF Flags
<1> QED BY <1>1, <1>2, SpecialWords DEF Exact, Invalid, QuietNaN

\* Rounding gives a float, whatever the quotient.
LEMMA RoundedYields ==
  ASSUME NEW s \in {0, 1}, NEW p \in Nat, NEW q \in Nat \ {0}, NEW rm
  PROVE  Yields(Rounded(s, p, q, rm))
<1> DEFINE mode == HostMode(rm)
           step == Step(p \div q)
           u == step * Nearest(s, p, q * step, mode)
           inexact == u * q # p
           away == mode = "RNE" \/ (mode = "RDN" /\ s = 1) \/ (mode = "RUP" /\ s = 0)
           tiny == p < Hidden * q /\ Nearest(s, 2 * p, q, mode) < 2 * Hidden
           over == Outcome(WithSign(s, IF away THEN Infinity ELSE Infinity - 1), {"OF", "NX"})
           flags == IF ~inexact THEN {} ELSE IF tiny THEN {"NX", "UF"} ELSE {"NX"}
<1>1. Rounded(s, p, q, rm) = IF u > LargestUnits THEN over ELSE Outcome(WithSign(s, Packed(u)), flags)
  BY DEF Rounded
<1>2. step \in Nat \ {0}
  BY QuotientWord, StepType
<1>3. u \in Nat
  <2> HIDE DEF step
  <2>1. q * step \in Nat \ {0}
    BY <1>2
  <2>2. Nearest(s, p, q * step, mode) \in Nat
    <3> DEFINE z == q * step
    <3>1. z \in Nat \ {0}
      BY <2>1
    <3> HIDE DEF z
    <3>2. Nearest(s, p, z, mode) \in Nat
      BY <3>1, NearestType
    <3> QED BY <3>2 DEF z
  <2> DEFINE n == Nearest(s, p, q * step, mode)
  <2> HIDE DEF n
  <2>3. n \in Nat => step * n \in Nat
    BY <1>2
  <2> QED BY <2>2, <2>3 DEF n
<1>4. flags \in SUBSET Flags /\ {"OF", "NX"} \in SUBSET Flags
  <2>1. {} \in SUBSET Flags /\ {"NX", "UF"} \in SUBSET Flags /\ {"NX"} \in SUBSET Flags
        /\ {"OF", "NX"} \in SUBSET Flags
    BY DEF Flags
  <2> HIDE DEF inexact, tiny
  <2> QED BY <2>1
<1>5. Yields(over)
  <2> HIDE DEF away
  <2>1. /\ Infinity \in Nat /\ Infinity < MinSigned /\ Infinity >= 1
    BY FloatWidths
  <2>2. WithSign(s, IF away THEN Infinity ELSE Infinity - 1) \in Word
    <3>1. Infinity - 1 \in Nat /\ Infinity - 1 < MinSigned
      BY <2>1, Widths
    <3> QED BY <2>1, <3>1, SignedWord
  <2> QED BY <1>4, <2>2, OutcomeYields
<1>6. CASE ~(u > LargestUnits)
  <2> HIDE DEF u, flags, over
  <2>1. u <= LargestUnits
    <3> DEFINE p2 == 2^(TopExponent - 2)
    <3>1. TopExponent - 2 \in Nat
      BY FloatWidths
    <3>2. p2 \in Nat
      BY <3>1, PowerType
    <3>3. LargestUnits = (2 * Hidden - 1) * p2
      BY DEF LargestUnits
    <3> HIDE DEF p2
    <3>4. LargestUnits \in Nat
      BY <3>2, <3>3, FloatWidths
    <3> QED BY <1>3, <1>6, <3>4
  <2>2. Packed(u) \in Nat /\ Packed(u) < Infinity
    BY <1>3, <2>1, PackedRange
  <2>3. Packed(u) < MinSigned
    BY <2>2, FloatWidths, Widths
  <2>4. WithSign(s, Packed(u)) \in Word
    BY <2>2, <2>3, SignedWord
  <2>5. Yields(Outcome(WithSign(s, Packed(u)), flags))
    BY <1>4, <2>4, OutcomeYields
  <2> QED BY <1>1, <1>6, <2>5
<1> HIDE DEF u, over, flags
<1> QED BY <1>1, <1>5, <1>6

\* Signs of products and sums.
LEMMA Signs ==
  /\ \A s, t : Differ(s, t) \in {0, 1}
  /\ \A t, rm : \A s \in {0, 1} : ZeroSum(s, t, rm) \in Word
  /\ \A s \in {0, 1} : WithSign(s, Infinity) \in Word
<1>1. \A t, rm : \A s \in {0, 1} : ZeroSum(s, t, rm) \in Word
  <2> SUFFICES ASSUME NEW s \in {0, 1}, NEW t, NEW rm PROVE ZeroSum(s, t, rm) \in Word
    OBVIOUS
  <2>1. SignWord(s) \in Word /\ SignWord(0) \in Word /\ SignWord(1) \in Word
    <3>1. 0 \in Nat /\ 0 < MinSigned
      BY Widths
    <3> QED BY <3>1, SignedWord
  <2> QED BY <2>1 DEF ZeroSum
<1>2. \A s \in {0, 1} : WithSign(s, Infinity) \in Word
  <2>1. Infinity \in Nat /\ Infinity < MinSigned
    BY FloatWidths
  <2> QED BY <2>1, SignedWord
<1> QED BY <1>1, <1>2 DEF Differ

\* A fused multiply-add yields a float and flags.
LEMMA FmaYields ==
  ASSUME NEW a \in Word, NEW b \in Word, NEW c \in Word, NEW rm
  PROVE  Yields(Fma(a, b, c, rm))
<1> DEFINE s == Differ(Sign(a), Sign(b))
           ua == Units(a)
           ub == Units(b)
           vc == Value(c)
           sign == IF s = 1 THEN -1 ELSE 1
           product == sign * ua * ub
           sum == product + vc * One
           zeroTimesInf == (IsInf(a) /\ IsZero(b)) \/ (IsZero(a) /\ IsInf(b))
           rounded == Rounded(IF sum < 0 THEN 1 ELSE 0, IF sum < 0 THEN -sum ELSE sum, One, rm)
<1>1. s \in {0, 1} /\ WithSign(s, Infinity) \in Word /\ ZeroSum(s, Sign(c), rm) \in Word
  BY Signs
<1>2. sum \in Int
  <2>1. ua \in Int /\ ub \in Int /\ vc \in Int /\ One \in Int /\ sign \in Int
    BY UnitsType, FloatWidths
  <2> HIDE DEF ua, ub, vc, sign
  <2> QED BY <2>1
<1>3. Yields(rounded)
  <2> HIDE DEF sum
  <2>1. (IF sum < 0 THEN 1 ELSE 0) \in {0, 1} /\ (IF sum < 0 THEN -sum ELSE sum) \in Nat
    BY <1>2
  <2>2. One \in Nat \ {0}
    BY FloatWidths
  <2> QED BY <2>1, <2>2, RoundedYields
<1>4. Fma(a, b, c, rm) =
        IF zeroTimesInf /\ (FmaInvalid \/ ~IsNaN(c)) THEN Invalid
        ELSE IF \E d \in {a, b, c} : IsNaN(d) THEN QuietNaN({a, b, c})
        ELSE IF IsInf(a) \/ IsInf(b)
        THEN IF IsInf(c) /\ Sign(c) # s THEN Invalid ELSE Exact(WithSign(s, Infinity))
        ELSE IF IsInf(c) THEN Exact(c)
        ELSE IF sum = 0 THEN Exact(ZeroSum(s, Sign(c), rm)) ELSE rounded
  BY DEF Fma
<1> HIDE DEF sum, rounded, s, zeroTimesInf
<1> QED BY <1>1, <1>3, <1>4, OutcomeYields

\* 1.0 is a float.
LEMMA OneWord == OneFloat \in Word
<1> DEFINE t == TopExponent - 2
           p == 2^t
           r == FracBits + t - Scale
<1>1. t \in Nat /\ Scale \in Nat /\ FracBits \in Nat /\ Hidden \in Nat /\ Hidden >= 2 /\ r \in Nat
  BY FloatWidths, FloatAssumption
<1>2. p \in Nat \ {0} /\ 2^r \in Nat \ {0} /\ One \in Nat
  <2> HIDE DEF t, r
  <2> QED BY <1>1, PowerType DEF One
<1>3. LargestUnits = (2 * Hidden - 1) * p
  BY DEF LargestUnits
<1>4. Hidden * p = One * 2^r
  <2>1. FracBits + t = Scale + r
    BY <1>1
  <2>2. 2^(FracBits + t) = Hidden * p
    <3> HIDE DEF t, r
    <3> QED BY <1>1, PowerSum DEF Hidden
  <2>3. 2^(Scale + r) = One * 2^r
    <3> HIDE DEF t, r
    <3> QED BY <1>1, PowerSum DEF One
  <2> QED BY <2>1, <2>2, <2>3, Zenon
<1> DEFINE q == 2^r
<1> HIDE DEF p, q, t, r
<1>5. One <= One * q /\ One * q \in Nat
  BY <1>2 DEF q
<1>6. Hidden * p <= (2 * Hidden - 1) * p /\ (2 * Hidden - 1) * p \in Nat
  BY <1>1, <1>2
<1>7. One <= LargestUnits
  BY <1>2, <1>3, <1>4, <1>5, <1>6 DEF q
<1>8. Packed(One) \in Nat /\ Packed(One) < Infinity
  BY <1>2, <1>7, PackedRange
<1>9. Packed(One) <= AllOnes
  BY <1>8, FloatWidths, Widths
<1> QED BY <1>8, <1>9, WordType DEF OneFloat

\* So do sums, differences and products,
LEMMA SumProductYields ==
  ASSUME NEW a \in Word, NEW b \in Word, NEW rm
  PROVE  Yields(Add(a, b, rm)) /\ Yields(Sub(a, b, rm)) /\ Yields(Mul(a, b, rm))
<1>1. \A c \in Word : Yields(Add(a, c, rm))
  BY OneWord, FmaYields DEF Add
<1>2. SignWord(Differ(Sign(a), Sign(b))) \in Word
  <2>1. Differ(Sign(a), Sign(b)) \in {0, 1} /\ 0 \in Nat /\ 0 < MinSigned
    BY Signs, Widths
  <2> QED BY <2>1, SignedWord
<1> QED BY <1>1, <1>2, NegatedWord, FmaYields DEF Sub, Mul

\* quotients,
LEMMA DivYields ==
  ASSUME NEW a \in Word, NEW b \in Word, NEW rm
  PROVE  Yields(Div(a, b, rm))
<1> DEFINE s == Differ(Sign(a), Sign(b))
           n == Units(a) * One
<1>1. s \in {0, 1} /\ WithSign(s, Infinity) \in Word
  BY Signs
<1>2. SignWord(s) \in Word
  <2>1. 0 \in Nat /\ 0 < MinSigned
    BY Widths
  <2> QED BY <1>1, <2>1, SignedWord
<1>3. n \in Nat
  <2> DEFINE u == Units(a)
  <2>1. u \in Nat /\ One \in Nat
    BY UnitsType, FloatWidths
  <2>2. \A i, j \in Nat : i * j \in Nat
    OBVIOUS
  <2> QED BY <2>1, <2>2
<1>4. ~IsZero(b) => Yields(Rounded(s, n, Units(b), rm))
  <2> HIDE DEF s, n
  <2>1. Units(b) \in Nat /\ (~IsZero(b) => Units(b) # 0)
    BY UnitsType
  <2> QED BY <1>1, <1>3, <2>1, RoundedYields
<1>5. Yields(Outcome(WithSign(s, Infinity), {"DZ"}))
  <2>1. {"DZ"} \in SUBSET Flags
    BY DEF Flags
  <2> HIDE DEF s
  <2> QED BY <1>1, <2>1, OutcomeYields
<1>6. Div(a, b, rm) =
        IF IsNaN(a) \/ IsNaN(b) THEN QuietNaN({a, b})
        ELSE IF (IsInf(a) /\ IsInf(b)) \/ (IsZero(a) /\ IsZero(b)) THEN Invalid
        ELSE IF IsInf(a) THEN Exact(WithSign(s, Infinity))
        ELSE IF IsZero(b) THEN Outcome(WithSign(s, Infinity), {"DZ"})
        ELSE IF IsInf(b) \/ IsZero(a) THEN Exact(SignWord(s))
        ELSE Rounded(s, n, Units(b), rm)
  BY DEF Div
<1> HIDE DEF s, n
<1> QED BY <1>1, <1>2, <1>4, <1>5, <1>6, OutcomeYields

\* The digits of a root, found from the highest.
RootStep(square, k, v) ==
  IF (v + 2^(RootWidth - k)) * (v + 2^(RootWidth - k)) <= square THEN v + 2^(RootWidth - k) ELSE v

\* The digits make a natural number.
LEMMA RootDigits ==
  ASSUME NEW square
  PROVE  \E g : /\ g[RootWidth] \in Nat
                /\ g = [k \in 0 .. RootWidth |-> IF k = 0 THEN 0 ELSE RootStep(square, k, g[k - 1])]
                /\ g = CHOOSE trail : trail = [k \in 0 .. RootWidth |->
                                         IF k = 0 THEN 0 ELSE RootStep(square, k, trail[k - 1])]
<1> DEFINE F(trail) == [k \in 0 .. RootWidth |-> IF k = 0 THEN 0 ELSE RootStep(square, k, trail[k - 1])]
           G == [k \in Nat |-> [v \in Nat |-> IF k <= RootWidth THEN RootStep(square, k, v) ELSE v]]
           g == CHOOSE trail : trail = F(trail)
<1>1. RootWidth \in Nat
  <2> DEFINE m == 2^ExpBits + FracBits + Scale
  <2>1. m \in Nat
    BY FloatWidths
  <2> HIDE DEF m
  <2>2. m \div 2 + 8 \in Nat
    BY <2>1
  <2> QED BY <2>2 DEF RootWidth, RootBits, m
<1>2. ASSUME NEW k \in Nat, NEW v \in Nat, k <= RootWidth PROVE RootStep(square, k, v) \in Nat
  <2> DEFINE j == RootWidth - k
             p == 2^j
  <2>1. j \in Nat
    BY <1>1, <1>2
  <2>2. p \in Nat
    <3> HIDE DEF j
    <3> QED BY <2>1, PowerType
  <2>3. v + p \in Nat
    <3> HIDE DEF p
    <3> QED BY <2>2
  <2>4. RootStep(square, k, v) = v + p \/ RootStep(square, k, v) = v
    BY Zenon DEF RootStep
  <2> QED BY <2>3, <2>4
<1>3. \A k \in Nat, v \in Nat : G[k][v] \in Nat
  BY <1>2
<1>4. PICK trail \in [0 .. RootWidth -> Nat] : Recursive(trail, RootWidth, 0, G)
  <2> HIDE DEF G
  <2> QED BY <1>1, <1>3, RecursionExists
<1>5. \A k \in 0 .. RootWidth : trail[k] = IF k = 0 THEN 0 ELSE G[k][trail[k - 1]]
  <2> HIDE DEF G
  <2>1. trail = [k \in 0 .. RootWidth |-> IF k = 0 THEN 0 ELSE G[k][trail[k - 1]]]
    BY <1>4 DEF Recursive
  <2> QED BY <2>1, Zenon
<1>6. \A k \in 0 .. RootWidth : trail[k] = IF k = 0 THEN 0 ELSE RootStep(square, k, trail[k - 1])
  <2> SUFFICES ASSUME NEW k \in 0 .. RootWidth, k # 0
               PROVE  G[k][trail[k - 1]] = RootStep(square, k, trail[k - 1])
    <3> HIDE DEF G
    <3> QED BY <1>5
  <2>1. k - 1 \in 0 .. RootWidth /\ k \in Nat /\ k <= RootWidth
    BY <1>1
  <2>2. trail[k - 1] \in Nat
    BY <2>1
  <2> QED BY <2>1, <2>2
<1>7. trail = F(trail)
  <2>1. trail = [k \in 0 .. RootWidth |-> trail[k]]
    OBVIOUS
  <2>2. trail = [k \in 0 .. RootWidth |-> IF k = 0 THEN 0 ELSE RootStep(square, k, trail[k - 1])]
    BY <1>6, <2>1
  <2> QED BY <2>2
<1>8. g = F(g)
  <2> HIDE DEF F
  <2> QED BY <1>7
<1>9. \A k \in 0 .. RootWidth : g[k] = IF k = 0 THEN 0 ELSE RootStep(square, k, g[k - 1])
  <2> HIDE DEF g
  <2>1. g = [k \in 0 .. RootWidth |-> IF k = 0 THEN 0 ELSE RootStep(square, k, g[k - 1])]
    BY <1>8
  <2> QED BY <2>1, Zenon
<1> HIDE DEF g
<1>10. g[RootWidth] \in Nat
  <2> DEFINE S == {k \in Nat : k <= RootWidth => g[k] \in Nat}
  <2>1. 0 \in S
    BY <1>1, <1>9
  <2>2. \A k \in Nat : k \in S => k + 1 \in S
    <3> SUFFICES ASSUME NEW k \in Nat, k \in S, k + 1 <= RootWidth PROVE g[k + 1] \in Nat
      OBVIOUS
    <3>1. k + 1 \in 0 .. RootWidth /\ k + 1 # 0 /\ (k + 1) - 1 = k /\ g[k] \in Nat /\ k + 1 \in Nat
      BY <1>1
    <3>2. g[k + 1] = RootStep(square, k + 1, g[k])
      BY <1>9, <3>1
    <3> QED BY <1>2, <3>1, <3>2
  <2>3. \A k \in Nat : k \in S
    <3> HIDE DEF S
    <3> QED BY <2>1, <2>2, NatInd
  <2> QED BY <1>1, <2>3
<1> QED BY <1>8, <1>10 DEF g, F

\* A square root yields a float and flags.
LEMMA SqrtYields ==
  ASSUME NEW a \in Word, NEW rm
  PROVE  Yields(Sqrt(a, rm))
<1> DEFINE square == Units(a) * One * 2^(2 * RootBits)
           g == CHOOSE trail : trail = [k \in 0 .. RootWidth |->
                                  IF k = 0 THEN 0
                                  ELSE LET n == trail[k - 1] + 2^(RootWidth - k)
                                       IN  IF n * n <= square THEN n ELSE trail[k - 1]]
           root == g[RootWidth]
           odd == IF root * root = square THEN 0 ELSE 1
           rounded == Rounded(0, 2 * root + odd, 2^(RootBits + 1), rm)
<1>1. root \in Nat
  <2>1. g = CHOOSE trail : trail = [k \in 0 .. RootWidth |-> IF k = 0 THEN 0 ELSE RootStep(square, k, trail[k - 1])]
    BY DEF RootStep
  <2> HIDE DEF square, g
  <2> QED BY <2>1, RootDigits
<1>2. Sqrt(a, rm) = IF IsNaN(a) THEN QuietNaN({a})
                    ELSE IF IsZero(a) THEN Exact(a)
                    ELSE IF Sign(a) = 1 THEN Invalid
                    ELSE IF IsInf(a) THEN Exact(a)
                    ELSE rounded
  BY DEF Sqrt
<1> HIDE DEF g
<1>3. Yields(rounded)
  <2>1. 2 * root + odd \in Nat
    <3>1. odd \in {0, 1}
      BY Zenon
    <3> HIDE DEF odd, root
    <3> QED BY <1>1, <3>1
  <2>2. 2^(RootBits + 1) \in Nat \ {0}
    <3>1. RootBits + 1 \in Nat
      BY DEF RootBits
    <3> QED BY <3>1, PowerType
  <2>3. 0 \in {0, 1}
    OBVIOUS
  <2> DEFINE p == 2 * root + odd
             q == 2^(RootBits + 1)
  <2> HIDE DEF p, q
  <2>4. Yields(Rounded(0, p, q, rm))
    BY <2>1, <2>2, <2>3, RoundedYields DEF p, q
  <2> QED BY <2>4 DEF p, q
<1> HIDE DEF rounded
<1> QED BY <1>2, <1>3, OutcomeYields

\* So does a conversion of an integer.
LEMMA OfIntegerYields ==
  ASSUME NEW n \in Int, NEW rm
  PROVE  Yields(OfInteger(n, rm))
<1> DEFINE p == (IF n < 0 THEN -n ELSE n) * One
<1>1. p \in Nat
  <2> DEFINE m == IF n < 0 THEN -n ELSE n
  <2>1. m \in Nat /\ One \in Nat
    BY FloatWidths
  <2> HIDE DEF m
  <2> QED BY <2>1
<1>2. Yields(Rounded(IF n < 0 THEN 1 ELSE 0, p, 1, rm))
  <2> HIDE DEF p
  <2>1. (IF n < 0 THEN 1 ELSE 0) \in {0, 1} /\ 1 \in Nat \ {0}
    OBVIOUS
  <2> QED BY <1>1, <2>1, RoundedYields
<1>3. 0 \in Word
  BY WordType
<1>4. OfInteger(n, rm) = IF n = 0 THEN Exact(0) ELSE Rounded(IF n < 0 THEN 1 ELSE 0, p, 1, rm)
  BY Zenon DEF OfInteger
<1> HIDE DEF p
<1> QED BY <1>2, <1>3, <1>4, OutcomeYields

\* A canonical result is a word.
LEMMA CanonicalWord == ASSUME NEW a \in Word PROVE Canonical(a) \in Word
BY SpecialWords DEF Canonical

\* What is written by write_canonical.
LEMMA CanonicalYields ==
  ASSUME NEW o, Yields(o)
  PROVE  Yields(Outcome(Canonical(o.bits), o.flags))
BY CanonicalWord, OutcomeYields DEF Yields

\* Each kind of floating-point instruction.
LEMMA FusedYields ==
  ASSUME NEW type \in FusedTypes, NEW a \in Word, NEW b \in Word, NEW c \in Word, NEW rm
  PROVE  Yields(Fused(type, a, b, c, rm))
<1> DEFINE p == Fma(a, b, c, rm)
           q == Fma(a, b, Negated(c), rm)
<1>1. Yields(p) /\ Yields(q)
  <2>1. Negated(c) \in Word
    BY NegatedWord
  <2> QED BY <2>1, FmaYields
<1>2. \A o : Yields(o) => Yields([o EXCEPT !.bits = Negated(o.bits)])
  <2> SUFFICES ASSUME NEW o \in [bits : Word, flags : SUBSET Flags]
               PROVE  [o EXCEPT !.bits = Negated(o.bits)] \in [bits : Word, flags : SUBSET Flags]
    BY DEF Yields
  <2>1. Negated(o.bits) \in Word
    BY NegatedWord
  <2> QED BY <2>1
<1>3. \/ Fused(type, a, b, c, rm) = p \/ Fused(type, a, b, c, rm) = q
      \/ Fused(type, a, b, c, rm) = [p EXCEPT !.bits = Negated(p.bits)]
      \/ Fused(type, a, b, c, rm) = [q EXCEPT !.bits = Negated(q.bits)]
  BY DEF Fused, FusedTypes
<1> HIDE DEF p, q
<1> QED BY <1>1, <1>2, <1>3

\* Arithmetic yields a float and flags.
LEMMA ArithmeticYields ==
  ASSUME NEW type \in ArithmeticTypes, NEW a \in Word, NEW b \in Word, NEW c \in Word, NEW rm
  PROVE  Yields(Arithmetic(type, a, b, c, rm))
<1> DEFINE o == CASE type = "FADD_S" -> Add(a, b, rm)
                  [] type = "FSUB_S" -> Sub(a, b, rm)
                  [] type = "FMUL_S" -> Mul(a, b, rm)
                  [] type = "FDIV_S" -> Div(a, b, rm)
                  [] type = "FSQRT_S" -> Sqrt(a, rm)
                  [] type \in FusedTypes -> Fused(type, a, b, c, rm)
<1>1. Yields(o)
  <2>1. CASE type \in FusedTypes
    <3>1. o = Fused(type, a, b, c, rm)
      BY <2>1 DEF FusedTypes
    <3> HIDE DEF o
    <3> QED BY <2>1, <3>1, FusedYields
  <2>2. CASE type \notin FusedTypes
    <3>1. o \in {Add(a, b, rm), Sub(a, b, rm), Mul(a, b, rm), Div(a, b, rm), Sqrt(a, rm)}
      BY <2>2 DEF ArithmeticTypes
    <3> HIDE DEF o
    <3> QED BY <3>1, SumProductYields, DivYields, SqrtYields
  <2> QED BY <2>1, <2>2
<1>2. Arithmetic(type, a, b, c, rm) = Outcome(Canonical(o.bits), o.flags)
  BY DEF Arithmetic
<1> HIDE DEF o
<1> QED BY <1>1, <1>2, CanonicalYields

\* So do FMIN and FMAX.
LEMMA MinMaxYields ==
  ASSUME NEW type, NEW a \in Word, NEW b \in Word
  PROVE  Yields(MinMax(type, a, b))
<1> DEFINE bits == CASE IsNaN(a) /\ IsNaN(b) -> CanonicalNaN
                     [] IsNaN(a) /\ ~IsNaN(b) -> b
                     [] IsNaN(b) /\ ~IsNaN(a) -> a
                     [] OTHER -> IF type = "FMIN_S" THEN Smaller(a, b) ELSE Larger(a, b)
           flags == IF AnySNaN({a, b}) THEN {"NV"} ELSE {}
<1>1. bits \in Word
  <2>1. Smaller(a, b) \in Word /\ Larger(a, b) \in Word /\ CanonicalNaN \in Word
    BY SpecialWords DEF Smaller, Larger
  <2> QED BY <2>1
<1>2. flags \in SUBSET Flags
  BY DEF Flags
<1>3. MinMax(type, a, b) = Outcome(Canonical(bits), flags)
  BY DEF MinMax
<1> HIDE DEF bits, flags
<1> QED BY <1>1, <1>2, <1>3, CanonicalWord, OutcomeYields

\* A conversion to an integer yields a word and flags.
LEMMA ToIntegerYields ==
  ASSUME NEW type, NEW a \in Word, NEW rm
  PROVE  Yields(ToInteger(type, a, rm))
<1>1. RoundToInt(a, rm) \in Int
  <2> DEFINE n == Nearest(Sign(a), Units(a), One, rm)
  <2>1. n \in Nat
    <3>1. Units(a) \in Nat /\ One \in Nat \ {0}
      BY UnitsType, FloatWidths
    <3> QED BY <3>1, NearestType
  <2>2. RoundToInt(a, rm) = IF Sign(a) = 1 THEN -n ELSE n
    BY DEF RoundToInt
  <2> HIDE DEF n
  <2> QED BY <2>1, <2>2
<1>2. ASSUME NEW low \in Int, NEW high \in Int PROVE Yields(Saturated(a, low, high, rm))
  <2> DEFINE rounded == RoundToInt(a, rm)
             top == IsNaN(a) \/ (IsInf(a) /\ Sign(a) = 0) \/ (IsFinite(a) /\ rounded > high)
             bottom == (IsInf(a) /\ Sign(a) = 1) \/ (IsFinite(a) /\ rounded < low)
             flags == IF rounded * One # Value(a) THEN {"NX"} ELSE {}
  <2>1. /\ Trunc(high) \in Word /\ Trunc(low) \in Word /\ Trunc(rounded) \in Word
        /\ {"NV"} \in SUBSET Flags /\ flags \in SUBSET Flags
    BY <1>1, TruncWord DEF Flags
  <2>2. Saturated(a, low, high, rm) =
          CASE top -> Outcome(Trunc(high), {"NV"})
            [] bottom -> Outcome(Trunc(low), {"NV"})
            [] OTHER -> Outcome(Trunc(rounded), flags)
    BY DEF Saturated
  <2> HIDE DEF top, bottom, flags, rounded
  <2>3. \/ Saturated(a, low, high, rm) = Outcome(Trunc(high), {"NV"})
        \/ Saturated(a, low, high, rm) = Outcome(Trunc(low), {"NV"})
        \/ Saturated(a, low, high, rm) = Outcome(Trunc(rounded), flags)
    BY <2>2
  <2> QED BY <2>1, <2>3, OutcomeYields
<1>3. -MinSigned \in Int /\ MinSigned - 1 \in Int /\ 0 \in Int /\ AllOnes \in Int
  BY Widths
<1> QED BY <1>2, <1>3 DEF ToInteger

\* A conversion from an integer yields a float and flags.
LEMMA FromIntegerYields ==
  ASSUME NEW type, NEW a \in Word, NEW rm
  PROVE  Yields(FromInteger(type, a, rm))
<1> DEFINE o == OfInteger(IF type = "FCVT_S_W" THEN Signed(a) ELSE a, rm)
<1>1. Yields(o)
  <2>1. (IF type = "FCVT_S_W" THEN Signed(a) ELSE a) \in Int
    BY SignedType, WordType
  <2> QED BY <2>1, OfIntegerYields
<1>2. FromInteger(type, a, rm) = Outcome(Canonical(o.bits), o.flags)
  BY DEF FromInteger
<1> HIDE DEF o
<1> QED BY <1>1, <1>2, CanonicalYields

\* A comparison yields zero or one and flags.
LEMMA CompareYields ==
  ASSUME NEW type \in {"FEQ_S", "FLT_S", "FLE_S"}, NEW a \in Word, NEW b \in Word
  PROVE  Yields(Compare(type, a, b))
<1>1. \A p : Truth(p) \in Word
  BY WordType, Zenon DEF Truth
<1>2. {} \in SUBSET Flags /\ {"NV"} \in SUBSET Flags
  BY DEF Flags
<1>3. \E p, flags : flags \in SUBSET Flags /\ Compare(type, a, b) = Outcome(Truth(p), flags)
  <2>1. (IF AnySNaN({a, b}) THEN {"NV"} ELSE {}) \in SUBSET Flags
        /\ (IF Ordered(a, b) THEN {} ELSE {"NV"}) \in SUBSET Flags
    BY <1>2
  <2> QED BY <2>1 DEF Compare
<1> QED BY <1>1, <1>3, OutcomeYields

\* A sign injected into a float leaves a float.
LEMMA InjectedWord ==
  ASSUME NEW type \in {"FSGNJ_S", "FSGNJN_S", "FSGNJX_S"}, NEW a \in Word, NEW b \in Word
  PROVE  Injected(type, a, b) \in Word
<1> DEFINE s == CASE type = "FSGNJ_S" -> Sign(b)
                  [] type = "FSGNJN_S" -> 1 - Sign(b)
                  [] type = "FSGNJX_S" -> Differ(Sign(a), Sign(b))
<1>1. s \in {0, 1}
  BY SignOfWord DEF Differ
<1>2. Magn(a) \in Nat /\ Magn(a) < MinSigned
  BY SignOfWord
<1>3. Injected(type, a, b) = WithSign(s, Magn(a))
  BY DEF Injected
<1> HIDE DEF s
<1> QED BY <1>1, <1>2, <1>3, SignedWord

\* A class is a word.
LEMMA ClassifyWord == ASSUME NEW a \in Word PROVE Classify(a) \in Word
<1>1. Classify(a) \in 0 .. 9
  BY DEF Classify
<1>2. \A n \in 0 .. 9 : n \in Word
  BY WordType, Widths
<1> QED BY <1>1, <1>2

\* Instructions lie at even addresses.
Even(w) == w \in Word /\ Bit(w, 0) = 0

\* Even addresses, and sums of even numbers.
LEMMA EvenAddresses ==
  /\ \A n \in Int : n % 2 = 0 => Even(Trunc(n))
  /\ \A w \in Word : Even(w) <=> w % 2 = 0
  /\ \A w \in Word : Even(w - (w % 2))
  /\ \A w, n \in Int : w % 2 = 0 /\ n % 2 = 0 => (w + n) % 2 = 0
<1>1. ASSUME NEW w \in Word PROVE Even(w) <=> w % 2 = 0
  <2>1. 2^0 = 1 /\ w \in Nat
    BY WordType
  <2>2. w \div 1 = w
    BY <2>1
  <2> QED BY <2>1, <2>2 DEF Even, Bit
<1>2. ASSUME NEW n \in Int, n % 2 = 0 PROVE Even(Trunc(n))
  <2> DEFINE p == 2^XLEN
             q == n \div p
             r == n % p
             k == MinSigned * q
  <2>1. p \in Nat \ {0} /\ p = 2 * MinSigned /\ MinSigned \in Nat
    BY Widths
  <2>2. q \in Int /\ r \in Nat /\ n = p * q + r
    <3> HIDE DEF p
    <3> QED BY <2>1
  <2>3. Trunc(n) = r /\ r \in Word
    BY TruncWord DEF Trunc
  <2> HIDE DEF p, q, r
  <2>4. k \in Int /\ p * q = 2 * k
    BY <2>1, <2>2
  <2> HIDE DEF k
  <2>5. r = n - 2 * k
    BY <2>2, <2>4
  <2>6. r % 2 = 0
    BY <1>2, <2>2, <2>4, <2>5
  <2> QED BY <1>1, <2>3, <2>6
<1>3. ASSUME NEW w \in Word PROVE Even(w - (w % 2))
  <2>1. w \in Nat /\ w - (w % 2) \in Nat /\ w - (w % 2) <= w /\ (w - (w % 2)) % 2 = 0
    BY WordType
  <2>2. w - (w % 2) \in Word
    BY <2>1, WordType
  <2> QED BY <1>1, <2>1, <2>2
<1>4. \A w, n \in Int : w % 2 = 0 /\ n % 2 = 0 => (w + n) % 2 = 0
  OBVIOUS
<1> QED BY <1>1, <1>2, <1>3, <1>4

\* An effect that leaves the pc at an instruction and a word to write.
Fit(e) == Even(e.next) /\ e.value \in Word

\* The effects the executors are made of fit.
LEMMA FitShapes ==
  ASSUME NEW after, Even(after)
  PROVE  /\ Fit(Nothing(after))
         /\ \A rd, v : v \in Word => Fit(Writes(after, rd, v))
         /\ \A cause, tval : Fit(Traps(after, cause, tval))
         /\ \A type, rd, at : Fit(Loads(after, type, rd, at))
         /\ \A type, at, data : Fit(Stores(after, type, at, data))
BY WordType DEF Fit, Nothing, Writes, Traps, Loads, Stores

\* The effect of every instruction of the base executor fits.
LEMMA BaseFit ==
  ASSUME NEW d, d.type \in BaseTypes, NEW regs, regs[d.rs1] \in Word, regs[d.rs2] \in Word,
         d.imm \in Int, d.type \in BranchTypes \union {"JAL"} => d.imm % 2 = 0,
         NEW at, Even(at), NEW hasC, NEW mode
  PROVE  Fit(BaseEffect(d, regs, at, 4, hasC, mode))
<1> DEFINE e == BaseEffect(d, regs, at, 4, hasC, mode)
           after == Trunc(at + 4)
           target == Trunc(at + d.imm)
           to == Trunc(regs[d.rs1] + d.imm)
           a == regs[d.rs1]
           b == regs[d.rs2]
<1>1. at \in Word /\ at \in Nat /\ at % 2 = 0
  BY EvenAddresses, WordType DEF Even
<1>2. Even(after) /\ after \in Word
  <2>1. 4 % 2 = 0 /\ at \in Int /\ 4 \in Int
    BY <1>1
  <2>2. (at + 4) % 2 = 0 /\ at + 4 \in Int
    BY <1>1, <2>1, EvenAddresses
  <2> QED BY <2>2, EvenAddresses DEF Even
<1>3. target \in Word /\ (d.imm % 2 = 0 => Even(target))
  <2>1. at \in Int
    BY <1>1
  <2>2. at + d.imm \in Int /\ (d.imm % 2 = 0 => (at + d.imm) % 2 = 0)
    BY <1>1, <2>1, EvenAddresses
  <2> QED BY <2>2, EvenAddresses, TruncWord
<1>4. to \in Word
  <2>1. regs[d.rs1] + d.imm \in Int
    BY WordType
  <2> QED BY <2>1, TruncWord
<1>5. Even(to - (to % 2))
  <2> HIDE DEF to
  <2> QED BY <1>4, EvenAddresses
<1>6. ASSUME NEW rd, NEW there, Even(there)
      PROVE  Fit(Jump(hasC, after, rd, there)) /\ Fit(TakeBranch(hasC, after, there))
  <2> HIDE DEF after
  <2> QED BY <1>2, <1>6, FitShapes DEF Jump, TakeBranch
<1>7. CASE d.type \in {"LUI", "AUIPC"}
  <2>1. Trunc(d.imm) \in Word
    BY TruncWord
  <2>2. e = Writes(after, d.rd, Trunc(d.imm)) \/ e = Writes(after, d.rd, target)
    BY <1>7 DEF BaseEffect, ImmTypes, RegTypes, StoreTypes, LoadTypes, BranchTypes
  <2> HIDE DEF e, after, target
  <2> QED BY <1>2, <1>3, <2>1, <2>2, FitShapes DEF e
<1>8. CASE d.type \in {"JAL", "JALR"}
  <2>1. CASE d.type = "JAL"
    <3>1. e = Jump(hasC, after, d.rd, target)
      BY <2>1 DEF BaseEffect, ImmTypes, RegTypes, StoreTypes, LoadTypes, BranchTypes
    <3> HIDE DEF e, after, target
    <3> QED BY <1>3, <1>6, <2>1, <3>1 DEF e
  <2>2. CASE d.type = "JALR"
    <3>1. e = Jump(hasC, after, d.rd, to - (to % 2))
      BY <2>2 DEF BaseEffect, ImmTypes, RegTypes, StoreTypes, LoadTypes, BranchTypes
    <3> HIDE DEF e, after, to
    <3> QED BY <1>5, <1>6, <3>1 DEF e
  <2> QED BY <1>8, <2>1, <2>2
<1>9. CASE d.type \in BranchTypes
  <2>1. e = TakeBranch(hasC, after, target) \/ e = Nothing(after)
    BY <1>9 DEF BaseEffect, ImmTypes, RegTypes, StoreTypes, LoadTypes, BranchTypes
  <2> HIDE DEF e, after, target
  <2> QED BY <1>2, <1>3, <1>6, <1>9, <2>1, FitShapes DEF e
<1>10. CASE d.type \in LoadTypes
  <2>1. e = Loads(after, d.type, d.rd, to)
    BY <1>10 DEF BaseEffect, ImmTypes, RegTypes, StoreTypes, LoadTypes, BranchTypes
  <2> HIDE DEF e, after, to
  <2> QED BY <1>2, <2>1, FitShapes DEF e
<1>11. CASE d.type \in StoreTypes
  <2>1. e = Stores(after, d.type, to, b)
    BY <1>11 DEF BaseEffect, ImmTypes, RegTypes, StoreTypes, LoadTypes, BranchTypes
  <2> HIDE DEF e, after, to
  <2> QED BY <1>2, <2>1, FitShapes DEF e
<1>12. CASE d.type \in ImmTypes \union RegTypes
  <2>1. e = Writes(after, d.rd, Compute(d.type, a, b, d.imm))
    BY <1>12 DEF BaseEffect, ImmTypes, RegTypes, StoreTypes, LoadTypes, BranchTypes
  <2>2. Compute(d.type, a, b, d.imm) \in Word
    BY <1>12, ComputeWord
  <2> HIDE DEF e, after, a, b
  <2> QED BY <1>2, <2>1, <2>2, FitShapes DEF e
<1>13. CASE d.type \in {"FENCE", "ECALL", "EBREAK", "ILLEGAL"}
  <2>1. e = Nothing(after) \/ \E cause, tval : e = Traps(after, cause, tval)
    BY <1>13 DEF BaseEffect, ImmTypes, RegTypes, StoreTypes, LoadTypes, BranchTypes
  <2> HIDE DEF e, after
  <2> QED BY <1>2, <2>1, FitShapes DEF e
<1> HIDE DEF e
<1> QED BY <1>7, <1>8, <1>9, <1>10, <1>11, <1>12, <1>13 DEF BaseTypes, e

\* So does that of the register-only extensions, which access nothing.
LEMMA RegisterFit ==
  ASSUME NEW d, d.type \in RegisterTypes, NEW regs, regs[d.rs1] \in Word, regs[d.rs2] \in Word,
         d.imm \in Int, NEW at, Even(at)
  PROVE  Fit(RegisterEffect(d, regs, at)) /\ RegisterEffect(d, regs, at).access = NoAccess
<1> DEFINE after == Trunc(at + 4)
           v == Compute(d.type, regs[d.rs1], regs[d.rs2], d.imm)
<1>1. Even(after)
  <2>1. at \in Int /\ 4 \in Int /\ at % 2 = 0 /\ 4 % 2 = 0
    BY EvenAddresses, WordType DEF Even
  <2>2. (at + 4) % 2 = 0 /\ at + 4 \in Int
    BY <2>1, EvenAddresses
  <2> QED BY <2>2, EvenAddresses
<1>2. d.type # "FENCE_I" => v \in Word
  BY ComputeWord DEF RegisterTypes
<1>3. RegisterEffect(d, regs, at) = IF d.type = "FENCE_I" THEN Nothing(after) ELSE Writes(after, d.rd, v)
  BY DEF RegisterEffect
<1> HIDE DEF after, v
<1>4. Nothing(after).access = NoAccess /\ Writes(after, d.rd, v).access = NoAccess
  BY DEF Nothing, Writes
<1> QED BY <1>1, <1>2, <1>3, <1>4, FitShapes

\* An instruction that accesses memory is a load or a store, and says which.
LEMMA AccessKinds ==
  ASSUME NEW d, d.type \in BaseTypes, NEW regs, NEW at, NEW hasC, NEW mode
  PROVE  LET e == BaseEffect(d, regs, at, 4, hasC, mode)
         IN  e.access # NoAccess /\ e.access.kind = "load" => d.type \in LoadTypes
<1> DEFINE e == BaseEffect(d, regs, at, 4, hasC, mode)
<1>1. CASE d.type \in LoadTypes
  BY <1>1
<1>2. CASE d.type \in StoreTypes
  <2>1. \E after, type, there, data : e = Stores(after, type, there, data)
    BY <1>2 DEF BaseEffect, ImmTypes, RegTypes, StoreTypes, LoadTypes, BranchTypes
  <2>2. \A after, type, there, data : Stores(after, type, there, data).access.kind = "store"
    BY DEF Stores, Nothing
  <2> HIDE DEF e
  <2> QED BY <2>1, <2>2 DEF e
<1>3. CASE d.type \notin LoadTypes \union StoreTypes
  <2>1. \A after : /\ Nothing(after).access = NoAccess
                   /\ \A rd, v : Writes(after, rd, v).access = NoAccess
                   /\ \A cause, tval : Traps(after, cause, tval).access = NoAccess
    BY DEF Nothing, Writes, Traps
  <2>2. \A after, rd, there : /\ Jump(hasC, after, rd, there).access = NoAccess
                              /\ TakeBranch(hasC, after, there).access = NoAccess
    BY <2>1 DEF Jump, TakeBranch
  <2>3. \/ \E after, rd, v : e = Writes(after, rd, v)
        \/ \E after, rd, there : e = Jump(hasC, after, rd, there)
        \/ \E after, there : e = TakeBranch(hasC, after, there)
        \/ \E after : e = Nothing(after)
        \/ \E after, cause, tval : e = Traps(after, cause, tval)
    BY <1>3 DEF BaseEffect, BaseTypes, ImmTypes, RegTypes, StoreTypes, LoadTypes, BranchTypes
  <2> HIDE DEF e
  <2>4. e.access = NoAccess
    BY <2>1, <2>2, <2>3
  <2> QED BY <2>4 DEF e
<1> QED BY <1>1, <1>2, <1>3

\* What a load brings is a word, and an access without a trap was answered.
LEMMA ExtendType ==
  ASSUME NEW type \in LoadTypes, NEW v \in Word
  PROVE  Extend(type, v) \in Word
<1>1. ByteBits \in Nat /\ HalfBits \in Nat
  BY Widths DEF ByteBits, HalfBits
<1>2. /\ SignExtend(v, ByteBits) \in Word /\ SignExtend(v, HalfBits) \in Word
      /\ v % 2^ByteBits \in Word /\ v % 2^HalfBits \in Word
  BY <1>1, ExtendWord
<1> QED BY <1>2 DEF Extend, LoadTypes

\* An access without a trap was answered with a word.
LEMMA AnsweredWord ==
  ASSUME NEW access, NEW answer \in BusWords \union {Fault}, AccessTrap(access, answer) = NoTrap
  PROVE  answer \in Word
<1>1. answer # Fault
  BY DEF AccessTrap, NoTrap
<1> QED BY <1>1, HartAssumption

\* The registers of a file of words that one write changes: the file still
\* has the same registers, x0 is still zero, and all hold words.
XFile(g) == DOMAIN g \subseteq 0 .. 31 /\ 0 \in DOMAIN g /\ g[0] = 0 /\ \A r \in DOMAIN g : g[r] \in Word
FFile(g) == DOMAIN g \subseteq 0 .. 31 /\ \A r \in DOMAIN g : g[r] \in Word

\* RegFile::write leaves a register file.
LEMMA WrittenFile ==
  ASSUME XFile(x), NEW rd, NEW v \in Word
  PROVE  XFile(Written(rd, v)) /\ DOMAIN Written(rd, v) = DOMAIN x
BY DEF XFile, Written

\* Every instruction names registers that there are.
Named(d) ==
  /\ {d.rs1, d.rs2} \subseteq DOMAIN x
  /\ {d.rs1, d.rs2, d.rs3} \subseteq DOMAIN f

\* The inductive invariant: types, with the registers that instructions name.
Inductive ==
  /\ deck \in Decks
  /\ XFile(x) /\ FFile(f)
  /\ Even(pc)
  /\ frm \in 0 .. 7 /\ fflags \subseteq Flags
  /\ steps \in 0 .. MaxSteps[deck]
  /\ \A d \in Stimuli[deck] : Named(d)

\* What a step may do to the registers, the pc and the flags.
Keeps ==
  /\ XFile(x') /\ DOMAIN x' = DOMAIN x
  /\ FFile(f') /\ DOMAIN f' = DOMAIN f
  /\ Even(pc') /\ frm' = frm /\ fflags' \subseteq Flags

\* The address after an instruction.
LEMMA NextAddress == Even(pc) => Even(Trunc(pc + 4))
<1> SUFFICES ASSUME Even(pc) PROVE Even(Trunc(pc + 4))
  OBVIOUS
<1>1. pc \in Int /\ 4 \in Int /\ pc % 2 = 0 /\ 4 % 2 = 0
  BY EvenAddresses, WordType DEF Even
<1>2. (pc + 4) % 2 = 0 /\ pc + 4 \in Int
  BY <1>1, EvenAddresses
<1> QED BY <1>2, EvenAddresses

\* Each of the four kinds of step keeps the registers.
LEMMA IntegerKeeps ==
  ASSUME Inductive, NEW d \in Stimuli[deck], ExecuteInteger(d)
  PROVE  Keeps
<1> DEFINE e == Effect(d)
<1>1. XFile(x) /\ Even(pc) /\ FFile(f) /\ fflags \subseteq Flags /\ deck \in Decks
  BY DEF Inductive
<1>2. x[d.rs1] \in Word /\ x[d.rs2] \in Word
  BY DEF Inductive, Named, XFile
<1>3. d.imm \in Int /\ (d.type \in BranchTypes \union {"JAL"} => d.imm % 2 = 0)
  BY <1>1, DecodedAssumption
<1>4. Fit(e)
  <2>1. CASE d.unit = "I"
    <3>1. d.type \in BaseTypes
      BY <1>1, <2>1, StimuliAssumption
    <3> QED BY <1>1, <1>2, <1>3, <2>1, <3>1, BaseFit DEF Effect
  <2>2. CASE d.unit = "R"
    <3>1. d.type \in RegisterTypes
      BY <1>1, <2>2, StimuliAssumption
    <3> QED BY <1>1, <1>2, <1>3, <2>2, <3>1, RegisterFit DEF Effect
  <2> QED BY <2>1, <2>2 DEF ExecuteInteger
<1>5. /\ x' = Written(e.rd, e.value)
      /\ pc' = e.next \/ pc' = Handler
      /\ UNCHANGED <<f, frm, fflags>>
  BY DEF ExecuteInteger, Trapped
<1> HIDE DEF e
<1>6. Even(Handler)
  BY HartAssumption DEF Even
<1> QED BY <1>1, <1>4, <1>5, <1>6, WrittenFile DEF Keeps, Fit

\* A load or store keeps them, whatever the bus answers.
LEMMA AccessKeeps ==
  ASSUME Inductive, NEW d \in Stimuli[deck], NEW answer \in BusWords \union {Fault},
         AccessInteger(d, answer)
  PROVE  Keeps
<1> DEFINE e == Effect(d)
           trap == AccessTrap(e.access, answer)
           brought == Extend(d.type, answer)
<1>1. XFile(x) /\ Even(pc) /\ FFile(f) /\ fflags \subseteq Flags /\ deck \in Decks
  BY DEF Inductive
<1>2. x[d.rs1] \in Word /\ x[d.rs2] \in Word
  BY DEF Inductive, Named, XFile
<1>3. d.imm \in Int /\ (d.type \in BranchTypes \union {"JAL"} => d.imm % 2 = 0)
  BY <1>1, DecodedAssumption
<1>4. d.unit = "I" /\ d.type \in BaseTypes /\ e.access # NoAccess
  BY <1>1, StimuliAssumption DEF AccessInteger
<1>5. Fit(e)
  BY <1>1, <1>2, <1>3, <1>4, BaseFit DEF Effect
<1>6. e.access.kind = "load" => d.type \in LoadTypes
  BY <1>4, AccessKinds DEF Effect
<1>7. trap = NoTrap /\ e.access.kind = "load" => brought \in Word
  <2> SUFFICES ASSUME trap = NoTrap, e.access.kind = "load" PROVE brought \in Word
    OBVIOUS
  <2>1. answer \in Word
    <3> HIDE DEF e
    <3> QED BY AnsweredWord
  <2> QED BY <1>6, <2>1, ExtendType
<1>8. /\ \/ x' = x
         \/ trap = NoTrap /\ e.access.kind = "load" /\ x' = Written(e.rd, brought)
      /\ pc' = e.next \/ pc' = Handler
      /\ UNCHANGED <<f, frm, fflags>>
  BY DEF AccessInteger, Trapped
<1> HIDE DEF e, trap, brought
<1>9. Even(Handler)
  BY HartAssumption DEF Even
<1>10. XFile(x') /\ DOMAIN x' = DOMAIN x
  BY <1>1, <1>7, <1>8, WrittenFile
<1> QED BY <1>1, <1>5, <1>8, <1>9, <1>10 DEF Keeps, Fit

\* The two ways a floating-point instruction retires, and its traps.
LEMMA OutcomeKeeps ==
  ASSUME Inductive, NEW d, NEW o, Yields(o), ToFloat(d, o) \/ ToX(d, o)
  PROVE  Keeps
<1>1. XFile(x) /\ Even(pc) /\ FFile(f) /\ fflags \subseteq Flags
  BY DEF Inductive
<1>2. o.bits \in Word /\ o.flags \subseteq Flags
  BY DEF Yields
<1>3. fflags' = fflags \union o.flags /\ frm' = frm /\ pc' = Trunc(pc + 4)
  BY DEF ToFloat, ToX, Retires, Merged
<1>4. Even(pc') /\ frm' = frm /\ fflags' \subseteq Flags
  BY <1>1, <1>2, <1>3, NextAddress
<1>5. CASE ToFloat(d, o)
  <2>1. x' = x /\ f' = [f EXCEPT ![d.rd] = o.bits]
    BY <1>5 DEF ToFloat
  <2>2. FFile(f') /\ DOMAIN f' = DOMAIN f
    BY <1>1, <1>2, <2>1 DEF FFile
  <2> QED BY <1>1, <1>4, <2>1, <2>2 DEF Keeps
<1>6. CASE ToX(d, o)
  <2>1. f' = f /\ x' = Written(d.rd, o.bits)
    BY <1>6 DEF ToX
  <2>2. XFile(x') /\ DOMAIN x' = DOMAIN x
    BY <1>1, <1>2, <2>1, WrittenFile
  <2> QED BY <1>1, <1>4, <2>1, <2>2 DEF Keeps
<1> QED BY <1>5, <1>6

\* A trap of the floating-point executor keeps them.
LEMMA TrapKeeps ==
  ASSUME Inductive, NEW d, NEW cause, NEW tval, FloatTrap(d, cause, tval)
  PROVE  Keeps
<1>1. XFile(x) /\ Even(pc) /\ FFile(f) /\ fflags \subseteq Flags
  BY DEF Inductive
<1>2. pc' = Handler /\ fflags' = fflags /\ UNCHANGED <<x, f, frm>>
  BY DEF FloatTrap, Trapped, Merged
<1>3. Even(Handler)
  BY HartAssumption DEF Even
<1> QED BY <1>1, <1>2, <1>3 DEF Keeps

\* A floating-point instruction keeps them.
LEMMA FloatKeeps ==
  ASSUME Inductive, NEW d \in Stimuli[deck], ExecuteFloat(d)
  PROVE  Keeps
<1> DEFINE a == f[d.rs1]
           b == f[d.rs2]
           c == f[d.rs3]
           n == x[d.rs1]
           mode == ModeOf(EffectiveRm(d.rm, frm))
<1>1. a \in Word /\ b \in Word /\ c \in Word /\ n \in Word
  BY DEF Inductive, Named, XFile, FFile
<1>2. CASE IllegalFloat(d)
  <2>1. FloatTrap(d, 2, d.raw)
    BY <1>2 DEF ExecuteFloat
  <2> QED BY <2>1, TrapKeeps
<1>3. CASE ~IllegalFloat(d)
  <2>1. \/ d.type \in ArithmeticTypes /\ ToFloat(d, Arithmetic(d.type, a, b, c, mode))
        \/ d.type \in {"FMIN_S", "FMAX_S"} /\ ToFloat(d, MinMax(d.type, a, b))
        \/ d.type \in {"FCVT_W_S", "FCVT_WU_S"} /\ ToX(d, ToInteger(d.type, a, mode))
        \/ d.type \in {"FCVT_S_W", "FCVT_S_WU"} /\ ToFloat(d, FromInteger(d.type, n, mode))
        \/ d.type = "FMV_X_W" /\ ToX(d, Exact(a))
        \/ d.type = "FMV_W_X" /\ ToFloat(d, Exact(n))
        \/ d.type \in {"FEQ_S", "FLT_S", "FLE_S"} /\ ToX(d, Compare(d.type, a, b))
        \/ d.type \in {"FSGNJ_S", "FSGNJN_S", "FSGNJX_S"} /\ ToFloat(d, Exact(Injected(d.type, a, b)))
        \/ d.type = "FCLASS_S" /\ ToX(d, Exact(Classify(a)))
    BY <1>3 DEF ExecuteFloat
  <2>2. PICK o : (ToFloat(d, o) \/ ToX(d, o)) /\ Yields(o)
    <3> HIDE DEF a, b, c, n, mode
    <3> QED BY <1>1, <2>1, ArithmeticYields, MinMaxYields, ToIntegerYields, FromIntegerYields,
               CompareYields, InjectedWord, ClassifyWord, OutcomeYields
  <2> QED BY <2>2, OutcomeKeeps
<1> QED BY <1>2, <1>3

\* FLW and FSW keep them.
LEMMA FloatAccessKeeps ==
  ASSUME Inductive, NEW d \in Stimuli[deck], NEW answer \in BusWords \union {Fault},
         AccessFloat(d, answer)
  PROVE  Keeps
<1> DEFINE access == [kind |-> IF d.type = "FLW" THEN "load" ELSE "store",
                      at |-> Trunc(x[d.rs1] + d.imm), bytes |-> 4, data |-> f[d.rs2]]
           trap == AccessTrap(access, answer)
<1>1. \/ FloatTrap(d, trap, access.at)
      \/ trap = NoTrap /\ ToFloat(d, Exact(answer))
      \/ Retires(d, access.data, {}) /\ UNCHANGED <<x, f>>
  BY DEF AccessFloat
<1> HIDE DEF access
<1>2. CASE FloatTrap(d, trap, access.at)
  <2> HIDE DEF trap
  <2> QED BY <1>2, TrapKeeps
<1>3. CASE trap = NoTrap /\ ToFloat(d, Exact(answer))
  <2>1. Yields(Exact(answer))
    BY <1>3, AnsweredWord, OutcomeYields
  <2> QED BY <1>3, <2>1, OutcomeKeeps
<1>4. CASE Retires(d, access.data, {}) /\ UNCHANGED <<x, f>>
  <2>1. fflags' = fflags /\ frm' = frm /\ pc' = Trunc(pc + 4) /\ x' = x /\ f' = f
    BY <1>4 DEF Retires, Merged
  <2> QED BY <2>1, NextAddress DEF Keeps, Inductive
<1> QED BY <1>1, <1>2, <1>3, <1>4

\* The invariant holds at first, and every step of an instruction keeps it.
LEMMA InductiveHolds == Spec => []Inductive
<1>1. Init => Inductive
  <2> SUFFICES ASSUME Init PROVE Inductive
    OBVIOUS
  <2>1. PICK s \in Starts[deck] : x = s.x /\ f = s.f /\ frm = s.frm /\ fflags = s.fflags
    BY DEF Init
  <2>2. deck \in Decks /\ pc = 0 /\ steps = 0
    BY DEF Init
  <2>3. XFile(x) /\ FFile(f) /\ frm \in 0 .. 7 /\ fflags \subseteq Flags
    BY <2>1, <2>2, StartsAssumption DEF XFile, FFile
  <2>4. Even(pc)
    <3>1. 0 \in Word /\ 0 % 2 = 0
      BY WordType
    <3> QED BY <2>2, <3>1, EvenAddresses
  <2>5. steps \in 0 .. MaxSteps[deck]
    BY <2>2, HartAssumption
  <2>6. \A d \in Stimuli[deck] : Named(d)
    BY <2>1, <2>2, DecodedAssumption DEF Named
  <2> QED BY <2>2, <2>3, <2>4, <2>5, <2>6 DEF Inductive
<1>2. Inductive /\ [Next]_vars => Inductive'
  <2>1. SUFFICES ASSUME Inductive, Next PROVE Inductive'
    BY DEF Inductive, vars, Named, XFile, FFile, Even
  <2>2. PICK d \in Stimuli[deck] :
          \/ ExecuteInteger(d)
          \/ \E answer \in BusWords \union {Fault} : AccessInteger(d, answer)
          \/ ExecuteFloat(d)
          \/ \E answer \in BusWords \union {Fault} : AccessFloat(d, answer)
    BY <2>1 DEF Next
  <2>3. Keeps
    BY <2>1, <2>2, IntegerKeeps, AccessKeeps, FloatKeeps, FloatAccessKeeps
  <2>4. deck' = deck /\ steps' = steps + 1 /\ steps < MaxSteps[deck]
    BY <2>1 DEF Next, Running
  <2>5. steps' \in 0 .. MaxSteps[deck]
    BY <2>1, <2>4, HartAssumption DEF Inductive
  <2>6. \A e \in Stimuli[deck] : Named(e)'
    BY <2>1, <2>3 DEF Inductive, Named, Keeps
  <2> QED BY <2>1, <2>3, <2>4, <2>5, <2>6 DEF Inductive, Keeps
<1> QED BY <1>1, <1>2, PTL DEF Spec

\* Registers are words and x0 is zero, whatever instructions run (RegFile::
\* write), float registers are words, the flags are flags, and the pc stays at
\* even addresses: every executor's result fits the register it is written to.
THEOREM TypeCorrect == Spec => []TypeOK
<1>1. Inductive => TypeOK
  BY DEF Inductive, TypeOK, XFile, FFile, Even
<1> QED BY <1>1, InductiveHolds, PTL

\* The instructions whose result Compute gives.
ComputedTypes ==
  ImmTypes \union RegTypes \union MTypes \union ZbbTypes \union ZbaTypes \union ZbsTypes \union ZicondTypes

\* What a step executes is told by the type of the instruction it leaves in did.
StepOf(d) ==
  /\ d \in Stimuli[deck] /\ did'.d = d
  /\ \/ ExecuteInteger(d)
     \/ \E answer \in BusWords \union {Fault} : AccessInteger(d, answer)
     \/ ExecuteFloat(d)
     \/ \E answer \in BusWords \union {Fault} : AccessFloat(d, answer)

\* The instruction of a step is one of the stimuli, and its operands are words.
LEMMA StepInstruction ==
  ASSUME Next
  PROVE  StepOf(did'.d)
<1>1. PICK d \in Stimuli[deck] :
        \/ ExecuteInteger(d)
        \/ \E answer \in BusWords \union {Fault} : AccessInteger(d, answer)
        \/ ExecuteFloat(d)
        \/ \E answer \in BusWords \union {Fault} : AccessFloat(d, answer)
  BY DEF Next
<1>2. did'.d = d
  BY <1>1 DEF ExecuteInteger, AccessInteger, ExecuteFloat, AccessFloat, FloatTrap,
              ToFloat, ToX, Retires, Trapped, Ran
<1> QED BY <1>1, <1>2 DEF StepOf

\* The result of a computing instruction, from words and a signed immediate.
LEMMA IntegerResult ==
  ASSUME Inductive, Next, Does(ComputedTypes)
  PROVE  /\ Result = Compute(did'.d.type, A, B, did'.d.imm)
         /\ A \in Word /\ B \in Word
         /\ did'.d.imm \in Int /\ -MinSigned <= did'.d.imm /\ did'.d.imm < MinSigned
<1> DEFINE d == did'.d
           e == Effect(d)
<1>1. StepOf(d) /\ deck \in Decks /\ did'.trap = NoTrap /\ d.type \in ComputedTypes
  BY StepInstruction DEF Inductive, Does
<1>2. d.imm \in -MinSigned .. MinSigned - 1 /\ MinSigned \in Nat
  BY <1>1, DecodedAssumption, Widths DEF StepOf
<1>3. A \in Word /\ B \in Word
  BY <1>1 DEF A, B, StepOf, Inductive, Named, XFile
<1>4. d.type \notin FloatOps /\ d.type \notin LoadTypes \union StoreTypes
  BY <1>1 DEF ComputedTypes, ImmTypes, RegTypes, MTypes, ZbbTypes, ZbaTypes, ZbsTypes, ZbsRegTypes,
     ZicondTypes, FloatOps, ArithmeticTypes, FusedTypes, ConversionTypes, LoadTypes, StoreTypes
<1>5. /\ d.unit = "I" => d.type \in BaseTypes
      /\ d.unit = "R" => d.type \in RegisterTypes
      /\ d.unit \in {"I", "R"}
  BY <1>1, <1>4, StimuliAssumption DEF StepOf
<1>6. e.value = Compute(d.type, A, B, d.imm) /\ e.access = NoAccess
  <2>1. CASE d.unit = "I"
    <3>1. d.type \in ImmTypes \union RegTypes
      BY <1>1, <1>5, <2>1 DEF ComputedTypes, BaseTypes, ImmTypes, RegTypes, MTypes, ZbbTypes, ZbaTypes,
         ZbsTypes, ZbsRegTypes, ZicondTypes, BranchTypes, LoadTypes, StoreTypes
    <3>2. e = Writes(Trunc(pc + 4), d.rd, Compute(d.type, A, B, d.imm))
      BY <2>1, <3>1 DEF Effect, BaseEffect, ImmTypes, RegTypes, StoreTypes, LoadTypes, BranchTypes, A, B
    <3> HIDE DEF e, d
    <3> QED BY <3>2 DEF Writes, Nothing
  <2>2. CASE d.unit = "R"
    <3>1. d.type # "FENCE_I"
      BY <1>1 DEF ComputedTypes, ImmTypes, RegTypes, MTypes, ZbbTypes, ZbaTypes,
         ZbsTypes, ZbsRegTypes, ZicondTypes
    <3>2. e = Writes(Trunc(pc + 4), d.rd, Compute(d.type, A, B, d.imm))
      BY <2>2, <3>1 DEF Effect, RegisterEffect, A, B
    <3> HIDE DEF e, d
    <3> QED BY <3>2 DEF Writes, Nothing
  <2> QED BY <1>5, <2>1, <2>2
<1>7. ExecuteInteger(d)
  BY <1>1, <1>5, <1>6 DEF StepOf, AccessInteger, ExecuteFloat, AccessFloat
<1>8. did'.value = e.value
  <2> HIDE DEF e
  <2> QED BY <1>1, <1>7 DEF ExecuteInteger, Trapped, Ran, e
<1> QED BY <1>2, <1>3, <1>6, <1>8 DEF Result

\* The order of signed words is that of their bits but for the sign.
Below(signed, m, n) ==
  IF signed /\ Bit(m, XLEN - 1) # Bit(n, XLEN - 1) THEN n < m ELSE m < n

\* Read with or without a sign, different words are different numbers.
LEMMA SignedOrder ==
  ASSUME NEW m \in Word, NEW n \in Word
  PROVE  /\ Below(TRUE, m, n) <=> Signed(m) < Signed(n)
         /\ Below(FALSE, m, n) <=> m < n
<1>1. /\ Sign(m) \in {0, 1} /\ (Sign(m) = 1 <=> m >= MinSigned)
      /\ Sign(n) \in {0, 1} /\ (Sign(n) = 1 <=> n >= MinSigned)
  BY SignOfWord
<1>2. m \in Nat /\ n \in Nat /\ m <= AllOnes /\ n <= AllOnes
  BY WordType
<1>3. Signed(m) = (IF m >= MinSigned THEN m - 2 * MinSigned ELSE m)
      /\ Signed(n) = (IF n >= MinSigned THEN n - 2 * MinSigned ELSE n)
  BY Widths DEF Signed, MinSigned
<1>4. Below(TRUE, m, n) <=> (IF Sign(m) # Sign(n) THEN n < m ELSE m < n)
  BY DEF Below, Sign
<1>5. Below(FALSE, m, n) <=> m < n
  BY DEF Below
<1>6. AllOnes = 2 * MinSigned - 1 /\ MinSigned \in Nat
  BY Widths
<1>7. CASE Sign(m) = Sign(n)
  <2>1. Below(TRUE, m, n) <=> m < n
    BY <1>4, <1>7
  <2>2. Signed(m) < Signed(n) <=> m < n
    BY <1>1, <1>2, <1>3, <1>6, <1>7
  <2> QED BY <1>5, <2>1, <2>2, Zenon
<1>8. CASE Sign(m) # Sign(n)
  <2>1. Below(TRUE, m, n) <=> n < m
    BY <1>4, <1>8
  <2>2. (m >= MinSigned) <=> ~(n >= MinSigned)
    BY <1>1, <1>8
  <2>3. Signed(m) < Signed(n) <=> n < m
    BY <1>2, <1>3, <1>6, <2>2
  <2> QED BY <1>5, <2>1, <2>3, Zenon
<1> QED BY <1>7, <1>8

\* A signed number becomes a word and comes back.
LEMMA SignedBack ==
  /\ \A n \in Int : -MinSigned <= n /\ n < MinSigned => Signed(Trunc(n)) = n
  /\ \A a \in Word : Trunc(Signed(a)) = a /\ Trunc(a) = a
<1> DEFINE m == MinSigned
<1>1. m \in Nat \ {0} /\ 2^XLEN = 2 * m /\ AllOnes = 2 * m - 1 /\ 2 * m \in Nat \ {0}
  BY Widths
<1>2. ASSUME NEW n \in Int, NEW r \in Nat, NEW c \in {0, 1}, r < 2 * m, n = r - c * (2 * m)
      PROVE  Trunc(n) = r
  <2> DEFINE p == 2 * m
  <2>1. Trunc(n) = n % p
    BY <1>1 DEF Trunc
  <2>2. p \in Nat \ {0} /\ n = p * (-c) + r /\ r < p
    BY <1>1, <1>2
  <2> HIDE DEF p
  <2>3. CASE c = 0
    <3>1. (p * 0 + r) % p = r
      BY <2>2, DivUnique
    <3>2. p * 0 + r = n
      BY <2>2, <2>3
    <3> QED BY <2>1, <3>1, <3>2
  <2>4. CASE c = 1
    <3>1. n = r - p /\ n \in Int
      BY <2>2, <2>4
    <3>2. (r - p) % p = r
      <4> DEFINE q == (r - p) \div p
                 s == (r - p) % p
      <4>1. q \in Int /\ s \in Nat /\ s < p /\ r - p = p * q + s
        BY <2>2
      <4> HIDE DEF q, s
      <4>2. q = -1
        <5>1. p * (q + 1) = r - s /\ r - s < p /\ r - s > -p
          BY <2>2, <4>1
        <5>2. q + 1 >= 1 => p * (q + 1) >= p
          BY <2>2, <4>1
        <5>3. q + 1 <= -1 => p * (q + 1) <= -p
          BY <2>2, <4>1
        <5> QED BY <2>2, <4>1, <5>1, <5>2, <5>3
      <4>3. s = r
        BY <2>2, <4>1, <4>2
      <4> QED BY <4>3 DEF s
    <3> QED BY <2>1, <3>1, <3>2
  <2> QED BY <2>3, <2>4
<1>3. ASSUME NEW n \in Int, -m <= n, n < m PROVE Signed(Trunc(n)) = n
  <2>1. CASE n >= 0
    <3>1. Trunc(n) = n
      BY <1>1, <1>2, <1>3, <2>1
    <3> QED BY <1>1, <1>3, <3>1 DEF Signed, MinSigned
  <2>2. CASE n < 0
    <3>1. n + 2 * m \in Nat /\ n + 2 * m < 2 * m /\ n = (n + 2 * m) - 1 * (2 * m) /\ n + 2 * m >= m
      BY <1>1, <1>3, <2>2
    <3>2. Trunc(n) = n + 2 * m
      BY <1>2, <3>1
    <3>3. Signed(n + 2 * m) = n + 2 * m - 2 * m
      BY <1>1, <3>1 DEF Signed, MinSigned
    <3> QED BY <1>1, <1>3, <3>2, <3>3
  <2> QED BY <2>1, <2>2
<1>4. ASSUME NEW a \in Word PROVE Trunc(Signed(a)) = a /\ Trunc(a) = a
  <2>1. a \in Nat /\ a < 2 * m
    BY <1>1, WordType
  <2>2. Signed(a) = (IF a >= m THEN a - 2 * m ELSE a)
    BY <1>1 DEF Signed, MinSigned
  <2>3. Trunc(a) = a
    BY <1>1, <1>2, <2>1
  <2>4. a - 2 * m \in Int /\ Trunc(a - 2 * m) = a
    <3>1. a - 2 * m \in Int /\ a - 2 * m = a - 1 * (2 * m)
      BY <1>1, <2>1
    <3> QED BY <1>2, <2>1, <3>1
  <2> QED BY <2>2, <2>3, <2>4
<1> HIDE DEF m
<1> QED BY <1>3, <1>4 DEF m

\* A branch that does not trap goes to its target or to the next instruction.
LEMMA BranchGoes ==
  ASSUME Inductive, Next, Does(BranchTypes)
  PROVE  /\ pc' = Trunc(pc + IF BranchTaken(did'.d.type, A, B) THEN did'.d.imm ELSE 4)
         /\ A \in Word /\ B \in Word
<1> DEFINE d == did'.d
           e == Effect(d)
           taken == BranchTaken(d.type, A, B)
<1>1. StepOf(d) /\ deck \in Decks /\ did'.trap = NoTrap /\ d.type \in BranchTypes
  BY StepInstruction DEF Inductive, Does
<1>2. A \in Word /\ B \in Word
  BY <1>1 DEF A, B, StepOf, Inductive, Named, XFile
<1>3. d.type \notin FloatOps /\ d.type \notin RegisterTypes
  BY <1>1 DEF BranchTypes, FloatOps, ArithmeticTypes, FusedTypes, ConversionTypes, RegisterTypes,
     MTypes, ZbbTypes, ZbaTypes, ZbsTypes, ZbsRegTypes, ZicondTypes
<1>4. d.unit = "I"
  BY <1>1, <1>3, StimuliAssumption DEF StepOf
<1>5. e = IF taken THEN TakeBranch(HasC, Trunc(pc + 4), Trunc(pc + d.imm)) ELSE Nothing(Trunc(pc + 4))
  BY <1>1, <1>4 DEF Effect, BaseEffect, ImmTypes, RegTypes, StoreTypes, LoadTypes, BranchTypes, A, B
<1>6. /\ e.access = NoAccess
      /\ e.trap = NoTrap => e.next = Trunc(pc + IF taken THEN d.imm ELSE 4)
  <2> HIDE DEF e, d, taken
  <2>1. CASE taken
    <3>1. e = TakeBranch(HasC, Trunc(pc + 4), Trunc(pc + d.imm))
      BY <1>5, <2>1
    <3>2. CASE TargetMisaligned(HasC, Trunc(pc + d.imm))
      BY <3>1, <3>2 DEF TakeBranch, Traps, Nothing, NoTrap
    <3>3. CASE ~TargetMisaligned(HasC, Trunc(pc + d.imm))
      BY <2>1, <3>1, <3>3 DEF TakeBranch, Nothing
    <3> QED BY <3>2, <3>3
  <2>2. CASE ~taken
    BY <1>5, <2>2 DEF Nothing
  <2> QED BY <2>1, <2>2
<1>7. ExecuteInteger(d)
  BY <1>1, <1>4, <1>6 DEF StepOf, AccessInteger, ExecuteFloat, AccessFloat
<1>8. e.trap = NoTrap /\ pc' = e.next
  <2> HIDE DEF e, d
  <2> QED BY <1>1, <1>7 DEF ExecuteInteger, Trapped, Ran, e
<1> QED BY <1>2, <1>6, <1>8

\* The executor that computes the result.
LEMMA ComputeOf ==
  ASSUME NEW t, NEW a, NEW b, NEW n
  PROVE  /\ t \in ImmTypes => Compute(t, a, b, n) = BaseImm(t, a, n)
         /\ t \in RegTypes => Compute(t, a, b, n) = BaseReg(t, a, b)
         /\ t \in MTypes => Compute(t, a, b, n) = MulDiv(t, a, b)
         /\ t \in ZbbTypes => Compute(t, a, b, n) = BitManip(t, a, b, n)
BY DEF Compute, ImmTypes, RegTypes, MTypes, ZbbTypes, ZbaTypes, ZbsTypes, ZbsRegTypes, ZicondTypes

SignedTypes == {"SLT", "SLTI", "BLT", "BGE", "MIN", "MAX"}

\* The order an instruction of a type compares its operands by.
LEMMA OrderOfType ==
  ASSUME NEW t, NEW m \in Word, NEW n \in Word
  PROVE  /\ t \in SignedTypes => (Below(t \in SignedTypes, m, n) <=> Signed(m) < Signed(n))
         /\ t \notin SignedTypes => (Below(t \in SignedTypes, m, n) <=> m < n)
<1>1. Below(TRUE, m, n) <=> Signed(m) < Signed(n)
  BY SignedOrder
<1>2. t \in SignedTypes => (Below(t \in SignedTypes, m, n) <=> Below(TRUE, m, n))
  <2> DEFINE g == t \in SignedTypes
  <2>1. g \in BOOLEAN
    OBVIOUS
  <2> HIDE DEF g
  <2>2. g => (Below(g, m, n) <=> Below(TRUE, m, n))
    BY <2>1 DEF Below
  <2> QED BY <2>2 DEF g
<1>3. t \notin SignedTypes => (Below(t \in SignedTypes, m, n) <=> m < n)
  BY DEF Below
<1> QED BY <1>1, <1>2, <1>3

\* The result of a comparison of two words.
Compared(type, a, b) == Below(type \in SignedTypes, a, b)

\* What an instruction of OrderTypes writes says how its operands compare,
LEMMA ComparedResults ==
  ASSUME NEW t, NEW a \in Word, NEW b \in Word, NEW n \in Int, -MinSigned <= n, n < MinSigned
  PROVE  /\ t \in {"SLT", "SLTU"} => (Compute(t, a, b, n) = 1 <=> Compared(t, a, b))
         /\ t \in {"SLTI", "SLTIU"} => (Compute(t, a, b, n) = 1 <=> Compared(t, a, Trunc(n)))
         /\ t \in {"MIN", "MINU"} => Compute(t, a, b, n) = IF Compared(t, a, b) THEN a ELSE b
         /\ t \in {"MAX", "MAXU"} => Compute(t, a, b, n) = IF Compared(t, a, b) THEN b ELSE a
<1>1. a \in Nat /\ b \in Nat /\ Signed(a) \in Int /\ Signed(b) \in Int
  BY WordType, SignedType
<1>2. /\ t \in SignedTypes => (Compared(t, a, b) <=> Signed(a) < Signed(b))
      /\ t \notin SignedTypes => (Compared(t, a, b) <=> a < b)
  BY OrderOfType DEF Compared
<1>3. t \in {"SLT", "SLTU"} => (Compute(t, a, b, n) = 1 <=> Compared(t, a, b))
  <2> SUFFICES ASSUME t \in {"SLT", "SLTU"} PROVE Compute(t, a, b, n) = 1 <=> Compared(t, a, b)
    OBVIOUS
  <2>1. Compute(t, a, b, n) = BaseReg(t, a, b)
    BY ComputeOf DEF RegTypes
  <2>2. CASE t = "SLT"
    <3>1. Compute(t, a, b, n) = Truth(Signed(a) < Signed(b))
      BY <2>1, <2>2 DEF BaseReg
    <3> QED BY <1>2, <2>2, <3>1 DEF Truth, SignedTypes
  <2>3. CASE t = "SLTU"
    <3>1. Compute(t, a, b, n) = Truth(a < b)
      BY <2>1, <2>3 DEF BaseReg
    <3> QED BY <1>2, <2>3, <3>1 DEF Truth, SignedTypes
  <2> QED BY <2>2, <2>3
<1>4. t \in {"SLTI", "SLTIU"} => (Compute(t, a, b, n) = 1 <=> Compared(t, a, Trunc(n)))
  <2> SUFFICES ASSUME t \in {"SLTI", "SLTIU"}
               PROVE  Compute(t, a, b, n) = 1 <=> Compared(t, a, Trunc(n))
    OBVIOUS
  <2>1. Compute(t, a, b, n) = BaseImm(t, a, n)
    BY ComputeOf DEF ImmTypes
  <2>2. Trunc(n) \in Word /\ Signed(Trunc(n)) = n
    BY TruncWord, SignedBack
  <2>3. /\ t \in SignedTypes => (Compared(t, a, Trunc(n)) <=> Signed(a) < n)
        /\ t \notin SignedTypes => (Compared(t, a, Trunc(n)) <=> a < Trunc(n))
    <3>1. /\ t \in SignedTypes => (Compared(t, a, Trunc(n)) <=> Signed(a) < Signed(Trunc(n)))
          /\ t \notin SignedTypes => (Compared(t, a, Trunc(n)) <=> a < Trunc(n))
      BY <2>2, OrderOfType DEF Compared
    <3> QED BY <2>2, <3>1
  <2>4. CASE t = "SLTI"
    <3>1. Compute(t, a, b, n) = Truth(Signed(a) < n)
      BY <2>1, <2>4 DEF BaseImm
    <3> QED BY <2>3, <2>4, <3>1 DEF Truth, SignedTypes
  <2>5. CASE t = "SLTIU"
    <3>1. Compute(t, a, b, n) = Truth(a < Trunc(n))
      BY <2>1, <2>5 DEF BaseImm
    <3> QED BY <2>3, <2>5, <3>1 DEF Truth, SignedTypes
  <2> QED BY <2>4, <2>5
<1>5. ASSUME t \in {"MIN", "MINU", "MAX", "MAXU"}
      PROVE  /\ t \in {"MIN", "MINU"} => Compute(t, a, b, n) = IF Compared(t, a, b) THEN a ELSE b
             /\ t \in {"MAX", "MAXU"} => Compute(t, a, b, n) = IF Compared(t, a, b) THEN b ELSE a
  <2>1. Compute(t, a, b, n) = BitManip(t, a, b, n)
    BY <1>5, ComputeOf DEF ZbbTypes
  <2>2. Trunc(Signed(a)) = a /\ Trunc(Signed(b)) = b
    BY SignedBack
  <2>3. Signed(a) = Signed(b) => a = b
    BY <2>2
  <2>4. CASE t = "MIN"
    <3>1. Compute(t, a, b, n) = Trunc(Least(Signed(a), Signed(b)))
      BY <2>1, <2>4 DEF BitManip
    <3>2. Compared(t, a, b) <=> Signed(a) < Signed(b)
      BY <1>2, <2>4 DEF SignedTypes
    <3>3. Compute(t, a, b, n) = IF Signed(b) < Signed(a) THEN b ELSE a
      BY <2>2, <3>1 DEF Least
    <3> QED BY <1>1, <2>3, <2>4, <3>2, <3>3
  <2>5. CASE t = "MAX"
    <3>1. Compute(t, a, b, n) = Trunc(Greatest(Signed(a), Signed(b)))
      BY <2>1, <2>5 DEF BitManip
    <3>2. Compared(t, a, b) <=> Signed(a) < Signed(b)
      BY <1>2, <2>5 DEF SignedTypes
    <3>3. Compute(t, a, b, n) = IF Signed(b) > Signed(a) THEN b ELSE a
      BY <2>2, <3>1 DEF Greatest
    <3> QED BY <1>1, <2>3, <2>5, <3>2, <3>3
  <2>6. CASE t = "MINU"
    <3>1. Compute(t, a, b, n) = IF b < a THEN b ELSE a
      BY <2>1, <2>6 DEF BitManip, Least
    <3>2. Compared(t, a, b) <=> a < b
      BY <1>2, <2>6 DEF SignedTypes
    <3> QED BY <1>1, <2>6, <3>1, <3>2
  <2>7. CASE t = "MAXU"
    <3>1. Compute(t, a, b, n) = IF b > a THEN b ELSE a
      BY <2>1, <2>7 DEF BitManip, Greatest
    <3>2. Compared(t, a, b) <=> a < b
      BY <1>2, <2>7 DEF SignedTypes
    <3> QED BY <1>1, <2>7, <3>1, <3>2
  <2> QED BY <1>5, <2>4, <2>5, <2>6, <2>7
<1> QED BY <1>3, <1>4, <1>5

\* and so does where a branch goes.
LEMMA ComparedBranches ==
  ASSUME NEW t, NEW a \in Word, NEW b \in Word
  PROVE  /\ t \in {"BLT", "BLTU"} => (BranchTaken(t, a, b) <=> Compared(t, a, b))
         /\ t \in {"BGE", "BGEU"} => (BranchTaken(t, a, b) <=> ~Compared(t, a, b))
<1>1. a \in Nat /\ b \in Nat /\ Signed(a) \in Int /\ Signed(b) \in Int
  BY WordType, SignedType
<1>2. /\ t \in SignedTypes => (Compared(t, a, b) <=> Signed(a) < Signed(b))
      /\ t \notin SignedTypes => (Compared(t, a, b) <=> a < b)
  BY OrderOfType DEF Compared
<1>3. /\ Signed(a) >= Signed(b) <=> ~(Signed(a) < Signed(b))
      /\ a >= b <=> ~(a < b)
  BY <1>1
<1>4. CASE t = "BLT"
  BY <1>2, <1>4 DEF BranchTaken, SignedTypes
<1>5. CASE t = "BLTU"
  BY <1>2, <1>5 DEF BranchTaken, SignedTypes
<1>6. CASE t = "BGE"
  <2>1. BranchTaken(t, a, b) <=> Signed(a) >= Signed(b)
    BY <1>6 DEF BranchTaken
  <2>2. Compared(t, a, b) <=> Signed(a) < Signed(b)
    BY <1>2, <1>6 DEF SignedTypes
  <2> QED BY <1>3, <1>6, <2>1, <2>2
<1>7. CASE t = "BGEU"
  <2>1. BranchTaken(t, a, b) <=> a >= b
    BY <1>7 DEF BranchTaken
  <2>2. Compared(t, a, b) <=> a < b
    BY <1>2, <1>7 DEF SignedTypes
  <2> QED BY <1>3, <1>7, <2>1, <2>2
<1> QED BY <1>4, <1>5, <1>6, <1>7

\* What one step does for the order of words.
OrderStep ==
  LET t == did'.d.type
      n == did'.d.imm
      goes(taken) == pc' = Trunc(pc + IF taken THEN n ELSE 4)
  IN  /\ Does({"SLT", "SLTU"}) => (Result = 1 <=> Compared(t, A, B))
      /\ Does({"SLTI", "SLTIU"}) => (Result = 1 <=> Compared(t, A, Trunc(n)))
      /\ Does({"BLT", "BLTU"}) => goes(Compared(t, A, B))
      /\ Does({"BGE", "BGEU"}) => goes(~Compared(t, A, B))
      /\ Does({"MIN", "MINU"}) => Result = IF Compared(t, A, B) THEN A ELSE B
      /\ Does({"MAX", "MAXU"}) => Result = IF Compared(t, A, B) THEN B ELSE A

\* Both hold of every step from an inductive state.
LEMMA OrderOfStep ==
  ASSUME Inductive, Next
  PROVE  OrderStep
<1> DEFINE t == did'.d.type
           n == did'.d.imm
<1>1. ASSUME Does({"SLT", "SLTU", "SLTI", "SLTIU", "MIN", "MINU", "MAX", "MAXU"})
      PROVE  /\ Does({"SLT", "SLTU"}) => (Result = 1 <=> Compared(t, A, B))
             /\ Does({"SLTI", "SLTIU"}) => (Result = 1 <=> Compared(t, A, Trunc(n)))
             /\ Does({"MIN", "MINU"}) => Result = IF Compared(t, A, B) THEN A ELSE B
             /\ Does({"MAX", "MAXU"}) => Result = IF Compared(t, A, B) THEN B ELSE A
  <2>1. Does(ComputedTypes)
    BY <1>1 DEF Does, ComputedTypes, RegTypes, ImmTypes, ZbbTypes
  <2>2. Result = Compute(t, A, B, n) /\ A \in Word /\ B \in Word
        /\ n \in Int /\ -MinSigned <= n /\ n < MinSigned
    BY <2>1, IntegerResult
  <2> QED BY <2>2, ComparedResults DEF Does
<1>2. ASSUME Does({"BLT", "BLTU", "BGE", "BGEU"})
      PROVE  /\ Does({"BLT", "BLTU"}) => pc' = Trunc(pc + IF Compared(t, A, B) THEN n ELSE 4)
             /\ Does({"BGE", "BGEU"}) => pc' = Trunc(pc + IF ~Compared(t, A, B) THEN n ELSE 4)
  <2>1. Does(BranchTypes)
    BY <1>2 DEF Does, BranchTypes
  <2>2. pc' = Trunc(pc + IF BranchTaken(t, A, B) THEN n ELSE 4) /\ A \in Word /\ B \in Word
    BY <2>1, BranchGoes
  <2> HIDE DEF t, n
  <2>3. /\ t \in {"BLT", "BLTU"} => (BranchTaken(t, A, B) <=> Compared(t, A, B))
        /\ t \in {"BGE", "BGEU"} => (BranchTaken(t, A, B) <=> ~Compared(t, A, B))
    BY <2>2, ComparedBranches
  <2> QED BY <2>2, <2>3 DEF Does, t
<1> QED BY <1>1, <1>2 DEF OrderStep, Does

\* Words are compared alike by every instruction that compares them.
THEOREM WordsOrdered == Spec => OrderAgreed
<1> DEFINE less(signed, m, n) ==
             IF signed /\ Bit(m, XLEN - 1) # Bit(n, XLEN - 1) THEN n < m ELSE m < n
           first(type) == less(type \in {"SLT", "SLTI", "BLT", "BGE", "MIN", "MAX"}, A, B)
           goes(taken) == pc' = Trunc(pc + IF taken THEN did'.d.imm ELSE 4)
           Agreed == /\ Does({"SLT", "SLTU"}) => (Result = 1) = first(did'.d.type)
                     /\ Does({"SLTI", "SLTIU"}) =>
                          (Result = 1) = less(did'.d.type = "SLTI", A, Trunc(did'.d.imm))
                     /\ Does({"BLT", "BLTU"}) => goes(first(did'.d.type))
                     /\ Does({"BGE", "BGEU"}) => goes(~first(did'.d.type))
                     /\ Does({"MIN", "MINU"}) => Result = IF first(did'.d.type) THEN A ELSE B
                     /\ Does({"MAX", "MAXU"}) => Result = IF first(did'.d.type) THEN B ELSE A
<1>1. ASSUME Inductive, Next PROVE Agreed
  <2>1. OrderStep
    BY <1>1, OrderOfStep
  <2>2. \A m, n, t : Compared(t, m, n) <=> less(t \in {"SLT", "SLTI", "BLT", "BGE", "MIN", "MAX"}, m, n)
    BY DEF Compared, Below, SignedTypes
  <2>3. \A m, n, t : t \in {"SLTI", "SLTIU"} => (Compared(t, m, n) <=> less(t = "SLTI", m, n))
    BY DEF Compared, Below, SignedTypes
  <2>4. Does({"SLT", "SLTU"}) => (Result = 1 <=> first(did'.d.type))
    BY <2>1, <2>2 DEF OrderStep
  <2>5. Does({"SLTI", "SLTIU"}) => (Result = 1 <=> less(did'.d.type = "SLTI", A, Trunc(did'.d.imm)))
    <3> HIDE DEF less
    <3> QED BY <2>1, <2>3 DEF OrderStep, Does
  <2>6. Does({"BLT", "BLTU"}) => goes(first(did'.d.type))
    BY <2>1, <2>2 DEF OrderStep
  <2>7. Does({"BGE", "BGEU"}) => goes(~first(did'.d.type))
    BY <2>1, <2>2 DEF OrderStep
  <2>8. Does({"MIN", "MINU"}) => Result = IF first(did'.d.type) THEN A ELSE B
    BY <2>1, <2>2 DEF OrderStep
  <2>9. Does({"MAX", "MAXU"}) => Result = IF first(did'.d.type) THEN B ELSE A
    BY <2>1, <2>2 DEF OrderStep
  <2> QED BY <2>4, <2>5, <2>6, <2>7, <2>8, <2>9
<1>2. ASSUME Inductive, [Next]_vars PROVE [Agreed]_vars
  BY <1>1, <1>2
<1> QED BY <1>2, InductiveHolds, PTL DEF Spec, OrderAgreed

\* The kinds of floats by their fields, and the range of their units.
LEMMA FloatKinds ==
  ASSUME NEW a \in Word
  PROVE  /\ IsInf(a) <=> Exponent(a) = TopExponent /\ Fraction(a) = 0
         /\ IsZero(a) <=> Exponent(a) = 0 /\ Fraction(a) = 0
         /\ Units(a) \in Nat /\ LargestUnits \in Nat /\ LargestUnits >= Hidden
         /\ Exponent(a) = 0 => Units(a) = Fraction(a)
         /\ Exponent(a) # 0 => Units(a) >= Hidden
         /\ Exponent(a) # TopExponent => Units(a) <= LargestUnits
<1> DEFINE h == Hidden
           e == Exponent(a)
           r == Fraction(a)
           t == TopExponent
<1>1. /\ h \in Nat /\ h >= 2 /\ t \in Nat /\ t >= 3 /\ Infinity = t * h
      /\ e \in Nat /\ e <= t /\ r \in Nat /\ r < h /\ Magn(a) = h * e + r
  BY FloatWidths, FloatFields
<1>2. IsInf(a) <=> h * e + r = t * h
  BY <1>1 DEF IsInf
<1>3. IsZero(a) <=> h * e + r = 0
  BY <1>1 DEF IsZero
<1>4. Units(a) \in Nat
  BY UnitsType
<1>5. e = 0 => Units(a) = r
  BY DEF Units
<1>6. e # 0 => Units(a) = (h + r) * 2^(e - 1)
  BY DEF Units
<1>7. LargestUnits = (2 * h - 1) * 2^(t - 2)
  BY DEF LargestUnits
<1> HIDE DEF h, e, r, t
<1>8. h * e + r = t * h <=> e = t /\ r = 0
  <2>1. CASE e = t
    <3>1. h * e = t * h /\ h * e \in Nat
      BY <1>1, <2>1
    <3> QED BY <1>1, <2>1, <3>1
  <2>2. CASE e # t
    <3>1. e + 1 <= t
      BY <1>1, <2>2
    <3>2. h * (e + 1) <= t * h /\ h * (e + 1) = h * e + h
      BY <1>1, <3>1
    <3>3. h * e \in Nat /\ t * h \in Nat
      BY <1>1
    <3> QED BY <1>1, <2>2, <3>2, <3>3
  <2> QED BY <2>1, <2>2
<1>9. h * e + r = 0 <=> e = 0 /\ r = 0
  <2>1. CASE e = 0
    BY <1>1, <2>1
  <2>2. CASE e # 0
    <3>1. h * e >= h
      BY <1>1, <2>2
    <3> QED BY <1>1, <2>2, <3>1
  <2> QED BY <2>1, <2>2
<1> DEFINE q == 2^(t - 2)
<1>10. q \in Nat \ {0}
  <2>1. t - 2 \in Nat
    BY <1>1
  <2> QED BY <2>1, PowerType
<1>11. LargestUnits \in Nat /\ LargestUnits >= h /\ h < 2 * h
  <2> DEFINE k == 2 * h - 1
  <2>1. k \in Nat /\ k >= h /\ LargestUnits = k * q
    BY <1>1, <1>7
  <2> HIDE DEF k, q
  <2>2. k * q \in Nat /\ k * q >= k
    BY <1>10, <2>1
  <2> QED BY <1>1, <2>1, <2>2
<1>12. ASSUME e # 0 PROVE Units(a) >= h /\ (e # t => Units(a) <= LargestUnits)
  <2> DEFINE p == 2^(e - 1)
             k == h + r
             g == 2 * h - 1
  <2>1. e - 1 \in Nat /\ p \in Nat \ {0}
    <3>1. e - 1 \in Nat
      BY <1>1, <1>12
    <3> QED BY <3>1, PowerType
  <2>2. k \in Nat /\ k >= h /\ g \in Nat /\ k <= g
    BY <1>1
  <2>3. Units(a) = k * p /\ LargestUnits = g * q
    BY <1>6, <1>7, <1>12
  <2>4. e # t => p <= q
    <3> SUFFICES ASSUME e # t PROVE p <= q
      OBVIOUS
    <3>1. e - 1 <= t - 2 /\ t - 2 \in Nat
      BY <1>1, <1>12
    <3> QED BY <2>1, <3>1, PowerOrder
  <2> HIDE DEF p, k, g, q
  <2>5. k * p >= k /\ k * p \in Nat
    BY <2>1, <2>2
  <2>6. p <= q => k * p <= g * q
    <3> SUFFICES ASSUME p <= q PROVE k * p <= g * q
      OBVIOUS
    <3>1. k * p <= g * p /\ g * p \in Nat
      BY <2>1, <2>2
    <3>2. g * p <= g * q /\ g * q \in Nat
      BY <1>10, <2>1, <2>2
    <3> QED BY <2>5, <3>1, <3>2
  <2> QED BY <1>1, <2>2, <2>3, <2>4, <2>5, <2>6
<1>13. e = 0 => Units(a) <= LargestUnits
  BY <1>1, <1>5, <1>11
<1> QED BY <1>2, <1>3, <1>4, <1>5, <1>8, <1>9, <1>11, <1>12, <1>13 DEF e, r, t, h

\* How far a value is from zero, an infinity beyond every number.
Extent(a) == IF IsInf(a) THEN LargestUnits + 1 ELSE Units(a)

\* The kinds of values are bands of their extent.
LEMMA ExtentBands ==
  ASSUME NEW a \in Word, ~IsNaN(a)
  PROVE  /\ Extent(a) \in Nat /\ Sign(a) \in {0, 1}
         /\ (Sign(a) = 1 => Rank(a) = -Extent(a)) /\ (Sign(a) = 0 => Rank(a) = Extent(a))
         /\ IsInf(a) <=> Extent(a) = LargestUnits + 1
         /\ Extent(a) <= LargestUnits + 1
         /\ IsZero(a) <=> Extent(a) = 0
         /\ Exponent(a) = 0 <=> Extent(a) < Hidden
<1>1. /\ IsInf(a) <=> Exponent(a) = TopExponent /\ Fraction(a) = 0
      /\ IsZero(a) <=> Exponent(a) = 0 /\ Fraction(a) = 0
      /\ Units(a) \in Nat /\ LargestUnits \in Nat /\ LargestUnits >= Hidden
      /\ Exponent(a) = 0 => Units(a) = Fraction(a)
      /\ Exponent(a) # 0 => Units(a) >= Hidden
      /\ Exponent(a) # TopExponent => Units(a) <= LargestUnits
      /\ Hidden \in Nat /\ Hidden >= 2 /\ TopExponent >= 3
      /\ Exponent(a) \in Nat /\ Fraction(a) \in Nat /\ Fraction(a) < Hidden
  BY FloatKinds, FloatWidths, FloatFields
<1>2. Exponent(a) = TopExponent => IsInf(a)
  BY <1>1 DEF IsNaN
<1>3. Sign(a) \in {0, 1}
  BY SignOfWord
<1>4. (Sign(a) = 1 => Rank(a) = -Extent(a)) /\ (Sign(a) = 0 => Rank(a) = Extent(a))
  <2>1. CASE IsInf(a)
    <3>1. Extent(a) = LargestUnits + 1
      BY <2>1 DEF Extent
    <3> DEFINE s == IF Sign(a) = 1 THEN -1 ELSE 1
    <3>2. Rank(a) = s * (LargestUnits + 1)
      BY <2>1 DEF Rank
    <3>3. (Sign(a) = 1 => s = -1) /\ (Sign(a) = 0 => s = 1)
      OBVIOUS
    <3> HIDE DEF s
    <3> QED BY <1>1, <1>3, <3>1, <3>2, <3>3
  <2>2. CASE ~IsInf(a)
    BY <2>2 DEF Extent, Rank, Value
  <2> QED BY <2>1, <2>2
<1> QED BY <1>1, <1>2, <1>3, <1>4 DEF Extent

\* The order of floats, and the operand FMIN and FMAX choose.
Beneath(v, w) == Less(v, w) \/ (Equal(v, w) /\ Sign(v) >= Sign(w))

\* The smaller and the larger of two floats that are no NaN.
LEMMA ChoiceOrdered ==
  ASSUME NEW a \in Word, NEW b \in Word, ~IsNaN(a), ~IsNaN(b)
  PROVE  /\ Beneath(a, a)
         /\ Smaller(a, b) \in {a, b} /\ Beneath(Smaller(a, b), a) /\ Beneath(Smaller(a, b), b)
         /\ Larger(a, b) \in {a, b} /\ Beneath(a, Larger(a, b)) /\ Beneath(b, Larger(a, b))
<1>1. /\ Extent(a) \in Nat /\ Sign(a) \in {0, 1}
      /\ (Sign(a) = 1 => Rank(a) = -Extent(a)) /\ (Sign(a) = 0 => Rank(a) = Extent(a))
      /\ IsZero(a) <=> Extent(a) = 0
  BY ExtentBands
<1>2. /\ Extent(b) \in Nat /\ Sign(b) \in {0, 1}
      /\ (Sign(b) = 1 => Rank(b) = -Extent(b)) /\ (Sign(b) = 0 => Rank(b) = Extent(b))
      /\ IsZero(b) <=> Extent(b) = 0
  BY ExtentBands
<1>3. \A v, w \in {a, b} : /\ Less(v, w) <=> Rank(v) < Rank(w)
                           /\ Beneath(v, w) <=> Rank(v) < Rank(w) \/ (Rank(v) = Rank(w) /\ Sign(v) >= Sign(w))
  BY DEF Beneath, Less, Equal, Ordered
<1>4. Beneath(a, a) /\ Beneath(b, b)
  BY <1>1, <1>2, <1>3
<1>5. CASE IsZero(a) /\ IsZero(b)
  <2>1. Rank(a) = 0 /\ Rank(b) = 0
    <3>1. Extent(a) = 0 /\ Extent(b) = 0
      BY <1>1, <1>2, <1>5
    <3> QED BY <1>1, <1>2, <3>1
  <2>2. Sign(a) = 1 => Beneath(a, b)
    BY <1>1, <1>2, <1>3, <2>1
  <2>3. Sign(a) # 1 => Beneath(b, a)
    BY <1>1, <1>2, <1>3, <2>1
  <2>4. Smaller(a, b) = (IF Sign(a) = 1 THEN a ELSE b) /\ Larger(a, b) = (IF Sign(a) = 1 THEN b ELSE a)
    BY <1>5 DEF Smaller, Larger
  <2> QED BY <1>4, <2>2, <2>3, <2>4
<1>6. CASE ~(IsZero(a) /\ IsZero(b))
  <2>1. /\ Less(a, b) => Smaller(a, b) = a
        /\ ~Less(a, b) => Smaller(a, b) = b
        /\ Less(b, a) => Larger(a, b) = a
        /\ ~Less(b, a) => Larger(a, b) = b
    BY <1>6 DEF Smaller, Larger
  <2>0. Rank(a) \in Int /\ Rank(b) \in Int
    BY <1>1, <1>2
  <2>2. Rank(a) = Rank(b) => Sign(a) = Sign(b)
    BY <1>1, <1>2, <1>6
  <2>3. Beneath(a, b) <=> Rank(a) <= Rank(b)
    BY <1>1, <1>2, <1>3, <2>2
  <2>4. Beneath(b, a) <=> Rank(b) <= Rank(a)
    BY <1>1, <1>2, <1>3, <2>2
  <2>5. CASE Rank(a) < Rank(b)
    <3>1. Smaller(a, b) = a /\ Larger(a, b) = b
      <4>1. Less(a, b) /\ ~Less(b, a)
        BY <1>3, <2>0, <2>5
      <4> QED BY <2>1, <4>1, Zenon
    <3> QED BY <1>1, <1>2, <1>4, <2>3, <2>5, <3>1
  <2>6. CASE Rank(b) < Rank(a)
    <3>1. Smaller(a, b) = b /\ Larger(a, b) = a
      <4>1. Less(b, a) /\ ~Less(a, b)
        BY <1>3, <2>0, <2>6
      <4> QED BY <2>1, <4>1, Zenon
    <3> QED BY <1>1, <1>2, <1>4, <2>4, <2>6, <3>1
  <2>7. CASE Rank(a) = Rank(b)
    <3>1. Beneath(a, b) /\ Beneath(b, a)
      BY <1>1, <1>2, <2>3, <2>4, <2>7
    <3>2. Smaller(a, b) \in {a, b} /\ Larger(a, b) \in {a, b}
      BY <2>1
    <3> QED BY <1>4, <3>1, <3>2
  <2> QED BY <1>1, <1>2, <2>5, <2>6, <2>7
<1> QED BY <1>5, <1>6

\* The quiet NaN with no payload is a NaN, and not a signalling one.
LEMMA CanonicalIsNaN == IsNaN(CanonicalNaN)
<1> DEFINE h == Hidden
           t == TopExponent
           q == QuietBit
<1>1. h \in Nat \ {0} /\ t \in Nat /\ 2^ExpBits \in Nat \ {0} /\ t < 2^ExpBits
      /\ q \in Nat /\ q >= 1 /\ q < h /\ CanonicalNaN = h * t + q
  BY FloatWidths DEF CanonicalNaN
<1>2. Exponent(CanonicalNaN) = (CanonicalNaN \div h) % 2^ExpBits /\ Fraction(CanonicalNaN) = CanonicalNaN % h
  BY DEF Exponent, Fraction, Hidden
<1> HIDE DEF h, t, q
<1>3. (h * t + q) \div h = t /\ (h * t + q) % h = q
  BY <1>1, DivUnique
<1>4. t % 2^ExpBits = t
  <2> DEFINE e == 2^ExpBits
  <2> HIDE DEF e
  <2>1. e \in Nat \ {0} /\ t \in Nat /\ t < e
    BY <1>1 DEF e
  <2>2. (e * 0 + t) % e = t
    BY <2>1, DivUnique
  <2>3. e * 0 + t = t
    BY <2>1
  <2> QED BY <2>2, <2>3 DEF e
<1>5. Exponent(CanonicalNaN) = t /\ Fraction(CanonicalNaN) = q
  BY <1>1, <1>2, <1>3, <1>4
<1> QED BY <1>1, <1>5 DEF IsNaN, t

\* A floating-point instruction that is neither a load nor a store.
ReckonedTypes ==
  {"FMIN_S", "FMAX_S", "FCLASS_S"} \union ConversionTypes

\* The outcome of such an instruction, from floats and a rounding mode.
LEMMA FloatResult ==
  ASSUME Inductive, Next, Does(ReckonedTypes)
  PROVE  LET t == did'.d.type
             mode == ModeOf(EffectiveRm(did'.d.rm, frm))
             is(o) == Result = o.bits /\ Raised = o.flags
         IN  /\ FA \in Word /\ FB \in Word /\ A \in Word
             /\ t \in {"FMIN_S", "FMAX_S"} => is(MinMax(t, FA, FB))
             /\ t \in {"FCVT_W_S", "FCVT_WU_S"} => is(ToInteger(t, FA, mode))
             /\ t \in {"FCVT_S_W", "FCVT_S_WU"} => is(FromInteger(t, A, mode))
             /\ t = "FCLASS_S" => is(Exact(Classify(FA)))
             /\ t \in ConversionTypes => ~(EffectiveRm(did'.d.rm, frm) > 4)
<1> DEFINE d == did'.d
           t == d.type
           mode == ModeOf(EffectiveRm(d.rm, frm))
           is(o) == Result = o.bits /\ Raised = o.flags
<1>1. StepOf(d) /\ deck \in Decks /\ did'.trap = NoTrap /\ t \in ReckonedTypes
  BY StepInstruction DEF Inductive, Does
<1>2. FA \in Word /\ FB \in Word /\ A \in Word
  BY <1>1 DEF A, FA, FB, StepOf, Inductive, Named, XFile, FFile
<1>3. t \notin BaseTypes /\ t \notin RegisterTypes /\ t # "FLW" /\ t # "FSW"
  BY <1>1 DEF ReckonedTypes, ConversionTypes, BaseTypes, RegisterTypes, BranchTypes, LoadTypes, StoreTypes,
     ImmTypes, RegTypes, MTypes, ZbbTypes, ZbaTypes, ZbsTypes, ZbsRegTypes, ZicondTypes
<1>4. d.unit = "F"
  BY <1>1, <1>3, StimuliAssumption DEF StepOf
<1>5. ExecuteFloat(d)
  BY <1>1, <1>3, <1>4 DEF StepOf, AccessFloat, ExecuteInteger, AccessInteger
<1>6. ~IllegalFloat(d)
  <2> SUFFICES ASSUME IllegalFloat(d) PROVE FALSE
    OBVIOUS
  <2>1. FloatTrap(d, 2, d.raw)
    BY <1>5 DEF ExecuteFloat
  <2>2. did'.trap = 2
    BY <2>1 DEF FloatTrap, Trapped, Ran
  <2> QED BY <1>1, <2>2 DEF NoTrap
<1>7. /\ t \in {"FMIN_S", "FMAX_S"} => ToFloat(d, MinMax(t, FA, FB))
      /\ t \in {"FCVT_W_S", "FCVT_WU_S"} => ToX(d, ToInteger(t, FA, mode))
      /\ t \in {"FCVT_S_W", "FCVT_S_WU"} => ToFloat(d, FromInteger(t, A, mode))
      /\ t = "FCLASS_S" => ToX(d, Exact(Classify(FA)))
  BY <1>1, <1>5, <1>6 DEF ExecuteFloat, A, FA, FB, ReckonedTypes, ConversionTypes, ArithmeticTypes, FusedTypes
<1>8. \A o : ToFloat(d, o) \/ ToX(d, o) => is(o)
  BY DEF ToFloat, ToX, Retires, Ran, Result, Raised
<1>9. t \in ConversionTypes => ~(EffectiveRm(d.rm, frm) > 4)
  BY <1>6 DEF IllegalFloat, UsesRounding
<1> HIDE DEF t, mode, is
<1>10. /\ t \in {"FMIN_S", "FMAX_S"} => is(MinMax(t, FA, FB))
       /\ t \in {"FCVT_W_S", "FCVT_WU_S"} => is(ToInteger(t, FA, mode))
       /\ t \in {"FCVT_S_W", "FCVT_S_WU"} => is(FromInteger(t, A, mode))
       /\ t = "FCLASS_S" => is(Exact(Classify(FA)))
  BY <1>7, <1>8
<1> USE DEF t, mode, is
<1> QED BY <1>2, <1>9, <1>10

\* FMIN and FMAX choose, whatever NaNs there are.
LEMMA MinMaxChooses ==
  ASSUME NEW a \in Word, NEW b \in Word, NEW t \in {"FMIN_S", "FMAX_S"},
         NEW o, o = MinMax(t, a, b)
  PROVE  LET numbers == {v \in {a, b} : ~IsNaN(v)}
         IN  /\ o.flags = IF IsSNaN(a) \/ IsSNaN(b) THEN {"NV"} ELSE {}
             /\ numbers = {} => IsNaN(o.bits)
             /\ numbers # {} => o.bits \in numbers
             /\ \A v \in numbers : IF t = "FMIN_S" THEN Beneath(o.bits, v) ELSE Beneath(v, o.bits)
<1> DEFINE numbers == {v \in {a, b} : ~IsNaN(v)}
           bits == CASE IsNaN(a) /\ IsNaN(b) -> CanonicalNaN
                     [] IsNaN(a) /\ ~IsNaN(b) -> b
                     [] IsNaN(b) /\ ~IsNaN(a) -> a
                     [] OTHER -> IF t = "FMIN_S" THEN Smaller(a, b) ELSE Larger(a, b)
           flags == IF AnySNaN({a, b}) THEN {"NV"} ELSE {}
<1>1. o.bits = Canonical(bits) /\ o.flags = flags
  <2>1. o = Outcome(Canonical(bits), flags)
    BY DEF MinMax
  <2> HIDE DEF bits, flags
  <2> QED BY <2>1 DEF Outcome
<1>2. o.flags = IF IsSNaN(a) \/ IsSNaN(b) THEN {"NV"} ELSE {}
  BY <1>1 DEF AnySNaN
<1>3. CASE IsNaN(a) /\ IsNaN(b)
  <2>1. bits = CanonicalNaN
    BY <1>3
  <2>2. o.bits = CanonicalNaN
    <3> HIDE DEF bits
    <3> QED BY <1>1, <2>1, CanonicalIsNaN DEF Canonical
  <2>3. numbers = {}
    BY <1>3
  <2> QED BY <1>2, <2>2, <2>3, CanonicalIsNaN
<1>4. CASE IsNaN(a) /\ ~IsNaN(b)
  <2>1. bits = b
    BY <1>4
  <2>2. o.bits = b
    <3> HIDE DEF bits
    <3> QED BY <1>1, <1>4, <2>1 DEF Canonical
  <2>3. numbers = {b}
    BY <1>4
  <2>4. Beneath(b, b)
    BY <1>4, ChoiceOrdered
  <2> QED BY <1>2, <2>2, <2>3, <2>4
<1>5. CASE IsNaN(b) /\ ~IsNaN(a)
  <2>1. bits = a
    BY <1>5
  <2>2. o.bits = a
    <3> HIDE DEF bits
    <3> QED BY <1>1, <1>5, <2>1 DEF Canonical
  <2>3. numbers = {a}
    BY <1>5
  <2>4. Beneath(a, a)
    BY <1>5, ChoiceOrdered
  <2> QED BY <1>2, <2>2, <2>3, <2>4
<1>6. CASE ~IsNaN(a) /\ ~IsNaN(b)
  <2>1. bits = IF t = "FMIN_S" THEN Smaller(a, b) ELSE Larger(a, b)
    BY <1>6
  <2>2. numbers = {a, b}
    BY <1>6
  <2>3. /\ Smaller(a, b) \in {a, b} /\ Beneath(Smaller(a, b), a) /\ Beneath(Smaller(a, b), b)
        /\ Larger(a, b) \in {a, b} /\ Beneath(a, Larger(a, b)) /\ Beneath(b, Larger(a, b))
    BY <1>6, ChoiceOrdered
  <2>4. o.bits = bits
    <3>1. bits \in {a, b}
      BY <2>1, <2>3
    <3> HIDE DEF bits
    <3> QED BY <1>1, <1>6, <3>1 DEF Canonical
  <2>5. o.bits = IF t = "FMIN_S" THEN Smaller(a, b) ELSE Larger(a, b)
    BY <2>1, <2>4
  <2> HIDE DEF numbers, bits
  <2>6. numbers # {} /\ o.bits \in numbers
    BY <2>2, <2>3, <2>5
  <2>7. \A v \in numbers : IF t = "FMIN_S" THEN Beneath(o.bits, v) ELSE Beneath(v, o.bits)
    BY <2>2, <2>3, <2>5
  <2> QED BY <1>2, <2>6, <2>7 DEF numbers
<1> QED BY <1>3, <1>4, <1>5, <1>6

\* The class of a value by its sign and extent.
LEMMA ClassOfExtent ==
  ASSUME NEW a \in Word
  PROVE  /\ Classify(a) \in 0 .. 9
         /\ IsNaN(a) <=> Classify(a) >= 8
         /\ Classify(a) = 8 <=> IsSNaN(a)
         /\ ~IsNaN(a) =>
              LET n == IF Extent(a) = 0 THEN 0
                       ELSE IF Extent(a) < Hidden THEN 1
                       ELSE IF Extent(a) <= LargestUnits THEN 2 ELSE 3
              IN  Classify(a) = IF Sign(a) = 1 THEN 3 - n ELSE 4 + n
<1>1. CASE IsNaN(a)
  <2>1. Classify(a) = IF Fraction(a) >= QuietBit THEN 9 ELSE 8
    <3>1. ~IsInf(a) /\ ~IsZero(a) /\ Exponent(a) # 0
      BY <1>1, FloatKinds, FloatWidths DEF IsNaN
    <3> QED BY <1>1, <3>1 DEF Classify
  <2>2. Fraction(a) \in Nat /\ QuietBit \in Nat
    BY FloatFields, FloatWidths
  <2>3. Fraction(a) >= QuietBit <=> ~(Fraction(a) < QuietBit)
    BY <2>2
  <2> QED BY <1>1, <2>1, <2>3 DEF IsSNaN
<1>2. CASE ~IsNaN(a)
  <2>1. /\ Extent(a) \in Nat /\ Sign(a) \in {0, 1}
        /\ IsInf(a) <=> Extent(a) = LargestUnits + 1
        /\ Extent(a) <= LargestUnits + 1
        /\ IsZero(a) <=> Extent(a) = 0
        /\ Exponent(a) = 0 <=> Extent(a) < Hidden
        /\ Hidden \in Nat /\ Hidden >= 2 /\ LargestUnits \in Nat /\ LargestUnits >= Hidden
    BY <1>2, ExtentBands, FloatWidths, FloatKinds
  <2>2. ~IsSNaN(a)
    BY <1>2 DEF IsSNaN
  <2>3. CASE IsInf(a)
    <3>1. Classify(a) = IF Sign(a) = 1 THEN 0 ELSE 7
      BY <1>2, <2>1, <2>3 DEF Classify
    <3> QED BY <1>2, <2>1, <2>2, <2>3, <3>1
  <2>4. CASE IsZero(a)
    <3>1. Classify(a) = IF Sign(a) = 1 THEN 3 ELSE 4
      BY <1>2, <2>1, <2>4 DEF Classify
    <3> QED BY <1>2, <2>1, <2>2, <2>4, <3>1
  <2>5. CASE ~IsInf(a) /\ ~IsZero(a) /\ Exponent(a) = 0
    <3>1. Classify(a) = IF Sign(a) = 1 THEN 2 ELSE 5
      BY <1>2, <2>5 DEF Classify
    <3> QED BY <1>2, <2>1, <2>2, <2>5, <3>1
  <2>6. CASE ~IsInf(a) /\ ~IsZero(a) /\ Exponent(a) # 0
    <3>1. Classify(a) = IF Sign(a) = 1 THEN 1 ELSE 6
      BY <1>2, <2>6 DEF Classify
    <3> QED BY <1>2, <2>1, <2>2, <2>6, <3>1
  <2> QED BY <2>3, <2>4, <2>5, <2>6
<1> QED BY <1>1, <1>2

\* Classes are in the order of the values, and a zero is alone in its own.
LEMMA ClassesOrdered ==
  ASSUME NEW a \in Word, NEW b \in Word, Less(a, b)
  PROVE  /\ Classify(a) <= Classify(b)
         /\ IsZero(a) \/ IsZero(b) => Classify(a) < Classify(b)
<1> DEFINE Band(v) == IF Extent(v) = 0 THEN 0
                      ELSE IF Extent(v) < Hidden THEN 1
                      ELSE IF Extent(v) <= LargestUnits THEN 2 ELSE 3
<1>1. ~IsNaN(a) /\ ~IsNaN(b) /\ Rank(a) < Rank(b)
  BY DEF Less, Ordered
<1>2. /\ Classify(a) = (IF Sign(a) = 1 THEN 3 - Band(a) ELSE 4 + Band(a))
      /\ Classify(b) = (IF Sign(b) = 1 THEN 3 - Band(b) ELSE 4 + Band(b))
  BY <1>1, ClassOfExtent
<1>3. /\ Extent(a) \in Nat /\ Sign(a) \in {0, 1}
      /\ (Sign(a) = 1 => Rank(a) = -Extent(a)) /\ (Sign(a) = 0 => Rank(a) = Extent(a))
      /\ IsZero(a) <=> Extent(a) = 0
      /\ Extent(b) \in Nat /\ Sign(b) \in {0, 1}
      /\ (Sign(b) = 1 => Rank(b) = -Extent(b)) /\ (Sign(b) = 0 => Rank(b) = Extent(b))
      /\ IsZero(b) <=> Extent(b) = 0
      /\ Hidden \in Nat /\ LargestUnits \in Nat /\ Hidden >= 2 /\ LargestUnits >= Hidden
  BY <1>1, ExtentBands, FloatKinds, FloatWidths
<1>4. /\ Band(a) \in 0 .. 3 /\ Band(b) \in 0 .. 3
      /\ Extent(a) <= Extent(b) => Band(a) <= Band(b)
      /\ Extent(b) <= Extent(a) => Band(b) <= Band(a)
      /\ (Extent(a) = 0 <=> Band(a) = 0) /\ (Extent(b) = 0 <=> Band(b) = 0)
  BY <1>3
<1> HIDE DEF Band
<1> QED BY <1>1, <1>2, <1>3, <1>4

\* The order of floats is one, to FMIN and FMAX and to FCLASS.
THEOREM FloatsOrdered == Spec => MinMaxOrdered /\ ClassesOrderValues
<1> DEFINE Chosen ==
             LET numbers == {v \in {FA, FB} : ~IsNaN(v)}
                 below(v, w) == Less(v, w) \/ (Equal(v, w) /\ Sign(v) >= Sign(w))
             IN  Does({"FMIN_S", "FMAX_S"}) =>
                   /\ Raised = IF IsSNaN(FA) \/ IsSNaN(FB) THEN {"NV"} ELSE {}
                   /\ IF numbers = {} THEN IsNaN(Result) ELSE Result \in numbers
                   /\ \A v \in numbers :
                        IF did'.d.type = "FMIN_S" THEN below(Result, v) ELSE below(v, Result)
           Classed ==
             Does({"FCLASS_S"}) =>
               /\ \A r \in DOMAIN f :
                    /\ Less(f[r], FA) => Classify(f[r]) <= Result
                    /\ Less(FA, f[r]) => Result <= Classify(f[r])
                    /\ IsZero(f[r]) /\ Less(f[r], FA) => Classify(f[r]) < Result
                    /\ IsZero(f[r]) /\ Less(FA, f[r]) => Result < Classify(f[r])
               /\ (Result >= 8) = (Compare("FEQ_S", FA, FA).bits = 0)
               /\ (Result = 8) = (Compare("FEQ_S", FA, FA).flags = {"NV"})
<1>1. ASSUME Inductive, Next PROVE Chosen
  <2> SUFFICES ASSUME Does({"FMIN_S", "FMAX_S"}) PROVE Chosen
    OBVIOUS
  <2> DEFINE t == did'.d.type
             o == MinMax(t, FA, FB)
             numbers == {v \in {FA, FB} : ~IsNaN(v)}
  <2>1. Does(ReckonedTypes) /\ t \in {"FMIN_S", "FMAX_S"}
    BY DEF Does, ReckonedTypes
  <2>2. FA \in Word /\ FB \in Word /\ Result = o.bits /\ Raised = o.flags
    BY <1>1, <2>1, FloatResult
  <2> HIDE DEF t, o
  <2>3. /\ o.flags = IF IsSNaN(FA) \/ IsSNaN(FB) THEN {"NV"} ELSE {}
        /\ numbers = {} => IsNaN(o.bits)
        /\ numbers # {} => o.bits \in numbers
        /\ \A v \in numbers : IF t = "FMIN_S" THEN Beneath(o.bits, v) ELSE Beneath(v, o.bits)
    BY <2>1, <2>2, MinMaxChooses DEF o
  <2> HIDE DEF numbers
  <2>4. /\ Raised = IF IsSNaN(FA) \/ IsSNaN(FB) THEN {"NV"} ELSE {}
        /\ IF numbers = {} THEN IsNaN(Result) ELSE Result \in numbers
    BY <2>2, <2>3
  <2>5. \A v \in numbers : IF t = "FMIN_S" THEN Beneath(Result, v) ELSE Beneath(v, Result)
    BY <2>2, <2>3
  <2> QED BY <2>4, <2>5 DEF Beneath, numbers, t
<1>2. ASSUME Inductive, Next PROVE Classed
  <2> SUFFICES ASSUME Does({"FCLASS_S"}) PROVE Classed
    OBVIOUS
  <2> DEFINE o == Compare("FEQ_S", FA, FA)
  <2>1. Does(ReckonedTypes) /\ did'.d.type = "FCLASS_S"
    BY DEF Does, ReckonedTypes
  <2>2. FA \in Word /\ Result = Exact(Classify(FA)).bits
    BY <1>2, <2>1, FloatResult
  <2>3. Result = Classify(FA)
    BY <2>2 DEF Exact, Outcome
  <2>4. \A r \in DOMAIN f : f[r] \in Word
    BY <1>2 DEF Inductive, FFile
  <2>5. ASSUME NEW r \in DOMAIN f
        PROVE  /\ Less(f[r], FA) => Classify(f[r]) <= Result
               /\ Less(FA, f[r]) => Result <= Classify(f[r])
               /\ IsZero(f[r]) /\ Less(f[r], FA) => Classify(f[r]) < Result
               /\ IsZero(f[r]) /\ Less(FA, f[r]) => Result < Classify(f[r])
    BY <2>2, <2>3, <2>4, <2>5, ClassesOrdered
  <2>6. o.bits = Truth(Equal(FA, FA)) /\ o.flags = IF AnySNaN({FA, FA}) THEN {"NV"} ELSE {}
    BY DEF Compare, Outcome
  <2>7. Equal(FA, FA) <=> ~IsNaN(FA)
    BY DEF Equal, Ordered
  <2>8. AnySNaN({FA, FA}) <=> IsSNaN(FA)
    BY DEF AnySNaN
  <2> HIDE DEF o
  <2>9. Result >= 8 <=> o.bits = 0
    <3>1. Result >= 8 <=> IsNaN(FA)
      BY <2>2, <2>3, ClassOfExtent
    <3>2. o.bits = 0 <=> ~Equal(FA, FA)
      BY <2>6 DEF Truth
    <3> QED BY <2>7, <3>1, <3>2, Zenon
  <2>10. Result = 8 <=> o.flags = {"NV"}
    <3>1. Result = 8 <=> IsSNaN(FA)
      BY <2>2, <2>3, ClassOfExtent
    <3>2. o.flags = {"NV"} <=> AnySNaN({FA, FA})
      <4>1. {"NV"} # {}
        OBVIOUS
      <4> QED BY <2>6, <4>1
    <3> QED BY <2>8, <3>1, <3>2, Zenon
  <2> QED BY <2>5, <2>9, <2>10 DEF o
<1>3. ASSUME Inductive, [Next]_vars PROVE [Chosen]_vars /\ [Classed]_vars
  BY <1>1, <1>2, <1>3
<1> QED BY <1>3, InductiveHolds, PTL DEF Spec, MinMaxOrdered, ClassesOrderValues

\* Every comparison of words and of floats goes by one order: branches, set-
\* less-than, minimum and maximum, FLT and FLE, FMIN and FMAX, and FCLASS.
THEOREM OneOrder == Spec => OrdersAgree
BY WordsOrdered, FloatsOrdered DEF OrdersAgree

\* A whole number w of ones is what u units of sign s round to, told by how
\* far w is from the whole number u is cut to.
Rounding(w, u, s, rm) ==
  LET error == Magnitude(w * One - u)
  IN  CASE rm = "RTZ" -> error < One /\ w * One <= u /\ w >= 0
        [] rm = "RDN" -> error < One /\ IF s = 1 THEN w * One >= u ELSE w * One <= u
        [] rm = "RUP" -> error < One /\ IF s = 1 THEN w * One <= u ELSE w * One >= u
        [] rm = "RNE" -> 2 * error < One \/ (2 * error = One /\ w % 2 = 0)
        [] rm = "RMM" -> 2 * error < One \/ (2 * error = One /\ w * One > u)

\* The nearest integer in each mode satisfies the definition of that mode.
LEMMA NearestRounds ==
  ASSUME NEW s \in {0, 1}, NEW u \in Nat, NEW w \in Int, NEW rm \in RoundingModes
  PROVE  Rounding(w, u, s, rm) <=> w = Nearest(s, u, One, rm)
<1> DEFINE q == One
           n == u \div q
           r == u % q
           j == w - n
           g == j * q
           error == Magnitude(g - r)
           k == Nearest(s, u, q, rm)
<1>1. q \in Nat \ {0}
  BY FloatWidths
<1>2. n \in Nat /\ r \in Nat /\ r < q /\ u = q * n + r
  <2> HIDE DEF q
  <2> QED BY <1>1
<1>3. w * q = q * n + g /\ q * n \in Int /\ g \in Int /\ j \in Int
  <2>1. j \in Int /\ w = n + j
    BY <1>2
  <2> HIDE DEF q, n, j
  <2>2. (n + j) * q = q * n + j * q
    BY <1>1, <1>2, <2>1
  <2>3. q * n \in Int /\ j * q \in Int
    BY <1>1, <1>2, <2>1
  <2> QED BY <2>1, <2>2, <2>3
<1>4. /\ j = 0 => g = 0
      /\ j = 1 => g = q
      /\ j >= 2 => g >= 2 * q
      /\ j <= -1 => g <= -q
  <2> HIDE DEF q, n, j
  <2> QED BY <1>1, <1>3
<1>5. error = Magnitude(w * One - u) /\ error = IF g < r THEN r - g ELSE g - r
  <2>1. w * One - u = g - r
    <3> HIDE DEF q, n, r, g
    <3>1. w * q - u = g - r
      BY <1>1, <1>2, <1>3
    <3> QED BY <3>1 DEF q
  <2> HIDE DEF q, n, r, g
  <2>2. error = IF g < r THEN r - g ELSE g - r
    <3>1. g - r < 0 <=> g < r
      BY <1>2, <1>3
    <3>2. -(g - r) = r - g
      BY <1>2, <1>3
    <3> QED BY <3>1, <3>2 DEF Magnitude
  <2> QED BY <2>1, <2>2
<1>6. /\ w * One <= u <=> g <= r
      /\ w * One >= u <=> g >= r
      /\ w * One > u <=> g > r
  <2>1. w * One = q * n + g /\ u = q * n + r
    BY <1>2, <1>3
  <2> HIDE DEF q, n, r, g
  <2> DEFINE z == q * n
  <2>2. z \in Int
    BY <1>3
  <2> HIDE DEF z
  <2> QED BY <1>2, <1>3, <2>1, <2>2 DEF z
<1>7. k = IF (CASE rm = "RNE" -> 2 * r > q \/ (2 * r = q /\ n % 2 = 1)
                [] rm = "RTZ" -> FALSE
                [] rm = "RDN" -> s = 1 /\ r > 0
                [] rm = "RUP" -> s = 0 /\ r > 0
                [] rm = "RMM" -> 2 * r >= q)
          THEN n + 1 ELSE n
  BY DEF Nearest
<1>8. Rounding(w, u, s, rm) <=>
        CASE rm = "RTZ" -> error < q /\ g <= r /\ w >= 0
          [] rm = "RDN" -> error < q /\ IF s = 1 THEN g >= r ELSE g <= r
          [] rm = "RUP" -> error < q /\ IF s = 1 THEN g <= r ELSE g >= r
          [] rm = "RNE" -> 2 * error < q \/ (2 * error = q /\ w % 2 = 0)
          [] rm = "RMM" -> 2 * error < q \/ (2 * error = q /\ g > r)
  <2> HIDE DEF g, r, n, j
  <2>1. CASE rm = "RTZ"
    BY <1>5, <1>6, <2>1 DEF Rounding
  <2>2. CASE rm = "RDN"
    BY <1>5, <1>6, <2>2 DEF Rounding
  <2>3. CASE rm = "RUP"
    BY <1>5, <1>6, <2>3 DEF Rounding
  <2>4. CASE rm = "RNE"
    BY <1>5, <2>4 DEF Rounding
  <2>5. CASE rm = "RMM"
    BY <1>5, <1>6, <2>5 DEF Rounding
  <2> QED BY <2>1, <2>2, <2>3, <2>4, <2>5 DEF RoundingModes
<1>9. w = n + j
  BY <1>2
<1>10. error = IF g < r THEN r - g ELSE g - r
  BY <1>5
<1>11. w % 2 = 0 <=> IF j = 1 THEN n % 2 = 1 ELSE w % 2 = 0
  <2> HIDE DEF n, j
  <2> QED BY <1>2, <1>3, <1>9
<1>12. j = 0 => w % 2 = n % 2
  <2> HIDE DEF n, j
  <2> QED BY <1>2, <1>3, <1>9
<1>13. n % 2 \in {0, 1}
  <2> HIDE DEF n
  <2> QED BY <1>2
<1> HIDE DEF q, n, r, j, g, error, k
<1>14. CASE rm = "RTZ"
  <2>1. k = n
    BY <1>7, <1>14
  <2>2. Rounding(w, u, s, rm) <=> error < q /\ g <= r /\ w >= 0
    BY <1>8, <1>14
  <2>3. error < q /\ g <= r /\ w >= 0 <=> j = 0
    BY <1>1, <1>2, <1>3, <1>4, <1>9, <1>10
  <2>4. j = 0 <=> w = n
    BY <1>2, <1>3, <1>9
  <2> QED BY <2>1, <2>2, <2>3, <2>4 DEF k, q
<1>15. CASE (rm = "RDN" /\ s = 1) \/ (rm = "RUP" /\ s = 0)
  <2>1. k = IF r > 0 THEN n + 1 ELSE n
    <3>1. CASE rm = "RDN"
      <4>1. s = 1
        BY <1>15, <3>1
      <4> QED BY <1>7, <3>1, <4>1
    <3>2. CASE rm = "RUP"
      <4>1. s = 0
        BY <1>15, <3>2
      <4> QED BY <1>7, <3>2, <4>1
    <3> QED BY <1>15, <3>1, <3>2
  <2>2. Rounding(w, u, s, rm) <=> error < q /\ g >= r
    <3>1. CASE rm = "RDN"
      <4>1. s = 1
        BY <1>15, <3>1
      <4> QED BY <1>8, <3>1, <4>1
    <3>2. CASE rm = "RUP"
      <4>1. s = 0
        BY <1>15, <3>2
      <4> QED BY <1>8, <3>2, <4>1
    <3> QED BY <1>15, <3>1, <3>2
  <2>3. error < q /\ g >= r <=> IF r > 0 THEN j = 1 ELSE j = 0
    BY <1>1, <1>2, <1>3, <1>4, <1>10
  <2>4. (j = 0 <=> w = n) /\ (j = 1 <=> w = n + 1)
    BY <1>2, <1>3, <1>9
  <2>5. Rounding(w, u, s, rm) <=> w = k
    BY <2>1, <2>2, <2>3, <2>4
  <2> QED BY <2>5 DEF k, q
<1>16. CASE (rm = "RDN" /\ s = 0) \/ (rm = "RUP" /\ s = 1)
  <2>1. k = n
    <3>1. CASE rm = "RDN"
      <4>1. s = 0
        BY <1>16, <3>1
      <4> QED BY <1>7, <3>1, <4>1
    <3>2. CASE rm = "RUP"
      <4>1. s = 1
        BY <1>16, <3>2
      <4> QED BY <1>7, <3>2, <4>1
    <3> QED BY <1>16, <3>1, <3>2
  <2>2. Rounding(w, u, s, rm) <=> error < q /\ g <= r
    <3>1. CASE rm = "RDN"
      <4>1. s = 0
        BY <1>16, <3>1
      <4> QED BY <1>8, <3>1, <4>1
    <3>2. CASE rm = "RUP"
      <4>1. s = 1
        BY <1>16, <3>2
      <4> QED BY <1>8, <3>2, <4>1
    <3> QED BY <1>16, <3>1, <3>2
  <2>3. error < q /\ g <= r <=> j = 0
    BY <1>1, <1>2, <1>3, <1>4, <1>10
  <2>4. j = 0 <=> w = n
    BY <1>2, <1>3, <1>9
  <2> QED BY <2>1, <2>2, <2>3, <2>4 DEF k, q
<1>17. CASE rm = "RNE"
  <2>1. k = IF 2 * r > q \/ (2 * r = q /\ n % 2 = 1) THEN n + 1 ELSE n
    BY <1>7, <1>17
  <2>2. Rounding(w, u, s, rm) <=> 2 * error < q \/ (2 * error = q /\ w % 2 = 0)
    BY <1>8, <1>17
  <2>3. 2 * error < q <=> (j = 0 /\ 2 * r < q) \/ (j = 1 /\ 2 * r > q)
    BY <1>1, <1>2, <1>3, <1>4, <1>10
  <2>4. 2 * error = q <=> (j = 0 /\ 2 * r = q) \/ (j = 1 /\ 2 * r = q)
    BY <1>1, <1>2, <1>3, <1>4, <1>10
  <2>5. (j = 0 <=> w = n) /\ (j = 1 <=> w = n + 1) /\ n # n + 1
    BY <1>2, <1>3, <1>9
  <2>6. (j = 0 => (w % 2 = 0 <=> ~(n % 2 = 1))) /\ (j = 1 => (w % 2 = 0 <=> n % 2 = 1))
    BY <1>11, <1>12, <1>13
  <2>7. (2 * r < q \/ 2 * r = q \/ 2 * r > q) /\ ~(2 * r < q /\ 2 * r = q) /\ ~(2 * r > q /\ 2 * r = q)
        /\ ~(2 * r < q /\ 2 * r > q)
    BY <1>1, <1>2
  <2>8. Rounding(w, u, s, rm) <=>
          \/ w = n /\ (2 * r < q \/ (2 * r = q /\ ~(n % 2 = 1)))
          \/ w = n + 1 /\ (2 * r > q \/ (2 * r = q /\ n % 2 = 1))
    BY <2>2, <2>3, <2>4, <2>5, <2>6, Zenon
  <2>9. w = k <=>
          \/ w = n /\ (2 * r < q \/ (2 * r = q /\ ~(n % 2 = 1)))
          \/ w = n + 1 /\ (2 * r > q \/ (2 * r = q /\ n % 2 = 1))
    <3>1. CASE 2 * r > q \/ (2 * r = q /\ n % 2 = 1)
      <4>1. k = n + 1
        BY <2>1, <3>1
      <4> QED BY <2>7, <3>1, <4>1, Zenon
    <3>2. CASE ~(2 * r > q \/ (2 * r = q /\ n % 2 = 1))
      <4>1. k = n
        BY <2>1, <3>2
      <4> QED BY <2>7, <3>2, <4>1, Zenon
    <3> QED BY <3>1, <3>2
  <2>10. Rounding(w, u, s, rm) <=> w = k
    BY <2>8, <2>9, Zenon
  <2> QED BY <2>10 DEF k, q
<1>18. CASE rm = "RMM"
  <2>1. k = IF 2 * r >= q THEN n + 1 ELSE n
    BY <1>7, <1>18
  <2>2. Rounding(w, u, s, rm) <=> 2 * error < q \/ (2 * error = q /\ g > r)
    BY <1>8, <1>18
  <2>3. 2 * error < q \/ (2 * error = q /\ g > r) <=> IF 2 * r >= q THEN j = 1 ELSE j = 0
    BY <1>1, <1>2, <1>3, <1>4, <1>10
  <2>4. (j = 0 <=> w = n) /\ (j = 1 <=> w = n + 1)
    BY <1>2, <1>3, <1>9
  <2>5. Rounding(w, u, s, rm) <=> w = k
    BY <2>1, <2>2, <2>3, <2>4
  <2> QED BY <2>5 DEF k, q
<1>19. /\ rm = "RTZ" \/ rm = "RDN" \/ rm = "RUP" \/ rm = "RNE" \/ rm = "RMM"
       /\ s = 0 \/ s = 1
  BY DEF RoundingModes
<1> QED BY <1>14, <1>15, <1>16, <1>17, <1>18, <1>19, Zenon

\* The absolute value of an integer.
LEMMA MagnitudeOf ==
  /\ \A n \in Int : Magnitude(n) \in Nat /\ Magnitude(-n) = Magnitude(n)
  /\ \A n \in Int : n >= 0 => Magnitude(n) = n
  /\ \A n \in Int : n < 0 => Magnitude(n) = -n
<1>1. \A n \in Int : n >= 0 => Magnitude(n) = n
  BY DEF Magnitude
<1>2. \A n \in Int : n < 0 => Magnitude(n) = -n
  BY DEF Magnitude
<1>3. ASSUME NEW n \in Int PROVE Magnitude(n) \in Nat /\ Magnitude(-n) = Magnitude(n)
  <2>1. CASE n > 0
    <3>1. -n < 0 /\ -n \in Int /\ -(-n) = n /\ n >= 0
      BY <2>1
    <3> QED BY <1>1, <1>2, <3>1
  <2>2. CASE n = 0
    <3>1. -n \in Int /\ -n = 0 - n
      OBVIOUS
    <3>2. -n = n
      BY <2>2, <3>1
    <3> QED BY <1>1, <2>2, <3>2
  <2>3. CASE n < 0
    <3>1. -n >= 0 /\ -n \in Int /\ -n \in Nat
      BY <2>3
    <3> QED BY <1>1, <1>2, <2>3, <3>1
  <2> QED BY <2>1, <2>2, <2>3
<1> QED BY <1>1, <1>2, <1>3

\* What a value rounds to is one number, the one round_to_int gives.
LEMMA RoundsToOne ==
  ASSUME NEW a \in Word, NEW m \in Int, NEW rm \in RoundingModes
  PROVE  RoundsTo(m, Value(a), rm) <=> m = RoundToInt(a, rm)
<1> DEFINE s == Sign(a)
           u == Units(a)
           w == IF s = 1 THEN -m ELSE m
           q == One
           v == Value(a)
           p == m * q
           k == w * q
           error == Magnitude(k - u)
<1>1. s \in {0, 1} /\ u \in Nat /\ q \in Nat \ {0} /\ w \in Int /\ v \in Int
  BY SignOfWord, UnitsType, FloatWidths
<1>2. v = IF s = 1 THEN -u ELSE u
  BY DEF Value
<1>3. (s = 1 => w = -m) /\ (s = 0 => w = m)
  OBVIOUS
<1>4. p \in Int /\ k \in Int /\ (s = 1 => k = -p) /\ (s = 0 => k = p)
  <2> HIDE DEF w, q, s
  <2> QED BY <1>1, <1>3
<1>5. Magnitude(p - v) = error /\ Magnitude(p) = Magnitude(k) /\ Magnitude(v) = u
  <2> HIDE DEF p, k, v, u, w, q, s
  <2>1. CASE s = 1
    <3>1. v = -u /\ k = -p /\ p - v = -(k - u) /\ k - u \in Int
      BY <1>1, <1>2, <1>4, <2>1
    <3> QED BY <1>1, <1>4, <3>1, MagnitudeOf
  <2>2. CASE s = 0
    <3>1. v = u /\ k = p
      BY <1>1, <1>2, <1>4, <2>2
    <3> QED BY <1>1, <3>1, MagnitudeOf
  <2> QED BY <1>1, <2>1, <2>2
<1>6. /\ p <= v <=> IF s = 1 THEN k >= u ELSE k <= u
      /\ p >= v <=> IF s = 1 THEN k <= u ELSE k >= u
  <2> HIDE DEF p, k, v, u, w, q, s
  <2> QED BY <1>1, <1>2, <1>4
<1>7. m % 2 = 0 <=> w % 2 = 0
  <2> HIDE DEF s
  <2> QED BY <1>1
<1>8. m * v >= 0 <=> w * u >= 0
  <2>1. m * v = w * u
    <3>1. CASE s = 1
      <4>1. v = -u /\ w = -m
        BY <1>2, <1>3, <3>1
      <4> HIDE DEF v, u, w, s
      <4>2. m * (-u) = (-m) * u
        BY <1>1
      <4> QED BY <4>1, <4>2
    <3>2. CASE s = 0
      <4>1. v = u /\ w = m
        BY <1>2, <1>3, <3>2
      <4> QED BY <4>1
    <3> QED BY <1>1, <3>1, <3>2
  <2> QED BY <2>1
<1>9. /\ w >= 0 => k >= 0 /\ w * u >= 0
      /\ w < 0 => k <= -q
      /\ w < 0 /\ u > 0 => w * u < 0
  <2> HIDE DEF w, u, q, s
  <2> QED BY <1>1
<1>10. /\ k >= 0 => Magnitude(k) = k
       /\ k < 0 => Magnitude(k) = -k
       /\ k >= u => error = k - u
       /\ k < u => error = u - k
  <2> HIDE DEF k, u, s
  <2>1. k - u \in Int /\ (k >= u <=> k - u >= 0) /\ (k < u <=> k - u < 0) /\ -(k - u) = u - k
    BY <1>1, <1>4
  <2> QED BY <1>4, <2>1, MagnitudeOf
<1>11. /\ Magnitude(k) <= u /\ w * u >= 0 <=> k <= u /\ w >= 0
       /\ 2 * error = q => (Magnitude(k) > u <=> k > u)
  <2> DEFINE z == w * u
             g == Magnitude(k)
  <2> HIDE DEF k, u, w, q, s, error, z, g
  <2>1. CASE w >= 0
    <3>1. k >= 0 /\ z >= 0 /\ g = k
      BY <1>9, <1>10, <2>1 DEF z, g
    <3> QED BY <2>1, <3>1 DEF z, g
  <2>2. CASE w < 0
    <3>1. k <= -q /\ k < 0 /\ g = -k /\ k < u /\ error = u - k
      <4>1. k <= -q /\ k < 0
        BY <1>1, <1>4, <1>9, <2>2
      <4>2. k < u
        BY <1>1, <1>4, <4>1
      <4> QED BY <1>10, <4>1, <4>2 DEF g
    <3>2. ~(g <= u /\ z >= 0)
      <4>1. CASE u > 0
        <5>1. z < 0
          BY <1>9, <2>2, <4>1 DEF z
        <5>2. z \in Int
          BY <1>1 DEF z
        <5> QED BY <5>1, <5>2
      <4>2. CASE u = 0
        BY <1>1, <1>4, <3>1, <4>2
      <4> QED BY <1>1, <4>1, <4>2
    <3>3. 2 * error # q
      BY <1>1, <1>4, <3>1
    <3>4. ~(w >= 0)
      BY <1>1, <2>2
    <3> QED BY <3>2, <3>3, <3>4 DEF z, g
  <2> QED BY <1>1, <2>1, <2>2
<1>12. RoundsTo(m, v, rm) <=> Rounding(w, u, s, rm)
  <2> DEFINE e == Magnitude(p - v)
  <2>1. e = error /\ Magnitude(v) = u /\ Magnitude(p) = Magnitude(k)
    BY <1>5
  <2>2. CASE rm = "RTZ"
    <3>1. RoundsTo(m, v, rm) <=> e < q /\ Magnitude(p) <= Magnitude(v) /\ m * v >= 0
      BY <2>2 DEF RoundsTo
    <3>2. Rounding(w, u, s, rm) <=> error < q /\ k <= u /\ w >= 0
      BY <2>2 DEF Rounding
    <3> HIDE DEF e, error, v, k, p, q, s, u, w
    <3> QED BY <1>8, <1>11, <2>1, <3>1, <3>2
  <2>3. CASE rm = "RDN"
    <3>1. RoundsTo(m, v, rm) <=> e < q /\ p <= v
      BY <2>3 DEF RoundsTo
    <3>2. Rounding(w, u, s, rm) <=> error < q /\ IF s = 1 THEN k >= u ELSE k <= u
      BY <2>3 DEF Rounding
    <3> HIDE DEF e, error, v, k, p, q, s, u, w
    <3> QED BY <1>6, <2>1, <3>1, <3>2
  <2>4. CASE rm = "RUP"
    <3>1. RoundsTo(m, v, rm) <=> e < q /\ p >= v
      BY <2>4 DEF RoundsTo
    <3>2. Rounding(w, u, s, rm) <=> error < q /\ IF s = 1 THEN k <= u ELSE k >= u
      BY <2>4 DEF Rounding
    <3> HIDE DEF e, error, v, k, p, q, s, u, w
    <3> QED BY <1>6, <2>1, <3>1, <3>2
  <2>5. CASE rm = "RNE"
    <3>1. RoundsTo(m, v, rm) <=> 2 * e < q \/ (2 * e = q /\ m % 2 = 0)
      BY <2>5 DEF RoundsTo
    <3>2. Rounding(w, u, s, rm) <=> 2 * error < q \/ (2 * error = q /\ w % 2 = 0)
      BY <2>5 DEF Rounding
    <3> HIDE DEF e, error, v, k, p, q, s, u, w
    <3> QED BY <1>7, <2>1, <3>1, <3>2, Zenon
  <2>6. CASE rm = "RMM"
    <3>1. RoundsTo(m, v, rm) <=> 2 * e < q \/ (2 * e = q /\ Magnitude(p) > Magnitude(v))
      BY <2>6 DEF RoundsTo
    <3>2. Rounding(w, u, s, rm) <=> 2 * error < q \/ (2 * error = q /\ k > u)
      BY <2>6 DEF Rounding
    <3> HIDE DEF e, error, v, k, p, q, s, u, w
    <3> QED BY <1>11, <2>1, <3>1, <3>2
  <2>7. rm = "RTZ" \/ rm = "RDN" \/ rm = "RUP" \/ rm = "RNE" \/ rm = "RMM"
    BY DEF RoundingModes
  <2> QED BY <2>2, <2>3, <2>4, <2>5, <2>6, <2>7, Zenon
<1> DEFINE n == Nearest(s, u, One, rm)
<1>13. Rounding(w, u, s, rm) <=> w = n
  <2> HIDE DEF s, u, w
  <2> QED BY <1>1, NearestRounds
<1>14. n \in Nat
  <2> HIDE DEF s, u
  <2> QED BY <1>1, NearestType DEF q
<1>15. RoundToInt(a, rm) = IF s = 1 THEN -n ELSE n
  BY DEF RoundToInt
<1>16. w = n <=> m = RoundToInt(a, rm)
  <2> HIDE DEF n, w, s
  <2> QED BY <1>1, <1>3, <1>14, <1>15
<1> QED BY <1>12, <1>13, <1>16

\* A conversion gives the rounded value, or a bound.
LEMMA SaturatedExact ==
  ASSUME NEW a \in Word, NEW low \in Int, NEW high \in Int, low <= 0, 0 <= high,
         NEW rm \in RoundingModes, NEW o, o = Saturated(a, low, high, rm)
  PROVE  \E k \in low .. high :
           /\ o.bits = Trunc(k)
           /\ IF IsFinite(a) /\ \E m \in low .. high : RoundsTo(m, Value(a), rm)
              THEN /\ RoundsTo(k, Value(a), rm)
                   /\ o.flags = IF k * One = Value(a) THEN {} ELSE {"NX"}
              ELSE /\ k = IF ~IsNaN(a) /\ Sign(a) = 1 THEN low ELSE high
                   /\ o.flags = {"NV"}
<1> DEFINE r == RoundToInt(a, rm)
           top == IsNaN(a) \/ (IsInf(a) /\ Sign(a) = 0) \/ (IsFinite(a) /\ r > high)
           bottom == (IsInf(a) /\ Sign(a) = 1) \/ (IsFinite(a) /\ r < low)
           fits == IsFinite(a) /\ \E m \in low .. high : RoundsTo(m, Value(a), rm)
           flags == IF r * One # Value(a) THEN {"NX"} ELSE {}
           n == Nearest(Sign(a), Units(a), One, rm)
<1>1. Sign(a) \in {0, 1} /\ Units(a) \in Nat /\ One \in Nat \ {0}
  BY SignOfWord, UnitsType, FloatWidths
<1>2. n \in Nat /\ r = IF Sign(a) = 1 THEN -n ELSE n
  BY <1>1, NearestType DEF RoundToInt
<1>3. r \in Int /\ (Sign(a) = 1 => r <= 0) /\ (Sign(a) = 0 => r >= 0)
  <2> HIDE DEF n, r
  <2> QED BY <1>1, <1>2
<1>4. ~IsNaN(a) => (IsFinite(a) <=> ~IsInf(a))
  BY FloatKinds DEF IsNaN, IsFinite
<1>5. IsNaN(a) => ~IsFinite(a) /\ ~IsInf(a)
  BY FloatKinds DEF IsNaN, IsFinite
<1>6. fits <=> IsFinite(a) /\ low <= r /\ r <= high
  <2>1. \A m \in Int : RoundsTo(m, Value(a), rm) <=> m = r
    BY RoundsToOne
  <2> HIDE DEF r
  <2> QED BY <1>3, <2>1
<1>7. CASE top
  <2>1. ~bottom
    <3> HIDE DEF r
    <3> QED BY <1>1, <1>3, <1>4, <1>5, <1>7
  <2>2. o = Outcome(Trunc(high), {"NV"})
    BY <1>7, <2>1 DEF Saturated
  <2>3. ~fits /\ high = IF ~IsNaN(a) /\ Sign(a) = 1 THEN low ELSE high
    <3> HIDE DEF r, fits
    <3> QED BY <1>1, <1>3, <1>4, <1>5, <1>6, <1>7
  <2>4. high \in low .. high
    OBVIOUS
  <2> HIDE DEF fits
  <2>5. o.bits = Trunc(high) /\ o.flags = {"NV"}
    BY <2>2 DEF Outcome
  <2> QED BY <2>3, <2>4, <2>5 DEF fits
<1>8. CASE bottom
  <2>1. ~top
    <3> HIDE DEF r
    <3> QED BY <1>1, <1>3, <1>4, <1>5, <1>8
  <2>2. o = Outcome(Trunc(low), {"NV"})
    BY <1>8, <2>1 DEF Saturated
  <2>3. ~fits /\ low = IF ~IsNaN(a) /\ Sign(a) = 1 THEN low ELSE high
    <3> HIDE DEF r, fits
    <3> QED BY <1>1, <1>3, <1>4, <1>5, <1>6, <1>8
  <2>4. low \in low .. high
    OBVIOUS
  <2> HIDE DEF fits
  <2>5. o.bits = Trunc(low) /\ o.flags = {"NV"}
    BY <2>2 DEF Outcome
  <2> QED BY <2>3, <2>4, <2>5 DEF fits
<1>9. CASE ~top /\ ~bottom
  <2>1. o = Outcome(Trunc(r), flags)
    BY <1>9 DEF Saturated
  <2>2. fits /\ low <= r /\ r <= high
    <3> HIDE DEF r, fits
    <3> QED BY <1>1, <1>3, <1>4, <1>5, <1>6, <1>9
  <2>3. RoundsTo(r, Value(a), rm)
    BY <1>3, RoundsToOne
  <2>4. flags = IF r * One = Value(a) THEN {} ELSE {"NX"}
    OBVIOUS
  <2> HIDE DEF fits, r, flags
  <2>5. o.bits = Trunc(r) /\ o.flags = flags
    BY <2>1 DEF Outcome
  <2>6. r \in low .. high
    BY <1>3, <2>2
  <2> QED BY <2>2, <2>3, <2>4, <2>5, <2>6 DEF fits
<1> QED BY <1>7, <1>8, <1>9

\* The mode of a legal rounding mode is one of the five.
LEMMA ModeNamed ==
  ASSUME NEW d \in Stimuli[deck], deck \in Decks, frm \in 0 .. 7, ~(EffectiveRm(d.rm, frm) > 4)
  PROVE  ModeOf(EffectiveRm(d.rm, frm)) \in RoundingModes
<1>1. d.rm \in 0 .. 7
  BY DecodedAssumption
<1>2. EffectiveRm(d.rm, frm) \in 0 .. 7
  BY <1>1 DEF EffectiveRm
<1>3. EffectiveRm(d.rm, frm) \in 0 .. 4
  BY <1>2
<1>4. \A n \in 0 .. 4 : ModeOf(n) \in RoundingModes
  BY DEF ModeOf, RoundingModes
<1> QED BY <1>3, <1>4

\* A conversion to an integer saturates, whatever the float and the mode.
THEOREM Saturates == Spec => ConversionsSaturate
<1> DEFINE Converted ==
             LET signed == did'.d.type = "FCVT_W_S"
                 low == IF signed THEN -MinSigned ELSE 0
                 high == IF signed THEN MinSigned - 1 ELSE AllOnes
                 n == IF signed THEN Signed(Result) ELSE Result
                 rm == ModeOf(EffectiveRm(did'.d.rm, frm))
                 fits == IsFinite(FA) /\ \E m \in low .. high : RoundsTo(m, Value(FA), rm)
             IN  Does({"FCVT_W_S", "FCVT_WU_S"}) =>
                   IF fits
                   THEN /\ RoundsTo(n, Value(FA), rm)
                        /\ Raised = IF n * One = Value(FA) THEN {} ELSE {"NX"}
                   ELSE /\ n = IF ~IsNaN(FA) /\ Sign(FA) = 1 THEN low ELSE high
                        /\ Raised = {"NV"}
<1>1. ASSUME Inductive, Next, Does({"FCVT_W_S", "FCVT_WU_S"}) PROVE Converted
  <2> DEFINE d == did'.d
             t == d.type
             signed == t = "FCVT_W_S"
             low == IF signed THEN -MinSigned ELSE 0
             high == IF signed THEN MinSigned - 1 ELSE AllOnes
             n == IF signed THEN Signed(Result) ELSE Result
             rm == ModeOf(EffectiveRm(d.rm, frm))
             o == ToInteger(t, FA, rm)
  <2>1. Does(ReckonedTypes) /\ t \in ConversionTypes /\ t \in {"FCVT_W_S", "FCVT_WU_S"}
    BY <1>1 DEF Does, ReckonedTypes, ConversionTypes
  <2>2. FA \in Word /\ Result = o.bits /\ Raised = o.flags /\ ~(EffectiveRm(d.rm, frm) > 4)
    BY <1>1, <2>1, FloatResult
  <2>3. d \in Stimuli[deck] /\ deck \in Decks /\ frm \in 0 .. 7
    BY <1>1, StepInstruction DEF StepOf, Inductive
  <2>4. rm \in RoundingModes
    <3> HIDE DEF d
    <3> QED BY <2>2, <2>3, ModeNamed
  <2>5. low \in Int /\ high \in Int /\ low <= 0 /\ 0 <= high
    BY Widths
  <2>6. o = Saturated(FA, low, high, rm)
    BY DEF ToInteger
  <2> HIDE DEF o, low, high, rm, d, t, signed
  <2>7. PICK k \in low .. high :
           /\ o.bits = Trunc(k)
           /\ IF IsFinite(FA) /\ \E m \in low .. high : RoundsTo(m, Value(FA), rm)
              THEN /\ RoundsTo(k, Value(FA), rm)
                   /\ o.flags = IF k * One = Value(FA) THEN {} ELSE {"NX"}
              ELSE /\ k = IF ~IsNaN(FA) /\ Sign(FA) = 1 THEN low ELSE high
                   /\ o.flags = {"NV"}
    BY <2>2, <2>4, <2>5, <2>6, SaturatedExact
  <2>8. n = k
    <3>1. CASE signed
      <4>1. k \in Int /\ -MinSigned <= k /\ k < MinSigned
        BY <2>5, <3>1, Widths DEF low, high
      <4> QED BY <2>2, <2>7, <3>1, <4>1, SignedBack
    <3>2. CASE ~signed
      <4>1. k \in Word
        BY <2>5, <3>2, WordType DEF low, high
      <4> QED BY <2>2, <2>7, <3>2, <4>1, SignedBack
    <3> QED BY <3>1, <3>2
  <2> HIDE DEF n
  <2>9. IF IsFinite(FA) /\ \E m \in low .. high : RoundsTo(m, Value(FA), rm)
        THEN /\ RoundsTo(n, Value(FA), rm)
             /\ Raised = IF n * One = Value(FA) THEN {} ELSE {"NX"}
        ELSE /\ n = IF ~IsNaN(FA) /\ Sign(FA) = 1 THEN low ELSE high
             /\ Raised = {"NV"}
    BY <2>2, <2>7, <2>8
  <2> QED BY <2>9 DEF n, low, high, rm, d, t, signed
<1>2. ASSUME Inductive, [Next]_vars PROVE [Converted]_vars
  <2>1. CASE Next
    <3>1. Does({"FCVT_W_S", "FCVT_WU_S"}) => Converted
      BY <1>1, <1>2, <2>1
    <3>2. ~Does({"FCVT_W_S", "FCVT_WU_S"}) => Converted
      OBVIOUS
    <3> HIDE DEF Converted
    <3> QED BY <3>1, <3>2
  <2> QED BY <1>2, <2>1
<1> QED BY <1>2, InductiveHolds, PTL DEF Spec, ConversionsSaturate

\* A float put together has the fields it was put together from.
LEMMA FieldsPut ==
  ASSUME NEW s \in {0, 1}, NEW e \in 0 .. TopExponent - 1, NEW r \in 0 .. Hidden - 1,
         NEW a, a = WithSign(s, e * Hidden + r)
  PROVE  a \in Word /\ Sign(a) = s /\ Exponent(a) = e /\ Fraction(a) = r
<1> DEFINE h == Hidden
           t == TopExponent
           p == 2^ExpBits
           m == MinSigned
           v == e * h + r
<1>1. h \in Nat /\ h >= 2 /\ t \in Nat /\ t >= 3 /\ p \in Nat \ {0} /\ t = p - 1 /\ m = p * h /\ m \in Nat \ {0}
  BY FloatWidths, Widths
<1>2. e \in Nat /\ e < p /\ r \in Nat /\ r < h
  BY <1>1
<1>3. SignWord(s) = s * m /\ a = s * m + v
  BY DEF SignWord, WithSign
<1>4. Exponent(a) = (a \div h) % p /\ Fraction(a) = a % h
  BY DEF Exponent, Fraction, Hidden
<1> HIDE DEF h, t, p, m
<1>5. v \in Nat /\ v < m
  <2>1. e * h \in Nat /\ e * h <= (p - 1) * h /\ (p - 1) * h = p * h - h
    BY <1>1, <1>2
  <2>2. p * h \in Nat
    BY <1>1
  <2> QED BY <1>1, <1>2, <2>1, <2>2
<1>6. a \in Word
  <2> HIDE DEF v
  <2>1. a = WithSign(s, v)
    BY DEF v, h
  <2> QED BY <1>5, <2>1, SignedWord DEF m
<1>7. Sign(a) = s
  <2>1. Sign(a) \in {0, 1} /\ (Sign(a) = 1 <=> a >= m)
    BY <1>6, SignOfWord DEF m
  <2>2. CASE s = 0
    <3>1. a = v
      <4>1. 0 * m = 0
        BY <1>1
      <4> HIDE DEF v
      <4> QED BY <1>3, <1>5, <2>2, <4>1
    <3> HIDE DEF v
    <3> QED BY <1>1, <1>5, <2>1, <2>2, <3>1
  <2>3. CASE s = 1
    <3>1. a = m + v
      <4>1. 1 * m = m
        BY <1>1
      <4> HIDE DEF v
      <4> QED BY <1>3, <2>3, <4>1
    <3> HIDE DEF v
    <3> QED BY <1>1, <1>5, <2>1, <2>3, <3>1
  <2> QED BY <2>2, <2>3
<1> DEFINE q == p * s + e
<1>8. q \in Nat /\ a = h * q + r
  <2>1. s \in Nat
    OBVIOUS
  <2>2. s * (p * h) + (e * h + r) = h * (p * s + e) + r
    BY <1>1, <1>2, <2>1
  <2>3. q \in Nat
    BY <1>1, <1>2, <2>1
  <2> QED BY <1>1, <1>3, <2>2, <2>3
<1>9. q % p = e
  <2>1. s \in Nat
    OBVIOUS
  <2> QED BY <1>1, <1>2, <2>1, DivUnique
<1> HIDE DEF q
<1>10. a \div h = q /\ a % h = r
  BY <1>1, <1>2, <1>8, DivUnique
<1> QED BY <1>4, <1>6, <1>7, <1>9, <1>10

\* Units that are a number of steps come back from the float they make.
LEMMA PackedValue ==
  ASSUME NEW s \in {0, 1}, NEW u \in Nat, u <= LargestUnits, NEW k \in Nat, u = Step(u) * k,
         NEW a, a = WithSign(s, Packed(u))
  PROVE  a \in Word /\ Sign(a) = s /\ Units(a) = u /\ IsFinite(a)
<1>1. PICK e \in 0 .. TopExponent - 1, r \in 0 .. Hidden - 1 :
        /\ Packed(u) = e * Hidden + r
        /\ e = 0 => u = r /\ Step(u) = 1
        /\ e # 0 => Step(u) = 2^(e - 1) /\ u \div Step(u) = Hidden + r
  BY PackedShape
<1>2. a \in Word /\ Sign(a) = s /\ Exponent(a) = e /\ Fraction(a) = r
  BY <1>1, FieldsPut
<1>3. e # TopExponent
  BY FloatWidths
<1>4. Units(a) = u
  <2>1. CASE e = 0
    BY <1>1, <1>2, <2>1 DEF Units
  <2>2. CASE e # 0
    <3> DEFINE m == Step(u)
    <3>1. m \in Nat \ {0} /\ m = 2^(e - 1)
      BY <1>1, <2>2, StepType
    <3>2. Units(a) = (Hidden + r) * m
      BY <1>2, <2>2, <3>1 DEF Units
    <3>3. u \div m = Hidden + r
      BY <1>1, <2>2
    <3> HIDE DEF m
    <3>4. u = m * k + 0
      BY <3>1 DEF m
    <3>5. u \div m = k
      BY <3>1, <3>4, DivUnique
    <3>6. Hidden + r = k /\ k * m = m * k
      BY <3>1, <3>3, <3>5
    <3> QED BY <3>1, <3>2, <3>4, <3>6
  <2> QED BY <2>1, <2>2
<1> QED BY <1>2, <1>3, <1>4 DEF IsFinite

\* A conversion from an integer that raises nothing has made its value.
LEMMA OfIntegerExact ==
  ASSUME NEW n \in Int, NEW rm, NEW o, o = OfInteger(n, rm), o.flags = {}
  PROVE  /\ o.bits \in Word /\ IsFinite(o.bits)
         /\ Value(o.bits) = n * One /\ Units(o.bits) = Magnitude(n) * One
         /\ Sign(o.bits) = IF n < 0 THEN 1 ELSE 0
<1>1. One \in Nat \ {0}
  BY FloatWidths
<1>2. CASE n = 0
  <2>1. o.bits = 0
    BY <1>2 DEF OfInteger, Exact, Outcome
  <2>2. Hidden \in Nat /\ Hidden >= 2 /\ TopExponent \in Nat /\ TopExponent >= 3
    BY FloatWidths
  <2>3. 0 \in 0 .. TopExponent - 1 /\ 0 \in 0 .. Hidden - 1 /\ 0 = WithSign(0, 0 * Hidden + 0)
    BY <2>2, Widths DEF WithSign, SignWord
  <2>4. 0 \in Word /\ Sign(0) = 0 /\ Exponent(0) = 0 /\ Fraction(0) = 0
    BY <2>3, FieldsPut
  <2>5. Units(0) = 0 /\ Value(0) = 0
    BY <2>4 DEF Units, Value
  <2>6. IsFinite(0)
    BY <2>2, <2>4 DEF IsFinite
  <2>7. Magnitude(0) = 0 /\ 0 * One = 0
    BY <1>1 DEF Magnitude
  <2> QED BY <1>2, <2>1, <2>4, <2>5, <2>6, <2>7
<1>3. CASE n # 0
  <2> DEFINE s == IF n < 0 THEN 1 ELSE 0
             g == IF n < 0 THEN -n ELSE n
             p == g * One
             mode == HostMode(rm)
             step == Step(p \div 1)
             k == Nearest(s, p, 1 * step, mode)
             u == step * k
             away == mode = "RNE" \/ (mode = "RDN" /\ s = 1) \/ (mode = "RUP" /\ s = 0)
             tiny == p < Hidden * 1 /\ Nearest(s, 2 * p, 1, mode) < 2 * Hidden
             inexact == u * 1 # p
             flags == IF ~inexact THEN {} ELSE IF tiny THEN {"NX", "UF"} ELSE {"NX"}
  <2>1. s \in {0, 1} /\ g \in Nat \ {0} /\ g = Magnitude(n)
    BY <1>3 DEF Magnitude
  <2>2. p \in Nat /\ p \div 1 = p
    <3> HIDE DEF g
    <3>1. p \in Nat
      BY <1>1, <2>1
    <3> HIDE DEF p
    <3> QED BY <3>1
  <2>3. step = Step(p) /\ step \in Nat \ {0} /\ 1 * step = step
    <3>1. step = Step(p)
      BY <2>2
    <3> HIDE DEF step, p
    <3> QED BY <2>2, <3>1, StepType
  <2>4. k \in Nat /\ u \in Nat
    <3> DEFINE z == 1 * step
    <3>1. z \in Nat \ {0}
      BY <2>3
    <3> HIDE DEF z, s, p, mode
    <3>2. Nearest(s, p, z, mode) \in Nat
      BY <2>2, <3>1, NearestType
    <3>3. k \in Nat
      BY <3>2 DEF z
    <3> HIDE DEF k, step
    <3> QED BY <2>3, <3>3
  <2>5. o = IF u > LargestUnits
            THEN Outcome(WithSign(s, IF away THEN Infinity ELSE Infinity - 1), {"OF", "NX"})
            ELSE Outcome(WithSign(s, Packed(u)), flags)
    BY <1>3 DEF OfInteger, Rounded
  <2> HIDE DEF u, s, p, away, step, k
  <2>6. u <= LargestUnits /\ o = Outcome(WithSign(s, Packed(u)), flags)
    <3>1. CASE u > LargestUnits
      <4>1. o.flags = {"OF", "NX"}
        BY <2>5, <3>1 DEF Outcome
      <4> QED BY <4>1
    <3>2. CASE ~(u > LargestUnits)
      <4>1. 0 \in Word
        BY WordType
      <4>2. LargestUnits \in Nat
        BY <4>1, FloatKinds
      <4> HIDE DEF flags
      <4> QED BY <2>4, <2>5, <3>2, <4>2
    <3> QED BY <3>1, <3>2
  <2>7. o.bits = WithSign(s, Packed(u)) /\ flags = {}
    <3> HIDE DEF flags
    <3> QED BY <2>6 DEF Outcome
  <2>8. u * 1 = p
    BY <2>7
  <2>9. u = p /\ u = Step(u) * k
    <3>1. u = p
      BY <2>4, <2>8
    <3> QED BY <2>3, <3>1 DEF u
  <2>10. o.bits \in Word /\ Sign(o.bits) = s /\ Units(o.bits) = u /\ IsFinite(o.bits)
    BY <2>1, <2>4, <2>6, <2>7, <2>9, PackedValue
  <2>11. Units(o.bits) = Magnitude(n) * One
    BY <2>1, <2>9, <2>10 DEF p
  <2>12. Value(o.bits) = n * One
    <3>1. CASE n < 0
      <4>1. s = 1
        BY <3>1 DEF s
      <4>2. Value(o.bits) = -(g * One)
        BY <2>9, <2>10, <4>1 DEF Value, p
      <4>3. g = -n
        BY <3>1
      <4> HIDE DEF g
      <4>4. -((-n) * One) = n * One
        BY <1>1
      <4> QED BY <4>2, <4>3, <4>4
    <3>2. CASE ~(n < 0)
      <4>1. s = 0
        BY <3>2 DEF s
      <4>2. Value(o.bits) = g * One
        BY <2>9, <2>10, <4>1 DEF Value, p
      <4> QED BY <3>2, <4>2
    <3> QED BY <3>1, <3>2
  <2> QED BY <2>10, <2>11, <2>12 DEF s
<1> QED BY <1>2, <1>3

\* A whole number is what it rounds to, in every mode.
LEMMA WholeComesBack ==
  ASSUME NEW n \in Int, NEW low \in Int, NEW high \in Int, low <= n, n <= high,
         NEW a \in Word, IsFinite(a), Value(a) = n * One, Units(a) = Magnitude(n) * One,
         Sign(a) = IF n < 0 THEN 1 ELSE 0, NEW rm \in RoundingModes
  PROVE  Saturated(a, low, high, rm) = Exact(Trunc(n))
<1> DEFINE g == Magnitude(n)
           q == One
           k == Nearest(Sign(a), Units(a), q, rm)
           r == RoundToInt(a, rm)
<1>1. g \in Nat /\ q \in Nat \ {0}
  BY MagnitudeOf, FloatWidths
<1>2. Units(a) \div q = g /\ Units(a) % q = 0
  <2>1. Units(a) = q * g + 0
    <3> HIDE DEF g, q
    <3>1. g * q = q * g + 0
      BY <1>1
    <3> QED BY <3>1 DEF g, q
  <2> HIDE DEF g, q
  <2>2. (q * g + 0) \div q = g /\ (q * g + 0) % q = 0
    BY <1>1, DivUnique
  <2> QED BY <2>1, <2>2
<1>3. k = g
  <2> DEFINE up == CASE rm = "RNE" -> 2 * 0 > q \/ (2 * 0 = q /\ g % 2 = 1)
                     [] rm = "RTZ" -> FALSE
                     [] rm = "RDN" -> Sign(a) = 1 /\ 0 > 0
                     [] rm = "RUP" -> Sign(a) = 0 /\ 0 > 0
                     [] rm = "RMM" -> 2 * 0 >= q
  <2>1. k = IF up THEN g + 1 ELSE g
    BY <1>2, Zenon DEF Nearest
  <2>2. ~up
    <3> HIDE DEF q, g
    <3>1. ~(2 * 0 > q) /\ ~(2 * 0 = q) /\ ~(0 > 0) /\ ~(2 * 0 >= q)
      BY <1>1
    <3> QED BY <3>1 DEF RoundingModes
  <2> QED BY <2>1, <2>2, Zenon
<1>4. r = n
  <2>1. r = IF Sign(a) = 1 THEN -k ELSE k
    BY DEF RoundToInt
  <2>2. CASE n < 0
    <3>1. g = -n
      BY <2>2, MagnitudeOf
    <3>2. r = -g
      BY <1>3, <2>1, <2>2
    <3> HIDE DEF r, g
    <3> QED BY <3>1, <3>2
  <2>3. CASE ~(n < 0)
    <3>1. g = n
      BY <2>3, MagnitudeOf
    <3> QED BY <1>3, <2>1, <2>3, <3>1
  <2> QED BY <2>2, <2>3
<1>5. ~IsNaN(a) /\ ~IsInf(a)
  BY FloatKinds DEF IsFinite, IsNaN
<1>6. ~(r > high) /\ ~(r < low)
  BY <1>4
<1>7. Saturated(a, low, high, rm) = Outcome(Trunc(r), IF r * One # Value(a) THEN {"NX"} ELSE {})
  BY <1>5, <1>6 DEF Saturated
<1> HIDE DEF r
<1> QED BY <1>4, <1>7 DEF Exact

\* An integer a float represents comes back from its conversion, within bounds.
LEMMA RoundTrip ==
  ASSUME NEW n \in Int, NEW low \in Int, NEW high \in Int, low <= n, n <= high,
         NEW o, NEW mode, o = OfInteger(n, mode), o.flags = {}, NEW rm \in RoundingModes
  PROVE  Saturated(Canonical(o.bits), low, high, rm) = Exact(Trunc(n))
<1>1. /\ o.bits \in Word /\ IsFinite(o.bits)
      /\ Value(o.bits) = n * One /\ Units(o.bits) = Magnitude(n) * One
      /\ Sign(o.bits) = IF n < 0 THEN 1 ELSE 0
  BY OfIntegerExact
<1>2. Canonical(o.bits) = o.bits
  BY <1>1 DEF Canonical, IsNaN, IsFinite
<1> QED BY <1>1, <1>2, WholeComesBack

\* An integer a float holds comes back from it, whatever the width.
THEOREM IntegersComeBack == Spec => IntegersRoundTrip
<1> DEFINE Returned ==
             \A rm \in RoundingModes :
               /\ Does({"FCVT_S_W"}) /\ Raised = {} => ToInteger("FCVT_W_S", Result, rm) = Exact(A)
               /\ Does({"FCVT_S_WU"}) /\ Raised = {} => ToInteger("FCVT_WU_S", Result, rm) = Exact(A)
<1>1. ASSUME Inductive, Next, NEW t \in {"FCVT_S_W", "FCVT_S_WU"}, Does({t}), Raised = {},
             NEW rm \in RoundingModes
      PROVE  ToInteger(IF t = "FCVT_S_W" THEN "FCVT_W_S" ELSE "FCVT_WU_S", Result, rm) = Exact(A)
  <2> DEFINE mode == ModeOf(EffectiveRm(did'.d.rm, frm))
             n == IF t = "FCVT_S_W" THEN Signed(A) ELSE A
             low == IF t = "FCVT_S_W" THEN -MinSigned ELSE 0
             high == IF t = "FCVT_S_W" THEN MinSigned - 1 ELSE AllOnes
             o == OfInteger(n, mode)
  <2>1. Does(ReckonedTypes) /\ did'.d.type = t
    BY <1>1 DEF Does, ReckonedTypes, ConversionTypes
  <2>2. A \in Word /\ Result = FromInteger(t, A, mode).bits /\ Raised = FromInteger(t, A, mode).flags
    BY <1>1, <2>1, FloatResult
  <2>3. FromInteger(t, A, mode) = Outcome(Canonical(o.bits), o.flags)
    BY DEF FromInteger
  <2> HIDE DEF o
  <2>4. Result = Canonical(o.bits) /\ o.flags = {}
    BY <1>1, <2>2, <2>3 DEF Outcome
  <2>5. n \in Int /\ low \in Int /\ high \in Int /\ low <= n /\ n <= high
    BY <2>2, WordType, SignedType, Widths
  <2>6. Trunc(n) = A
    BY <2>2, SignedBack
  <2>7. ToInteger(IF t = "FCVT_S_W" THEN "FCVT_W_S" ELSE "FCVT_WU_S", Result, rm)
          = Saturated(Result, low, high, rm)
    <3>1. CASE t = "FCVT_S_W"
      BY <3>1 DEF ToInteger
    <3>2. CASE t = "FCVT_S_WU"
      BY <3>2 DEF ToInteger
    <3> QED BY <3>1, <3>2
  <2> HIDE DEF n, low, high, mode
  <2>8. Saturated(Canonical(o.bits), low, high, rm) = Exact(Trunc(n))
    BY <2>4, <2>5, RoundTrip DEF o
  <2> QED BY <2>4, <2>6, <2>7, <2>8
<1>2. ASSUME Inductive, Next PROVE Returned
  <2>1. ASSUME NEW rm \in RoundingModes, Does({"FCVT_S_W"}), Raised = {}
        PROVE  ToInteger("FCVT_W_S", Result, rm) = Exact(A)
    BY <1>1, <1>2, <2>1
  <2>2. ASSUME NEW rm \in RoundingModes, Does({"FCVT_S_WU"}), Raised = {}
        PROVE  ToInteger("FCVT_WU_S", Result, rm) = Exact(A)
    <3>1. ToInteger(IF "FCVT_S_WU" = "FCVT_S_W" THEN "FCVT_W_S" ELSE "FCVT_WU_S", Result, rm) = Exact(A)
      BY <1>1, <1>2, <2>2
    <3> QED BY <3>1
  <2> QED BY <2>1, <2>2
<1>3. ASSUME Inductive, [Next]_vars PROVE [Returned]_vars
  BY <1>2, <1>3
<1> QED BY <1>3, InductiveHolds, PTL DEF Spec, IntegersRoundTrip

\* Conversions lose nothing that has a place and saturate where it has none.
THEOREM ConversionsKeep == Spec => ConversionsExact
BY Saturates, IntegersComeBack DEF ConversionsExact

\* Division towards zero: the remainder is small and has the sign of the
\* dividend.
SmallRest(r, n, d) == Magnitude(r) < Magnitude(d) /\ (r = 0 \/ (r < 0) = (n < 0))

\* Truncated division of integers obeys the law of division.
LEMMA TowardsZero ==
  ASSUME NEW n \in Int, NEW d \in Int, d # 0
  PROVE  /\ Quotient(n, d) \in Int /\ n - Quotient(n, d) * d = Remainder(n, d) /\ Remainder(n, d) \in Int
         /\ Quotient(n, d) * d + Remainder(n, d) = n
         /\ SmallRest(Remainder(n, d), n, d)
         /\ Magnitude(Quotient(n, d)) <= Magnitude(n)
         /\ Magnitude(d) > 1 => Magnitude(Quotient(n, d)) < Magnitude(n) \/ n = 0
         /\ Quotient(n, d) > 0 => ((n < 0) <=> (d < 0))
<1> DEFINE u == Magnitude(n)
           v == Magnitude(d)
           k == u \div v
           z == u % v
           q == Quotient(n, d)
           r == Remainder(n, d)
<1>1. u \in Nat /\ v \in Nat \ {0} /\ (n < 0 => u = -n) /\ (n >= 0 => u = n) /\ (d < 0 => v = -d) /\ (d >= 0 => v = d)
  BY MagnitudeOf
<1>2. k \in Nat /\ z \in Nat /\ z < v /\ u = v * k + z
  <2> HIDE DEF u, v
  <2> QED BY <1>1
<1>3. /\ (n < 0 <=> d < 0) => q = k
      /\ ~(n < 0 <=> d < 0) => q = -k
  BY DEF Quotient
<1>4. r = n - d * q
  BY DEF Remainder
<1> HIDE DEF u, v, k, z, q, r
<1>5. q \in Int
  BY <1>2, <1>3
<1>6. d * q = IF n < 0 THEN -(v * k) ELSE v * k
  <2>1. CASE n < 0 /\ d < 0
    <3>1. d = -v /\ q = k
      BY <1>1, <1>3, <2>1
    <3>2. (-v) * k = -(v * k)
      BY <1>1, <1>2
    <3> QED BY <2>1, <3>1, <3>2
  <2>2. CASE n < 0 /\ ~(d < 0)
    <3>1. d = v /\ q = -k
      BY <1>1, <1>3, <2>2
    <3>2. v * (-k) = -(v * k)
      BY <1>1, <1>2
    <3> QED BY <2>2, <3>1, <3>2
  <2>3. CASE ~(n < 0) /\ d < 0
    <3>1. d = -v /\ q = -k
      BY <1>1, <1>3, <2>3
    <3>2. (-v) * (-k) = v * k
      BY <1>1, <1>2
    <3> QED BY <2>3, <3>1, <3>2
  <2>4. CASE ~(n < 0) /\ ~(d < 0)
    <3>1. d = v /\ q = k
      BY <1>1, <1>3, <2>4
    <3> QED BY <2>4, <3>1
  <2> QED BY <2>1, <2>2, <2>3, <2>4
<1> DEFINE g == v * k
<1>7. g \in Nat /\ k <= g /\ (v > 1 /\ k > 0 => k < g)
  BY <1>1, <1>2
<1>8. q * d = d * q
  BY <1>5
<1>9. u = g + z /\ d * q = IF n < 0 THEN -g ELSE g
  BY <1>2, <1>6
<1> HIDE DEF g
<1>10. (n < 0 => r = -z) /\ (n >= 0 => r = z)
  BY <1>1, <1>2, <1>4, <1>7, <1>9
<1>11. r \in Int /\ Magnitude(r) = z
  <2>1. CASE n < 0
    <3>1. r = -z /\ z \in Int /\ z >= 0
      BY <1>2, <1>10, <2>1
    <3> QED BY <3>1, MagnitudeOf
  <2>2. CASE ~(n < 0)
    <3>1. r = z /\ z \in Int /\ z >= 0
      BY <1>2, <1>10, <2>2
    <3> QED BY <3>1, MagnitudeOf
  <2> QED BY <2>1, <2>2
<1>12. SmallRest(r, n, d)
  <2>1. r = 0 \/ (r < 0 <=> n < 0)
    BY <1>2, <1>10
  <2> QED BY <1>2, <1>11, <2>1 DEF SmallRest, v
<1>13. Magnitude(q) = k
  <2>1. q = k \/ q = -k
    BY <1>3
  <2>2. k \in Int /\ k >= 0
    BY <1>2
  <2> QED BY <2>1, <2>2, MagnitudeOf
<1>14. k <= u /\ (v > 1 => k < u \/ n = 0)
  BY <1>1, <1>2, <1>7, <1>9
<1>15. q > 0 => (n < 0 <=> d < 0)
  BY <1>2, <1>3
<1>16. d * q \in Int
  BY <1>7, <1>9
<1>17. n - d * q = r /\ d * q + r = n
  BY <1>4, <1>16
<1> QED BY <1>5, <1>8, <1>11, <1>12, <1>13, <1>14, <1>15, <1>17 DEF q, r, u, v

\* What a word is when it is read with a sign.
LEMMA SignedZero ==
  ASSUME NEW w \in Word
  PROVE  /\ Signed(w) = 0 <=> w = 0
         /\ Signed(w) = -MinSigned <=> w = MinSigned
<1>1. MinSigned \in Nat \ {0} /\ 2^XLEN = 2 * MinSigned /\ AllOnes = 2 * MinSigned - 1 /\ w \in Nat /\ w <= AllOnes
  BY Widths, WordType
<1>2. Signed(w) = IF w >= MinSigned THEN w - 2 * MinSigned ELSE w
  BY <1>1 DEF Signed, MinSigned
<1> QED BY <1>1, <1>2

\* The quotients and remainders of words.
LEMMA Divides ==
  ASSUME NEW a \in Word, NEW b \in Word
  PROVE  /\ b = 0 => Divide(a, b) = AllOnes /\ Modulo(a, b) = a
         /\ a = MinSigned /\ Signed(b) = -1 => Divide(a, b) = a
         /\ b # 0 /\ ~(a = MinSigned /\ Signed(b) = -1)
              => SmallRest(Signed(a) - Signed(Divide(a, b)) * Signed(b), Signed(a), Signed(b))
         /\ b # 0 =>
              /\ SmallRest(Signed(Modulo(a, b)), Signed(a), Signed(b))
              /\ \E q \in -MinSigned .. MinSigned : q * Signed(b) + Signed(Modulo(a, b)) = Signed(a)
<1> DEFINE m == MinSigned
           n == Signed(a)
           d == Signed(b)
           q == Quotient(n, d)
           r == Remainder(n, d)
<1>1. n \in Int /\ d \in Int /\ m \in Nat \ {0} /\ -m <= n /\ n < m /\ -m <= d /\ d < m
  BY SignedType, Widths
<1>2. (d = 0 <=> b = 0) /\ (n = -m <=> a = m)
  BY SignedZero
<1>3. b = 0 => Divide(a, b) = AllOnes /\ Modulo(a, b) = a
  BY DEF Divide, Modulo
<1>4. a = m /\ d = -1 => b # 0
  BY <1>2
<1>5. a = m /\ d = -1 => Divide(a, b) = a /\ Modulo(a, b) = 0
  BY <1>4 DEF Divide, Modulo
<1>6. ASSUME b # 0
      PROVE  /\ q \in Int /\ r \in Int /\ n - q * d = r /\ q * d + r = n /\ SmallRest(r, n, d)
             /\ Magnitude(q) <= Magnitude(n) /\ (q > 0 => (n < 0 <=> d < 0))
             /\ Magnitude(d) > 1 => Magnitude(q) < Magnitude(n) \/ n = 0
  <2>1. d # 0
    BY <1>2, <1>6
  <2> HIDE DEF n, d
  <2> QED BY <1>1, <2>1, TowardsZero
<1>7. ASSUME b # 0, ~(a = m /\ d = -1)
      PROVE  /\ Signed(Divide(a, b)) = q /\ Signed(Modulo(a, b)) = r
             /\ -m <= q /\ q <= m
  <2>1. Divide(a, b) = Trunc(q) /\ Modulo(a, b) = Trunc(r)
    BY <1>7 DEF Divide, Modulo
  <2> HIDE DEF q, r, n, d, m
  <2>2. -m <= r /\ r < m
    <3>1. Magnitude(r) < Magnitude(d)
      BY <1>6, <1>7 DEF SmallRest
    <3> QED BY <1>1, <1>6, <1>7, <3>1 DEF Magnitude
  <2>3. -m <= q /\ q <= m
    BY <1>1, <1>6, <1>7 DEF Magnitude
  <2>4. q < m
    <3> SUFFICES ASSUME q = m PROVE FALSE
      BY <1>1, <1>6, <1>7, <2>3
    <3>1. Magnitude(q) = m /\ q > 0
      BY <1>1 DEF Magnitude
    <3>2. n = -m
      BY <1>1, <1>6, <1>7, <3>1 DEF Magnitude
    <3>3. d < 0
      BY <1>1, <1>6, <1>7, <3>1, <3>2
    <3>4. d = -1
      BY <1>1, <1>6, <1>7, <3>1, <3>2, <3>3 DEF Magnitude
    <3> QED BY <1>2, <1>7, <3>2, <3>4
  <2>5. Signed(Trunc(q)) = q /\ Signed(Trunc(r)) = r
    BY <1>6, <1>7, <2>2, <2>3, <2>4, SignedBack DEF m
  <2> QED BY <2>1, <2>3, <2>5
<1>8. ASSUME a = m, d = -1
      PROVE  /\ SmallRest(Signed(Modulo(a, b)), n, d)
             /\ m * d + Signed(Modulo(a, b)) = n
  <2>1. Modulo(a, b) = 0 /\ 0 \in Word
    BY <1>5, <1>8, WordType
  <2>2. Signed(Modulo(a, b)) = 0
    BY <2>1, SignedZero
  <2>3. n = -m /\ d = -1
    BY <1>2, <1>8
  <2> HIDE DEF n, d, m
  <2>4. Magnitude(0) = 0 /\ Magnitude(d) = 1
    <3>1. d \in Int /\ d < 0
      BY <1>1, <2>3
    <3>4. d + 1 = 0
      BY <2>3
    <3>5. \A t \in Int : t + 1 = 0 => -t = 1
      OBVIOUS
    <3>6. -d = 1
      BY <3>1, <3>4, <3>5
    <3>2. Magnitude(0) = 0
      BY MagnitudeOf
    <3>3. Magnitude(d) = 1
      BY <3>1, <3>6, MagnitudeOf
    <3> QED BY <3>2, <3>3
  <2>5. SmallRest(0, n, d)
    BY <2>4 DEF SmallRest
  <2>6. m * d + 0 = n
    BY <1>1, <2>3
  <2> QED BY <2>2, <2>5, <2>6
<1>9. m \in -m .. m
  BY <1>1
<1>10. ASSUME b # 0, ~(a = m /\ d = -1)
       PROVE  /\ SmallRest(n - Signed(Divide(a, b)) * d, n, d)
              /\ SmallRest(Signed(Modulo(a, b)), n, d)
              /\ \E k \in -m .. m : k * d + Signed(Modulo(a, b)) = n
  <2>1. q \in -m .. m
    <3> HIDE DEF q, m
    <3> QED BY <1>1, <1>6, <1>7, <1>10
  <2> HIDE DEF q, r, n, d, m
  <2> QED BY <1>6, <1>7, <1>10, <2>1
<1> HIDE DEF q, r
<1> QED BY <1>3, <1>5, <1>8, <1>9, <1>10

\* The unsigned quotient and remainder of words.
LEMMA DividesUnsigned ==
  ASSUME NEW a \in Word, NEW b \in Word, b # 0
  PROVE  /\ a - (a \div b) * b \in 0 .. b - 1
         /\ a % b < b /\ a \div b \in Word /\ (a \div b) * b + (a % b) = a
<1>1. a \in Nat /\ b \in Nat \ {0} /\ a <= AllOnes
  BY WordType
<1> DEFINE q == a \div b
           r == a % b
<1>2. q \in Nat /\ r \in Nat /\ r < b /\ a = b * q + r
  BY <1>1
<1>3. q <= a
  BY <1>1, QuotientWord
<1> HIDE DEF q, r
<1>4. b * q = q * b /\ q * b \in Nat
  BY <1>1, <1>2
<1>5. a - q * b = r /\ q * b + r = a
  BY <1>2, <1>4
<1>6. AllOnes \in Int
  BY Widths
<1>7. q \in Word
  BY <1>1, <1>2, <1>3, <1>6, WordType
<1> QED BY <1>1, <1>2, <1>5, <1>7 DEF q, r

\* Division and remainder, for words of every width.
THEOREM Divided == Spec => DivisionLaw
<1> DEFINE Law ==
             LET a == Signed(A)
                 b == Signed(B)
                 remainder(r) == Magnitude(r) < Magnitude(b) /\ (r = 0 \/ (r < 0) = (a < 0))
             IN  /\ Does({"DIV"}) =>
                      CASE b = 0 -> Result = AllOnes
                        [] a = -MinSigned /\ b = -1 -> Result = A
                        [] OTHER -> remainder(a - Signed(Result) * b)
                 /\ Does({"REM"}) =>
                      IF b = 0 THEN Result = A
                      ELSE /\ remainder(Signed(Result))
                           /\ \E q \in -MinSigned .. MinSigned : q * b + Signed(Result) = a
                 /\ Does({"DIVU"}) =>
                      IF B = 0 THEN Result = AllOnes ELSE A - Result * B \in 0 .. B - 1
                 /\ Does({"REMU"}) =>
                      IF B = 0 THEN Result = A
                      ELSE Result < B /\ \E q \in Word : q * B + Result = A
<1>1. ASSUME Inductive, Next, NEW t \in {"DIV", "REM", "DIVU", "REMU"}, Does({t})
      PROVE  Result = MulDiv(t, A, B) /\ A \in Word /\ B \in Word
  <2>1. Does(ComputedTypes) /\ did'.d.type = t /\ t \in MTypes
    BY <1>1 DEF Does, ComputedTypes, MTypes
  <2>2. Result = Compute(t, A, B, did'.d.imm) /\ A \in Word /\ B \in Word
    BY <1>1, <2>1, IntegerResult
  <2> QED BY <2>1, <2>2, ComputeOf
<1>2. ASSUME Inductive, Next, Does({"DIV"})
      PROVE  CASE Signed(B) = 0 -> Result = AllOnes
               [] Signed(A) = -MinSigned /\ Signed(B) = -1 -> Result = A
               [] OTHER -> SmallRest(Signed(A) - Signed(Result) * Signed(B), Signed(A), Signed(B))
  <2>1. Result = Divide(A, B) /\ A \in Word /\ B \in Word
    BY <1>1, <1>2 DEF MulDiv
  <2>2. Signed(B) = 0 <=> B = 0
    BY <2>1, SignedZero
  <2>3. Signed(A) = -MinSigned <=> A = MinSigned
    BY <2>1, SignedZero
  <2>4. CASE Signed(B) = 0
    BY <2>1, <2>2, <2>4, Divides
  <2>5. CASE Signed(A) = -MinSigned /\ Signed(B) = -1
    BY <2>1, <2>3, <2>5, Divides
  <2>6. CASE Signed(B) # 0 /\ ~(Signed(A) = -MinSigned /\ Signed(B) = -1)
    BY <2>1, <2>2, <2>3, <2>6, Divides
  <2> QED BY <2>4, <2>5, <2>6
<1>3. ASSUME Inductive, Next, Does({"REM"})
      PROVE  IF Signed(B) = 0 THEN Result = A
             ELSE /\ SmallRest(Signed(Result), Signed(A), Signed(B))
                  /\ \E q \in -MinSigned .. MinSigned : q * Signed(B) + Signed(Result) = Signed(A)
  <2>1. Result = Modulo(A, B) /\ A \in Word /\ B \in Word
    BY <1>1, <1>3 DEF MulDiv
  <2>2. Signed(B) = 0 <=> B = 0
    BY <2>1, SignedZero
  <2> QED BY <2>1, <2>2, Divides
<1>4. ASSUME Inductive, Next, Does({"DIVU"})
      PROVE  IF B = 0 THEN Result = AllOnes ELSE A - Result * B \in 0 .. B - 1
  <2>1. Result = (IF B = 0 THEN AllOnes ELSE A \div B) /\ A \in Word /\ B \in Word
    BY <1>1, <1>4 DEF MulDiv
  <2> QED BY <2>1, DividesUnsigned
<1>5. ASSUME Inductive, Next, Does({"REMU"})
      PROVE  IF B = 0 THEN Result = A ELSE Result < B /\ \E q \in Word : q * B + Result = A
  <2>1. Result = (IF B = 0 THEN A ELSE A % B) /\ A \in Word /\ B \in Word
    BY <1>1, <1>5 DEF MulDiv
  <2>2. CASE B = 0
    BY <2>1, <2>2
  <2>3. CASE B # 0
    <3> DEFINE q == A \div B
    <3>1. A % B < B /\ q \in Word /\ q * B + (A % B) = A
      BY <2>1, <2>3, DividesUnsigned
    <3> HIDE DEF q
    <3> QED BY <2>1, <2>3, <3>1
  <2> QED BY <2>2, <2>3
<1>6. ASSUME Inductive, Next PROVE Law
  BY <1>2, <1>3, <1>4, <1>5, <1>6 DEF SmallRest
<1>7. ASSUME Inductive, [Next]_vars PROVE [Law]_vars
  BY <1>6, <1>7
<1> QED BY <1>7, InductiveHolds, PTL DEF Spec, DivisionLaw

\* The product of two integers within bounds.
LEMMA ProductBound ==
  ASSUME NEW p \in Int, NEW q \in Int, NEW h \in Nat, NEW k \in Nat,
         -h <= p, p <= h, -k <= q, q <= k
  PROVE  p * q \in Int /\ -(h * k) <= p * q /\ p * q <= h * k
<1>1. /\ (h - p) * (k + q) \in Nat /\ (h + p) * (k - q) \in Nat
      /\ (h - p) * (k - q) \in Nat /\ (h + p) * (k + q) \in Nat
  <2>1. h - p \in Nat /\ h + p \in Nat /\ k - q \in Nat /\ k + q \in Nat
    OBVIOUS
  <2>2. \A i, j \in Nat : i * j \in Nat
    OBVIOUS
  <2> QED BY <2>1, <2>2
<1>2. /\ (h - p) * (k + q) = h * k + h * q - p * k - p * q
      /\ (h + p) * (k - q) = h * k - h * q + p * k - p * q
      /\ (h - p) * (k - q) = h * k - h * q - p * k + p * q
      /\ (h + p) * (k + q) = h * k + h * q + p * k + p * q
  OBVIOUS
<1>3. h * k \in Int /\ h * q \in Int /\ p * k \in Int /\ p * q \in Int
  OBVIOUS
<1> QED BY <1>1, <1>2, <1>3

\* Multiples of the modulus leave a remainder as it is.
LEMMA RemainderKeeps ==
  ASSUME NEW m \in Nat \ {0}, NEW n \in Int, NEW c \in Int
  PROVE  (n + m * c) % m = n % m /\ (n + m * c) \div m = (n \div m) + c
<1> DEFINE q == n \div m
           r == n % m
           k == n + m * c
           s == k \div m
           t == k % m
<1>1. q \in Int /\ r \in Nat /\ r < m /\ n = m * q + r /\ k \in Int
  OBVIOUS
<1>2. s \in Int /\ t \in Nat /\ t < m /\ k = m * s + t
  <2> HIDE DEF k
  <2> QED BY <1>1
<1>3. m * s + t = m * (q + c) + r
  <2>1. m * (q + c) = m * q + m * c /\ m * q \in Int /\ m * c \in Int
    BY <1>1
  <2> HIDE DEF q, r, s, t
  <2> QED BY <1>1, <1>2, <2>1 DEF k
<1> HIDE DEF q, r, s, t, k
<1> DEFINE j == s - (q + c)
           g == m * j
<1>4. j \in Int /\ g = r - t
  <2>1. m * j = m * s - m * (q + c) /\ m * s \in Int /\ m * (q + c) \in Int
    BY <1>1, <1>2
  <2> QED BY <1>1, <1>2, <1>3, <2>1
<1>5. g \in Int /\ (j >= 1 => g >= m) /\ (j <= -1 => g <= -m)
  <2> HIDE DEF j
  <2> QED BY <1>4
<1>6. j = 0 /\ g = 0
  <2>1. ~(j >= 1) /\ ~(j <= -1)
    <3> HIDE DEF j, g
    <3> QED BY <1>1, <1>2, <1>4, <1>5
  <2>2. j = 0
    <3> HIDE DEF j
    <3> QED BY <1>4, <2>1
  <2>3. m * 0 = 0
    OBVIOUS
  <2> QED BY <2>2, <2>3
<1>7. r = t /\ s = q + c
  <2>1. r = t
    <3> HIDE DEF j, g
    <3> QED BY <1>1, <1>2, <1>4, <1>6
  <2>2. s = q + c
    BY <1>1, <1>2, <1>6
  <2> QED BY <2>1, <2>2
<1> QED BY <1>7 DEF q, r, s, t, k

\* The two halves of a product make the product, read with and without a
\* sign.
LEMMA HalvesJoin ==
  ASSUME NEW p \in Int
  PROVE  /\ -(MinSigned * 2^XLEN) <= p /\ p < MinSigned * 2^XLEN
              => Signed(UpperHalf(p)) * 2^XLEN + Trunc(p) = p
         /\ 0 <= p /\ p < 2^XLEN * 2^XLEN => UpperHalf(p) * 2^XLEN + Trunc(p) = p
<1> DEFINE m == 2^XLEN
           h == MinSigned
           q == p \div m
           r == p % m
<1>1. m \in Nat \ {0} /\ h \in Nat /\ AllOnes = m - 1
  BY Widths
<1>2. q \in Int /\ r \in Nat /\ r < m /\ p = m * q + r
  <2> HIDE DEF m
  <2> QED BY <1>1
<1>3. UpperHalf(p) = Trunc(q) /\ Trunc(p) = r
  BY DEF UpperHalf, Trunc
<1> HIDE DEF m, h, q, r
<1>4. m * q \in Int /\ m * q = q * m
  BY <1>1, <1>2
<1>5. q * m + r = p
  BY <1>2, <1>4
<1>6. ASSUME NEW k \in Int
      PROVE  (q >= k => m * q >= m * k) /\ (q <= k - 1 => m * q <= m * k - m)
  <2>1. q >= k => m * (q - k) \in Nat
    BY <1>1, <1>2
  <2>2. q <= k - 1 => m * ((k - 1) - q) \in Nat
    BY <1>1, <1>2
  <2>3. m * (q - k) = m * q - m * k /\ m * ((k - 1) - q) = m * k - m - m * q /\ m * k \in Int
    BY <1>1, <1>2
  <2> QED BY <1>1, <1>4, <2>1, <2>2, <2>3
<1>7. ASSUME -(h * m) <= p, p < h * m PROVE -h <= q /\ q < h
  <2>1. m * h = h * m /\ m * (-h) = -(h * m) /\ h * m \in Int
    BY <1>1
  <2>2. ~(q >= h)
    BY <1>1, <1>2, <1>4, <1>6, <1>7, <2>1
  <2>3. ~(q <= (-h) - 1)
    <3>1. -h \in Int
      BY <1>1
    <3>2. q <= (-h) - 1 => m * q <= m * (-h) - m
      BY <1>6, <3>1
    <3> QED BY <1>1, <1>2, <1>4, <1>7, <2>1, <3>2
  <2> QED BY <1>1, <1>2, <2>2, <2>3
<1>8. ASSUME 0 <= p, p < m * m PROVE q \in Nat /\ q <= m - 1
  <2>1. m * 0 = 0 /\ m * m \in Int
    BY <1>1
  <2>2. ~(q >= m)
    BY <1>1, <1>2, <1>4, <1>6, <1>8, <2>1
  <2>3. ~(q <= 0 - 1)
    <3>1. q <= 0 - 1 => m * q <= m * 0 - m
      BY <1>6
    <3> QED BY <1>1, <1>2, <1>4, <1>8, <2>1, <3>1
  <2> QED BY <1>1, <1>2, <2>2, <2>3
<1>9. ASSUME -(h * m) <= p, p < h * m PROVE Signed(UpperHalf(p)) * m + Trunc(p) = p
  <2>1. Signed(Trunc(q)) = q
    BY <1>2, <1>7, <1>9, SignedBack DEF h
  <2> QED BY <1>3, <1>5, <2>1
<1>10. ASSUME 0 <= p, p < m * m PROVE UpperHalf(p) * m + Trunc(p) = p
  <2>1. q \in Word
    BY <1>1, <1>8, <1>10, WordType
  <2>2. Trunc(q) = q
    BY <2>1, SignedBack
  <2> QED BY <1>3, <1>5, <2>2
<1> QED BY <1>9, <1>10 DEF m, h

\* A number within half the modulus of zero is recovered from its remainder.
LEMMA CentredBack ==
  ASSUME NEW h \in Nat \ {0}, NEW p \in Int, -h <= p, p < h
  PROVE  p = IF p % (2 * h) >= h THEN (p % (2 * h)) - 2 * h ELSE p % (2 * h)
<1> DEFINE m == 2 * h
           c == IF p < 0 THEN 1 ELSE 0
           r == p + m * c
<1>1. m \in Nat \ {0} /\ c \in {0, 1}
  OBVIOUS
<1>2. /\ p < 0 => r = p + m /\ r >= h
      /\ p >= 0 => r = p /\ r < h
  OBVIOUS
<1>3. r \in Nat /\ r < m
  BY <1>2
<1>4. r % m = p % m
  <2> HIDE DEF m, c
  <2>1. c \in Int
    BY <1>1
  <2>2. (p + m * c) % m = p % m
    BY <1>1, <2>1, RemainderKeeps
  <2> QED BY <2>2
<1>5. r % m = r
  <2> HIDE DEF r, m, c
  <2>1. (m * 0 + r) % m = r
    BY <1>1, <1>3, DivUnique
  <2>2. m * 0 + r = r
    BY <1>1, <1>3
  <2> QED BY <2>1, <2>2
<1> DEFINE g == p % m
<1>6. g = r
  BY <1>4, <1>5
<1> HIDE DEF r, g, c
<1>7. p = IF g >= h THEN g - m ELSE g
  BY <1>1, <1>2, <1>3, <1>6
<1> QED BY <1>7 DEF g

\* The sign takes the modulus off or leaves the word as it is.
LEMMA SignedParts ==
  ASSUME NEW a \in Word
  PROVE  \E c \in {0, 1} : Signed(a) = a - c * 2^XLEN
<1>1. a \in Nat /\ 2^XLEN \in Nat /\ 2^XLEN = 2 * MinSigned
  BY WordType, Widths
<1>2. Signed(a) = IF a >= MinSigned THEN a - 2^XLEN ELSE a
  BY DEF Signed, MinSigned
<1> QED BY <1>1, <1>2

\* The lower half of a product does not depend on the signs.
LEMMA LowerHalf ==
  ASSUME NEW a \in Word, NEW b \in Word
  PROVE  Trunc(Signed(a) * Signed(b)) = Trunc(a * b) /\ Trunc(Signed(a) * b) = Trunc(a * b)
<1> DEFINE m == 2^XLEN
<1>1. a \in Nat /\ b \in Nat /\ m \in Nat \ {0}
  BY WordType, Widths
<1>2. PICK c \in {0, 1} : Signed(a) = a - c * m
  BY SignedParts
<1>3. PICK d \in {0, 1} : Signed(b) = b - d * m
  BY SignedParts
<1> HIDE DEF m
<1> DEFINE Congruent(i, j) == \E k \in Int : i = j + m * k
<1>4. ASSUME NEW v \in {0, 1}
      PROVE  Congruent((a - c * m) * (b - v * m), a * b)
  <2>2. CASE c = 0 /\ v = 0
    <3>1. a * b = a * b + m * 0
      BY <1>1
    <3> QED BY <1>1, <2>2, <3>1
  <2>3. CASE c = 1 /\ v = 0
    <3>1. (a - m) * b = a * b + m * (-b)
      BY <1>1
    <3> QED BY <1>1, <2>3, <3>1
  <2>4. CASE c = 0 /\ v = 1
    <3>1. a * (b - m) = a * b + m * (-a)
      BY <1>1
    <3> QED BY <1>1, <2>4, <3>1
  <2>5. CASE c = 1 /\ v = 1
    <3>1. (a - m) * (b - m) = a * b + m * (m - a - b) /\ m - a - b \in Int
      BY <1>1
    <3>2. c * m = m /\ v * m = m
      BY <1>1, <2>5
    <3>3. PICK k \in Int : (a - m) * (b - m) = a * b + m * k
      BY <3>1
    <3>4. (a - c * m) * (b - v * m) = a * b + m * k
      BY <3>2, <3>3, Zenon
    <3> QED BY <3>4
  <2>6. (c = 0 \/ c = 1) /\ (v = 0 \/ v = 1)
    BY <1>2, <1>4
  <2> QED BY <2>2, <2>3, <2>4, <2>5, <2>6, Zenon
<1>5. ASSUME NEW n \in Int, NEW k \in Int, n = a * b + m * k
      PROVE  Trunc(n) = Trunc(a * b)
  <2>1. a * b \in Int
    BY <1>1
  <2>2. (a * b + m * k) % m = (a * b) % m
    BY <1>1, <2>1, RemainderKeeps
  <2> QED BY <1>5, <2>2 DEF Trunc, m
<1>6. Trunc((a - c * m) * (b - d * m)) = Trunc(a * b)
  <2>1. PICK k \in Int : (a - c * m) * (b - d * m) = a * b + m * k
    BY <1>3, <1>4
  <2> DEFINE n == (a - c * m) * (b - d * m)
  <2>2. n \in Int
    BY <1>1, <1>2, <1>3
  <2> HIDE DEF n
  <2> QED BY <1>5, <2>1, <2>2 DEF n
<1>7. Trunc((a - c * m) * b) = Trunc(a * b)
  <2>1. PICK k \in Int : (a - c * m) * (b - 0 * m) = a * b + m * k
    BY <1>4
  <2>2. b - 0 * m = b
    BY <1>1
  <2> DEFINE n == (a - c * m) * b
  <2>3. n \in Int
    BY <1>1, <1>2
  <2> HIDE DEF n
  <2> QED BY <1>5, <2>1, <2>2, <2>3 DEF n
<1> QED BY <1>2, <1>3, <1>6, <1>7

\* The 64-bit product of mulhsu is the product of the signed and the
\* unsigned operand.
LEMMA HsuExact ==
  ASSUME NEW a \in Word, NEW b \in Word
  PROVE  /\ MulHsu(a, b) = UpperHalf(Signed(a) * b)
         /\ Signed(a) * b \in Int
         /\ -(MinSigned * 2^XLEN) <= Signed(a) * b /\ Signed(a) * b < MinSigned * 2^XLEN
<1> DEFINE m == 2^XLEN
           h == MinSigned
           s == Signed(a)
           z == 2^(2 * XLEN)
           t == h * m
           p == s * b
           u == s % z
           k == s \div z
           n == u * b
<1>1. m \in Nat \ {0} /\ h \in Nat \ {0} /\ m = 2 * h /\ b \in Nat /\ b <= m - 1
  BY WordType, Widths
<1>2. s \in Int /\ -h <= s /\ s < h
  BY SignedType
<1>3. z = 2 * t /\ 2^(2 * XLEN - 1) = t /\ t \in Nat \ {0}
  <2>1. XLEN \in Nat /\ XLEN - 1 \in Nat /\ 2 * XLEN = XLEN + XLEN /\ 2 * XLEN - 1 = (XLEN - 1) + XLEN
    BY Widths
  <2>2. z = m * m /\ 2^(2 * XLEN - 1) = h * m
    BY <2>1, PowerSum DEF MinSigned
  <2> HIDE DEF z, m, h
  <2>3. h * m \in Nat \ {0}
    BY <1>1
  <2>4. m * m = 2 * (h * m)
    BY <1>1
  <2> QED BY <2>2, <2>3, <2>4
<1>4. p \in Int /\ -t <= p /\ p < t
  <2> HIDE DEF m, h, s
  <2>1. m - 1 \in Nat /\ -(m - 1) <= b /\ s <= h
    BY <1>1, <1>2
  <2>2. p \in Int /\ -(h * (m - 1)) <= p /\ p <= h * (m - 1)
    BY <1>1, <1>2, <2>1, ProductBound
  <2>3. h * (m - 1) = h * m - h /\ h * m \in Int
    BY <1>1
  <2> HIDE DEF p
  <2> QED BY <1>1, <2>2, <2>3
<1>5. u \in Nat /\ k \in Int /\ s = z * k + u /\ z \in Nat \ {0}
  <2>1. z \in Nat \ {0}
    <3> HIDE DEF z, t
    <3> QED BY <1>3
  <2> HIDE DEF z, s
  <2> QED BY <1>2, <2>1
<1>6. n % z = p % z
  <2> HIDE DEF u, k, s, z, m, h
  <2>1. k * b \in Int /\ z * (k * b) \in Int /\ n \in Int
    BY <1>1, <1>5
  <2>2. (z * k) * b = z * (k * b) /\ (z * k + u) * b = (z * k) * b + u * b
    BY <1>1, <1>5
  <2>3. p = n + z * (k * b)
    BY <1>5, <2>1, <2>2
  <2>4. (n + z * (k * b)) % z = n % z
    <3> DEFINE j == k * b
    <3> HIDE DEF n, j
    <3> QED BY <1>5, <2>1, RemainderKeeps DEF j
  <2> QED BY <2>3, <2>4
<1>7. Signed64(n) = IF p % z >= t THEN (p % z) - z ELSE p % z
  <2> DEFINE g == n % z
             y == 2^(2 * XLEN - 1)
  <2>1. Signed64(n) = IF g >= y THEN g - z ELSE g
    BY DEF Signed64
  <2>2. g = p % z /\ y = t
    BY <1>3, <1>6
  <2> HIDE DEF g, y, z, t, n, p
  <2> QED BY <2>1, <2>2
<1>8. Signed64(n) = p
  <2> HIDE DEF p, t, n, z
  <2> QED BY <1>3, <1>4, <1>7, CentredBack
<1>9. MulHsu(a, b) = UpperHalf(Signed64(n))
  BY DEF MulHsu
<1> QED BY <1>4, <1>8, <1>9

\* The three upper halves, each over what MUL gives.
LEMMA WholeProducts ==
  ASSUME NEW a \in Word, NEW b \in Word
  PROVE  /\ Signed(MulDiv("MULH", a, b)) * 2^XLEN + MulDiv("MUL", a, b) = Signed(a) * Signed(b)
         /\ Signed(MulDiv("MULHSU", a, b)) * 2^XLEN + MulDiv("MUL", a, b) = Signed(a) * b
         /\ MulDiv("MULHU", a, b) * 2^XLEN + MulDiv("MUL", a, b) = a * b
<1>1. /\ MulDiv("MUL", a, b) = Trunc(a * b)
      /\ MulDiv("MULH", a, b) = UpperHalf(Signed(a) * Signed(b))
      /\ MulDiv("MULHSU", a, b) = MulHsu(a, b)
      /\ MulDiv("MULHU", a, b) = UpperHalf(a * b)
  BY DEF MulDiv
<1> DEFINE m == 2^XLEN
           h == MinSigned
           s == Signed(a)
           t == Signed(b)
<1>2. m \in Nat \ {0} /\ h \in Nat \ {0} /\ m = 2 * h /\ a \in Nat /\ a <= m - 1 /\ b \in Nat /\ b <= m - 1
  BY WordType, Widths
<1>3. s \in Int /\ -h <= s /\ s < h /\ t \in Int /\ -h <= t /\ t < h
  BY SignedType
<1> HIDE DEF m, h, s, t
<1>4. s * t \in Int /\ -(h * m) <= s * t /\ s * t < h * m
  <2>1. s <= h /\ t <= h
    BY <1>2, <1>3
  <2>2. s * t \in Int /\ -(h * h) <= s * t /\ s * t <= h * h
    BY <1>2, <1>3, <2>1, ProductBound
  <2>3. h * m = h * h + h * h /\ h * h \in Nat /\ h * h >= 1
    BY <1>2
  <2> QED BY <2>2, <2>3
<1>5. a * b \in Int /\ 0 <= a * b /\ a * b < m * m
  <2>1. m - 1 \in Nat /\ -(m - 1) <= a /\ -(m - 1) <= b
    BY <1>2
  <2>2. a * b \in Int /\ a * b <= (m - 1) * (m - 1)
    BY <1>2, <2>1, ProductBound
  <2>3. (m - 1) * (m - 1) = m * m - m - m + 1 /\ m * m \in Int /\ a * b \in Nat
    BY <1>2
  <2> QED BY <1>2, <2>2, <2>3
<1>6. Signed(UpperHalf(s * t)) * m + Trunc(s * t) = s * t
  BY <1>4, HalvesJoin DEF m, h
<1>7. Signed(UpperHalf(s * b)) * m + Trunc(s * b) = s * b
  BY HsuExact, HalvesJoin DEF m, s
<1>8. UpperHalf(a * b) * m + Trunc(a * b) = a * b
  BY <1>5, HalvesJoin DEF m
<1>9. Trunc(s * t) = Trunc(a * b) /\ Trunc(s * b) = Trunc(a * b) /\ MulHsu(a, b) = UpperHalf(s * b)
  BY LowerHalf, HsuExact DEF s, t
<1> QED BY <1>1, <1>6, <1>7, <1>8, <1>9 DEF m, s, t

\* The upper halves of products, for words of every width.
THEOREM ProductsAreWhole == Spec => ProductHalves
<1> DEFINE Law ==
             LET whole(high) == high * 2^XLEN + MulDiv("MUL", A, B)
             IN  /\ Does({"MULH"}) => whole(Signed(Result)) = Signed(A) * Signed(B)
                 /\ Does({"MULHSU"}) => whole(Signed(Result)) = Signed(A) * B
                 /\ Does({"MULHU"}) => whole(Result) = A * B
<1>1. ASSUME Inductive, Next, NEW t \in {"MULH", "MULHSU", "MULHU"}, Does({t})
      PROVE  Result = MulDiv(t, A, B) /\ A \in Word /\ B \in Word
  <2>1. Does(ComputedTypes) /\ did'.d.type = t /\ t \in MTypes
    BY <1>1 DEF Does, ComputedTypes, MTypes
  <2>2. Result = Compute(t, A, B, did'.d.imm) /\ A \in Word /\ B \in Word
    BY <1>1, <2>1, IntegerResult
  <2> QED BY <2>1, <2>2, ComputeOf
<1>2. ASSUME Inductive, Next PROVE Law
  <2>1. Does({"MULH"}) => Signed(Result) * 2^XLEN + MulDiv("MUL", A, B) = Signed(A) * Signed(B)
    BY <1>1, <1>2, WholeProducts
  <2>2. Does({"MULHSU"}) => Signed(Result) * 2^XLEN + MulDiv("MUL", A, B) = Signed(A) * B
    BY <1>1, <1>2, WholeProducts
  <2>3. Does({"MULHU"}) => Result * 2^XLEN + MulDiv("MUL", A, B) = A * B
    BY <1>1, <1>2, WholeProducts
  <2> QED BY <2>1, <2>2, <2>3
<1>3. ASSUME Inductive, [Next]_vars PROVE [Law]_vars
  BY <1>2, <1>3
<1> QED BY <1>3, InductiveHolds, PTL DEF Spec, ProductHalves

\* Digits at and above the length of a number are zero.
LEMMA DigitAbove ==
  ASSUME NEW n \in Nat, NEW c \in Nat, c < 2^n, NEW i \in Nat, i >= n
  PROVE  Digit(c, i) = 0
<1>1. 2^n <= 2^i /\ 2^i \in Nat /\ 2^n \in Nat
  BY PowerOrder, PowerType
<1> DEFINE p == 2^i
           q == 2^n
<1>2. c < p
  <2>1. c < q /\ q <= p /\ p \in Nat /\ q \in Nat
    BY <1>1
  <2> HIDE DEF p, q
  <2> QED BY <2>1
<1> QED BY <1>2, DigitAt

\* The zeros before the first one and after the last one, as intervals.
LeadingZeros(a) == {i \in Positions : \A j \in i .. XLEN - 1 : Bit(a, j) = 0}
TrailingZeros(a) == {i \in Positions : \A j \in 0 .. i : Bit(a, j) = 0}

\* Shifted left until the first one leads, a word tells its leading zeros,
LEMMA LeadingRun ==
  ASSUME NEW a \in Word, NEW n \in Nat, n < XLEN, a * 2^n < 2^XLEN, a * 2^n >= 2^(XLEN - 1)
  PROVE  LeadingZeros(a) = XLEN - n .. XLEN - 1
<1> DEFINE c == a * 2^n
           h == 2^(XLEN - 1)
<1>1. a \in Nat /\ XLEN \in Nat /\ XLEN - 1 \in Nat /\ XLEN - 1 - n \in Nat
      /\ c \in Nat /\ h \in Nat /\ 2^XLEN = 2 * h
  BY WordType, Widths, PowerType DEF MinSigned
<1>2. Bit(a, XLEN - 1 - n) = 1
  <2>1. (c - h) + h = c /\ c - h \in Nat /\ c - h < h
    <3>1. c < 2 * h /\ c >= h
      BY <1>1
    <3> HIDE DEF c, h
    <3> QED BY <1>1, <3>1
  <2>2. Digit((c - h) + h, XLEN - 1) = 1
    <3> DEFINE u == c - h
    <3>1. u \in Nat /\ u < h
      BY <2>1
    <3> HIDE DEF u
    <3>2. Digit(u + h, XLEN - 1) = 1
      BY <1>1, <3>1, DigitAt
    <3> QED BY <3>2 DEF u
  <2>3. Digit(c, XLEN - 1) = 1
    BY <2>1, <2>2
  <2>4. Digit(c, (XLEN - 1 - n) + n) = Digit(a, XLEN - 1 - n) /\ (XLEN - 1 - n) + n = XLEN - 1
    BY <1>1, DigitsShifted
  <2> QED BY <2>3, <2>4 DEF Digit, Bit
<1>3. ASSUME NEW j \in Nat, j >= XLEN - n PROVE Bit(a, j) = 0
  <2>1. j + n \in Nat /\ j + n >= XLEN
    BY <1>1, <1>3
  <2>2. Digit(c, j + n) = Digit(a, j)
    BY <1>1, DigitsShifted
  <2>3. Digit(c, j + n) = 0
    <3> HIDE DEF c
    <3> QED BY <1>1, <2>1, DigitAbove DEF c
  <2> QED BY <2>2, <2>3 DEF Digit, Bit
<1>4. ASSUME NEW i \in LeadingZeros(a) PROVE i \in XLEN - n .. XLEN - 1
  <2>1. i \in 0 .. XLEN - 1 /\ \A j \in i .. XLEN - 1 : Bit(a, j) = 0
    BY <1>4 DEF LeadingZeros, Positions
  <2>2. ~(i <= XLEN - 1 - n)
    <3>1. SUFFICES ASSUME i <= XLEN - 1 - n PROVE FALSE
      OBVIOUS
    <3>2. XLEN - 1 - n \in i .. XLEN - 1
      BY <1>1, <2>1, <3>1
    <3> QED BY <1>2, <2>1, <3>2
  <2> QED BY <1>1, <2>1, <2>2
<1>5. ASSUME NEW i \in XLEN - n .. XLEN - 1 PROVE i \in LeadingZeros(a)
  <2>1. i \in 0 .. XLEN - 1 /\ \A j \in i .. XLEN - 1 : j \in Nat /\ j >= XLEN - n
    BY <1>1
  <2> QED BY <1>3, <2>1 DEF LeadingZeros, Positions
<1> QED BY <1>4, <1>5

\* and divided until it is odd, its trailing zeros.
LEMMA TrailingRun ==
  ASSUME NEW a \in Word, NEW n \in Nat, n < XLEN, NEW odd \in Nat, odd % 2 = 1, a = odd * 2^n
  PROVE  TrailingZeros(a) = 0 .. n - 1
<1>1. XLEN \in Nat
  BY Widths
<1>2. Bit(a, n) = 1
  <2>1. Digit(a, 0 + n) = Digit(odd, 0)
    BY DigitsShifted
  <2>2. Digit(odd, 0) = 1
    <3>1. 2^0 = 1 /\ odd \div 1 = odd
      BY PowerType
    <3>2. odd \div 2^0 = odd
      BY <3>1
    <3> QED BY <3>2 DEF Digit
  <2>3. 0 + n = n
    OBVIOUS
  <2> QED BY <2>1, <2>2, <2>3 DEF Digit, Bit
<1>3. ASSUME NEW j \in Nat, j < n PROVE Bit(a, j) = 0
  <2>1. Digit(a, j) = 0
    BY <1>3, DigitsShifted
  <2> QED BY <2>1 DEF Digit, Bit
<1>4. ASSUME NEW i \in TrailingZeros(a) PROVE i \in 0 .. n - 1
  <2>1. i \in 0 .. XLEN - 1 /\ \A j \in 0 .. i : Bit(a, j) = 0
    BY <1>4 DEF TrailingZeros, Positions
  <2>2. ~(n <= i)
    <3>1. SUFFICES ASSUME n <= i PROVE FALSE
      OBVIOUS
    <3>2. n \in 0 .. i
      BY <1>1, <2>1, <3>1
    <3> QED BY <1>2, <2>1, <3>2
  <2> QED BY <1>1, <2>1, <2>2
<1>5. ASSUME NEW i \in 0 .. n - 1 PROVE i \in TrailingZeros(a)
  <2>1. i \in 0 .. XLEN - 1 /\ \A j \in 0 .. i : j \in Nat /\ j < n
    BY <1>1
  <2> QED BY <1>3, <2>1 DEF TrailingZeros, Positions
<1> QED BY <1>4, <1>5

\* The binary searches count these zeros, also those of zero.
LEMMA ZerosCounted ==
  ASSUME NEW a \in Word
  PROVE  Clz(a) = Cardinality(LeadingZeros(a)) /\ Ctz(a) = Cardinality(TrailingZeros(a))
<1>1. XLEN \in Nat /\ XLEN >= 8 /\ \A n \in Nat : n <= XLEN => /\ Cardinality(XLEN - n .. XLEN - 1) = n
                                               /\ Cardinality(0 .. n - 1) = n
  <2>1. XLEN \in Nat /\ XLEN >= 8
    BY Widths
  <2>2. ASSUME NEW n \in Nat, n <= XLEN
        PROVE  Cardinality(XLEN - n .. XLEN - 1) = n /\ Cardinality(0 .. n - 1) = n
    <3>1. XLEN - n \in Int /\ XLEN - 1 \in Int /\ n - 1 \in Int
      BY <2>1
    <3>2. /\ Cardinality(XLEN - n .. XLEN - 1)
               = IF XLEN - n > XLEN - 1 THEN 0 ELSE (XLEN - 1) - (XLEN - n) + 1
          /\ Cardinality(0 .. n - 1) = IF 0 > n - 1 THEN 0 ELSE (n - 1) - 0 + 1
      BY <3>1, FS_Interval
    <3> QED BY <2>1, <3>2
  <2> QED BY <2>1, <2>2
<1>2. CASE a = 0
  <2>1. \A j \in Nat : Bit(0, j) = 0
    <3>1. ASSUME NEW j \in Nat PROVE Digit(0, j) = 0
      <4>1. 0 < 2^j
        BY PowerType
      <4> QED BY <4>1, DigitAt
    <3> QED BY <3>1 DEF Digit, Bit
  <2>2. LeadingZeros(0) = Positions /\ TrailingZeros(0) = Positions
    BY <1>1, <2>1 DEF LeadingZeros, TrailingZeros, Positions
  <2>3. Cardinality(Positions) = XLEN
    BY <1>1 DEF Positions
  <2>4. Clz(0) = XLEN /\ Ctz(0) = XLEN
    BY DEF Clz, Ctz
  <2> QED BY <1>2, <2>2, <2>3, <2>4
<1>3. CASE a # 0
  <2>1. LeadingZeros(a) = XLEN - Clz(a) .. XLEN - 1 /\ Clz(a) \in Nat /\ Clz(a) < XLEN
    BY <1>3, ClzFinds, LeadingRun
  <2>2. TrailingZeros(a) = 0 .. Ctz(a) - 1 /\ Ctz(a) \in Nat /\ Ctz(a) < XLEN
    BY <1>3, CtzFinds, TrailingRun
  <2> QED BY <1>1, <2>1, <2>2
<1> QED BY <1>2, <1>3

\* Dividing twice is dividing by the product.
LEMMA DivDiv ==
  ASSUME NEW u \in Nat, NEW p \in Nat \ {0}, NEW m \in Nat \ {0}
  PROVE  (u \div p) \div m = u \div (p * m)
<1> DEFINE q == u \div p
           r == u % p
           s == q \div m
           t == q % m
           w == p * m
           v == p * t + r
<1>1. q \in Nat /\ r \in Nat /\ r < p /\ u = p * q + r
  OBVIOUS
<1>2. s \in Nat /\ t \in Nat /\ t < m /\ q = m * s + t
  <2> HIDE DEF q
  <2> QED BY <1>1
<1> HIDE DEF q, r, s, t
<1>3. w \in Nat \ {0} /\ v \in Nat /\ v < w
  <2>1. p * ((m - 1) - t) \in Nat
    BY <1>2
  <2>2. p * ((m - 1) - t) = p * m - p - p * t /\ p * m \in Nat \ {0} /\ p * t \in Nat
    BY <1>2
  <2> QED BY <1>1, <2>1, <2>2
<1>4. u = w * s + v
  <2>1. p * (m * s + t) = (p * m) * s + p * t
    BY <1>2
  <2>2. (p * m) * s \in Nat /\ p * t \in Nat
    BY <1>2
  <2> QED BY <1>1, <1>2, <2>1, <2>2
<1> HIDE DEF w, v
<1>5. (w * s + v) \div w = s
  BY <1>2, <1>3, DivUnique
<1> QED BY <1>4, <1>5 DEF w, s, q

\* The position i moves to by k, around the word.
LEMMA Around ==
  ASSUME NEW n \in Nat \ {0}, NEW i \in Nat, i < n, NEW k \in Nat, k <= n
  PROVE  (i + k) % n = IF i < n - k THEN i + k ELSE i - (n - k)
<1>1. CASE i < n - k
  <2>1. i + k \in Nat /\ i + k < n
    BY <1>1
  <2>2. (n * 0 + (i + k)) % n = i + k
    BY <2>1, DivUnique
  <2>3. n * 0 + (i + k) = i + k
    BY <2>1
  <2> QED BY <1>1, <2>2, <2>3
<1>2. CASE i >= n - k
  <2> DEFINE j == i - (n - k)
  <2>1. j \in Nat /\ j < n /\ i + k = n * 1 + j
    BY <1>2
  <2> HIDE DEF j
  <2>2. (n * 1 + j) % n = j
    BY <2>1, DivUnique
  <2>3. (i + k) % n = j
    BY <2>1, <2>2
  <2> QED BY <1>2, <2>3 DEF j
<1> QED BY <1>1, <1>2

\* A shift to the right moves the ones down.
LEMMA ShrOnes ==
  ASSUME NEW a \in Word, NEW j \in Nat, j < XLEN
  PROVE  Ones(Shr(a, j)) = {i \in Positions : i + j \in Ones(a)}
<1>1. a \in Nat /\ XLEN \in Nat /\ a < 2^XLEN
  BY WordType, Widths
<1>2. ASSUME NEW i \in Nat PROVE Bit(Shr(a, j), i) = Digit(a, i + j)
  <2> DEFINE m == 2^i
             p == 2^j
  <2>1. m \in Nat \ {0} /\ p \in Nat \ {0} /\ 2^(i + j) = m * p
    BY PowerType, PowerSum
  <2>2. (a \div p) \div m = a \div (p * m) /\ p * m = m * p
    <3> HIDE DEF m, p
    <3>1. (a \div p) \div m = a \div (p * m)
      BY <1>1, <2>1, DivDiv
    <3>2. p * m = m * p
      BY <2>1
    <3> QED BY <3>1, <3>2
  <2>3. Shr(a, j) = a \div p
    BY <1>1 DEF Shr
  <2>4. \A q : Bit(q, i) = (q \div m) % 2
    BY DEF Bit
  <2>5. Digit(a, i + j) = (a \div 2^(i + j)) % 2
    BY DEF Digit
  <2> HIDE DEF m, p
  <2> QED BY <2>1, <2>2, <2>3, <2>4, <2>5
<1>3. ASSUME NEW i \in Positions PROVE Bit(Shr(a, j), i) = 1 <=> i + j \in Ones(a)
  <2>1. i \in Nat /\ i + j \in Nat
    BY <1>1 DEF Positions
  <2>2. i + j >= XLEN => Digit(a, i + j) = 0
    BY <1>1, <2>1, DigitAbove
  <2>3. i + j < XLEN => (i + j \in Ones(a) <=> Digit(a, i + j) = 1)
    BY <2>1, <1>1 DEF Ones, Positions, Bit, Digit
  <2>4. i + j >= XLEN => i + j \notin Ones(a)
    BY <1>1, <2>1 DEF Ones, Positions
  <2> QED BY <1>1, <1>2, <2>1, <2>2, <2>3, <2>4
<1> QED BY <1>3 DEF Ones

\* Both rotations move the ones around the word.
Moved(a, k) == {(i + k) % XLEN : i \in Ones(a)}

\* A shift and its complementary shift move the ones to disjoint places.
LEMMA ShiftsMove ==
  ASSUME NEW a \in Word, NEW k \in Nat, k # 0, k < XLEN
  PROVE  Ones(Or(Shl(a, k), Shr(a, XLEN - k))) = Moved(a, k)
<1>1. XLEN \in Nat \ {0} /\ XLEN - k \in Nat /\ XLEN - k < XLEN
  BY Widths
<1> DEFINE up == {i + k : i \in Ones(a)} \intersect Positions
           down == {i \in Positions : i + (XLEN - k) \in Ones(a)}
<1>2. Ones(Shl(a, k)) = up
  BY WordOfOnes DEF Shl
<1>3. Ones(Shr(a, XLEN - k)) = down
  BY <1>1, ShrOnes
<1>4. Ones(Or(Shl(a, k), Shr(a, XLEN - k))) = up \union down
  <2>1. up \subseteq Positions /\ down \subseteq Positions
    OBVIOUS
  <2> HIDE DEF up, down
  <2> QED BY <1>2, <1>3, <2>1, WordOfOnes DEF Or
<1>5. \A i \in Ones(a) : i \in Nat /\ i < XLEN
  BY <1>1 DEF Ones, Positions
<1>6. \A i \in Ones(a) : (i + k) % XLEN = IF i < XLEN - k THEN i + k ELSE i - (XLEN - k)
  <2> SUFFICES ASSUME NEW i \in Ones(a)
               PROVE  (i + k) % XLEN = IF i < XLEN - k THEN i + k ELSE i - (XLEN - k)
    OBVIOUS
  <2>1. i \in Nat /\ i < XLEN /\ k <= XLEN
    BY <1>1, <1>5
  <2> QED BY <1>1, <2>1, Around
<1>7. ASSUME NEW g \in up \union down PROVE g \in Moved(a, k)
  <2>1. CASE g \in up
    <3>1. PICK i \in Ones(a) : g = i + k /\ g \in Positions
      BY <2>1
    <3>2. i < XLEN - k
      BY <1>1, <1>5, <3>1 DEF Positions
    <3> QED BY <1>6, <3>1, <3>2 DEF Moved
  <2>2. CASE g \in down
    <3> DEFINE i == g + (XLEN - k)
    <3>1. i \in Ones(a) /\ g \in Nat
      BY <1>1, <2>2 DEF Positions
    <3>2. i >= XLEN - k /\ i - (XLEN - k) = g /\ i \in Nat
      BY <1>1, <3>1
    <3> HIDE DEF i
    <3>3. (i + k) % XLEN = g
      BY <1>1, <1>6, <3>1, <3>2
    <3> QED BY <3>1, <3>3 DEF Moved
  <2> QED BY <1>7, <2>1, <2>2
<1>8. ASSUME NEW g \in Moved(a, k) PROVE g \in up \union down
  <2>1. PICK i \in Ones(a) : g = (i + k) % XLEN
    BY <1>8 DEF Moved
  <2>2. CASE i < XLEN - k
    <3>1. g = i + k /\ g \in Positions
      BY <1>1, <1>5, <1>6, <2>1, <2>2 DEF Positions
    <3> QED BY <3>1
  <2>3. CASE i >= XLEN - k
    <3>1. i \in Nat /\ i < XLEN
      BY <1>5
    <3>2. g = i - (XLEN - k)
      BY <1>1, <1>6, <2>1, <2>3, <3>1
    <3>3. g \in Positions /\ g + (XLEN - k) = i
      BY <1>1, <2>3, <3>1, <3>2 DEF Positions
    <3> QED BY <3>3
  <2> QED BY <1>1, <1>5, <2>2, <2>3
<1> QED BY <1>4, <1>7, <1>8

\* So a rotation moves every one around the word.
LEMMA RotationsMove ==
  ASSUME NEW a \in Word, NEW k \in Nat, k < XLEN
  PROVE  Ones(RotateLeft(a, k)) = Moved(a, k) /\ Ones(RotateRight(a, k)) = Moved(a, XLEN - k)
<1>1. XLEN \in Nat \ {0}
  BY Widths
<1>2. CASE k = 0
  <2>1. \A i \in Ones(a) : i \in Nat /\ i < XLEN
    BY <1>1 DEF Ones, Positions
  <2>2. \A i \in Ones(a) : (i + 0) % XLEN = i /\ (i + (XLEN - 0)) % XLEN = i
    <3> SUFFICES ASSUME NEW i \in Ones(a) PROVE (i + 0) % XLEN = i /\ (i + (XLEN - 0)) % XLEN = i
      OBVIOUS
    <3>1. (i + 0) % XLEN = (IF i < XLEN - 0 THEN i + 0 ELSE i - (XLEN - 0))
      BY <1>1, <2>1, Around
    <3>2. (i + XLEN) % XLEN = (IF i < XLEN - XLEN THEN i + XLEN ELSE i - (XLEN - XLEN))
      BY <1>1, <2>1, Around
    <3>3. i \in Nat /\ i < XLEN
      BY <2>1
    <3>4. i + (XLEN - 0) = i + XLEN /\ ~(i < XLEN - XLEN) /\ i - (XLEN - XLEN) = i
          /\ i < XLEN - 0 /\ i + 0 = i
      BY <1>1, <3>3
    <3> QED BY <3>1, <3>2, <3>4
  <2>3. Moved(a, 0) = Ones(a) /\ Moved(a, XLEN - 0) = Ones(a)
    BY <2>2 DEF Moved
  <2> QED BY <1>2, <2>3 DEF RotateLeft, RotateRight
<1>3. CASE k # 0
  <2>1. XLEN - k \in Nat /\ XLEN - k # 0 /\ XLEN - k < XLEN /\ XLEN - (XLEN - k) = k
    BY <1>1, <1>3
  <2>2. Ones(Or(Shl(a, k), Shr(a, XLEN - k))) = Moved(a, k)
    BY <1>3, ShiftsMove
  <2>3. Ones(Or(Shl(a, XLEN - k), Shr(a, k))) = Moved(a, XLEN - k)
    BY <2>1, ShiftsMove
  <2>4. Or(Shr(a, k), Shl(a, XLEN - k)) = Or(Shl(a, XLEN - k), Shr(a, k))
    <3>1. \A s, t : Or(s, t) = FromOnes(Ones(s) \union Ones(t))
      BY DEF Or
    <3> QED BY <3>1
  <2> QED BY <1>3, <2>2, <2>3, <2>4 DEF RotateLeft, RotateRight
<1> QED BY <1>2, <1>3

\* The low digits of a number are those of its remainder.
LEMMA DigitOfRemainder ==
  ASSUME NEW q \in Nat, NEW n \in Nat, NEW d \in Nat
  PROVE  /\ q % 2^n \in Nat /\ q % 2^n < 2^n
         /\ d < n => Digit(q % 2^n, d) = Digit(q, d)
         /\ d >= n => Digit(q % 2^n, d) = 0
<1> DEFINE z == 2^n
           k == q \div z
           r == q % z
<1>1. z \in Nat \ {0}
  BY PowerType
<1>2. k \in Nat /\ r \in Nat /\ r < z /\ q = z * k + r
  <2> HIDE DEF z
  <2> QED BY <1>1
<1>3. ASSUME d < n PROVE Digit(r, d) = Digit(q, d)
  <2> DEFINE m == 2^d
             h == 2^(n - d - 1)
             g == 2 * (h * k)
  <2>1. n - d - 1 \in Nat /\ d + 1 \in Nat /\ (d + 1) + (n - d - 1) = n
    BY <1>3
  <2>2. m \in Nat \ {0} /\ h \in Nat /\ z = (2 * m) * h
    <3>1. 2^(d + 1) = 2 * m
      BY PowerStep
    <3>2. 2^((d + 1) + (n - d - 1)) = 2^(d + 1) * h
      BY <2>1, PowerSum
    <3>3. m \in Nat \ {0} /\ h \in Nat
      BY <2>1, PowerType
    <3> QED BY <2>1, <3>1, <3>2, <3>3
  <2> HIDE DEF m, h, z, r, k
  <2>3. h * k \in Nat /\ g \in Nat
    BY <1>2, <2>2
  <2>4. q = r + m * g
    <3>1. ((2 * m) * h) * k = m * (2 * (h * k))
      BY <1>2, <2>2
    <3>2. m * g \in Nat
      BY <2>2, <2>3
    <3> QED BY <1>2, <2>2, <3>1, <3>2
  <2>5. (r + m * g) \div m = (r \div m) + g
    <3> HIDE DEF g
    <3> QED BY <1>2, <2>2, <2>3, DivAdd
  <2>6. r \div m \in Nat
    BY <1>2, <2>2
  <2>7. ((r \div m) + g) % 2 = (r \div m) % 2
    <3> DEFINE c == r \div m
               e == h * k
    <3> HIDE DEF c, e
    <3>1. (c + 2 * e) % 2 = c % 2
      BY <2>3, <2>6, RemainderKeeps DEF c, e
    <3> QED BY <3>1 DEF c, e
  <2> QED BY <2>4, <2>5, <2>7 DEF Digit, m
<1>4. ASSUME d >= n PROVE Digit(r, d) = 0
  <2> HIDE DEF r
  <2> QED BY <1>2, <1>4, DigitAbove
<1> QED BY <1>2, <1>3, <1>4

\* The i-th group of n digits.
Group(v, n, i) == (v \div 2^(n * i)) % 2^n

\* What tells it from every other number.
IsGroup(g, v, n, i) ==
  /\ g \in Nat /\ g < 2^n
  /\ \A d \in Nat : d < n => Digit(g, d) = Digit(v, n * i + d)
  /\ \A d \in Nat : d >= n => Digit(g, d) = 0

\* The digits of a group are those of the number.
LEMMA GroupDigits ==
  ASSUME NEW v \in Nat, NEW n \in Nat \ {0}, NEW i \in Nat
  PROVE  IsGroup(Group(v, n, i), v, n, i)
<1> DEFINE b == n * i
           p == 2^b
           q == v \div p
<1>1. b \in Nat
  OBVIOUS
<1>2. p \in Nat \ {0}
  BY <1>1, PowerType
<1>3. q \in Nat
  <2> HIDE DEF p
  <2> QED BY <1>2
<1>4. Group(v, n, i) = q % 2^n
  BY DEF Group
<1>5. ASSUME NEW d \in Nat PROVE Digit(q, d) = Digit(v, b + d)
  <2> DEFINE m == 2^d
  <2>1. m \in Nat \ {0}
    BY PowerType
  <2>2. 2^(b + d) = p * m
    <3> HIDE DEF b
    <3> QED BY <1>1, PowerSum
  <2>3. q \div m = v \div (p * m)
    <3> HIDE DEF p, m
    <3> QED BY <1>2, <2>1, DivDiv
  <2>4. Digit(q, d) = (q \div m) % 2 /\ Digit(v, b + d) = (v \div 2^(b + d)) % 2
    BY DEF Digit
  <2> HIDE DEF p, m, q, b
  <2> QED BY <2>2, <2>3, <2>4
<1> HIDE DEF q, b
<1>6. \A d \in Nat : /\ q % 2^n \in Nat /\ q % 2^n < 2^n
                     /\ d < n => Digit(q % 2^n, d) = Digit(q, d)
                     /\ d >= n => Digit(q % 2^n, d) = 0
  BY <1>3, DigitOfRemainder
<1> DEFINE g == q % 2^n
<1>7. g = Group(v, n, i)
  BY <1>4
<1>8. g \in Nat /\ g < 2^n
  BY <1>6
<1>9. \A d \in Nat : d < n => Digit(g, d) = Digit(v, b + d)
  <2> SUFFICES ASSUME NEW d \in Nat, d < n PROVE Digit(g, d) = Digit(v, b + d)
    OBVIOUS
  <2> QED BY <1>5, <1>6, Zenon
<1>10. \A d \in Nat : d >= n => Digit(g, d) = 0
  BY <1>6
<1> HIDE DEF g
<1> QED BY <1>7, <1>8, <1>9, <1>10 DEF b, IsGroup

\* Sums of groups that do not carry, and the groups of a sum.
NoCarry(u, v, n) == \A i \in Nat : Group(u, n, i) + Group(v, n, i) < 2^n
GroupSums(u, v, n) ==
  \A i \in Nat : Group(u + v, n, i) = Group(u, n, i) + Group(v, n, i)

\* A sum whose groups do not carry has the sums of the groups.
LEMMA GroupsAdd ==
  ASSUME NEW u \in Nat, NEW v \in Nat, NEW n \in Nat \ {0},
         NoCarry(u, v, n)
  PROVE  GroupSums(u, v, n)
<1> DEFINE m == 2^n
           Rest(w, i) == w \div 2^(n * i)
           S == {i \in Nat : Rest(u + v, i) = Rest(u, i) + Rest(v, i)}
<1>1. m \in Nat \ {0}
  BY PowerType
<1>2. ASSUME NEW w \in Nat, NEW i \in Nat
      PROVE  /\ Rest(w, i) \in Nat /\ Group(w, n, i) \in Nat /\ Group(w, n, i) < m
             /\ Rest(w, i) = m * Rest(w, i + 1) + Group(w, n, i)
             /\ Rest(w, i + 1) \in Nat /\ Rest(w, i + 1) = Rest(w, i) \div m
             /\ Group(w, n, i) = Rest(w, i) % m
  <2> DEFINE p == 2^(n * i)
             q == w \div p
  <2>1. n * i \in Nat /\ n * (i + 1) = n * i + n
    OBVIOUS
  <2>2. p \in Nat \ {0} /\ 2^(n * (i + 1)) = p * m
    <3>1. p \in Nat \ {0}
      BY <2>1, PowerType
    <3>2. 2^(n * i + n) = p * m
      BY <2>1, PowerSum
    <3> QED BY <2>1, <3>1, <3>2
  <2>3. q \in Nat
    <3> HIDE DEF p
    <3> QED BY <2>2
  <2>4. q \div m = w \div (p * m)
    <3> HIDE DEF p, m
    <3> QED BY <1>1, <2>2, DivDiv
  <2>5. Rest(w, i) = q /\ Rest(w, i + 1) = w \div (p * m) /\ Group(w, n, i) = q % m
    BY <2>2 DEF Group
  <2>6. q \div m \in Nat /\ q % m \in Nat /\ q % m < m /\ q = m * (q \div m) + (q % m)
    <3> HIDE DEF q, m
    <3> QED BY <1>1, <2>3
  <2> HIDE DEF q, m, p, Rest
  <2> QED BY <2>3, <2>4, <2>5, <2>6
<1>3. ASSUME NEW i \in Nat, Rest(u + v, i) = Rest(u, i) + Rest(v, i)
      PROVE  /\ Group(u + v, n, i) = Group(u, n, i) + Group(v, n, i)
             /\ Rest(u + v, i + 1) = Rest(u, i + 1) + Rest(v, i + 1)
  <2> DEFINE a == Group(u, n, i)
             b == Group(v, n, i)
             c == Rest(u, i + 1)
             d == Rest(v, i + 1)
             k == c + d
             r == a + b
  <2>1. u + v \in Nat
    OBVIOUS
  <2>2. a \in Nat /\ b \in Nat /\ c \in Nat /\ d \in Nat /\ Rest(u, i) = m * c + a /\ Rest(v, i) = m * d + b
    BY <1>2
  <2>3. Group(u + v, n, i) = Rest(u + v, i) % m /\ Rest(u + v, i + 1) = Rest(u + v, i) \div m
    BY <1>2, <2>1
  <2>4. r < m
    BY DEF NoCarry
  <2> HIDE DEF Rest, a, b, c, d, m
  <2>5. Rest(u + v, i) = m * k + r /\ k \in Nat /\ r \in Nat
    <3>1. m * (c + d) = m * c + m * d /\ m * c \in Nat /\ m * d \in Nat
      BY <1>1, <2>2
    <3> QED BY <1>3, <2>2, <3>1
  <2>6. (m * k + r) \div m = k /\ (m * k + r) % m = r
    <3> HIDE DEF k, r
    <3> QED BY <1>1, <2>4, <2>5, DivUnique
  <2> QED BY <2>3, <2>5, <2>6 DEF a, b, c, d
<1>4. 0 \in S
  <2>1. n * 0 = 0 /\ 2^0 = 1 /\ \A w \in Nat : w \div 1 = w
    OBVIOUS
  <2>2. \A w \in Nat : Rest(w, 0) = w
    BY <2>1
  <2> HIDE DEF Rest
  <2> QED BY <2>2
<1>5. \A i \in Nat : i \in S => i + 1 \in S
  <2> HIDE DEF Rest
  <2> QED BY <1>3
<1>6. \A i \in Nat : i \in S
  <2> HIDE DEF S
  <2> QED BY <1>4, <1>5, NatInd
<1> HIDE DEF Rest
<1> QED BY <1>3, <1>6 DEF GroupSums

\* Numbers with the same digits are the same,
LEMMA SameDigits ==
  ASSUME NEW u \in Nat, NEW v \in Nat, \A d \in Nat : Digit(u, d) = Digit(v, d)
  PROVE  u = v
<1> DEFINE n == u + v
<1>1. n \in Nat /\ u <= n /\ v <= n /\ n < 2^n /\ 2^n \in Nat
  BY PowerExceeds, PowerType
<1>2. u \in 0 .. 2^n - 1 /\ v \in 0 .. 2^n - 1
  <2> DEFINE p == 2^n
  <2> HIDE DEF p, n
  <2> QED BY <1>1 DEF p
<1>3. DigitsOf(u, n) = DigitsOf(v, n)
  <2>1. \A d \in 0 .. n - 1 : d \in Nat
    BY <1>1
  <2> QED BY <2>1 DEF DigitsOf
<1> HIDE DEF n
<1> QED BY <1>1, <1>2, <1>3, DigitsDetermine

\* and so are numbers with the same groups.
LEMMA SameGroups ==
  ASSUME NEW u \in Nat, NEW v \in Nat, NEW n \in Nat \ {0},
         \A i \in Nat : Group(u, n, i) = Group(v, n, i)
  PROVE  u = v
<1>1. ASSUME NEW d \in Nat PROVE Digit(u, d) = Digit(v, d)
  <2> DEFINE i == d \div n
             j == d % n
  <2>1. i \in Nat /\ j \in Nat /\ j < n /\ d = n * i + j
    OBVIOUS
  <2> HIDE DEF i, j
  <2>2. \A w \in {u, v} : \A e \in Nat : e < n => Digit(Group(w, n, i), e) = Digit(w, n * i + e)
    <3> SUFFICES ASSUME NEW w \in {u, v}
                 PROVE  \A e \in Nat : e < n => Digit(Group(w, n, i), e) = Digit(w, n * i + e)
      OBVIOUS
    <3>1. w \in Nat /\ i \in Nat
      BY <2>1
    <3>2. IsGroup(Group(w, n, i), w, n, i)
      BY <3>1, GroupDigits
    <3> QED BY <3>2 DEF IsGroup
  <2>3. \A w \in {u, v} : Digit(Group(w, n, i), j) = Digit(w, n * i + j)
    BY <2>1, <2>2
  <2>4. Group(u, n, i) = Group(v, n, i)
    BY <2>1
  <2> QED BY <2>1, <2>3, <2>4
<1> QED BY <1>1, SameDigits

\* A number without its j lowest groups.
Beyond(v, n, j) == v \div 2^(n * j)

\* Shifted by whole groups, the groups move down.
LEMMA GroupsShifted ==
  ASSUME NEW v \in Nat, NEW n \in Nat \ {0}, NEW j \in Nat, NEW i \in Nat
  PROVE  Group(Beyond(v, n, j), n, i) = Group(v, n, i + j)
<1> DEFINE m == 2^(n * i)
           p == 2^(n * j)
<1>1. n * i \in Nat /\ n * j \in Nat /\ n * (i + j) = n * j + n * i
  OBVIOUS
<1>2. m \in Nat \ {0} /\ p \in Nat \ {0} /\ 2^(n * (i + j)) = p * m
  <2>1. 2^(n * j + n * i) = p * m
    BY <1>1, PowerSum
  <2> QED BY <1>1, <2>1, PowerType
<1>3. (v \div p) \div m = v \div (p * m)
  <2> HIDE DEF p, m
  <2> QED BY <1>2, DivDiv
<1>4. Group(v, n, i + j) = (v \div 2^(n * (i + j))) % 2^n
  BY DEF Group
<1>5. \A q : Group(q, n, i) = (q \div m) % 2^n
  BY DEF Group
<1>6. Beyond(v, n, j) = v \div p
  BY DEF Beyond
<1> HIDE DEF m
<1> QED BY <1>2, <1>3, <1>4, <1>5, <1>6

\* The lower groups of a number are those of its lower digits.
LEMMA TruncGroups ==
  ASSUME NEW s \in Nat, NEW n \in Nat \ {0}, NEW c \in Nat, XLEN = n * c, NEW i \in Nat, i < c
  PROVE  Group(Trunc(s), n, i) = Group(s, n, i)
<1> DEFINE t == Trunc(s)
           g == Group(t, n, i)
           h == Group(s, n, i)
<1>1. t \in Nat /\ t = s % 2^XLEN /\ XLEN \in Nat
  BY TruncWord, WordType, Widths DEF Trunc
<1>2. \A d \in Nat : d < XLEN => Digit(t, d) = Digit(s, d)
  BY <1>1, DigitOfRemainder
<1> HIDE DEF t
<1>3. /\ g \in Nat /\ g < 2^n
      /\ \A d \in Nat : d < n => Digit(g, d) = Digit(t, n * i + d)
      /\ \A d \in Nat : d >= n => Digit(g, d) = 0
  <2>1. IsGroup(g, t, n, i)
    BY <1>1, GroupDigits
  <2> QED BY <2>1 DEF IsGroup
<1>4. /\ h \in Nat /\ h < 2^n
      /\ \A d \in Nat : d < n => Digit(h, d) = Digit(s, n * i + d)
      /\ \A d \in Nat : d >= n => Digit(h, d) = 0
  <2>1. IsGroup(h, s, n, i)
    BY GroupDigits
  <2> QED BY <2>1 DEF IsGroup
<1> HIDE DEF g, h
<1>5. ASSUME NEW d \in Nat PROVE Digit(g, d) = Digit(h, d)
  <2>1. CASE d < n
    <3> DEFINE e == n * i + d
    <3>1. e \in Nat /\ e < XLEN
      <4>1. n * ((c - 1) - i) \in Nat
        BY <1>1
      <4>2. n * ((c - 1) - i) = n * c - n - n * i /\ n * i \in Nat /\ n * c \in Nat
        BY <1>1
      <4> QED BY <2>1, <4>1, <4>2
    <3>2. Digit(g, d) = Digit(t, e) /\ Digit(h, d) = Digit(s, e)
      BY <1>3, <1>4, <2>1
    <3> HIDE DEF e
    <3> QED BY <1>2, <3>1, <3>2
  <2>2. CASE d >= n
    BY <1>3, <1>4, <2>2
  <2> QED BY <2>1, <2>2
<1>6. g = h
  BY <1>3, <1>4, <1>5, SameDigits
<1> QED BY <1>6 DEF g, h, t

\* Masked with groups of w ones and w zeros, every other group remains.
LEMMA MaskGroups ==
  ASSUME NEW v \in Word, NEW w \in Nat \ {0}, NEW i \in Nat
  PROVE  Group(And(v, Mask(w)), 2 * w, i) = Group(v, w, 2 * i)
<1> DEFINE u == And(v, Mask(w))
           g == Group(u, 2 * w, i)
           h == Group(v, w, 2 * i)
<1>1. XLEN \in Nat /\ v \in Nat /\ v < 2^XLEN
  BY WordType, Widths
<1>2. u \in Word /\ Ones(u) = {p \in Ones(v) : (p \div w) % 2 = 0}
  <2> DEFINE s == {p \in Positions : (p \div w) % 2 = 0}
  <2>1. Ones(Mask(w)) = s
    BY WordOfOnes DEF Mask
  <2>2. u \in Word /\ Ones(u) = (Ones(v) \intersect s) \intersect Positions
    BY <2>1, WordOfOnes DEF And
  <2>3. Ones(v) \subseteq Positions
    BY DEF Ones
  <2> HIDE DEF u
  <2> QED BY <2>2, <2>3
<1>3. u \in Nat /\ u < 2^XLEN
  <2> HIDE DEF u
  <2> QED BY <1>2, WordType, Widths
<1>4. \A a, p : p \in Ones(a) <=> p \in Positions /\ Digit(a, p) = 1
  BY DEF Ones, Bit, Digit
<1>5. \A a, p \in Nat : Digit(a, p) \in {0, 1}
  <2> SUFFICES ASSUME NEW a \in Nat, NEW p \in Nat PROVE Digit(a, p) \in {0, 1}
    OBVIOUS
  <2> DEFINE m == 2^p
             q == a \div m
  <2>1. m \in Nat \ {0}
    BY PowerType
  <2>2. q \in Nat
    <3> HIDE DEF m
    <3> QED BY <2>1
  <2>3. q % 2 \in {0, 1}
    <3> HIDE DEF q
    <3> QED BY <2>2
  <2> QED BY <2>3 DEF Digit
<1>6. \A p \in Nat : /\ (p \div w) % 2 = 0 => Digit(u, p) = Digit(v, p)
                     /\ (p \div w) % 2 # 0 => Digit(u, p) = 0
  <2> SUFFICES ASSUME NEW p \in Nat
               PROVE  /\ (p \div w) % 2 = 0 => Digit(u, p) = Digit(v, p)
                      /\ (p \div w) % 2 # 0 => Digit(u, p) = 0
    OBVIOUS
  <2> DEFINE even == (p \div w) % 2 = 0
  <2>1. p \in Ones(u) <=> p \in Ones(v) /\ even
    BY <1>2
  <2>2. Digit(u, p) \in {0, 1} /\ Digit(v, p) \in {0, 1}
    BY <1>1, <1>3, <1>5
  <2> HIDE DEF u, even
  <2>3. CASE p < XLEN
    <3>1. p \in Positions
      BY <1>1, <2>3 DEF Positions
    <3>2. Digit(u, p) = 1 <=> Digit(v, p) = 1 /\ even
      BY <1>4, <2>1, <3>1
    <3> QED BY <2>2, <3>2 DEF even
  <2>4. CASE p >= XLEN
    <3>1. Digit(u, p) = 0 /\ Digit(v, p) = 0
      BY <1>1, <1>3, <2>4, DigitAbove
    <3> QED BY <3>1
  <2> QED BY <1>1, <2>3, <2>4
<1>7. /\ 2 * w \in Nat \ {0} /\ 2 * i \in Nat /\ (2 * w) * i = w * (2 * i) /\ w * (2 * i) \in Nat
      /\ w * (2 * i + 1) = w * (2 * i) + w
  OBVIOUS
<1> HIDE DEF u
<1>8. /\ g \in Nat /\ g < 2^(2 * w)
      /\ \A d \in Nat : d < 2 * w => Digit(g, d) = Digit(u, (2 * w) * i + d)
      /\ \A d \in Nat : d >= 2 * w => Digit(g, d) = 0
  <2>1. u \in Nat /\ 2 * w \in Nat \ {0}
    BY <1>3, <1>7
  <2>2. IsGroup(g, u, 2 * w, i)
    BY <2>1, GroupDigits
  <2> QED BY <2>2 DEF IsGroup
<1>9. /\ h \in Nat /\ h < 2^w
      /\ \A d \in Nat : d < w => Digit(h, d) = Digit(v, w * (2 * i) + d)
      /\ \A d \in Nat : d >= w => Digit(h, d) = 0
  <2>1. v \in Nat /\ 2 * i \in Nat
    BY <1>1, <1>7
  <2>2. IsGroup(h, v, w, 2 * i)
    BY <2>1, GroupDigits
  <2> QED BY <2>2 DEF IsGroup
<1> HIDE DEF g, h
<1> DEFINE b == w * (2 * i)
<1>10. ASSUME NEW d \in Nat PROVE Digit(g, d) = Digit(h, d)
  <2>1. CASE d < w
    <3>1. Digit(g, d) = Digit(u, b + d) /\ Digit(h, d) = Digit(v, b + d) /\ b + d \in Nat
      BY <1>7, <1>8, <1>9, <2>1
    <3>2. (b + d) \div w = 2 * i
      BY <1>7, <2>1, DivUnique
    <3>3. (2 * i) % 2 = 0
      OBVIOUS
    <3>4. ((b + d) \div w) % 2 = 0
      BY <3>2, <3>3
    <3> DEFINE p == b + d
    <3> HIDE DEF p
    <3> QED BY <1>6, <3>1, <3>4 DEF p
  <2>2. CASE d >= w /\ d < 2 * w
    <3> DEFINE e == d - w
    <3>1. e \in Nat /\ e < w /\ b + d = w * (2 * i + 1) + e
      BY <1>7, <2>2
    <3>2. Digit(g, d) = Digit(u, b + d) /\ Digit(h, d) = 0 /\ b + d \in Nat
      BY <1>7, <1>8, <1>9, <2>2
    <3> HIDE DEF e
    <3>3. (w * (2 * i + 1) + e) \div w = 2 * i + 1
      BY <1>7, <3>1, DivUnique
    <3>4. (2 * i + 1) % 2 # 0
      OBVIOUS
    <3>5. ((b + d) \div w) % 2 # 0
      BY <3>1, <3>3, <3>4
    <3> DEFINE p == b + d
    <3> HIDE DEF p
    <3> QED BY <1>6, <3>2, <3>5 DEF p
  <2>3. CASE d >= 2 * w
    BY <1>8, <1>9, <2>3
  <2> QED BY <2>1, <2>2, <2>3
<1>11. g = h
  BY <1>8, <1>9, <1>10, SameDigits
<1> QED BY <1>11 DEF g, h, u

\* The ones of a at the positions from lo to below hi.
Counted(a, lo, hi) == Cardinality({p \in lo .. hi - 1 : Digit(a, p) = 1})

\* Counts of adjacent intervals add up, and are bounded by their lengths.
LEMMA CountsJoin ==
  ASSUME NEW a, NEW lo \in Nat, NEW mid \in Nat, NEW hi \in Nat, lo <= mid, mid <= hi
  PROVE  /\ Counted(a, lo, hi) = Counted(a, lo, mid) + Counted(a, mid, hi)
         /\ Counted(a, lo, hi) \in Nat /\ Counted(a, lo, hi) <= hi - lo
         /\ Counted(a, lo, mid) \in Nat /\ Counted(a, mid, hi) \in Nat
<1> DEFINE C(i, j) == {p \in i .. j - 1 : Digit(a, p) = 1}
<1>1. ASSUME NEW i \in Nat, NEW j \in Nat, i <= j
      PROVE  IsFiniteSet(C(i, j)) /\ Cardinality(C(i, j)) \in Nat /\ Cardinality(C(i, j)) <= j - i
  <2>1. j - 1 \in Int
    OBVIOUS
  <2>2. IsFiniteSet(i .. j - 1) /\ Cardinality(i .. j - 1) = IF i > j - 1 THEN 0 ELSE (j - 1) - i + 1
    BY <2>1, FS_Interval
  <2>3. Cardinality(i .. j - 1) = j - i
    BY <1>1, <2>2
  <2>4. C(i, j) \subseteq i .. j - 1
    OBVIOUS
  <2> HIDE DEF C
  <2>5. IsFiniteSet(C(i, j)) /\ Cardinality(C(i, j)) <= Cardinality(i .. j - 1)
    BY <2>2, <2>4, FS_Subset
  <2> QED BY <2>3, <2>5, FS_CardinalityType
<1>2. C(lo, hi) = C(lo, mid) \union C(mid, hi) /\ C(lo, mid) \intersect C(mid, hi) = {}
  <2>1. \A p : p \in lo .. hi - 1 <=> p \in lo .. mid - 1 \/ p \in mid .. hi - 1
    OBVIOUS
  <2>2. \A p : ~(p \in lo .. mid - 1 /\ p \in mid .. hi - 1)
    OBVIOUS
  <2> QED BY <2>1, <2>2, Zenon
<1>3. lo <= hi
  OBVIOUS
<1> HIDE DEF C
<1>4. Cardinality(C(lo, mid) \union C(mid, hi))
        = Cardinality(C(lo, mid)) + Cardinality(C(mid, hi)) - Cardinality(C(lo, mid) \intersect C(mid, hi))
  BY <1>1, FS_Union
<1>5. Cardinality({}) = 0
  BY FS_EmptySet
<1>6. \A i, j : Counted(a, i, j) = Cardinality(C(i, j))
  BY DEF Counted, C
<1> DEFINE all == C(lo, hi)
           left == C(lo, mid)
           right == C(mid, hi)
<1>7. Cardinality(all) \in Nat /\ Cardinality(all) <= hi - lo /\ Cardinality(left) \in Nat
      /\ Cardinality(right) \in Nat
  BY <1>1, <1>3
<1>8. Cardinality(all) = Cardinality(left) + Cardinality(right)
  BY <1>2, <1>4, <1>5, <1>7
<1>9. /\ Counted(a, lo, hi) = Cardinality(all) /\ Counted(a, lo, mid) = Cardinality(left)
      /\ Counted(a, mid, hi) = Cardinality(right)
  BY <1>6
<1> HIDE DEF all, left, right
<1> QED BY <1>7, <1>8, <1>9

\* Each group of n digits of v is the number of ones of a that span covers.
Tallies(v, a, n, span) ==
  v \in Nat /\ \A i \in Nat : Group(v, n, i) = Counted(a, n * i, n * i + span)

\* A single digit counts itself.
LEMMA DigitCounts ==
  ASSUME NEW a \in Nat
  PROVE  Tallies(a, a, 1, 1) /\ \A i \in Nat : Group(a, 1, i) = Digit(a, i) /\ Digit(a, i) \in {0, 1}
<1>1. ASSUME NEW i \in Nat
      PROVE  /\ Group(a, 1, i) = Digit(a, i) /\ Digit(a, i) \in {0, 1}
             /\ Counted(a, 1 * i, 1 * i + 1) = Digit(a, i)
  <2> DEFINE q == a \div 2^i
  <2>1. 2^1 = 2 /\ 1 * i = i
    OBVIOUS
  <2>2. Group(a, 1, i) = q % 2 /\ Digit(a, i) = q % 2
    BY <2>1 DEF Group, Digit
  <2>3. q \in Nat
    <3> DEFINE p == 2^i
    <3>1. p \in Nat \ {0}
      BY PowerType
    <3> HIDE DEF p
    <3> QED BY <3>1 DEF p
  <2>4. q % 2 \in {0, 1}
    <3> HIDE DEF q
    <3> QED BY <2>3
  <2> HIDE DEF q
  <2>5. Counted(a, i, i + 1) = Cardinality({p \in i .. (i + 1) - 1 : Digit(a, p) = 1})
    BY DEF Counted
  <2>6. i .. (i + 1) - 1 = {i}
    OBVIOUS
  <2>7. CASE Digit(a, i) = 1
    <3>1. {p \in i .. (i + 1) - 1 : Digit(a, p) = 1} = {i}
      BY <2>6, <2>7
    <3>2. Cardinality({i}) = 1
      BY FS_Singleton
    <3> QED BY <2>1, <2>2, <2>4, <2>5, <2>7, <3>1, <3>2
  <2>8. CASE Digit(a, i) = 0
    <3>1. {p \in i .. (i + 1) - 1 : Digit(a, p) = 1} = {}
      BY <2>6, <2>8
    <3>2. Cardinality({}) = 0
      BY FS_EmptySet
    <3> QED BY <2>1, <2>2, <2>4, <2>5, <2>8, <3>1, <3>2
  <2> QED BY <2>2, <2>4, <2>7, <2>8
<1> QED BY <1>1 DEF Tallies

\* Shifted by one group, every odd group is where its neighbour was.
LEMMA OddGroup ==
  ASSUME NEW v \in Nat, NEW w \in Nat \ {0}, NEW i \in Nat
  PROVE  Group(v \div 2^w, w, 2 * i) = Group(v, w, 2 * i + 1)
<1> DEFINE k == 2 * i
<1>1. k \in Nat /\ w * 1 = w /\ 1 \in Nat
  OBVIOUS
<1> HIDE DEF k
<1>2. Group(Beyond(v, w, 1), w, k) = Group(v, w, k + 1)
  BY <1>1, GroupsShifted
<1>3. Beyond(v, w, 1) = v \div 2^w
  BY <1>1 DEF Beyond
<1> QED BY <1>2, <1>3 DEF k

\* Neighbouring groups put side by side in groups of twice the width, and
\* added: the counts of twice the span.
LEMMA HalvesAdd ==
  ASSUME NEW v \in Word, NEW a, NEW w \in {1, 2, 4}, Tallies(v, a, w, w)
  PROVE  /\ Tallies(And(v, Mask(w)) + And(Shr(v, w), Mask(w)), a, 2 * w, 2 * w)
         /\ \A i \in Nat : /\ Group(And(v, Mask(w)), 2 * w, i) = Group(v, w, 2 * i)
                           /\ Group(And(Shr(v, w), Mask(w)), 2 * w, i) = Group(v, w, 2 * i + 1)
<1> DEFINE u == And(v, Mask(w))
           t == And(Shr(v, w), Mask(w))
           wide == 2 * w
<1>1. w \in Nat \ {0} /\ w < XLEN /\ XLEN \in Nat /\ v \in Nat /\ wide \in Nat \ {0}
  BY Widths, WordType
<1>2. Shr(v, w) \in Word /\ Shr(v, w) = v \div 2^w
  <2>1. ~(w >= XLEN)
    BY <1>1
  <2> QED BY <1>1, <2>1, ShrWord DEF Shr
<1>3. u \in Nat /\ t \in Nat
  <2>1. \A y, z : And(y, z) \in Word
    BY SetWords
  <2> QED BY <2>1, WordType
<1>4. ASSUME NEW i \in Nat
      PROVE  /\ Group(u, wide, i) = Group(v, w, 2 * i)
             /\ Group(t, wide, i) = Group(v, w, 2 * i + 1)
             /\ Group(u, wide, i) + Group(t, wide, i) = Counted(a, wide * i, wide * i + wide)
             /\ Group(u, wide, i) + Group(t, wide, i) < 2^wide
  <2>1. Group(u, wide, i) = Group(v, w, 2 * i)
    BY <1>1, MaskGroups
  <2>2. Group(t, wide, i) = Group(Shr(v, w), w, 2 * i)
    BY <1>1, <1>2, MaskGroups
  <2>3. Group(v \div 2^w, w, 2 * i) = Group(v, w, 2 * i + 1)
    <3>1. w \in Nat \ {0} /\ v \in Nat
      BY <1>1
    <3> QED BY <3>1, OddGroup, Zenon
  <2>4. Group(v, w, 2 * i) = Counted(a, w * (2 * i), w * (2 * i) + w)
    <3>1. 2 * i \in Nat
      OBVIOUS
    <3> QED BY <3>1 DEF Tallies
  <2>5. Group(v, w, 2 * i + 1) = Counted(a, w * (2 * i + 1), w * (2 * i + 1) + w)
    <3>1. 2 * i + 1 \in Nat
      OBVIOUS
    <3> QED BY <3>1 DEF Tallies
  <2> DEFINE b == wide * i
  <2>6. /\ b \in Nat /\ w * (2 * i) = b /\ w * (2 * i + 1) = b + w /\ w * (2 * i + 1) + w = b + wide
        /\ w * (2 * i) + w = b + w
    BY <1>1
  <2>7. Counted(a, b, b + wide) = Counted(a, b, b + w) + Counted(a, b + w, b + wide)
        /\ Counted(a, b, b + wide) \in Nat /\ Counted(a, b, b + wide) <= (b + wide) - b
    <3>1. b + w \in Nat /\ b + wide \in Nat /\ b <= b + w /\ b + w <= b + wide
      BY <1>1, <2>6
    <3> HIDE DEF b, wide
    <3> QED BY <2>6, <3>1, CountsJoin
  <2>8. wide < 2^wide /\ 2^wide \in Nat
    BY <1>1, PowerExceeds, PowerType
  <2>9. Group(u, wide, i) + Group(t, wide, i) = Counted(a, b, b + wide)
    <3>1. Group(u, wide, i) = Counted(a, b, b + w)
      BY <2>1, <2>4, <2>6
    <3>2. Group(t, wide, i) = Counted(a, b + w, b + wide)
      BY <1>2, <2>2, <2>3, <2>5, <2>6
    <3> QED BY <2>7, <3>1, <3>2
  <2>10. Counted(a, b, b + wide) < 2^wide
    <3> HIDE DEF b, wide
    <3> QED BY <1>1, <2>6, <2>7, <2>8
  <2> QED BY <1>2, <2>1, <2>2, <2>3, <2>9, <2>10
<1>5. \A i \in Nat : Group(u, wide, i) + Group(t, wide, i) < 2^wide
  BY <1>4
<1> HIDE DEF u, t, wide
<1>6. \A i \in Nat : Group(u + t, wide, i) = Group(u, wide, i) + Group(t, wide, i)
  <2>1. NoCarry(u, t, wide)
    BY <1>5 DEF NoCarry
  <2>2. GroupSums(u, t, wide)
    BY <1>1, <1>3, <2>1, GroupsAdd
  <2> QED BY <2>2 DEF GroupSums
<1>7. u + t \in Nat
  BY <1>3
<1>8. Tallies(u + t, a, wide, wide)
  BY <1>4, <1>6, <1>7 DEF Tallies
<1> QED BY <1>4, <1>8 DEF u, t, wide

\* The subtraction of the first step leaves the counts of pairs.
LEMMA PairsCounted ==
  ASSUME NEW a \in Word
  PROVE  /\ a - And(Shr(a, 1), Mask(1)) = And(a, Mask(1)) + And(Shr(a, 1), Mask(1))
         /\ a - And(Shr(a, 1), Mask(1)) \in Word
<1> DEFINE e == And(a, Mask(1))
           o == And(Shr(a, 1), Mask(1))
<1>1. e \in Nat /\ o \in Nat /\ a \in Nat
  <2>1. \A y, z : And(y, z) \in Word
    BY SetWords
  <2> QED BY <2>1, WordType
<1>2. \A i \in Nat : /\ Group(e, 2, i) = Group(a, 1, 2 * i)
                     /\ Group(o, 2, i) = Group(a, 1, 2 * i + 1)
  <2>1. Tallies(a, a, 1, 1) /\ 2 * 1 = 2 /\ 1 \in {1, 2, 4}
    BY <1>1, DigitCounts
  <2> QED BY <2>1, HalvesAdd
<1> HIDE DEF e, o
<1>3. ASSUME NEW i \in Nat
      PROVE  /\ Group(e, 2, i) \in {0, 1} /\ Group(o, 2, i) \in {0, 1}
             /\ Group(a, 2, i) = Group(e, 2, i) + (Group(o, 2, i) + Group(o, 2, i))
  <2> DEFINE q == a \div 2^(2 * i)
  <2>1. 2 * i \in Nat /\ 2 * i + 1 \in Nat /\ 2^2 = 4
    OBVIOUS
  <2>2. Group(e, 2, i) = Digit(a, 2 * i) /\ Group(o, 2, i) = Digit(a, 2 * i + 1)
        /\ Digit(a, 2 * i) \in {0, 1} /\ Digit(a, 2 * i + 1) \in {0, 1}
    BY <1>1, <1>2, <2>1, DigitCounts
  <2>3. Group(a, 2, i) = q % 4 /\ Digit(a, 2 * i) = q % 2
    BY <2>1 DEF Group, Digit
  <2>4. Digit(a, 2 * i + 1) = (q \div 2) % 2 /\ q \in Nat
    <3> DEFINE p == 2^(2 * i)
    <3>1. p \in Nat \ {0} /\ 2^(2 * i + 1) = 2 * p /\ p * 2 = 2 * p
      <4>1. p \in Nat \ {0}
        BY <2>1, PowerType
      <4>2. 2^(2 * i + 1) = 2 * p
        BY <2>1, PowerStep
      <4> HIDE DEF p
      <4> QED BY <4>1, <4>2
    <3>2. Digit(a, 2 * i + 1) = (a \div 2^(2 * i + 1)) % 2
      BY DEF Digit
    <3> HIDE DEF p
    <3>3. (a \div p) \div 2 = a \div (p * 2)
      BY <1>1, <3>1, DivDiv, 2 \in Nat \ {0}
    <3>4. a \div p \in Nat
      BY <1>1, <3>1
    <3> QED BY <3>1, <3>2, <3>3, <3>4 DEF p
  <2>5. q % 4 = (q % 2) + 2 * ((q \div 2) % 2)
    <3> HIDE DEF q
    <3> QED BY <2>4
  <2> DEFINE c == Digit(a, 2 * i)
             d == Digit(a, 2 * i + 1)
  <2>6. Group(a, 2, i) = c + 2 * d
    BY <2>3, <2>4, <2>5
  <2>7. Group(e, 2, i) = c /\ Group(o, 2, i) = d /\ c \in {0, 1} /\ d \in {0, 1}
    BY <2>2
  <2> HIDE DEF c, d
  <2>8. 2 * d = d + d
    BY <2>7
  <2> QED BY <2>6, <2>7, <2>8
<1>4. 2 \in Nat \ {0} /\ 2^2 = 4 /\ o + o \in Nat /\ e + (o + o) \in Nat
  BY <1>1
<1>5. \A i \in Nat : Group(o + o, 2, i) = Group(o, 2, i) + Group(o, 2, i)
  <2>1. NoCarry(o, o, 2)
    BY <1>3, <1>4 DEF NoCarry
  <2>2. GroupSums(o, o, 2)
    BY <1>1, <1>4, <2>1, GroupsAdd
  <2> QED BY <2>2 DEF GroupSums
<1>6. \A i \in Nat : Group(e + (o + o), 2, i) = Group(e, 2, i) + Group(o + o, 2, i)
  <2>1. NoCarry(e, o + o, 2)
    BY <1>3, <1>4, <1>5 DEF NoCarry
  <2>2. GroupSums(e, o + o, 2)
    BY <1>1, <1>4, <2>1, GroupsAdd
  <2> QED BY <2>2 DEF GroupSums
<1>7. \A i \in Nat : Group(a, 2, i) = Group(e + (o + o), 2, i)
  BY <1>3, <1>5, <1>6
<1> DEFINE z == e + (o + o)
<1>8. a = z
  <2> HIDE DEF z
  <2> QED BY <1>1, <1>4, <1>7, SameGroups DEF z
<1>9. a - o = e + o /\ a - o \in Nat /\ a - o <= a
  BY <1>1, <1>8
<1>10. a - o \in Word
  <2> DEFINE y == a - o
  <2>1. a <= AllOnes /\ AllOnes \in Int /\ y \in Nat /\ y <= a
    BY <1>9, WordType, Widths
  <2> HIDE DEF y
  <2> QED BY <1>1, <2>1, WordType DEF y
<1> QED BY <1>9, <1>10 DEF e, o

\* Nothing is counted above the word, and no group of a word is there.
LEMMA NothingAbove ==
  ASSUME NEW v \in Word, NEW b \in Nat, b >= XLEN
  PROVE  /\ \A span \in Nat : Counted(v, b, b + span) = 0
         /\ v \div 2^b = 0
<1>1. v \in Nat /\ v < 2^XLEN /\ XLEN \in Nat
  BY WordType, Widths
<1>2. ASSUME NEW span \in Nat PROVE Counted(v, b, b + span) = 0
  <2>1. \A p \in b .. (b + span) - 1 : p \in Nat /\ p >= XLEN
    BY <1>1
  <2>2. \A p \in Nat : p >= XLEN => Digit(v, p) = 0
    BY <1>1, DigitAbove
  <2>3. {p \in b .. (b + span) - 1 : Digit(v, p) = 1} = {}
    BY <2>1, <2>2
  <2> QED BY <2>3, FS_EmptySet DEF Counted
<1>3. v \div 2^b = 0
  <2> DEFINE p == 2^b
             q == 2^XLEN
  <2>1. q <= p /\ p \in Nat \ {0} /\ q \in Nat
    BY <1>1, PowerOrder, PowerType
  <2> HIDE DEF p, q
  <2>2. v < p
    BY <1>1, <2>1 DEF q
  <2>3. (p * 0 + v) \div p = 0
    BY <1>1, <2>1, <2>2, DivUnique
  <2>4. p * 0 + v = v
    BY <1>1, <2>1
  <2> QED BY <2>3, <2>4 DEF p
<1> QED BY <1>2, <1>3

\* Half sums of groups of which each is followed by its neighbour.
LEMMA NeighboursAdd ==
  ASSUME NEW v \in Nat, NEW a, NEW n \in Nat \ {0}, NEW j \in Nat, 2 * (n * j) < 2^n,
         Tallies(v, a, n, n * j)
  PROVE  Tallies(v + v \div 2^(n * j), a, n, 2 * (n * j))
<1> DEFINE span == n * j
           u == v \div 2^span
<1>1. span \in Nat
  OBVIOUS
<1>2. u \in Nat
  <2> DEFINE p == 2^span
  <2>1. p \in Nat \ {0}
    BY <1>1, PowerType
  <2> HIDE DEF p
  <2> QED BY <2>1 DEF p
<1>3. ASSUME NEW i \in Nat
      PROVE  /\ Group(v, n, i) + Group(u, n, i) = Counted(a, n * i, n * i + 2 * span)
             /\ Group(v, n, i) + Group(u, n, i) < 2^n
  <2>1. Group(u, n, i) = Group(v, n, i + j)
    <3>1. Group(Beyond(v, n, j), n, i) = Group(v, n, i + j)
      BY GroupsShifted
    <3> QED BY <3>1 DEF Beyond
  <2> DEFINE b == n * i
  <2>2. b \in Nat /\ i + j \in Nat /\ n * (i + j) = b + span
    OBVIOUS
  <2>3. Group(v, n, i) = Counted(a, b, b + span) /\ Group(v, n, i + j) = Counted(a, n * (i + j), n * (i + j) + span)
    BY <2>2 DEF Tallies
  <2>4. Group(v, n, i + j) = Counted(a, b + span, (b + span) + span)
    BY <2>2, <2>3
  <2> HIDE DEF b, span, u
  <2>5. /\ b + span \in Nat /\ b + 2 * span \in Nat /\ (b + span) + span = b + 2 * span
        /\ b <= b + span /\ b + span <= b + 2 * span
    BY <1>1, <2>2
  <2>6. /\ Counted(a, b, b + 2 * span) = Counted(a, b, b + span) + Counted(a, b + span, b + 2 * span)
        /\ Counted(a, b, b + 2 * span) \in Nat /\ Counted(a, b, b + 2 * span) <= (b + 2 * span) - b
    BY <2>2, <2>5, CountsJoin
  <2>7. (b + 2 * span) - b = 2 * span /\ 2 * span < 2^n /\ 2^n \in Nat
    BY <1>1, <2>2, PowerType DEF span
  <2>8. Group(v, n, i) + Group(u, n, i) = Counted(a, b, b + 2 * span)
    BY <2>1, <2>3, <2>4, <2>5, <2>6
  <2>9. Counted(a, b, b + 2 * span) < 2^n
    <3> DEFINE c == Counted(a, b, b + 2 * span)
               z == 2^n
    <3>1. c \in Nat /\ c <= 2 * span /\ 2 * span < z /\ z \in Nat /\ 2 * span \in Nat
      BY <1>1, <2>6, <2>7
    <3> HIDE DEF c, z
    <3>2. c < z
      BY <3>1
    <3> QED BY <3>2 DEF c, z
  <2> QED BY <2>8, <2>9 DEF b
<1>4. \A i \in Nat : Group(v, n, i) + Group(u, n, i) < 2^n
  BY <1>3
<1> HIDE DEF u, span
<1>5. \A i \in Nat : Group(v + u, n, i) = Group(v, n, i) + Group(u, n, i)
  <2>1. NoCarry(v, u, n)
    BY <1>4 DEF NoCarry
  <2>2. GroupSums(v, u, n)
    BY <1>2, <2>1, GroupsAdd
  <2> QED BY <2>2 DEF GroupSums
<1>6. v + u \in Nat
  BY <1>2
<1>7. Tallies(v + u, a, n, 2 * span)
  BY <1>3, <1>5, <1>6 DEF Tallies
<1> QED BY <1>7 DEF u, span

\* Cut to a word, the counts of a word remain.
LEMMA TruncTallies ==
  ASSUME NEW a \in Word, NEW v, NEW n \in Nat \ {0}, NEW c \in Nat, XLEN = n * c, NEW span \in Nat,
         Tallies(v, a, n, span)
  PROVE  Tallies(Trunc(v), a, n, span)
<1>1. v \in Nat
  BY DEF Tallies
<1>2. Trunc(v) \in Word /\ Trunc(v) \in Nat
  BY <1>1, TruncWord, WordType
<1>3. ASSUME NEW i \in Nat PROVE Group(Trunc(v), n, i) = Counted(a, n * i, n * i + span)
  <2>1. CASE i < c
    <3>1. Group(Trunc(v), n, i) = Group(v, n, i)
      BY <1>1, <2>1, TruncGroups
    <3>2. Group(v, n, i) = Counted(a, n * i, n * i + span)
      BY DEF Tallies
    <3> QED BY <3>1, <3>2
  <2>2. CASE i >= c
    <3>1. n * i \in Nat /\ n * i >= XLEN
      <4>1. n * (i - c) \in Nat
        BY <2>2
      <4>2. n * (i - c) = n * i - n * c /\ n * i \in Nat /\ n * c \in Nat
        OBVIOUS
      <4> QED BY <4>1, <4>2
    <3>2. Counted(a, n * i, n * i + span) = 0 /\ Trunc(v) \div 2^(n * i) = 0
      <4> DEFINE b == n * i
      <4>1. b \in Nat /\ b >= XLEN
        BY <3>1
      <4> HIDE DEF b
      <4>2. Counted(a, b, b + span) = 0 /\ Trunc(v) \div 2^b = 0
        BY <1>2, <4>1, NothingAbove
      <4> QED BY <4>2 DEF b
    <3>3. 0 % 2^n = 0
      <4> DEFINE m == 2^n
      <4>1. m \in Nat \ {0}
        BY PowerType
      <4> HIDE DEF m
      <4> QED BY <4>1 DEF m
    <3> QED BY <3>2, <3>3 DEF Group
  <2> QED BY <2>1, <2>2
<1> QED BY <1>2, <1>3 DEF Tallies

\* The masks and shifts of the first three steps count the bytes.
LEMMA BytesCounted ==
  ASSUME NEW a \in Word
  PROVE  Tallies(CountBytes(a), a, 8, 8)
<1> DEFINE p == a - And(Shr(a, 1), Mask(1))
           nib == And(p, Mask(2)) + And(Shr(p, 2), Mask(2))
           s == nib + nib \div 2^(4 * 1)
           t == Trunc(s)
<1>1. Tallies(p, a, 2, 2) /\ p \in Word
  <2>1. a \in Nat /\ Tallies(a, a, 1, 1) /\ 2 * 1 = 2 /\ 1 \in {1, 2, 4}
    BY WordType, DigitCounts
  <2>2. Tallies(And(a, Mask(1)) + And(Shr(a, 1), Mask(1)), a, 2 * 1, 2 * 1)
    BY <2>1, HalvesAdd
  <2>3. p = And(a, Mask(1)) + And(Shr(a, 1), Mask(1)) /\ p \in Word
    BY PairsCounted
  <2> HIDE DEF p
  <2> QED BY <2>1, <2>2, <2>3
<1> HIDE DEF p
<1>2. Tallies(nib, a, 4, 4)
  <2>1. 2 * 2 = 4 /\ 2 \in {1, 2, 4}
    OBVIOUS
  <2>2. Tallies(nib, a, 2 * 2, 2 * 2)
    BY <1>1, <2>1, HalvesAdd
  <2> HIDE DEF nib
  <2> QED BY <2>1, <2>2
<1> HIDE DEF nib
<1>3. nib \in Nat /\ Shr(nib, 4) = nib \div 2^(4 * 1)
  <2>1. 4 * 1 = 4 /\ ~(4 >= XLEN)
    BY Widths
  <2> QED BY <1>2, <2>1 DEF Tallies, Shr
<1>4. Tallies(s, a, 4, 8)
  <2>1. 2 * (4 * 1) = 8 /\ 4 * 1 = 4 /\ 2 * (4 * 1) < 2^4
    OBVIOUS
  <2>2. Tallies(nib, a, 4, 4 * 1) /\ nib \in Nat
    BY <1>2, <1>3, <2>1
  <2>3. 4 \in Nat \ {0} /\ 1 \in Nat
    OBVIOUS
  <2>4. Tallies(nib + nib \div 2^(4 * 1), a, 4, 2 * (4 * 1))
    BY <2>1, <2>2, <2>3, NeighboursAdd, Zenon
  <2> QED BY <2>1, <2>4
<1> HIDE DEF s
<1>5. Tallies(t, a, 4, 8) /\ t \in Word
  <2>1. PICK c \in Nat : XLEN = 4 * c
    <3>1. ShamtBits - 2 \in Nat /\ ShamtBits = 2 + (ShamtBits - 2) /\ XLEN = 2^ShamtBits
      BY Halves, HartAssumption
    <3>2. 2^(2 + (ShamtBits - 2)) = 2^2 * 2^(ShamtBits - 2)
      BY <3>1, PowerSum
    <3>4. 2^2 = 4
      OBVIOUS
    <3>3. 2^(ShamtBits - 2) \in Nat
      BY <3>1, PowerType
    <3> QED BY <3>1, <3>2, <3>3, <3>4
  <2>2. Tallies(Trunc(s), a, 4, 8)
    BY <1>4, <2>1, TruncTallies
  <2>3. s \in Nat
    BY <1>4 DEF Tallies
  <2> QED BY <2>2, <2>3, TruncWord
<1>6. CountBytes(a) = And(t, Mask(4))
  BY <1>3 DEF CountBytes, p, nib, s
<1> HIDE DEF t
<1>7. And(t, Mask(4)) \in Nat
  BY SetWords, WordType
<1>8. ASSUME NEW i \in Nat PROVE Group(And(t, Mask(4)), 8, i) = Counted(a, 8 * i, 8 * i + 8)
  <2>1. 4 \in Nat \ {0} /\ 2 * 4 = 8 /\ 2 * i \in Nat /\ 4 * (2 * i) = 8 * i
    OBVIOUS
  <2>2. Group(And(t, Mask(4)), 2 * 4, i) = Group(t, 4, 2 * i)
    BY <1>5, <2>1, MaskGroups
  <2>3. Group(t, 4, 2 * i) = Counted(a, 4 * (2 * i), 4 * (2 * i) + 8)
    BY <1>5, <2>1 DEF Tallies
  <2> QED BY <2>1, <2>2, <2>3
<1> QED BY <1>6, <1>7, <1>8 DEF Tallies

\* The sums of bytes count twice as many each time; a count fits a byte.
LEMMA SumsCounted ==
  ASSUME ShamtBits <= 7, NEW a \in Word, NEW g,
         \A k \in 3 .. ShamtBits : g[k] \in Word,
         g[3] = CountBytes(a),
         \A k \in Nat : 3 <= k /\ k < ShamtBits => g[k + 1] = AddStep(k + 1, g[k])
  PROVE  Tallies(g[ShamtBits], a, 8, XLEN)
<1>1. ShamtBits \in Nat /\ ShamtBits >= 3 /\ XLEN = 2^ShamtBits
  BY Halves, HartAssumption
<1> DEFINE S == {i \in Nat : i + 3 <= ShamtBits => Tallies(g[i + 3], a, 8, 8 * 2^i)}
<1>2. 0 \in S
  <2>1. 0 + 3 = 3 /\ 8 * 2^0 = 8
    OBVIOUS
  <2> QED BY <2>1, BytesCounted
<1>3. ASSUME NEW i \in Nat, i \in S PROVE i + 1 \in S
  <2> SUFFICES ASSUME (i + 1) + 3 <= ShamtBits
               PROVE  Tallies(g[(i + 1) + 3], a, 8, 8 * 2^(i + 1))
    OBVIOUS
  <2> DEFINE k == i + 3
             v == g[k]
             j == 2^i
             y == v + v \div 2^(8 * j)
  <2>1. k \in Nat /\ 3 <= k /\ k < ShamtBits /\ k \in 3 .. ShamtBits /\ (i + 1) + 3 = k + 1
        /\ k = 3 + i /\ (k + 1) - 1 = k
    BY <1>1
  <2>2. v \in Word /\ g[k + 1] = AddStep(k + 1, v) /\ Tallies(v, a, 8, 8 * j)
    BY <1>1, <1>3, <2>1
  <2>3. j \in Nat /\ 2^(i + 1) = 2 * j /\ 2^k = 8 * j /\ 2^3 = 8
    <3>1. j \in Nat
      BY PowerType
    <3>2. 2^(i + 1) = 2 * j
      BY PowerStep
    <3>3. 2^(3 + i) = 2^3 * 2^i
      BY PowerSum
    <3>4. 2^3 = 8
      OBVIOUS
    <3> QED BY <2>1, <3>1, <3>2, <3>3, <3>4
  <2>4. 2 * 2^k <= XLEN /\ 2^k \in Nat /\ 2^k \in Nat \ {0}
    BY <1>1, <2>1, PowerGrows, PowerType
  <2>5. XLEN <= 128 /\ 2^8 = 256
    <3>1. 2^7 = 128 /\ 2^8 = 256
      OBVIOUS
    <3>2. 2^ShamtBits <= 2^7
      BY <1>1, PowerOrder
    <3> QED BY <1>1, <3>1, <3>2
  <2> HIDE DEF v, j
  <2>6. 2 * (8 * j) < 2^8 /\ ~(8 * j >= XLEN) /\ XLEN \in Nat
    <3> DEFINE m == 2^k
    <3>1. 2 * m <= XLEN /\ m = 8 * j /\ m \in Nat \ {0} /\ XLEN <= 128 /\ XLEN \in Nat /\ 2^8 = 256
      BY <2>3, <2>4, <2>5, Widths
    <3> HIDE DEF m, k
    <3> QED BY <2>3, <3>1
  <2>7. AddStep(k + 1, v) = Trunc(y)
    <3>1. Shr(v, 8 * j) = v \div 2^(8 * j)
      BY <2>6 DEF Shr
    <3>2. AddStep(k + 1, v) = Trunc(v + Shr(v, 2^((k + 1) - 1)))
      BY DEF AddStep
    <3> HIDE DEF k
    <3> QED BY <2>1, <2>3, <3>1, <3>2
  <2>8. Tallies(y, a, 8, 2 * (8 * j))
    <3>1. v \in Nat /\ 8 \in Nat \ {0}
      BY <2>2, WordType
    <3> HIDE DEF k
    <3> QED BY <2>2, <2>3, <2>6, <3>1, NeighboursAdd, Zenon
  <2> HIDE DEF y, k
  <2>9. PICK c \in Nat : XLEN = 8 * c
    <3>1. ShamtBits - 3 \in Nat /\ 3 + (ShamtBits - 3) = ShamtBits
      BY <1>1
    <3>2. 2^(3 + (ShamtBits - 3)) = 2^3 * 2^(ShamtBits - 3)
      BY <3>1, PowerSum
    <3>3. 2^(ShamtBits - 3) \in Nat
      BY <3>1, PowerType
    <3> QED BY <1>1, <2>3, <3>1, <3>2, <3>3
  <2>10. 2 * (8 * j) \in Nat /\ 8 * 2^(i + 1) = 2 * (8 * j)
    BY <2>3
  <2>11. Tallies(Trunc(y), a, 8, 2 * (8 * j))
    <3> DEFINE span == 2 * (8 * j)
    <3>1. span \in Nat /\ 8 \in Nat \ {0}
      BY <2>10
    <3> HIDE DEF span
    <3>2. Tallies(y, a, 8, span)
      BY <2>8 DEF span
    <3>3. Tallies(Trunc(y), a, 8, span)
      BY <2>9, <3>1, <3>2, TruncTallies
    <3> QED BY <3>3 DEF span
  <2> QED BY <2>1, <2>2, <2>7, <2>10, <2>11
<1>4. \A i \in Nat : i \in S
  <2> HIDE DEF S
  <2> QED BY <1>2, <1>3, NatInd
<1>5. ShamtBits - 3 \in Nat /\ (ShamtBits - 3) + 3 = ShamtBits
  BY <1>1
<1>6. 8 * 2^(ShamtBits - 3) = XLEN
  <2>1. 2^(3 + (ShamtBits - 3)) = 2^3 * 2^(ShamtBits - 3)
    BY <1>5, PowerSum
  <2>2. 3 + (ShamtBits - 3) = ShamtBits /\ 2^3 = 8
    BY <1>1
  <2> QED BY <1>1, <2>1, <2>2
<1>7. Tallies(g[(ShamtBits - 3) + 3], a, 8, 8 * 2^(ShamtBits - 3))
  BY <1>1, <1>4, <1>5
<1> QED BY <1>5, <1>6, <1>7

\* The lowest digits of a byte that is smaller than their range.
LEMMA ByteCut ==
  ASSUME NEW v \in Nat, NEW c \in Nat, NEW m \in Nat \ {0}, NEW d \in Nat,
         m * d = 256, v % 256 = c, c < m
  PROVE  v % m = c
<1> DEFINE q == v \div 256
<1>1. q \in Nat /\ v = 256 * q + c
  OBVIOUS
<1> HIDE DEF q
<1>2. 256 * q = m * (d * q) /\ d * q \in Nat
  <2>1. (m * d) * q = m * (d * q) /\ d * q \in Nat
    BY <1>1
  <2> QED BY <2>1
<1> DEFINE k == d * q
<1>3. k \in Nat /\ v = m * k + c
  BY <1>1, <1>2
<1> HIDE DEF k
<1>4. (m * k + c) % m = c
  BY <1>3, DivUnique
<1> QED BY <1>3, <1>4

\* The parallel count gives the number of ones.
LEMMA OnesCounted ==
  ASSUME ShamtBits <= 7, NEW a \in Word
  PROVE  PopCount(a) = Cardinality(Ones(a))
<1>1. PICK g : /\ \A k \in 3 .. ShamtBits : g[k] \in Word
               /\ g[3] = CountBytes(a)
               /\ \A k \in Nat : 3 <= k /\ k < ShamtBits => g[k + 1] = AddStep(k + 1, g[k])
               /\ PopCount(a) = g[ShamtBits] % 2^(ShamtBits + 1)
  BY CountSums
<1> DEFINE v == g[ShamtBits]
           c == Counted(a, 0, XLEN)
           m == 2^(ShamtBits + 1)
           d == 2^(7 - ShamtBits)
<1>2. ShamtBits \in Nat /\ XLEN \in Nat /\ XLEN = 2^ShamtBits
  BY Halves, Widths, HartAssumption
<1>3. Tallies(v, a, 8, XLEN)
  BY <1>1, SumsCounted
<1>4. v \in Nat /\ v % 256 = c
  <2>1. v \in Nat /\ Group(v, 8, 0) = Counted(a, 8 * 0, 8 * 0 + XLEN)
    BY <1>3 DEF Tallies
  <2>2. 8 * 0 = 0 /\ 8 * 0 + XLEN = XLEN /\ 2^(8 * 0) = 1 /\ 2^8 = 256
    BY <1>2
  <2> HIDE DEF v
  <2>3. v \div 1 = v
    BY <2>1
  <2>4. Group(v, 8, 0) = (v \div 2^(8 * 0)) % 2^8
    BY DEF Group
  <2> QED BY <2>1, <2>2, <2>3, <2>4
<1>5. c \in Nat /\ c <= XLEN
  <2>1. 0 \in Nat /\ 0 <= XLEN /\ 0 <= 0
    BY <1>2
  <2>2. Counted(a, 0, XLEN) \in Nat /\ Counted(a, 0, XLEN) <= XLEN - 0
    BY <1>2, <2>1, CountsJoin, Zenon
  <2> HIDE DEF v
  <2> QED BY <1>2, <2>2
<1>6. c = Cardinality(Ones(a))
  <2>1. \A i : Digit(a, i) = Bit(a, i)
    BY DEF Digit, Bit
  <2> QED BY <2>1 DEF Counted, Ones, Positions
<1>7. m \in Nat \ {0} /\ d \in Nat /\ m * d = 256 /\ m = 2 * XLEN /\ XLEN > 0
  <2>1. ShamtBits + 1 \in Nat /\ 7 - ShamtBits \in Nat /\ (ShamtBits + 1) + (7 - ShamtBits) = 8
    BY <1>2
  <2>2. m \in Nat \ {0} /\ d \in Nat
    BY <2>1, PowerType
  <2>3. 2^((ShamtBits + 1) + (7 - ShamtBits)) = m * d
    BY <2>1, PowerSum
  <2>4. m = 2 * 2^ShamtBits
    BY <1>2, PowerStep
  <2>5. 2^8 = 256
    OBVIOUS
  <2> QED BY <1>2, <2>1, <2>2, <2>3, <2>4, <2>5, Widths
<1>8. PopCount(a) = v % m
  BY <1>1
<1> HIDE DEF v, c, m, d
<1>9. c < m
  BY <1>2, <1>5, <1>7
<1>10. v % m = c
  BY <1>4, <1>5, <1>7, <1>9, ByteCut
<1> QED BY <1>6, <1>8, <1>10

\* What an instruction of zbb writes.
LEMMA BitManipResult ==
  ASSUME Inductive, Next, NEW t \in ZbbTypes, Does({t})
  PROVE  Result = BitManip(t, A, B, did'.d.imm) /\ A \in Word /\ B \in Word /\ did'.d.imm \in Int
<1>1. Does(ComputedTypes) /\ did'.d.type = t
  BY DEF Does, ComputedTypes
<1>2. Result = Compute(t, A, B, did'.d.imm) /\ A \in Word /\ B \in Word /\ did'.d.imm \in Int
  BY <1>1, IntegerResult
<1> QED BY <1>2, ComputeOf

\* The counts of zbb are the numbers of zeros before, zeros after, and
\* ones, on registers whose count of ones fits a byte.
THEOREM Counts == ASSUME ShamtBits <= 7 PROVE Spec => CountsExact
<1> DEFINE Law ==
             /\ Does({"CLZ"}) =>
                  Result = Cardinality({i \in Positions : \A j \in i .. XLEN - 1 : Bit(A, j) = 0})
             /\ Does({"CTZ"}) =>
                  Result = Cardinality({i \in Positions : \A j \in 0 .. i : Bit(A, j) = 0})
             /\ Does({"CPOP"}) => Result = Cardinality(Ones(A))
<1>1. ASSUME Inductive, Next PROVE Law
  <2>1. \A t \in {"CLZ", "CTZ", "CPOP"} : t \in ZbbTypes
    BY DEF ZbbTypes
  <2>2. Does({"CLZ"}) => Result = Cardinality(LeadingZeros(A))
    <3>1. ASSUME Does({"CLZ"}) PROVE Result = Clz(A) /\ A \in Word
      BY <1>1, <2>1, <3>1, BitManipResult DEF BitManip
    <3> QED BY <3>1, ZerosCounted
  <2>3. Does({"CTZ"}) => Result = Cardinality(TrailingZeros(A))
    <3>1. ASSUME Does({"CTZ"}) PROVE Result = Ctz(A) /\ A \in Word
      BY <1>1, <2>1, <3>1, BitManipResult DEF BitManip
    <3> QED BY <3>1, ZerosCounted
  <2>4. Does({"CPOP"}) => Result = Cardinality(Ones(A))
    <3>1. ASSUME Does({"CPOP"}) PROVE Result = PopCount(A) /\ A \in Word
      BY <1>1, <2>1, <3>1, BitManipResult DEF BitManip
    <3> QED BY <3>1, OnesCounted
  <2> QED BY <2>2, <2>3, <2>4 DEF LeadingZeros, TrailingZeros
<1>2. ASSUME Inductive, [Next]_vars PROVE [Law]_vars
  BY <1>1, <1>2
<1> QED BY <1>2, InductiveHolds, PTL DEF Spec, CountsExact

\* A rotation moves every bit around the word, whatever the register or the
\* immediate that gives the amount.
THEOREM Rotations == Spec => RotationsExact
<1> DEFINE Law ==
             LET moved(k) == {(i + k) % XLEN : i \in Ones(A)}
             IN  /\ Does({"ROL"}) => Ones(Result) = moved(Shamt(B))
                 /\ Does({"ROR"}) => Ones(Result) = moved(XLEN - Shamt(B))
                 /\ Does({"RORI"}) => Ones(Result) = moved(XLEN - Shamt(did'.d.imm))
<1>1. ASSUME Inductive, Next PROVE Law
  <2>1. \A t \in {"ROL", "ROR", "RORI"} : t \in ZbbTypes
    BY DEF ZbbTypes
  <2>2. Does({"ROL"}) => Ones(Result) = Moved(A, Shamt(B))
    <3>1. ASSUME Does({"ROL"}) PROVE Result = RotateLeft(A, Shamt(B)) /\ A \in Word /\ B \in Int
      BY <1>1, <2>1, <3>1, BitManipResult, WordType DEF BitManip
    <3> QED BY <3>1, ShamtType, RotationsMove
  <2>3. Does({"ROR"}) => Ones(Result) = Moved(A, XLEN - Shamt(B))
    <3>1. ASSUME Does({"ROR"}) PROVE Result = RotateRight(A, Shamt(B)) /\ A \in Word /\ B \in Int
      BY <1>1, <2>1, <3>1, BitManipResult, WordType DEF BitManip
    <3> QED BY <3>1, ShamtType, RotationsMove
  <2>4. Does({"RORI"}) => Ones(Result) = Moved(A, XLEN - Shamt(did'.d.imm))
    <3>1. ASSUME Does({"RORI"})
          PROVE  Result = RotateRight(A, Shamt(did'.d.imm)) /\ A \in Word /\ did'.d.imm \in Int
      BY <1>1, <2>1, <3>1, BitManipResult DEF BitManip
    <3> QED BY <3>1, ShamtType, RotationsMove
  <2> QED BY <2>2, <2>3, <2>4 DEF Moved
<1>2. ASSUME Inductive, [Next]_vars PROVE [Law]_vars
  BY <1>1, <1>2
<1> QED BY <1>2, InductiveHolds, PTL DEF Spec, RotationsExact

\* Quotients, upper halves, counts and rotations are what arithmetic says.
THEOREM IntegersLawful == ASSUME ShamtBits <= 7 PROVE Spec => IntegerLaws
<1>1. /\ Spec => DivisionLaw
      /\ Spec => ProductHalves
      /\ Spec => CountsExact
      /\ Spec => RotationsExact
  BY Divided, ProductsAreWhole, Counts, Rotations
<1> QED BY <1>1, PTL DEF IntegerLaws

\* A floating-point instruction traps or writes one outcome to one register.
LEMMA FloatForms ==
  ASSUME NEW d, ExecuteFloat(d)
  PROVE  FloatTrap(d, 2, d.raw) \/ \E o : ToFloat(d, o) \/ ToX(d, o)
<1> DEFINE a == f[d.rs1]
           b == f[d.rs2]
           c == f[d.rs3]
           n == x[d.rs1]
           mode == ModeOf(EffectiveRm(d.rm, frm))
<1>1. \/ FloatTrap(d, 2, d.raw)
      \/ ToFloat(d, Arithmetic(d.type, a, b, c, mode))
      \/ ToFloat(d, MinMax(d.type, a, b))
      \/ ToX(d, ToInteger(d.type, a, mode))
      \/ ToFloat(d, FromInteger(d.type, n, mode))
      \/ ToX(d, Exact(a))
      \/ ToFloat(d, Exact(n))
      \/ ToX(d, Compare(d.type, a, b))
      \/ ToFloat(d, Exact(Injected(d.type, a, b)))
      \/ ToX(d, Exact(Classify(a)))
  BY DEF ExecuteFloat
<1> HIDE DEF a, b, c, n, mode
<1> QED BY <1>1, Zenon

\* The decks are never changed, so that every stimulus is one of a deck.
LEMMA DeckType == Spec => [](deck \in Decks)
<1>1. Init => deck \in Decks
  BY DEF Init
<1>2. deck \in Decks /\ [Next]_vars => (deck \in Decks)'
  BY DEF Next, Running, vars
<1> QED BY <1>1, <1>2, PTL DEF Spec

\* What is executed is an instruction of one of the three kinds.
LEMMA StimulusKinds ==
  ASSUME deck \in Decks, NEW d \in Stimuli[deck]
  PROVE  \/ d.unit = "I" /\ d.type \in BaseTypes
         \/ d.unit = "R" /\ d.type \in RegisterTypes
         \/ d.unit = "F" /\ d.type \in FloatOps
BY StimuliAssumption

\* An effect that traps writes x0, that is no register.
LEMMA JumpClean ==
  ASSUME NEW hasC, NEW after, NEW rd, NEW target
  PROVE  LET e == Jump(hasC, after, rd, target)
         IN  e.trap # NoTrap => e.rd = 0
BY DEF Jump, Traps, Writes, Nothing, NoTrap

LEMMA BranchClean ==
  ASSUME NEW hasC, NEW after, NEW target
  PROVE  TakeBranch(hasC, after, target).rd = 0
BY DEF TakeBranch, Traps, Nothing

LEMMA OthersClean ==
  ASSUME NEW after
  PROVE  /\ \A rd, v : Writes(after, rd, v).trap = NoTrap
         /\ \A cause, tval : Traps(after, cause, tval).rd = 0
         /\ Nothing(after).trap = NoTrap
         /\ \A type, rd, at : Loads(after, type, rd, at).trap = NoTrap
         /\ \A type, at, data : Stores(after, type, at, data).trap = NoTrap
BY DEF Writes, Traps, Loads, Stores, Nothing, NoTrap

LEMMA BaseClean ==
  ASSUME NEW d, d.type \in BaseTypes, NEW regs, NEW at, NEW len, NEW hasC, NEW mode
  PROVE  LET e == BaseEffect(d, regs, at, len, hasC, mode)
         IN  e.trap # NoTrap => e.rd = 0
<1> DEFINE e == BaseEffect(d, regs, at, len, hasC, mode)
<1>1. CASE d.type \in {"LUI", "AUIPC"}
  BY <1>1, OthersClean DEF BaseEffect, ImmTypes, RegTypes, StoreTypes, LoadTypes, BranchTypes
<1>2. CASE d.type \in {"JAL", "JALR"}
  BY <1>2, JumpClean DEF BaseEffect, ImmTypes, RegTypes, StoreTypes, LoadTypes, BranchTypes
<1>3. CASE d.type \in BranchTypes
  BY <1>3, BranchClean, OthersClean DEF BaseEffect, BranchTypes
<1>4. CASE d.type \in LoadTypes
  BY <1>4, OthersClean DEF BaseEffect, LoadTypes, BranchTypes
<1>5. CASE d.type \in StoreTypes
  BY <1>5, OthersClean DEF BaseEffect, StoreTypes, LoadTypes, BranchTypes
<1>6. CASE d.type \in ImmTypes \union RegTypes
  BY <1>6, OthersClean DEF BaseEffect, ImmTypes, RegTypes, StoreTypes, LoadTypes, BranchTypes
<1>7. CASE d.type \in {"FENCE", "ECALL", "EBREAK", "ILLEGAL"}
  BY <1>7, OthersClean DEF BaseEffect, ImmTypes, RegTypes, StoreTypes, LoadTypes, BranchTypes
<1> QED BY <1>1, <1>2, <1>3, <1>4, <1>5, <1>6, <1>7 DEF BaseTypes

\* Nor does an access that traps, or a trap of the float executor, write a
\* register: "target alignment is checked before any register write, so a
\* trapping jump has no architectural side effects", do_load and do_store
\* return before the register is written, and fcsr is written back as it was.
THEOREM TrapsAreClean == Spec => TrapsWithoutEffect
<1>1. ASSUME deck \in Decks, [Next]_vars
      PROVE  [did'.trap # NoTrap => UNCHANGED <<x, f, frm, fflags>>]_vars
  <2>1. SUFFICES ASSUME Next, did'.trap # NoTrap
                 PROVE  UNCHANGED <<x, f, frm, fflags>>
    BY <1>1
  <2>2. PICK d \in Stimuli[deck] :
          \/ ExecuteInteger(d)
          \/ \E answer \in BusWords \union {Fault} : AccessInteger(d, answer)
          \/ ExecuteFloat(d)
          \/ \E answer \in BusWords \union {Fault} : AccessFloat(d, answer)
    BY <2>1 DEF Next
  <2>3. CASE ExecuteInteger(d)
    <3>1. /\ d.unit \in {"I", "R"}
          /\ x' = Written(Effect(d).rd, Effect(d).value)
          /\ UNCHANGED <<f, frm, fflags>>
      BY <2>3 DEF ExecuteInteger
    <3>2. Effect(d).trap # NoTrap
      BY <2>1, <2>3 DEF ExecuteInteger, Ran, Trapped
    <3>3. Effect(d).rd = 0
      <4>1. CASE d.unit = "I"
        BY <1>1, <3>2, <4>1, StimulusKinds, BaseClean DEF Effect
      <4>2. CASE d.unit = "R"
        BY <3>2, <4>2, OthersClean DEF Effect, RegisterEffect
      <4> QED BY <3>1, <4>1, <4>2
    <3> QED BY <3>1, <3>3 DEF Written
  <2>4. ASSUME NEW answer \in BusWords \union {Fault}, AccessInteger(d, answer)
        PROVE  UNCHANGED <<x, f, frm, fflags>>
    BY <2>1, <2>4 DEF AccessInteger, Ran, Trapped
  <2>5. CASE ExecuteFloat(d)
    BY <2>1, <2>5, FloatForms DEF FloatTrap, ToFloat, ToX, Retires, Ran, Merged
  <2>6. ASSUME NEW answer \in BusWords \union {Fault}, AccessFloat(d, answer)
        PROVE  UNCHANGED <<x, f, frm, fflags>>
    BY <2>1, <2>6 DEF AccessFloat, FloatTrap, ToFloat, Retires, Ran, Merged
  <2> QED BY <2>2, <2>3, <2>4, <2>5, <2>6
<1> QED BY <1>1, DeckType, PTL DEF Spec, TrapsWithoutEffect

\* fcsr is copied out of the CSR file and back around every floating-point
\* instruction; its flags grow by those the instruction raised and nothing
\* else of it changes (execute_32bit, FFlags::merge).
THEOREM FlagsOnlyAccrue == Spec => FlagsAccrue
<1> DEFINE accrue ==
      frm' = frm /\ fflags' = fflags \union (IF did'.trap = NoTrap THEN did'.raised ELSE {})
<1>1. ASSUME [Next]_vars PROVE [accrue]_vars
  <2>1. SUFFICES ASSUME Next PROVE accrue
    BY <1>1
  <2>2. PICK d \in Stimuli[deck] :
          \/ ExecuteInteger(d)
          \/ \E answer \in BusWords \union {Fault} : AccessInteger(d, answer)
          \/ ExecuteFloat(d)
          \/ \E answer \in BusWords \union {Fault} : AccessFloat(d, answer)
    BY <2>1 DEF Next
  <2>3. CASE ExecuteInteger(d)
    BY <2>3 DEF ExecuteInteger, Ran, Trapped
  <2>4. ASSUME NEW answer \in BusWords \union {Fault}, AccessInteger(d, answer)
        PROVE  accrue
    BY <2>4 DEF AccessInteger, Ran, Trapped
  <2>5. CASE ExecuteFloat(d)
    BY <2>5, FloatForms DEF FloatTrap, ToFloat, ToX, Retires, Ran, Trapped, Merged, NoTrap
  <2>6. ASSUME NEW answer \in BusWords \union {Fault}, AccessFloat(d, answer)
        PROVE  accrue
    BY <2>6 DEF AccessFloat, FloatTrap, ToFloat, Retires, Ran, Trapped, Merged
  <2> QED BY <2>2, <2>3, <2>4, <2>5, <2>6
<1> QED BY <1>1, PTL DEF Spec, FlagsAccrue, Raised

\* write_canonical, by any path to a float register of an arithmetic result.
LEMMA CanonicalOrNumber ==
  ASSUME NEW bits, IsNaN(Canonical(bits))
  PROVE  Canonical(bits) = CanonicalNaN
BY DEF Canonical

\* "All arithmetic results that are NaN are canonicalized to 0x7FC00000",
\* whatever NaN the host makes and whatever the operands are.
THEOREM NaNsAreCanonical == Spec => NaNCanonical
<1> DEFINE types == ArithmeticTypes \union {"FMIN_S", "FMAX_S", "FCVT_S_W", "FCVT_S_WU"}
           canonical == Does(types) /\ IsNaN(Result) => Result = CanonicalNaN
<1>1. ASSUME deck \in Decks, [Next]_vars PROVE [canonical]_vars
  <2>1. SUFFICES ASSUME Next, did'.d.type \in types, did'.trap = NoTrap, IsNaN(did'.value)
                 PROVE  did'.value = CanonicalNaN
    BY <1>1 DEF Does, Result
  <2>2. PICK d \in Stimuli[deck] : StepOf(d)
    BY <2>1, StepInstruction DEF StepOf
  <2>3. /\ did'.d = d
        /\ \/ ExecuteInteger(d)
           \/ \E answer \in BusWords \union {Fault} : AccessInteger(d, answer)
           \/ ExecuteFloat(d)
           \/ \E answer \in BusWords \union {Fault} : AccessFloat(d, answer)
    BY <2>2 DEF StepOf
  <2>4. d.type \in types
    BY <2>1, <2>3
  <2>5. d.unit = "F" /\ ExecuteFloat(d)
    <3>1. d.type \notin BaseTypes \union RegisterTypes
      BY <2>4 DEF BaseTypes, RegisterTypes, BranchTypes, LoadTypes, StoreTypes, ImmTypes,
                  RegTypes, MTypes, ZbbTypes, ZbaTypes, ZbsTypes, ZbsRegTypes, ZicondTypes,
                  ArithmeticTypes, FusedTypes
    <3>2. d.unit = "F"
      BY <1>1, <3>1, StimulusKinds
    <3>3. d.type \notin {"FLW", "FSW"}
      BY <2>4 DEF ArithmeticTypes, FusedTypes
    <3> QED BY <2>3, <3>2, <3>3 DEF ExecuteInteger, AccessInteger, AccessFloat
  <2>6. \E bits : did'.value = Canonical(bits)
    <3> DEFINE a == f[d.rs1]
               b == f[d.rs2]
               c == f[d.rs3]
               mode == ModeOf(EffectiveRm(d.rm, frm))
    <3>1. \/ ToFloat(d, Arithmetic(d.type, a, b, c, mode))
          \/ ToFloat(d, MinMax(d.type, a, b))
          \/ ToFloat(d, FromInteger(d.type, x[d.rs1], mode))
      <4>1. ~IllegalFloat(d)
        BY <2>1, <2>4, <2>5 DEF ExecuteFloat, FloatTrap, Trapped, Ran, NoTrap
      <4>2. CASE d.type \in ArithmeticTypes
        BY <2>5, <4>1, <4>2 DEF ExecuteFloat, ArithmeticTypes, FusedTypes
      <4>3. CASE d.type \in {"FMIN_S", "FMAX_S"}
        BY <2>5, <4>1, <4>3 DEF ExecuteFloat, ArithmeticTypes, FusedTypes
      <4>4. CASE d.type \in {"FCVT_S_W", "FCVT_S_WU"}
        BY <2>5, <4>1, <4>4 DEF ExecuteFloat, ArithmeticTypes, FusedTypes
      <4> QED BY <2>4, <4>2, <4>3, <4>4
    <3>2. CASE ToFloat(d, Arithmetic(d.type, a, b, c, mode))
      BY <3>2 DEF ToFloat, Retires, Ran, Arithmetic, Outcome
    <3>3. CASE ToFloat(d, MinMax(d.type, a, b))
      BY <3>3 DEF ToFloat, Retires, Ran, MinMax, Outcome
    <3>4. CASE ToFloat(d, FromInteger(d.type, x[d.rs1], mode))
      BY <3>4 DEF ToFloat, Retires, Ran, FromInteger, Outcome
    <3> QED BY <3>1, <3>2, <3>3, <3>4
  <2> QED BY <2>1, <2>6, CanonicalOrNumber
<1> QED BY <1>1, DeckType, PTL DEF Spec, NaNCanonical

\* The outcomes of arithmetic and conversions are the pair they are shown as.
LEMMA OutcomesArePairs ==
  ASSUME NEW type, NEW a, NEW b, NEW c, NEW rm
  PROVE  /\ LET o == Arithmetic(type, a, b, c, rm) IN o = Outcome(o.bits, o.flags)
         /\ LET o == ToInteger(type, a, rm) IN o = Outcome(o.bits, o.flags)
         /\ LET o == FromInteger(type, a, rm) IN o = Outcome(o.bits, o.flags)
<1>1. LET o == Arithmetic(type, a, b, c, rm) IN o = Outcome(o.bits, o.flags)
  <2>1. \E bits, flags : Arithmetic(type, a, b, c, rm) = Outcome(bits, flags)
    BY DEF Arithmetic
  <2> QED BY <2>1 DEF Outcome
<1>2. ASSUME NEW low, NEW high
      PROVE  LET o == Saturated(a, low, high, rm) IN o = Outcome(o.bits, o.flags)
  <2> DEFINE rounded == RoundToInt(a, rm)
             top == IsNaN(a) \/ (IsInf(a) /\ Sign(a) = 0) \/ (IsFinite(a) /\ rounded > high)
             bottom == (IsInf(a) /\ Sign(a) = 1) \/ (IsFinite(a) /\ rounded < low)
  <2> HIDE DEF rounded, top, bottom
  <2>1. \E bits, flags : Saturated(a, low, high, rm) = Outcome(bits, flags)
    BY DEF Saturated, rounded, top, bottom
  <2> QED BY <2>1 DEF Outcome
<1>3. LET o == ToInteger(type, a, rm) IN o = Outcome(o.bits, o.flags)
  BY <1>2 DEF ToInteger
<1>4. LET o == FromInteger(type, a, rm) IN o = Outcome(o.bits, o.flags)
  BY DEF FromInteger, Outcome
<1> QED BY <1>1, <1>3, <1>4

\* "Resolve the rounding mode": the dynamic mode is the one in frm, and a
\* reserved one there makes the instruction illegal.
THEOREM DynamicIsStatic == Spec => DynamicAsStatic
<1> DEFINE rounds(d) == d.unit = "F" /\ UsesRounding(d.type) /\ d.rm = DYN
           same(d) ==
             IF frm > 4 THEN did'.trap = 2
             ELSE /\ did'.trap = NoTrap
                  /\ Does(ArithmeticTypes) =>
                       Outcome(Result, Raised) =
                         Arithmetic(d.type, f[d.rs1], f[d.rs2], f[d.rs3], ModeOf(frm))
                  /\ Does({"FCVT_W_S", "FCVT_WU_S"}) =>
                       Outcome(Result, Raised) = ToInteger(d.type, f[d.rs1], ModeOf(frm))
                  /\ Does({"FCVT_S_W", "FCVT_S_WU"}) =>
                       Outcome(Result, Raised) = FromInteger(d.type, x[d.rs1], ModeOf(frm))
<1>1. ASSUME [Next]_vars PROVE [rounds(did'.d) => same(did'.d)]_vars
  <2>1. SUFFICES ASSUME Next, rounds(did'.d) PROVE same(did'.d)
    BY <1>1
  <2>2. PICK d \in Stimuli[deck] : StepOf(d)
    BY <2>1, StepInstruction DEF StepOf
  <2>3. /\ did'.d = d
        /\ \/ ExecuteInteger(d)
           \/ \E answer \in BusWords \union {Fault} : AccessInteger(d, answer)
           \/ ExecuteFloat(d)
           \/ \E answer \in BusWords \union {Fault} : AccessFloat(d, answer)
    BY <2>2 DEF StepOf
  <2>4. ExecuteFloat(d) /\ EffectiveRm(d.rm, frm) = frm
    BY <2>1, <2>3 DEF ExecuteInteger, AccessInteger, AccessFloat, EffectiveRm, DYN,
         UsesRounding, ArithmeticTypes, FusedTypes, ConversionTypes
  <2>5. d.type # "ILLEGAL" /\ (IllegalFloat(d) <=> frm > 4)
    BY <2>1, <2>3, <2>4 DEF IllegalFloat, UsesRounding, ArithmeticTypes, FusedTypes,
                            ConversionTypes
  <2>6. CASE frm > 4
    BY <2>3, <2>4, <2>5, <2>6 DEF ExecuteFloat, FloatTrap, Trapped, Ran
  <2>7. CASE ~(frm > 4)
    <3>1. did'.trap = NoTrap
      BY <2>4, <2>5, <2>7 DEF ExecuteFloat, ToFloat, ToX, Retires, Ran
    <3>2. ASSUME d.type \in ArithmeticTypes
          PROVE  Outcome(Result, Raised) =
                   Arithmetic(d.type, f[d.rs1], f[d.rs2], f[d.rs3], ModeOf(frm))
      <4>1. ToFloat(d, Arithmetic(d.type, f[d.rs1], f[d.rs2], f[d.rs3], ModeOf(frm)))
        BY <2>4, <2>5, <2>7, <3>2 DEF ExecuteFloat, ArithmeticTypes, FusedTypes
      <4> QED BY <4>1, OutcomesArePairs DEF ToFloat, Retires, Ran, Result, Raised
    <3>3. ASSUME d.type \in {"FCVT_W_S", "FCVT_WU_S"}
          PROVE  Outcome(Result, Raised) = ToInteger(d.type, f[d.rs1], ModeOf(frm))
      <4>1. ToX(d, ToInteger(d.type, f[d.rs1], ModeOf(frm)))
        BY <2>4, <2>5, <2>7, <3>3 DEF ExecuteFloat, ArithmeticTypes, FusedTypes
      <4> QED BY <4>1, OutcomesArePairs DEF ToX, Retires, Ran, Result, Raised
    <3>4. ASSUME d.type \in {"FCVT_S_W", "FCVT_S_WU"}
          PROVE  Outcome(Result, Raised) = FromInteger(d.type, x[d.rs1], ModeOf(frm))
      <4>1. ToFloat(d, FromInteger(d.type, x[d.rs1], ModeOf(frm)))
        BY <2>4, <2>5, <2>7, <3>4 DEF ExecuteFloat, ArithmeticTypes, FusedTypes
      <4> QED BY <4>1, OutcomesArePairs DEF ToFloat, Retires, Ran, Result, Raised
    <3> QED BY <2>3, <2>7, <3>1, <3>2, <3>3, <3>4 DEF Does
  <2> QED BY <2>6, <2>7
<1> QED BY <1>1, PTL DEF Spec, DynamicAsStatic, FA, FB, A
=============================================================================
