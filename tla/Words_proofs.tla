---------------------------- MODULE Words_proofs ----------------------------
(***************************************************************************)
(* Facts about words that the proofs share, for every width: the bits of   *)
(* a word and the word of given bits.                                      *)
(***************************************************************************)
EXTENDS Words, Numbers_proofs

\* FromOnes makes the word with exactly the ones it is given.
LEMMA WordOfOnes ==
  ASSUME NEW s
  PROVE  FromOnes(s) \in Word /\ Ones(FromOnes(s)) = s \intersect Positions
<1> DEFINE Sum(f) == [i \in 0 .. XLEN |-> IF i = 0 THEN 0
                                       ELSE f[i - 1] + (IF i - 1 \in s THEN 2^(i - 1) ELSE 0)]
           g == CHOOSE h : h = Sum(h)
<1>1. XLEN \in Nat
  BY WordAssumption
<1>2. \E h : h = Sum(h)
  BY <1>1, DigitSum
<1>3. g = Sum(g)
  <2> HIDE DEF Sum
  <2> QED BY <1>2
<1>4. FromOnes(s) = g[XLEN]
  BY DEF FromOnes
<1> HIDE DEF g
<1>5. DigitSteps(s, g, XLEN)
  <2>1. \A i \in 0 .. XLEN :
          g[i] = IF i = 0 THEN 0 ELSE g[i - 1] + (IF i - 1 \in s THEN 2^(i - 1) ELSE 0)
    BY <1>3, Zenon
  <2>2. 0 \in 0 .. XLEN /\ \A i \in 1 .. XLEN : i \in 0 .. XLEN /\ i # 0
    BY <1>1
  <2>3. g[0] = 0
    BY <2>1, <2>2
  <2>4. ASSUME NEW i \in 1 .. XLEN
        PROVE  g[i] = g[i - 1] + (IF i - 1 \in s THEN 2^(i - 1) ELSE 0)
    <3>1. i \in 0 .. XLEN /\ i # 0
      BY <2>2
    <3>2. g[i] = IF i = 0 THEN 0 ELSE g[i - 1] + (IF i - 1 \in s THEN 2^(i - 1) ELSE 0)
      BY <2>1, <3>1, Zenon
    <3> QED BY <3>1, <3>2, Zenon
  <2> QED BY <2>3, <2>4, Zenon DEF DigitSteps
<1>6. g[XLEN] \in 0 .. 2^XLEN - 1 /\ DigitsOf(g[XLEN], XLEN) = s \intersect 0 .. XLEN - 1
  BY <1>1, <1>5, SumHasDigits
<1>7. \A a : Ones(a) = DigitsOf(a, XLEN)
  BY DEF Ones, DigitsOf, Digit, Bit, Positions
<1> QED BY <1>4, <1>6, <1>7 DEF Word, Positions

\* A word is made of its ones.
LEMMA OnesOfWord ==
  ASSUME NEW a \in Word
  PROVE  FromOnes(Ones(a)) = a
<1>1. \A b : Ones(b) = DigitsOf(b, XLEN)
  BY DEF Ones, DigitsOf, Digit, Bit, Positions
<1>2. FromOnes(Ones(a)) \in Word /\ Ones(FromOnes(Ones(a))) = Ones(a)
  BY WordOfOnes DEF Ones
<1> QED BY <1>1, <1>2, WordAssumption, DigitsDetermine DEF Word
=============================================================================
