------------------------------- MODULE Float -------------------------------
(***************************************************************************)
(* The single-precision values of riscv_rv32f.hpp and the operations its   *)
(* executor leaves to the host: a + b, a - b, a * b, a / b, std::sqrt and  *)
(* std::fma under the host's rounding mode, with the flags of <cfenv>.     *)
(* The host is external: it rounds the exact result once, as IEEE 754      *)
(* says.  For binary32 the constants are 8, 23 and 149.                    *)
(*                                                                         *)
(* A float is the word of its bits.  The magnitude of a finite one is a    *)
(* whole number of units of 2^-Scale, the least subnormal.                 *)
(***************************************************************************)
EXTENDS Words

CONSTANTS
  ExpBits,     \* bits of the exponent
  FracBits,    \* bits of the fraction
  Scale,       \* 1.0 is 2^Scale units
  FmaInvalid   \* the host's fma(inf, 0, qNaN) is an invalid operation

ASSUME FloatAssumption ==
  /\ ExpBits \in Nat \ {0, 1}
  /\ FracBits \in Nat \ {0}
  /\ XLEN = 1 + ExpBits + FracBits
  /\ Scale \in 0 .. FracBits + 2^ExpBits - 3   \* 1.0 is a number
  /\ FmaInvalid \in BOOLEAN

Sign(a) == Bit(a, XLEN - 1)
Exponent(a) == (a \div 2^FracBits) % 2^ExpBits
Fraction(a) == a % 2^FracBits
TopExponent == 2^ExpBits - 1

SignWord(s) == s * MinSigned
Magn(a) == a % MinSigned
Negated(a) == IF Sign(a) = 1 THEN a - MinSigned ELSE a + MinSigned
WithSign(s, magnitude) == SignWord(s) + magnitude

Infinity == TopExponent * 2^FracBits
QuietBit == 2^(FracBits - 1)
CanonicalNaN == Infinity + QuietBit
\* The NaN an invalid operation gives on an x86 host.
HostNaN == Negated(CanonicalNaN)

IsNaN(a) == Exponent(a) = TopExponent /\ Fraction(a) # 0
IsSNaN(a) == IsNaN(a) /\ Fraction(a) < QuietBit
IsInf(a) == Magn(a) = Infinity
IsZero(a) == Magn(a) = 0
IsFinite(a) == Exponent(a) # TopExponent

\* Units of a finite magnitude, and the magnitude of so many units.
One == 2^Scale
Hidden == 2^FracBits
Units(a) ==
  IF Exponent(a) = 0 THEN Fraction(a) ELSE (Hidden + Fraction(a)) * 2^(Exponent(a) - 1)
LargestUnits == (2 * Hidden - 1) * 2^(TopExponent - 2)

Value(a) == IF Sign(a) = 1 THEN -Units(a) ELSE Units(a)

\* A binade [Hidden * step, 2 * Hidden * step) has steps of a power of two.
Step(u) ==
  IF u < Hidden THEN 1
  ELSE 2^(CHOOSE e \in 0 .. u : u \div 2^e \in Hidden .. 2 * Hidden - 1)

Packed(u) ==
  IF u < Hidden THEN u
  ELSE (CHOOSE e \in 1 .. TopExponent - 1 : Step(u) = 2^(e - 1)) * Hidden
         + (u \div Step(u)) - Hidden

(***************************************************************************)
(* Rounding.  Nearest(s, p, q, rm) is the whole number that the quotient   *)
(* p / q of sign s is rounded to.                                          *)
(***************************************************************************)
RoundingModes == {"RNE", "RTZ", "RDN", "RUP", "RMM"}

Nearest(s, p, q, rm) ==
  LET n == p \div q
      r == p % q
      up == CASE rm = "RNE" -> 2 * r > q \/ (2 * r = q /\ n % 2 = 1)
              [] rm = "RTZ" -> FALSE
              [] rm = "RDN" -> s = 1 /\ r > 0
              [] rm = "RUP" -> s = 0 /\ r > 0
              [] rm = "RMM" -> 2 * r >= q
  IN  IF up THEN n + 1 ELSE n

\* HostRoundingGuard: the host has no mode for RMM.
HostMode(rm) == IF rm = "RMM" THEN "RNE" ELSE rm

Outcome(bits, flags) == [bits |-> bits, flags |-> flags]
Exact(bits) == Outcome(bits, {})
Invalid == Outcome(HostNaN, {"NV"})

\* The result p / q units of sign s, p # 0: once rounded, infinite or the
\* largest number if it is too large, and underflowed if it is inexact and
\* below the least normal after rounding.
Rounded(s, p, q, rm) ==
  LET mode == HostMode(rm)
      step == Step(p \div q)
      u == step * Nearest(s, p, q * step, mode)
      inexact == u * q # p
      away == \/ mode = "RNE"
              \/ mode = "RDN" /\ s = 1
              \/ mode = "RUP" /\ s = 0
      tiny == p < Hidden * q /\ Nearest(s, 2 * p, q, mode) < 2 * Hidden
  IN  IF u > LargestUnits
      THEN Outcome(WithSign(s, IF away THEN Infinity ELSE Infinity - 1), {"OF", "NX"})
      ELSE Outcome(WithSign(s, Packed(u)),
                   IF ~inexact THEN {} ELSE IF tiny THEN {"NX", "UF"} ELSE {"NX"})

\* An exact zero: the sign both terms have, or the sign of the mode.
ZeroSum(s, t, rm) == SignWord(IF s = t THEN s ELSE IF HostMode(rm) = "RDN" THEN 1 ELSE 0)

Differ(s, t) == IF s = t THEN 0 ELSE 1

(***************************************************************************)
(* The host's operations.  A sum and a product are fused multiply-adds by  *)
(* one and to a zero of the product's sign.                                *)
(***************************************************************************)
AnySNaN(operands) == \E a \in operands : IsSNaN(a)
QuietNaN(operands) == Outcome(HostNaN, IF AnySNaN(operands) THEN {"NV"} ELSE {})

Fma(a, b, c, rm) ==
  LET s == Differ(Sign(a), Sign(b))
      zeroTimesInf == (IsInf(a) /\ IsZero(b)) \/ (IsZero(a) /\ IsInf(b))
      product == (IF s = 1 THEN -1 ELSE 1) * Units(a) * Units(b)
      sum == product + Value(c) * One
  IN  IF zeroTimesInf /\ (FmaInvalid \/ ~IsNaN(c)) THEN Invalid
      ELSE IF \E d \in {a, b, c} : IsNaN(d) THEN QuietNaN({a, b, c})
      ELSE IF IsInf(a) \/ IsInf(b)
      THEN IF IsInf(c) /\ Sign(c) # s THEN Invalid ELSE Exact(WithSign(s, Infinity))
      ELSE IF IsInf(c) THEN Exact(c)
      ELSE IF sum = 0 THEN Exact(ZeroSum(s, Sign(c), rm))
      ELSE Rounded(IF sum < 0 THEN 1 ELSE 0, IF sum < 0 THEN -sum ELSE sum, One, rm)

OneFloat == Packed(One)
Add(a, b, rm) == Fma(a, OneFloat, b, rm)
Sub(a, b, rm) == Add(a, Negated(b), rm)
Mul(a, b, rm) == Fma(a, b, SignWord(Differ(Sign(a), Sign(b))), rm)

Div(a, b, rm) ==
  LET s == Differ(Sign(a), Sign(b))
  IN  IF IsNaN(a) \/ IsNaN(b) THEN QuietNaN({a, b})
      ELSE IF (IsInf(a) /\ IsInf(b)) \/ (IsZero(a) /\ IsZero(b)) THEN Invalid
      ELSE IF IsInf(a) THEN Exact(WithSign(s, Infinity))
      ELSE IF IsZero(b) THEN Outcome(WithSign(s, Infinity), {"DZ"})
      ELSE IF IsInf(b) \/ IsZero(a) THEN Exact(SignWord(s))
      ELSE Rounded(s, Units(a) * One, Units(b), rm)

\* The root to 2^-8 of a unit, one more bit telling an inexact root.
RootBits == 8
RootWidth == (2^ExpBits + FracBits + Scale) \div 2 + RootBits

Sqrt(a, rm) ==
  LET square == Units(a) * One * 2^(2 * RootBits)
      digits[k \in 0 .. RootWidth] ==
        IF k = 0 THEN 0
        ELSE LET n == digits[k - 1] + 2^(RootWidth - k)
             IN  IF n * n <= square THEN n ELSE digits[k - 1]
      root == digits[RootWidth]
  IN  IF IsNaN(a) THEN QuietNaN({a})
      ELSE IF IsZero(a) THEN Exact(a)
      ELSE IF Sign(a) = 1 THEN Invalid
      ELSE IF IsInf(a) THEN Exact(a)
      ELSE Rounded(0, 2 * root + (IF root * root = square THEN 0 ELSE 1),
                   2^(RootBits + 1), rm)

\* static_cast<float> of an integer.
OfInteger(n, rm) ==
  IF n = 0 THEN Exact(0)
  ELSE Rounded(IF n < 0 THEN 1 ELSE 0, (IF n < 0 THEN -n ELSE n) * One, 1, rm)

\* a < b, a <= b and a = b of C++; all false of a NaN.
Ordered(a, b) == ~IsNaN(a) /\ ~IsNaN(b)
\* The order of the extended values, infinities beyond every number.
Rank(a) == IF IsInf(a) THEN (IF Sign(a) = 1 THEN -1 ELSE 1) * (LargestUnits + 1) ELSE Value(a)
Less(a, b) == Ordered(a, b) /\ Rank(a) < Rank(b)
LessEqual(a, b) == Ordered(a, b) /\ Rank(a) <= Rank(b)
Equal(a, b) == Ordered(a, b) /\ Rank(a) = Rank(b)
=============================================================================
