------------------------------- MODULE Words -------------------------------
(***************************************************************************)
(* The machine words of the integer executors: uint32_t arithmetic and     *)
(* the bit operations of C++ on it, for words of XLEN bits.  A word is a   *)
(* natural number; its bit operations are set operations on the positions  *)
(* of its one bits.                                                        *)
(***************************************************************************)
EXTENDS Integers

CONSTANTS
  XLEN,       \* bits of a register; 32 in the code
  ShamtBits   \* bits of a shift amount; 5 in the code (the masks 0x1F)

ASSUME WordAssumption ==
  /\ XLEN \in Nat \ {0}
  /\ ShamtBits \in Nat \ {0}
  /\ XLEN <= 2^ShamtBits

Positions == 0 .. XLEN - 1
Word == 0 .. 2^XLEN - 1

\* static_cast<uint32_t>
Trunc(n) == n % 2^XLEN

\* static_cast<int32_t>
Signed(a) == IF a >= 2^(XLEN - 1) THEN a - 2^XLEN ELSE a

MinSigned == 2^(XLEN - 1)
AllOnes == 2^XLEN - 1

Bit(a, i) == (a \div 2^i) % 2
Ones(a) == {i \in Positions : Bit(a, i) = 1}

\* The word with exactly these bits.
FromOnes(s) ==
  LET sum[i \in 0 .. XLEN] ==
        IF i = 0 THEN 0 ELSE sum[i - 1] + (IF i - 1 \in s THEN 2^(i - 1) ELSE 0)
  IN  sum[XLEN]

And(a, b) == FromOnes(Ones(a) \intersect Ones(b))
Or(a, b) == FromOnes(Ones(a) \union Ones(b))
Xor(a, b) == FromOnes((Ones(a) \ Ones(b)) \union (Ones(b) \ Ones(a)))
Not(a) == AllOnes - a

\* Shifts; the amount is masked by the caller, as in the code.
Shamt(b) == b % 2^ShamtBits
Shl(a, k) == FromOnes({i + k : i \in Ones(a)})
Shr(a, k) == IF k >= XLEN THEN 0 ELSE a \div 2^k
Sar(a, k) == Trunc(Signed(a) \div 2^(IF k >= XLEN THEN XLEN - 1 ELSE k))

\* sign_extend(a & mask, n - 1) for the low n bits.
SignExtend(a, n) ==
  LET low == a % 2^n
  IN  IF low >= 2^(n - 1) THEN Trunc(low - 2^n) ELSE low

\* A byte is a quarter of a register and a halfword half of it.
ByteBits == XLEN \div 4
HalfBits == XLEN \div 2
=============================================================================
