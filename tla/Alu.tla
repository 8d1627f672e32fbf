-------------------------------- MODULE Alu --------------------------------
(***************************************************************************)
(* What the integer instructions compute: the arithmetic of rv32i, rv32m,  *)
(* zba, zbb, zbs and zicond::Executor, by the expressions of the code.     *)
(* Compute(type, a, b, imm) is the word written to rd when rs1 holds a and *)
(* rs2 holds b; an immediate is a signed number, a shift amount included.  *)
(***************************************************************************)
EXTENDS Words, Sequences

(***************************************************************************)
(* rv32i::Executor, register and immediate forms.                          *)
(***************************************************************************)
ImmTypes == {"ADDI", "SLTI", "SLTIU", "XORI", "ORI", "ANDI", "SLLI", "SRLI", "SRAI"}
RegTypes == {"ADD", "SUB", "SLL", "SLT", "SLTU", "XOR", "SRL", "SRA", "OR", "AND"}

Truth(p) == IF p THEN 1 ELSE 0

BaseImm(type, a, imm) ==
  CASE type = "ADDI" -> Trunc(a + imm)
    [] type = "SLTI" -> Truth(Signed(a) < imm)
    [] type = "SLTIU" -> Truth(a < Trunc(imm))
    [] type = "XORI" -> Xor(a, Trunc(imm))
    [] type = "ORI" -> Or(a, Trunc(imm))
    [] type = "ANDI" -> And(a, Trunc(imm))
    [] type = "SLLI" -> Shl(a, Shamt(imm))
    [] type = "SRLI" -> Shr(a, Shamt(imm))
    [] type = "SRAI" -> Sar(a, Shamt(imm))

BaseReg(type, a, b) ==
  CASE type = "ADD" -> Trunc(a + b)
    [] type = "SUB" -> Trunc(a - b)
    [] type = "SLL" -> Shl(a, Shamt(b))
    [] type = "SLT" -> Truth(Signed(a) < Signed(b))
    [] type = "SLTU" -> Truth(a < b)
    [] type = "XOR" -> Xor(a, b)
    [] type = "SRL" -> Shr(a, Shamt(b))
    [] type = "SRA" -> Sar(a, Shamt(b))
    [] type = "OR" -> Or(a, b)
    [] type = "AND" -> And(a, b)

(***************************************************************************)
(* rv32m::Executor.                                                        *)
(***************************************************************************)
MTypes == {"MUL", "MULH", "MULHSU", "MULHU", "DIV", "DIVU", "REM", "REMU"}

\* int64_t from a 64-bit pattern, and its upper half.
Signed64(n) == LET m == n % 2^(2 * XLEN) IN IF m >= 2^(2 * XLEN - 1) THEN m - 2^(2 * XLEN) ELSE m
UpperHalf(n) == Trunc(n \div 2^XLEN)

Magnitude(n) == IF n < 0 THEN -n ELSE n

\* The division of C++ rounds towards zero.
Quotient(n, d) ==
  LET q == Magnitude(n) \div Magnitude(d) IN IF (n < 0) = (d < 0) THEN q ELSE -q
Remainder(n, d) == n - d * Quotient(n, d)

\* The case that overflows is left to the host.
DivideBug(a, b) ==
  IF b = 0 THEN AllOnes
  ELSE IF a = MinSigned /\ Signed(b) = -1 THEN AllOnes
  ELSE Trunc(Quotient(Signed(a), Signed(b)))

Divide(a, b) ==
  IF b = 0 THEN AllOnes
  ELSE IF a = MinSigned /\ Signed(b) = -1 THEN MinSigned
  ELSE Trunc(Quotient(Signed(a), Signed(b)))

Modulo(a, b) ==
  IF b = 0 THEN a
  ELSE IF a = MinSigned /\ Signed(b) = -1 THEN 0
  ELSE Trunc(Remainder(Signed(a), Signed(b)))

\* The unsigned operand makes the whole product unsigned 64-bit arithmetic;
\* the result is read back as int64_t.
MulHsuBug(a, b) == UpperHalf(a * b)
MulHsu(a, b) == UpperHalf(Signed64((Signed(a) % 2^(2 * XLEN)) * b))

MulDiv(type, a, b) ==
  CASE type = "MUL" -> Trunc(a * b)
    [] type = "MULH" -> UpperHalf(Signed(a) * Signed(b))
    [] type = "MULHSU" -> MulHsu(a, b)
    [] type = "MULHU" -> UpperHalf(a * b)
    [] type = "DIV" -> Divide(a, b)
    [] type = "DIVU" -> IF b = 0 THEN AllOnes ELSE a \div b
    [] type = "REM" -> Modulo(a, b)
    [] type = "REMU" -> IF b = 0 THEN a ELSE a % b

(***************************************************************************)
(* zbb::Executor and its helpers.                                          *)
(***************************************************************************)
ZbbTypes ==
  {"ANDN", "ORN", "XNOR", "CLZ", "CTZ", "CPOP", "MIN", "MAX", "MINU", "MAXU",
   "SEXT_B", "SEXT_H", "ZEXT_H", "ROL", "ROR", "RORI", "ORC_B", "REV8"}

\* Binary search: if the upper half of what is left is zero, count it and
\* shift it out.
Clz(a) ==
  LET search[k \in 0 .. ShamtBits] ==
        IF k = 0 THEN [n |-> 0, x |-> a]
        ELSE LET s == search[k - 1]
                 half == XLEN \div 2^k
             IN  IF Shr(s.x, XLEN - half) = 0
                 THEN [n |-> s.n + half, x |-> Shl(s.x, half)] ELSE s
  IN  IF a = 0 THEN XLEN ELSE search[ShamtBits].n

\* The last halving is forgotten.
CtzBug(a) == IF a = 0 THEN XLEN ELSE CHOOSE n \in Positions : n % 2 = 0 /\ a % 2^n = 0

Ctz(a) ==
  LET search[k \in 0 .. ShamtBits] ==
        IF k = 0 THEN [n |-> 0, x |-> a]
        ELSE LET s == search[k - 1]
                 half == XLEN \div 2^k
             IN  IF s.x % 2^half = 0 THEN [n |-> s.n + half, x |-> Shr(s.x, half)] ELSE s
  IN  IF a = 0 THEN XLEN ELSE search[ShamtBits].n

\* 0x55555555, 0x33333333, 0x0F0F0F0F: groups of k ones and k zeros.
Mask(k) == FromOnes({i \in Positions : (i \div k) % 2 = 0})

\* Counts of pairs, nibbles and bytes side by side, then the bytes added up.
PopCount(a) ==
  LET pairs == a - And(Shr(a, 1), Mask(1))
      nibbles == And(pairs, Mask(2)) + And(Shr(pairs, 2), Mask(2))
      bytes == And(Trunc(nibbles + Shr(nibbles, 4)), Mask(4))
      added[k \in 3 .. ShamtBits] ==
        IF k = 3 THEN bytes
        ELSE Trunc(added[k - 1] + Shr(added[k - 1], 2^(k - 1)))
  IN  added[ShamtBits] % 2^(ShamtBits + 1)

\* A rotation by zero is apart: a shift by the whole width is undefined.
RotateLeft(a, k) == IF k = 0 THEN a ELSE Or(Shl(a, k), Shr(a, XLEN - k))

\* The upper half is shifted by one too few.
RotateRightBug(a, k) == IF k = 0 THEN a ELSE Or(Shr(a, k), Shl(a, XLEN - 1 - k))

RotateRight(a, k) == IF k = 0 THEN a ELSE Or(Shr(a, k), Shl(a, XLEN - k))

Byte(a, i) == (a \div 2^(i * ByteBits)) % 2^ByteBits
OfBytes(b0, b1, b2, b3) ==
  b0 + b1 * 2^ByteBits + b2 * 2^(2 * ByteBits) + b3 * 2^(3 * ByteBits)

OrcB(a) ==
  LET spread(i) == IF Byte(a, i) = 0 THEN 0 ELSE 2^ByteBits - 1
  IN  OfBytes(spread(0), spread(1), spread(2), spread(3))

Rev8(a) == OfBytes(Byte(a, 3), Byte(a, 2), Byte(a, 1), Byte(a, 0))

Least(m, n) == IF n < m THEN n ELSE m
Greatest(m, n) == IF n > m THEN n ELSE m

BitManip(type, a, b, imm) ==
  CASE type = "ANDN" -> And(a, Not(b))
    [] type = "ORN" -> Or(a, Not(b))
    [] type = "XNOR" -> Not(Xor(a, b))
    [] type = "CLZ" -> Clz(a)
    [] type = "CTZ" -> Ctz(a)
    [] type = "CPOP" -> PopCount(a)
    [] type = "MIN" -> Trunc(Least(Signed(a), Signed(b)))
    [] type = "MAX" -> Trunc(Greatest(Signed(a), Signed(b)))
    [] type = "MINU" -> Least(a, b)
    [] type = "MAXU" -> Greatest(a, b)
    [] type = "SEXT_B" -> SignExtend(a, ByteBits)
    [] type = "SEXT_H" -> SignExtend(a, HalfBits)
    [] type = "ZEXT_H" -> a % 2^HalfBits
    [] type = "ROL" -> RotateLeft(a, Shamt(b))
    [] type = "ROR" -> RotateRight(a, Shamt(b))
    [] type = "RORI" -> RotateRight(a, Shamt(imm))
    [] type = "ORC_B" -> OrcB(a)
    [] type = "REV8" -> Rev8(a)

(***************************************************************************)
(* zba, zbs and zicond::Executor.                                          *)
(***************************************************************************)
ZbaTypes == {"SH1ADD", "SH2ADD", "SH3ADD"}

ShiftAdd(type, a, b) ==
  CASE type = "SH1ADD" -> Trunc(Shl(a, 1) + b)
    [] type = "SH2ADD" -> Trunc(Shl(a, 2) + b)
    [] type = "SH3ADD" -> Trunc(Shl(a, 3) + b)

ZbsRegTypes == {"BSET", "BCLR", "BINV", "BEXT"}
ZbsTypes == ZbsRegTypes \union {"BSETI", "BCLRI", "BINVI", "BEXTI"}

\* The position comes from rs2 or from the immediate.
SingleBit(type, a, b, imm) ==
  LET pos == IF type \in ZbsRegTypes THEN Shamt(b) ELSE Shamt(imm)
      mask == Shl(1, pos)
  IN  CASE type \in {"BSET", "BSETI"} -> Or(a, mask)
        [] type \in {"BCLR", "BCLRI"} -> And(a, Not(mask))
        [] type \in {"BINV", "BINVI"} -> Xor(a, mask)
        [] type \in {"BEXT", "BEXTI"} -> And(Shr(a, pos), 1)

ZicondTypes == {"CZERO_EQZ", "CZERO_NEZ"}

CZero(type, a, b) ==
  CASE type = "CZERO_EQZ" -> IF b = 0 THEN 0 ELSE a
    [] type = "CZERO_NEZ" -> IF b # 0 THEN 0 ELSE a

Compute(type, a, b, imm) ==
  CASE type \in ImmTypes -> BaseImm(type, a, imm)
    [] type \in RegTypes -> BaseReg(type, a, b)
    [] type \in MTypes -> MulDiv(type, a, b)
    [] type \in ZbbTypes -> BitManip(type, a, b, imm)
    [] type \in ZbaTypes -> ShiftAdd(type, a, b)
    [] type \in ZbsTypes -> SingleBit(type, a, b, imm)
    [] type \in ZicondTypes -> CZero(type, a, b)
=============================================================================
