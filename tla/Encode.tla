------------------------------- MODULE Encode -------------------------------
(***************************************************************************)
(* The encoders of the opcode generators: how each generator puts the      *)
(* operands it has drawn into an instruction word.  They are written       *)
(* apart from the decoders in the code, and here.                          *)
(*                                                                         *)
(* Drawn operands are a record [type, rd, rs1, rs2, imm], 0 for what the   *)
(* format lacks.  The imm of an instruction of OP_FP is its rounding mode, *)
(* that of a fused one its third source and rounding mode, that of an AMO  *)
(* its bits aq and rl, that of a CSR instruction the address.              *)
(***************************************************************************)
EXTENDS Integers, Sequences

CONSTANTS
  Regs,    \* register numbers the generators draw from 0 .. 31
  CRegs,   \* and from the registers x8 to x15 of the compressed formats
  FpRms,   \* and from the rounding modes {0, 1, 2, 3, 4, 7}
  AmoBits  \* and from the four values of aq and rl

\* There is something to draw, for a field that may be neither x0 nor x2 too.
ASSUME DrawAssumption ==
  /\ Regs \subseteq 0 .. 31 /\ Regs \ {0, 2} # {}
  /\ CRegs \subseteq 8 .. 15 /\ CRegs # {}
  /\ FpRms \subseteq {0, 1, 2, 3, 4, 7} /\ FpRms # {}
  /\ AmoBits \subseteq 0 .. 3 /\ AmoBits # {}

(***************************************************************************)
(* encode_r_type, encode_i_type, ...: the word as the record of module     *)
(* Decode.                                                                 *)
(***************************************************************************)
EncodeR(f7, rs2, rs1, f3, rd, op) ==
  [op |-> op, f7 |-> f7, rs2 |-> rs2, rs1 |-> rs1, f3 |-> f3, rd |-> rd]

EncodeI(imm, rs1, f3, rd, op) ==
  EncodeR((imm % 4096) \div 32, imm % 32, rs1, f3, rd, op)

\* The sign bits of the immediate are not masked off.
EncodeSBug(imm, rs2, rs1, f3, op) ==
  EncodeR(imm \div 32, rs2, rs1, f3, imm % 32, op)

EncodeS(imm, rs2, rs1, f3, op) ==
  EncodeR((imm % 4096) \div 32, rs2, rs1, f3, imm % 32, op)

\* The piece of n bits of an immediate from bit lo on.
Piece(imm, lo, n) == (imm \div 2^lo) % 2^n

EncodeB(imm, rs2, rs1, f3, op) ==
  EncodeR(Piece(imm, 12, 1) * 64 + Piece(imm, 5, 6), rs2, rs1, f3,
          Piece(imm, 1, 4) * 2 + Piece(imm, 11, 1), op)

\* The immediate in units of 4096.
EncodeU(imm, rd, op) ==
  EncodeR(Piece(imm, 13, 7), Piece(imm, 8, 5), Piece(imm, 3, 5), Piece(imm, 0, 3), rd, op)

EncodeJ(imm, rd, op) ==
  EncodeR(Piece(imm, 20, 1) * 64 + Piece(imm, 5, 6),
          Piece(imm, 1, 4) * 2 + Piece(imm, 11, 1),
          Piece(imm, 15, 5), Piece(imm, 12, 3), rd, op)

(***************************************************************************)
(* What is drawn for a format.  A signed immediate of n bits is drawn from *)
(* its extremes and the values with one bit set: each bit of the word is   *)
(* set by one of them.                                                     *)
(***************************************************************************)
Probes(n) == {0, -1, -(2^(n - 1))} \union {2^k : k \in 0 .. n - 2}
EvenProbes(n) == {2 * v : v \in Probes(n - 1)}
UnsignedProbes(n) == {0, 2^n - 1} \union {2^k : k \in 0 .. n - 1}
Shamts == UnsignedProbes(5)

Drawn(t, rds, rs1s, rs2s, imms) == [type : {t}, rd : rds, rs1 : rs1s, rs2 : rs2s, imm : imms]

\* A row of a table of instructions: format, major opcode, funct7, funct3.
Row(format, op, f7, f3) == [format |-> format, op |-> op, f7 |-> f7, f3 |-> f3]

Operands(r, t) ==
  CASE r.format = "U" -> Drawn(t, Regs, {0}, {0}, UnsignedProbes(20))
    [] r.format = "J" -> Drawn(t, Regs, {0}, {0}, EvenProbes(21))
    [] r.format = "I" -> Drawn(t, Regs, Regs, {0}, Probes(12))
    [] r.format = "B" -> Drawn(t, {0}, Regs, Regs, EvenProbes(13))
    [] r.format = "S" -> Drawn(t, {0}, Regs, Regs, Probes(12))
    [] r.format = "shift" -> Drawn(t, Regs, Regs, {0}, {r.f7 * 32 + s : s \in Shamts})
    [] r.format = "unary" -> Drawn(t, Regs, Regs, {0}, {r.f7})
    [] r.format = "R" -> Drawn(t, Regs, Regs, IF t = "ZEXT_H" THEN {0} ELSE Regs, {0})
    [] r.format = "fence" ->
         Drawn(t, {0}, {0}, {0}, {p - 2048 * tso : tso \in {0, 1}, p \in UnsignedProbes(8)})
    [] r.format = "fixed" -> Drawn(t, {0}, {0}, {0}, {r.f7})
    [] r.format = "AMO" -> Drawn(t, Regs, Regs, IF t = "LR_W" THEN {0} ELSE Regs, AmoBits)
    [] r.format = "FR" -> Drawn(t, Regs, Regs, Regs, IF r.f3 = 8 THEN FpRms ELSE {r.f3})
    [] r.format = "F1" -> Drawn(t, Regs, Regs, {r.rs2}, IF r.f3 = 8 THEN FpRms ELSE {r.f3})
    [] r.format = "R4" -> Drawn(t, Regs, Regs, Regs, {rs3 * 8 + rm : rs3 \in Regs, rm \in FpRms})

\* The word of the operands.  For "unary" and "fixed" the row has the twelve
\* upper bits of the word in place of funct7.
Encode32(r, d) ==
  CASE r.format = "U" -> EncodeU(d.imm, d.rd, r.op)
    [] r.format = "J" -> EncodeJ(d.imm, d.rd, r.op)
    [] r.format \in {"I", "shift", "unary", "fence", "fixed"} ->
         EncodeI(d.imm, d.rs1, r.f3, d.rd, r.op)
    [] r.format = "B" -> EncodeB(d.imm, d.rs2, d.rs1, r.f3, r.op)
    [] r.format = "S" -> EncodeS(d.imm, d.rs2, d.rs1, r.f3, r.op)
    [] r.format = "R" -> EncodeR(r.f7, d.rs2, d.rs1, r.f3, d.rd, r.op)
    [] r.format = "AMO" -> EncodeR(r.f7 * 4 + d.imm, d.rs2, d.rs1, 2, d.rd, r.op)
    [] r.format \in {"FR", "F1"} -> EncodeR(r.f7, d.rs2, d.rs1, d.imm, d.rd, r.op)
    [] r.format = "R4" -> EncodeR((d.imm \div 8) * 4, d.rs2, d.rs1, d.imm % 8, d.rd, r.op)

(***************************************************************************)
(* The generators' tables: gen_lui, gen_auipc, ... of each file.           *)
(***************************************************************************)
BaseTable ==
  [LUI |-> Row("U", "LUI", 0, 0), AUIPC |-> Row("U", "AUIPC", 0, 0),
   JAL |-> Row("J", "JAL", 0, 0), JALR |-> Row("I", "JALR", 0, 0),
   BEQ |-> Row("B", "BRANCH", 0, 0), BNE |-> Row("B", "BRANCH", 0, 1),
   BLT |-> Row("B", "BRANCH", 0, 4), BGE |-> Row("B", "BRANCH", 0, 5),
   BLTU |-> Row("B", "BRANCH", 0, 6), BGEU |-> Row("B", "BRANCH", 0, 7),
   LB |-> Row("I", "LOAD", 0, 0), LH |-> Row("I", "LOAD", 0, 1),
   LW |-> Row("I", "LOAD", 0, 2), LBU |-> Row("I", "LOAD", 0, 4),
   LHU |-> Row("I", "LOAD", 0, 5), SB |-> Row("S", "STORE", 0, 0),
   SH |-> Row("S", "STORE", 0, 1), SW |-> Row("S", "STORE", 0, 2),
   ADDI |-> Row("I", "OP_IMM", 0, 0), SLTI |-> Row("I", "OP_IMM", 0, 2),
   SLTIU |-> Row("I", "OP_IMM", 0, 3), XORI |-> Row("I", "OP_IMM", 0, 4),
   ORI |-> Row("I", "OP_IMM", 0, 6), ANDI |-> Row("I", "OP_IMM", 0, 7),
   SLLI |-> Row("shift", "OP_IMM", 0, 1), SRLI |-> Row("shift", "OP_IMM", 0, 5),
   SRAI |-> Row("shift", "OP_IMM", 32, 5),
   ADD |-> Row("R", "OP", 0, 0), SUB |-> Row("R", "OP", 32, 0),
   SLL |-> Row("R", "OP", 0, 1), SLT |-> Row("R", "OP", 0, 2),
   SLTU |-> Row("R", "OP", 0, 3), XOR |-> Row("R", "OP", 0, 4),
   SRL |-> Row("R", "OP", 0, 5), SRA |-> Row("R", "OP", 32, 5),
   OR |-> Row("R", "OP", 0, 6), AND |-> Row("R", "OP", 0, 7),
   FENCE |-> Row("fence", "MISC", 0, 0), ECALL |-> Row("fixed", "SYSTEM", 0, 0),
   EBREAK |-> Row("fixed", "SYSTEM", 1, 0)]

MTable ==
  [MUL |-> Row("R", "OP", 1, 0), MULH |-> Row("R", "OP", 1, 1),
   MULHSU |-> Row("R", "OP", 1, 2), MULHU |-> Row("R", "OP", 1, 3),
   DIV |-> Row("R", "OP", 1, 4), DIVU |-> Row("R", "OP", 1, 5),
   REM |-> Row("R", "OP", 1, 6), REMU |-> Row("R", "OP", 1, 7)]

\* The row has funct5 in place of funct7.
ATable ==
  [LR_W |-> Row("AMO", "AMO", 2, 2), SC_W |-> Row("AMO", "AMO", 3, 2),
   AMOSWAP_W |-> Row("AMO", "AMO", 1, 2), AMOADD_W |-> Row("AMO", "AMO", 0, 2),
   AMOXOR_W |-> Row("AMO", "AMO", 4, 2), AMOAND_W |-> Row("AMO", "AMO", 12, 2),
   AMOOR_W |-> Row("AMO", "AMO", 8, 2), AMOMIN_W |-> Row("AMO", "AMO", 16, 2),
   AMOMAX_W |-> Row("AMO", "AMO", 20, 2), AMOMINU_W |-> Row("AMO", "AMO", 24, 2),
   AMOMAXU_W |-> Row("AMO", "AMO", 28, 2)]

\* Funct3 8 stands for a drawn rounding mode.
Fr(f7, f3) == Row("FR", "OP_FP", f7, f3)
F1(f7, rs2, f3) ==
  [format |-> "F1", op |-> "OP_FP", f7 |-> f7, f3 |-> f3, rs2 |-> rs2]

FTable ==
  [FLW |-> Row("I", "LOAD_FP", 0, 2), FSW |-> Row("S", "STORE_FP", 0, 2),
   FADD_S |-> Fr(0, 8), FSUB_S |-> Fr(4, 8), FMUL_S |-> Fr(8, 8), FDIV_S |-> Fr(12, 8),
   FSQRT_S |-> F1(44, 0, 8), FMIN_S |-> Fr(20, 0), FMAX_S |-> Fr(20, 1),
   FMADD_S |-> Row("R4", "MADD", 0, 8), FMSUB_S |-> Row("R4", "MSUB", 0, 8),
   FNMADD_S |-> Row("R4", "NMADD", 0, 8), FNMSUB_S |-> Row("R4", "NMSUB", 0, 8),
   FCVT_W_S |-> F1(96, 0, 8), FCVT_WU_S |-> F1(96, 1, 8),
   FCVT_S_W |-> F1(104, 0, 8), FCVT_S_WU |-> F1(104, 1, 8),
   FMV_X_W |-> F1(112, 0, 0), FMV_W_X |-> F1(120, 0, 0),
   FEQ_S |-> Fr(80, 2), FLT_S |-> Fr(80, 1), FLE_S |-> Fr(80, 0),
   FSGNJ_S |-> Fr(16, 0), FSGNJN_S |-> Fr(16, 1), FSGNJX_S |-> Fr(16, 2),
   FCLASS_S |-> F1(112, 0, 1)]

ZbaTable ==
  [SH1ADD |-> Row("R", "OP", 16, 2), SH2ADD |-> Row("R", "OP", 16, 4),
   SH3ADD |-> Row("R", "OP", 16, 6)]

ZbbTable ==
  [ANDN |-> Row("R", "OP", 32, 7), ORN |-> Row("R", "OP", 32, 6),
   XNOR |-> Row("R", "OP", 32, 4), CLZ |-> Row("unary", "OP_IMM", 1536, 1),
   CTZ |-> Row("unary", "OP_IMM", 1537, 1), CPOP |-> Row("unary", "OP_IMM", 1538, 1),
   MIN |-> Row("R", "OP", 5, 4), MINU |-> Row("R", "OP", 5, 5),
   MAX |-> Row("R", "OP", 5, 6), MAXU |-> Row("R", "OP", 5, 7),
   SEXT_B |-> Row("unary", "OP_IMM", 1540, 1), SEXT_H |-> Row("unary", "OP_IMM", 1541, 1),
   ZEXT_H |-> Row("R", "OP", 4, 4),
   ROL |-> Row("R", "OP", 48, 1), ROR |-> Row("R", "OP", 48, 5),
   RORI |-> Row("shift", "OP_IMM", 48, 5), ORC_B |-> Row("unary", "OP_IMM", 647, 5),
   REV8 |-> Row("unary", "OP_IMM", 1688, 5)]

ZbsTable ==
  [BSET |-> Row("R", "OP", 20, 1), BSETI |-> Row("shift", "OP_IMM", 20, 1),
   BCLR |-> Row("R", "OP", 36, 1), BCLRI |-> Row("shift", "OP_IMM", 36, 1),
   BINV |-> Row("R", "OP", 52, 1), BINVI |-> Row("shift", "OP_IMM", 52, 1),
   BEXT |-> Row("R", "OP", 36, 5), BEXTI |-> Row("shift", "OP_IMM", 36, 5)]

ZicondTable == [CZERO_EQZ |-> Row("R", "OP", 7, 5), CZERO_NEZ |-> Row("R", "OP", 7, 7)]

(***************************************************************************)
(* The CSR generator.  s and u say which modes it was told of; a CSR is    *)
(* its address.                                                            *)
(***************************************************************************)
CsrTypes == {"CSRRW", "CSRRS", "CSRRC", "CSRRWI", "CSRRSI", "CSRRCI"}

\* WR_BASE: fflags, frm, fcsr; mstatus, mie, mtvec, mcounteren, mstatush,
\* menvcfg, menvcfgh; mscratch to mip; mcycle, minstret and their halves.
WritableCsrs(s, u) ==
  {1, 2, 3, 768, 772, 773, 774, 784, 778, 794, 832, 833, 834, 835, 836, 2816, 2818, 2944, 2946}
    \union (IF s \/ u THEN {770, 771} ELSE {})
    \union (IF s THEN {256, 260, 261, 262, 320, 321, 322, 323, 324, 384} ELSE {})

\* RO_POOL: the counters' user aliases, the identification CSRs and misa.
ReadOnlyCsrs ==
  {3072, 3073, 3074, 3200, 3201, 3202, 3857, 3858, 3859, 3860, 3861, 769}

\* A pure read is paired with any CSR; the test of rs1 is forgotten.
CsrOperandsBug(t, s, u) ==
  Drawn(t, Regs, Regs, {0}, WritableCsrs(s, u) \union ReadOnlyCsrs)

\* "rs1 = x0 makes CSRRS a pure read, allowing read-only CSRs"
CsrOperands(t, s, u) ==
  LET writes == Drawn(t, Regs, Regs, {0}, WritableCsrs(s, u))
  IN  IF t \in {"CSRRW", "CSRRWI"} THEN writes
      ELSE writes \union Drawn(t, Regs, {0}, {0}, ReadOnlyCsrs)

CsrFunct3(t) ==
  CASE t = "CSRRW" -> 1 [] t = "CSRRS" -> 2 [] t = "CSRRC" -> 3
    [] t = "CSRRWI" -> 5 [] t = "CSRRSI" -> 6 [] t = "CSRRCI" -> 7

\* encode_csr
EncodeCsr(d) == EncodeI(d.imm, d.rs1, CsrFunct3(d.type), d.rd, "SYSTEM")

(***************************************************************************)
(* The FENCE.I generator: all fields zero, or the ignored ones drawn.      *)
(***************************************************************************)
FenceIOperands(standardOnly) ==
  IF standardOnly THEN Drawn("FENCE_I", {0}, {0}, {0}, {0})
  ELSE Drawn("FENCE_I", Regs, Regs, {0}, Probes(12))

EncodeFenceI(d) == EncodeI(d.imm, d.rs1, 1, d.rd, "MISC")
=============================================================================
