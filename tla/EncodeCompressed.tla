-------------------------- MODULE EncodeCompressed --------------------------
(***************************************************************************)
(* The encoders of the compressed generators (riscv_rv32c_opgen.hpp and    *)
(* riscv_rv32fc_opgen.hpp), hints included.  Drawn operands are the record *)
(* of module Encode with the registers a decoder is to read; a word is the *)
(* number it is in the code.                                               *)
(***************************************************************************)
EXTENDS Encode

NonZero == Regs \ {0}
CShamts == Shamts \ {0}

(***************************************************************************)
(* The pieces of a scattered immediate, <<immediate bit, width, word bit>>,*)
(* in the order in which the generator or-s them into the word.            *)
(***************************************************************************)
ScatterAddSpn == <<<<3, 1, 5>>, <<2, 1, 6>>, <<6, 4, 7>>, <<4, 2, 11>>>>
ScatterWord == <<<<6, 1, 5>>, <<2, 1, 6>>, <<3, 3, 10>>>>
ScatterImm == <<<<0, 5, 2>>, <<5, 1, 12>>>>
ScatterAddSp == <<<<5, 1, 2>>, <<7, 2, 3>>, <<6, 1, 5>>, <<4, 1, 6>>, <<9, 1, 12>>>>
ScatterJump ==
  <<<<5, 1, 2>>, <<1, 3, 3>>, <<7, 1, 6>>, <<6, 1, 7>>, <<10, 1, 8>>, <<8, 2, 9>>,
    <<4, 1, 11>>, <<11, 1, 12>>>>
ScatterBranch == <<<<5, 1, 2>>, <<1, 2, 3>>, <<6, 2, 5>>, <<3, 2, 10>>, <<8, 1, 12>>>>
ScatterLoadSp == <<<<6, 2, 2>>, <<2, 3, 4>>, <<5, 1, 12>>>>
ScatterStoreSp == <<<<6, 2, 7>>, <<2, 4, 9>>>>

Scatter(imm, pieces) ==
  LET sum[i \in 0 .. Len(pieces)] ==
        IF i = 0 THEN 0
        ELSE sum[i - 1] + Piece(imm, pieces[i][1], pieces[i][2]) * 2^pieces[i][3]
  IN  sum[Len(pieces)]

\* The word without its operands: quadrant and function bits.
Skeleton(t) ==
  CASE t = "C_ADDI4SPN" -> 0
    [] t = "C_LW" -> 2 * 8192
    [] t = "C_SW" -> 6 * 8192
    [] t \in {"C_NOP", "C_ADDI", "C_ADDI_X0"} -> 1
    [] t = "C_JAL" -> 8192 + 1
    [] t \in {"C_LI", "C_LI_X0"} -> 2 * 8192 + 1
    [] t \in {"C_ADDI16SP", "C_LUI", "C_LUI_X0"} -> 3 * 8192 + 1
    [] t \in {"C_SRLI", "C_SRLI64"} -> 4 * 8192 + 1
    [] t \in {"C_SRAI", "C_SRAI64"} -> 4 * 8192 + 1024 + 1
    [] t = "C_ANDI" -> 4 * 8192 + 2048 + 1
    [] t = "C_SUB" -> 4 * 8192 + 3072 + 1
    [] t = "C_XOR" -> 4 * 8192 + 3072 + 32 + 1
    [] t = "C_OR" -> 4 * 8192 + 3072 + 64 + 1
    [] t = "C_AND" -> 4 * 8192 + 3072 + 96 + 1
    [] t = "C_J" -> 5 * 8192 + 1
    [] t = "C_BEQZ" -> 6 * 8192 + 1
    [] t = "C_BNEZ" -> 7 * 8192 + 1
    [] t \in {"C_SLLI", "C_SLLI_X0", "C_SLLI64"} -> 2
    [] t = "C_LWSP" -> 2 * 8192 + 2
    [] t \in {"C_JR", "C_MV", "C_MV_X0"} -> 4 * 8192 + 2
    [] t \in {"C_EBREAK", "C_JALR", "C_ADD", "C_ADD_X0"} -> 4 * 8192 + 4096 + 2
    [] t = "C_SWSP" -> 6 * 8192 + 2
    [] t = "C_FLW" -> 3 * 8192
    [] t = "C_FSW" -> 7 * 8192
    [] t = "C_FLWSP" -> 3 * 8192 + 2
    [] t = "C_FSWSP" -> 7 * 8192 + 2

\* The five-bit and the three-bit register fields.
At7(r) == r * 128
At2(r) == r * 4
High(r) == (r % 8) * 128
Low(r) == (r % 8) * 4

Encode16(d) ==
  LET t == d.type
  IN  Skeleton(t) +
      CASE t = "C_ADDI4SPN" -> Low(d.rd) + Scatter(d.imm, ScatterAddSpn)
        [] t \in {"C_LW", "C_FLW"} -> Low(d.rd) + High(d.rs1) + Scatter(d.imm, ScatterWord)
        [] t \in {"C_SW", "C_FSW"} -> Low(d.rs2) + High(d.rs1) + Scatter(d.imm, ScatterWord)
        [] t \in {"C_NOP", "C_EBREAK"} -> 0
        [] t \in {"C_JAL", "C_J"} -> Scatter(d.imm, ScatterJump)
        [] t \in {"C_ADDI", "C_LI", "C_SLLI", "C_ADDI_X0", "C_LI_X0", "C_SLLI_X0", "C_SLLI64"} ->
             At7(d.rd) + Scatter(d.imm, ScatterImm)
        [] t \in {"C_LUI", "C_LUI_X0"} -> At7(d.rd) + Scatter(d.imm \div 4096, ScatterImm)
        [] t = "C_ADDI16SP" -> At7(2) + Scatter(d.imm, ScatterAddSp)
        [] t \in {"C_SRLI", "C_SRAI", "C_ANDI", "C_SRLI64", "C_SRAI64"} ->
             High(d.rd) + Scatter(d.imm, ScatterImm)
        [] t \in {"C_SUB", "C_XOR", "C_OR", "C_AND"} -> High(d.rd) + Low(d.rs2)
        [] t \in {"C_BEQZ", "C_BNEZ"} -> High(d.rs1) + Scatter(d.imm, ScatterBranch)
        [] t \in {"C_LWSP", "C_FLWSP"} -> At7(d.rd) + Scatter(d.imm, ScatterLoadSp)
        [] t \in {"C_SWSP", "C_FSWSP"} -> At2(d.rs2) + Scatter(d.imm, ScatterStoreSp)
        [] t \in {"C_JR", "C_JALR"} -> At7(d.rs1)
        [] t \in {"C_MV", "C_ADD", "C_MV_X0", "C_ADD_X0"} -> At7(d.rd) + At2(d.rs2)

(***************************************************************************)
(* What the generators draw.  Registers an instruction implies are filled  *)
(* in as the decoder is to report them.                                    *)
(***************************************************************************)
\* An operand that is read and written.
Same(ds) == {d \in ds : d.rd = d.rs1}

COperands(t) ==
  CASE t = "C_ADDI4SPN" -> Drawn(t, CRegs, {2}, {0}, {4 * v : v \in UnsignedProbes(8) \ {0}})
    [] t = "C_LW" -> Drawn(t, CRegs, CRegs, {0}, {4 * v : v \in UnsignedProbes(5)})
    [] t = "C_SW" -> Drawn(t, {0}, CRegs, CRegs, {4 * v : v \in UnsignedProbes(5)})
    [] t = "C_NOP" -> Drawn(t, {0}, {0}, {0}, {0})
    [] t = "C_ADDI" -> Same(Drawn(t, NonZero, NonZero, {0}, Probes(6) \ {0}))
    [] t = "C_JAL" -> Drawn(t, {1}, {0}, {0}, EvenProbes(12))
    [] t = "C_LI" -> Drawn(t, NonZero, {0}, {0}, Probes(6))
    [] t = "C_ADDI16SP" -> Drawn(t, {2}, {2}, {0}, {16 * v : v \in Probes(6) \ {0}})
    [] t = "C_LUI" -> Drawn(t, NonZero \ {2}, {0}, {0}, {4096 * v : v \in Probes(6) \ {0}})
    [] t \in {"C_SRLI", "C_SRAI"} -> Same(Drawn(t, CRegs, CRegs, {0}, CShamts))
    [] t = "C_ANDI" -> Same(Drawn(t, CRegs, CRegs, {0}, Probes(6)))
    [] t \in {"C_SUB", "C_XOR", "C_OR", "C_AND"} -> Same(Drawn(t, CRegs, CRegs, CRegs, {0}))
    [] t = "C_J" -> Drawn(t, {0}, {0}, {0}, EvenProbes(12))
    [] t \in {"C_BEQZ", "C_BNEZ"} -> Drawn(t, {0}, CRegs, {0}, EvenProbes(9))
    [] t = "C_SLLI" -> Same(Drawn(t, NonZero, NonZero, {0}, CShamts))
    [] t = "C_LWSP" -> Drawn(t, NonZero, {2}, {0}, {4 * v : v \in UnsignedProbes(6)})
    [] t = "C_JR" -> Drawn(t, {0}, NonZero, {0}, {0})
    [] t = "C_MV" -> Drawn(t, NonZero, {0}, NonZero, {0})
    [] t = "C_EBREAK" -> Drawn(t, {0}, {0}, {0}, {0})
    [] t = "C_JALR" -> Drawn(t, {1}, NonZero, {0}, {0})
    [] t = "C_ADD" -> Same(Drawn(t, NonZero, NonZero, NonZero, {0}))
    [] t = "C_SWSP" -> Drawn(t, {0}, {2}, Regs, {4 * v : v \in UnsignedProbes(6)})

\* "HINTs are architecturally VALID encodings that execute as NOPs"
HintTypes ==
  {"C_ADDI_X0", "C_LI_X0", "C_LUI_X0", "C_MV_X0", "C_ADD_X0",
   "C_SLLI_X0", "C_SLLI64", "C_SRLI64", "C_SRAI64"}

HintOperands(t) ==
  CASE t = "C_ADDI_X0" -> Drawn(t, {0}, {0}, {0}, Probes(6) \ {0})
    [] t = "C_LI_X0" -> Drawn(t, {0}, {0}, {0}, Probes(6))
    [] t = "C_LUI_X0" -> Drawn(t, {0}, {0}, {0}, {4096 * v : v \in Probes(6) \ {0}})
    [] t = "C_MV_X0" -> Drawn(t, {0}, {0}, NonZero, {0})
    [] t = "C_ADD_X0" -> Drawn(t, {0}, {0}, NonZero, {0})
    [] t = "C_SLLI_X0" -> Drawn(t, {0}, {0}, {0}, Shamts)
    [] t = "C_SLLI64" -> Same(Drawn(t, NonZero, NonZero, {0}, {0}))
    [] t \in {"C_SRLI64", "C_SRAI64"} -> Same(Drawn(t, CRegs, CRegs, {0}, {0}))

\* "f0 is a valid destination (unlike x0 for C.LWSP)"
FcOperands(t) ==
  CASE t = "C_FLW" -> Drawn(t, CRegs, CRegs, {0}, {4 * v : v \in UnsignedProbes(5)})
    [] t = "C_FSW" -> Drawn(t, {0}, CRegs, CRegs, {4 * v : v \in UnsignedProbes(5)})
    [] t = "C_FLWSP" -> Drawn(t, Regs, {2}, {0}, {4 * v : v \in UnsignedProbes(6)})
    [] t = "C_FSWSP" -> Drawn(t, {0}, {2}, Regs, {4 * v : v \in UnsignedProbes(6)})
=============================================================================
