------------------------------- MODULE Decode -------------------------------
(***************************************************************************)
(* The 32-bit instruction decoders, one per extension, and the order in    *)
(* which CPU::execute_32bit asks them (riscv_rv32i.hpp, riscv_rv32m.hpp,   *)
(* riscv_rv32a.hpp, riscv_rv32f.hpp, riscv_zba.hpp, riscv_zbb.hpp,         *)
(* riscv_zbs.hpp, riscv_zicond.hpp, riscv_zicsr.hpp, riscv_zifencei.hpp,   *)
(* riscv_cpu.hpp, riscv_opcode_classify.hpp).                              *)
(*                                                                         *)
(* An instruction word is the record of the six fields of the R format;    *)
(* the immediates are reassembled from them.  The major opcode is its name *)
(* in the code, and "RESERVED" stands for every opcode no decoder knows.   *)
(***************************************************************************)
EXTENDS Integers, Sequences

Illegal == "ILLEGAL"

MajorOps ==
  {"LUI", "AUIPC", "JAL", "JALR", "BRANCH", "LOAD", "STORE", "OP_IMM", "OP",
   "MISC", "SYSTEM", "AMO", "LOAD_FP", "STORE_FP", "MADD", "MSUB", "NMSUB",
   "NMADD", "OP_FP", "RESERVED"}

Word32 == [op : MajorOps, f7 : 0 .. 127, rs2 : 0 .. 31, rs1 : 0 .. 31,
           f3 : 0 .. 7, rd : 0 .. 31]

\* A switch over funct3: the cases in order, No where there is no case.
No == Illegal
Switch(f3, cases) == cases[f3 + 1]

(***************************************************************************)
(* Immediates.  bits(instr, 31, 20) is f7 and rs2, and so on.              *)
(***************************************************************************)
Csr(w) == w.f7 * 32 + w.rs2

\* Sign extension of an n-bit field.
Extended(v, n) == IF v >= 2^(n - 1) THEN v - 2^n ELSE v

ImmI(w) == Extended(Csr(w), 12)
ImmS(w) == Extended(w.f7 * 32 + w.rd, 12)

\* Bits 11 and 0 of the offset are confused.
ImmBBug(w) == Extended((w.f7 \div 64) * 4096 + (w.f7 % 64) * 32 + w.rd, 13)

ImmB(w) ==
  Extended((w.f7 \div 64) * 4096 + (w.rd % 2) * 2048
             + (w.f7 % 64) * 32 + (w.rd \div 2) * 2, 13)

ImmJ(w) ==
  Extended((w.f7 \div 64) * 2^20 + (w.rs1 * 8 + w.f3) * 4096
             + (w.rs2 % 2) * 2048 + (w.f7 % 64) * 32 + (w.rs2 \div 2) * 2, 21)

\* instr & 0xFFFFF000, in units of 4096.
ImmU(w) == Csr(w) * 256 + w.rs1 * 8 + w.f3

\* The operands the decoders put into a decoded instruction, format by
\* format, 0 for what the format lacks.
Read(w) ==
  LET read(rd, rs1, rs2, imm) == [rd |-> rd, rs1 |-> rs1, rs2 |-> rs2, imm |-> imm]
  IN  CASE w.op \in {"LUI", "AUIPC"} -> read(w.rd, 0, 0, ImmU(w))
        [] w.op = "JAL" -> read(w.rd, 0, 0, ImmJ(w))
        [] w.op = "BRANCH" -> read(0, w.rs1, w.rs2, ImmB(w))
        [] w.op \in {"STORE", "STORE_FP"} -> read(0, w.rs1, w.rs2, ImmS(w))
        [] w.op = "OP" -> read(w.rd, w.rs1, w.rs2, 0)
        [] w.op = "AMO" -> read(w.rd, w.rs1, w.rs2, w.f7 % 4)
        [] w.op = "OP_FP" -> read(w.rd, w.rs1, w.rs2, w.f3)
        [] w.op \in {"MADD", "MSUB", "NMSUB", "NMADD"} ->
             read(w.rd, w.rs1, w.rs2, (w.f7 \div 4) * 8 + w.f3)
        [] w.op = "SYSTEM" -> read(w.rd, w.rs1, 0, Csr(w))
        [] OTHER -> read(w.rd, w.rs1, 0, ImmI(w))

(***************************************************************************)
(* rv32i::Decoder.                                                         *)
(***************************************************************************)
BranchType(w) ==
  Switch(w.f3, <<"BEQ", "BNE", No, No, "BLT", "BGE", "BLTU", "BGEU">>)

LoadType(w) == Switch(w.f3, <<"LB", "LH", "LW", No, "LBU", "LHU", No, No>>)

StoreType(w) == Switch(w.f3, <<"SB", "SH", "SW", No, No, No, No, No>>)

OpImmType(w) ==
  CASE w.f3 = 1 -> IF w.f7 = 0 THEN "SLLI" ELSE Illegal
    [] w.f3 = 5 -> IF w.f7 = 0 THEN "SRLI" ELSE IF w.f7 = 32 THEN "SRAI" ELSE Illegal
    [] OTHER -> Switch(w.f3, <<"ADDI", No, "SLTI", "SLTIU", "XORI", No, "ORI", "ANDI">>)

\* Every funct7 but SUB's and SRA's is taken for the base one.
OpTypeBug(w) ==
  IF w.f7 = 32 THEN Switch(w.f3, <<"SUB", No, No, No, No, "SRA", No, No>>)
  ELSE Switch(w.f3, <<"ADD", "SLL", "SLT", "SLTU", "XOR", "SRL", "OR", "AND">>)

OpType(w) ==
  CASE w.f7 = 0 -> Switch(w.f3, <<"ADD", "SLL", "SLT", "SLTU", "XOR", "SRL", "OR", "AND">>)
    [] w.f7 = 32 -> Switch(w.f3, <<"SUB", No, No, No, No, "SRA", No, No>>)
    [] OTHER -> Illegal

\* The fixed words compare every field; sMode is s_mode_enabled.
SystemType(w, sMode) ==
  IF w.f3 # 0 \/ w.rd # 0 THEN Illegal
  ELSE CASE w.rs1 = 0 /\ Csr(w) = 0 -> "ECALL"
         [] w.rs1 = 0 /\ Csr(w) = 1 -> "EBREAK"
         [] w.rs1 = 0 /\ Csr(w) = 770 -> "MRET"
         [] w.rs1 = 0 /\ Csr(w) = 261 -> "WFI"
         [] sMode /\ w.rs1 = 0 /\ Csr(w) = 258 -> "SRET"
         [] sMode /\ w.f7 = 9 -> "SFENCE_VMA"
         [] OTHER -> Illegal

BaseType(w, sMode) ==
  CASE w.op \in {"LUI", "AUIPC", "JAL"} -> w.op
    [] w.op = "JALR" -> IF w.f3 = 0 THEN "JALR" ELSE Illegal
    [] w.op = "BRANCH" -> BranchType(w)
    [] w.op = "LOAD" -> LoadType(w)
    [] w.op = "STORE" -> StoreType(w)
    [] w.op = "OP_IMM" -> OpImmType(w)
    [] w.op = "OP" -> OpType(w)
    [] w.op = "MISC" -> IF w.f3 = 0 THEN "FENCE" ELSE Illegal
    [] w.op = "SYSTEM" -> SystemType(w, sMode)
    [] OTHER -> Illegal

(***************************************************************************)
(* The decoders of the extensions and the predicates by which the hart     *)
(* lets each claim a word (is_m_instruction, is_atomic_instruction, ...).  *)
(***************************************************************************)
IsFenceI(w) == w.op = "MISC" /\ w.f3 = 1
FenceIType(w) == IF IsFenceI(w) THEN "FENCE_I" ELSE Illegal

IsCsr(w) == w.op = "SYSTEM" /\ w.f3 >= 1 /\ w.f3 # 4
CsrType(w) ==
  IF w.op # "SYSTEM" THEN Illegal
  ELSE Switch(w.f3, <<No, "CSRRW", "CSRRS", "CSRRC", No, "CSRRWI", "CSRRSI", "CSRRCI">>)

IsM(w) == w.op = "OP" /\ w.f7 = 1
MType(w) ==
  IF ~IsM(w) THEN Illegal
  ELSE Switch(w.f3, <<"MUL", "MULH", "MULHSU", "MULHU", "DIV", "DIVU", "REM", "REMU">>)

\* funct5 is the upper five bits of funct7; aq and rl are not looked at.
Funct5(w) == w.f7 \div 4

IsA(w) == w.op = "AMO" /\ w.f3 = 2

\* LR.W with a second source is not refused.
ATypeBug(w) ==
  IF ~IsA(w) THEN Illegal
  ELSE CASE Funct5(w) = 2 -> "LR_W"
         [] Funct5(w) = 3 -> "SC_W"
         [] OTHER -> Illegal

AType(w) ==
  IF ~IsA(w) THEN Illegal
  ELSE CASE Funct5(w) = 2 -> IF w.rs2 = 0 THEN "LR_W" ELSE Illegal
         [] Funct5(w) = 3 -> "SC_W"
         [] Funct5(w) = 1 -> "AMOSWAP_W"
         [] Funct5(w) = 0 -> "AMOADD_W"
         [] Funct5(w) = 4 -> "AMOXOR_W"
         [] Funct5(w) = 12 -> "AMOAND_W"
         [] Funct5(w) = 8 -> "AMOOR_W"
         [] Funct5(w) = 16 -> "AMOMIN_W"
         [] Funct5(w) = 20 -> "AMOMAX_W"
         [] Funct5(w) = 24 -> "AMOMINU_W"
         [] Funct5(w) = 28 -> "AMOMAXU_W"
         [] OTHER -> Illegal

IsF(w) == w.op \in {"LOAD_FP", "STORE_FP", "MADD", "MSUB", "NMSUB", "NMADD", "OP_FP"}

\* Types whose funct3 is a rounding mode.
UsesRm(type) ==
  type \in {"FADD_S", "FSUB_S", "FMUL_S", "FDIV_S", "FSQRT_S", "FMADD_S", "FMSUB_S",
            "FNMADD_S", "FNMSUB_S", "FCVT_W_S", "FCVT_WU_S", "FCVT_S_W", "FCVT_S_WU"}

OpFpType(w) ==
  CASE w.f7 = 0 -> "FADD_S"
    [] w.f7 = 4 -> "FSUB_S"
    [] w.f7 = 8 -> "FMUL_S"
    [] w.f7 = 12 -> "FDIV_S"
    [] w.f7 = 44 /\ w.rs2 = 0 -> "FSQRT_S"
    [] w.f7 = 16 -> Switch(w.f3, <<"FSGNJ_S", "FSGNJN_S", "FSGNJX_S", No, No, No, No, No>>)
    [] w.f7 = 20 -> Switch(w.f3, <<"FMIN_S", "FMAX_S", No, No, No, No, No, No>>)
    [] w.f7 = 96 /\ w.rs2 = 0 -> "FCVT_W_S"
    [] w.f7 = 96 /\ w.rs2 = 1 -> "FCVT_WU_S"
    [] w.f7 = 112 /\ w.rs2 = 0 ->
         Switch(w.f3, <<"FMV_X_W", "FCLASS_S", No, No, No, No, No, No>>)
    [] w.f7 = 80 -> Switch(w.f3, <<"FLE_S", "FLT_S", "FEQ_S", No, No, No, No, No>>)
    [] w.f7 = 104 /\ w.rs2 = 0 -> "FCVT_S_W"
    [] w.f7 = 104 /\ w.rs2 = 1 -> "FCVT_S_WU"
    [] w.f7 = 120 /\ w.f3 = 0 /\ w.rs2 = 0 -> "FMV_W_X"
    [] OTHER -> Illegal

FormatType(w) ==
  CASE w.op = "LOAD_FP" -> IF w.f3 = 2 THEN "FLW" ELSE Illegal
    [] w.op = "STORE_FP" -> IF w.f3 = 2 THEN "FSW" ELSE Illegal
    [] w.op = "MADD" -> IF w.f7 % 4 = 0 THEN "FMADD_S" ELSE Illegal
    [] w.op = "MSUB" -> IF w.f7 % 4 = 0 THEN "FMSUB_S" ELSE Illegal
    [] w.op = "NMSUB" -> IF w.f7 % 4 = 0 THEN "FNMSUB_S" ELSE Illegal
    [] w.op = "NMADD" -> IF w.f7 % 4 = 0 THEN "FNMADD_S" ELSE Illegal
    [] w.op = "OP_FP" -> OpFpType(w)
    [] OTHER -> Illegal

\* Rounding modes 5 and 6 are reserved.
FType(w) ==
  IF UsesRm(FormatType(w)) /\ w.f3 \in {5, 6} THEN Illegal ELSE FormatType(w)

IsZba(w) == w.op = "OP" /\ w.f7 = 16 /\ w.f3 \in {2, 4, 6}
ZbaType(w) ==
  IF w.op = "OP" /\ w.f7 = 16
  THEN Switch(w.f3, <<No, No, "SH1ADD", No, "SH2ADD", No, "SH3ADD", No>>)
  ELSE Illegal

ZbbRegType(w) ==
  CASE w.f7 = 32 -> Switch(w.f3, <<No, No, No, No, "XNOR", No, "ORN", "ANDN">>)
    [] w.f7 = 5 -> Switch(w.f3, <<No, No, No, No, "MIN", "MINU", "MAX", "MAXU">>)
    [] w.f7 = 48 -> Switch(w.f3, <<No, "ROL", No, No, No, "ROR", No, No>>)
    [] w.f7 = 4 /\ w.f3 = 4 /\ w.rs2 = 0 -> "ZEXT_H"
    [] OTHER -> Illegal

ZbbImmType(w) ==
  CASE w.f3 = 1 /\ w.f7 = 48 /\ w.rs2 = 0 -> "CLZ"
    [] w.f3 = 1 /\ w.f7 = 48 /\ w.rs2 = 1 -> "CTZ"
    [] w.f3 = 1 /\ w.f7 = 48 /\ w.rs2 = 2 -> "CPOP"
    [] w.f3 = 1 /\ w.f7 = 48 /\ w.rs2 = 4 -> "SEXT_B"
    [] w.f3 = 1 /\ w.f7 = 48 /\ w.rs2 = 5 -> "SEXT_H"
    [] w.f3 = 5 /\ w.f7 = 48 -> "RORI"
    [] w.f3 = 5 /\ w.f7 = 20 /\ w.rs2 = 7 -> "ORC_B"
    [] w.f3 = 5 /\ w.f7 = 52 /\ w.rs2 = 24 -> "REV8"
    [] OTHER -> Illegal

ZbbType(w) ==
  CASE w.op = "OP" -> ZbbRegType(w)
    [] w.op = "OP_IMM" -> ZbbImmType(w)
    [] OTHER -> Illegal

\* The register and the immediate forms share their function codes.
ZbsType(w) ==
  LET form(reg, imm) == CASE w.op = "OP" -> reg [] w.op = "OP_IMM" -> imm [] OTHER -> Illegal
  IN  CASE w.f3 = 1 /\ w.f7 = 20 -> form("BSET", "BSETI")
        [] w.f3 = 1 /\ w.f7 = 36 -> form("BCLR", "BCLRI")
        [] w.f3 = 1 /\ w.f7 = 52 -> form("BINV", "BINVI")
        [] w.f3 = 5 /\ w.f7 = 36 -> form("BEXT", "BEXTI")
        [] OTHER -> Illegal

IsZicond(w) == w.op = "OP" /\ w.f7 = 7 /\ w.f3 \in {5, 7}
ZicondType(w) ==
  IF w.op = "OP" /\ w.f7 = 7
  THEN Switch(w.f3, <<No, No, No, No, No, "CZERO_EQZ", No, "CZERO_NEZ">>)
  ELSE Illegal

(***************************************************************************)
(* Which CSRs exist (CSRFile::exists), by address.                         *)
(***************************************************************************)
SupervisorAddresses == {256, 260, 261, 262, 320, 321, 322, 323, 324, 384}

CsrExists(a, hasF, hasS, hasU) ==
  \/ hasF /\ a \in {1, 2, 3}
  \/ a \in {3072, 3073, 3074, 3200, 3201, 3202}
  \/ a \in {769, 3857, 3858, 3859, 3860, 3861, 784, 778, 794, 768, 772, 773, 774,
            832, 833, 834, 835, 836, 2816, 2818, 2944, 2946}
  \/ (hasS \/ hasU) /\ a \in {770, 771}
  \/ hasS /\ a \in SupervisorAddresses

\* The upper two bits of an address are set for a read-only CSR.
ReadOnlyAddress(a) == a \div 1024 = 3

(***************************************************************************)
(* CPU::execute_32bit: the first enabled extension that claims the word    *)
(* executes it, and the base decoder gets what is left.                    *)
(***************************************************************************)
Order == <<"Zifencei", "Zicsr", "M", "A", "F", "Zba", "Zbb", "Zbs", "Zicond">>
Extensions == {Order[i] : i \in 1 .. 9}
Decoders == Extensions \union {"I"}

TypeBy(x, w, sMode) ==
  CASE x = "Zifencei" -> FenceIType(w)
    [] x = "Zicsr" -> CsrType(w)
    [] x = "M" -> MType(w)
    [] x = "A" -> AType(w)
    [] x = "F" -> FType(w)
    [] x = "Zba" -> ZbaType(w)
    [] x = "Zbb" -> ZbbType(w)
    [] x = "Zbs" -> ZbsType(w)
    [] x = "Zicond" -> ZicondType(w)
    [] x = "I" -> BaseType(w, sMode)

Claims(x, w) ==
  CASE x = "Zifencei" -> IsFenceI(w)
    [] x = "Zicsr" -> IsCsr(w)
    [] x = "M" -> IsM(w)
    [] x = "A" -> IsA(w)
    [] x = "F" -> IsF(w)
    [] x = "Zba" -> IsZba(w)
    [] x = "Zbb" -> ZbbType(w) # Illegal
    [] x = "Zbs" -> ZbsType(w) # Illegal
    [] x = "Zicond" -> IsZicond(w)

\* A disabled extension still claims its words.
ClaimantsBug(w, enabled) == {i \in 1 .. 9 : Claims(Order[i], w)}

\* Positions in Order of the enabled extensions that claim the word.
Claimants(w, enabled) == {i \in 1 .. 9 : Order[i] \in enabled /\ Claims(Order[i], w)}

\* The extension that executes the word.
Executing(w, enabled) ==
  LET c == Claimants(w, enabled)
  IN  IF c = {} THEN "I" ELSE Order[CHOOSE i \in c : \A j \in c : i <= j]

\* What the hart executes the word as; Illegal is an illegal-instruction trap.
Dispatch(w, enabled, sMode) == TypeBy(Executing(w, enabled), w, sMode)

\* OpcodeClassifier: the extensions whose decoder reads the word.
Classes(w, sMode) == {x \in Decoders : TypeBy(x, w, sMode) # Illegal}

(***************************************************************************)
(* The header of execute_32bit: "The decoders are exact (no aliasing       *)
(* between extensions), so the order below only determines which module    *)
(* claims its own opcodes; disabled extensions simply fall through and     *)
(* end up ILLEGAL."                                                        *)
(***************************************************************************)
\* No word has a meaning in two decoders.
NoAliasing(w, sMode) ==
  \A x, y \in Classes(w, sMode) : x = y

\* Whatever is enabled, a word is executed by the only decoder that reads
\* it if that one is enabled, and is illegal otherwise.
DispatchedByItsOwner(w, enabled, sMode) ==
  LET owners == Classes(w, sMode) \intersect (enabled \union {"I"})
      type == Dispatch(w, enabled, sMode)
  IN  \/ owners = {} /\ type = Illegal
      \/ \E x \in owners : type = TypeBy(x, w, sMode) /\ Executing(w, enabled) = x
=============================================================================
