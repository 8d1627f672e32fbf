----------------------------- MODULE Compressed -----------------------------
(***************************************************************************)
(* The compressed instructions: rv32c::Decoder and Executor, rv32fc::      *)
(* Decoder and Executor, and the dispatch between the two in CPU::         *)
(* execute_compressed.  A compressed word is the number it is in the code. *)
(***************************************************************************)
EXTENDS Executor

Parcel == 0 .. 65535

\* (w >> lo) & mask of n bits
Field(w, lo, n) == (w \div 2^lo) % 2^n

(***************************************************************************)
(* An immediate is scattered over the word.  A layout lists its pieces     *)
(* <<lowest word bit, width, lowest immediate bit>>.                       *)
(***************************************************************************)
Gather(w, layout) ==
  LET sum[i \in 0 .. Len(layout)] ==
        IF i = 0 THEN 0
        ELSE sum[i - 1] + Field(w, layout[i][1], layout[i][2]) * 2^layout[i][3]
  IN  sum[Len(layout)]

\* Sign extension of an n-bit immediate.
Negative(imm, n) == IF imm >= 2^(n - 1) THEN imm - 2^n ELSE imm

AddSpnLayout == <<<<5, 1, 3>>, <<6, 1, 2>>, <<7, 4, 6>>, <<11, 2, 4>>>>
WordLayout == <<<<5, 1, 6>>, <<6, 1, 2>>, <<10, 3, 3>>>>
ImmLayout == <<<<2, 5, 0>>, <<12, 1, 5>>>>
AddSpLayout == <<<<2, 1, 5>>, <<3, 2, 7>>, <<5, 1, 6>>, <<6, 1, 4>>, <<12, 1, 9>>>>
LoadSpLayout == <<<<2, 2, 6>>, <<4, 3, 2>>, <<12, 1, 5>>>>
StoreSpLayout == <<<<7, 2, 6>>, <<9, 4, 2>>>>
BranchLayout == <<<<2, 1, 5>>, <<3, 2, 1>>, <<5, 2, 6>>, <<10, 2, 3>>, <<12, 1, 8>>>>

JumpLayout ==
  <<<<2, 1, 5>>, <<3, 3, 1>>, <<6, 1, 7>>, <<7, 1, 6>>, <<8, 1, 10>>, <<9, 2, 8>>,
    <<11, 1, 4>>, <<12, 1, 11>>>>

(***************************************************************************)
(* rv32c::Decoder                                                          *)
(***************************************************************************)
Quadrant(w) == w % 4
Funct3(w) == Field(w, 13, 3)
RdOf(w) == Field(w, 7, 5)
Rs2Of(w) == Field(w, 2, 5)
CregHigh(w) == 8 + Field(w, 7, 3)
CregLow(w) == 8 + Field(w, 2, 3)
Imm6(w) == Negative(Gather(w, ImmLayout), 6)

\* An instruction that reads or writes fewer registers leaves x0 in the rest.
Instr(type, rd, rs1, rs2, imm, w) ==
  [type |-> type, rd |-> rd, rs1 |-> rs1, rs2 |-> rs2, imm |-> imm, raw |-> w]
Reserved(w) == Instr("ILLEGAL", 0, 0, 0, 0, w)

Quadrant0(w) ==
  CASE Funct3(w) = 0 /\ Gather(w, AddSpnLayout) # 0 ->
         Instr("C_ADDI4SPN", CregLow(w), 2, 0, Gather(w, AddSpnLayout), w)
    [] Funct3(w) = 2 -> Instr("C_LW", CregLow(w), CregHigh(w), 0, Gather(w, WordLayout), w)
    [] Funct3(w) = 6 -> Instr("C_SW", 0, CregHigh(w), CregLow(w), Gather(w, WordLayout), w)
    [] OTHER -> Reserved(w)

AluGroup(w) ==
  LET high == Field(w, 12, 1)
      group == Field(w, 10, 2)
      rd == CregHigh(w)
  IN  CASE group = 0 /\ high = 0 -> Instr("C_SRLI", rd, rd, 0, Rs2Of(w), w)
        [] group = 1 /\ high = 0 -> Instr("C_SRAI", rd, rd, 0, Rs2Of(w), w)
        [] group = 2 -> Instr("C_ANDI", rd, rd, 0, Imm6(w), w)
        [] group = 3 /\ high = 0 ->
             Instr(<<"C_SUB", "C_XOR", "C_OR", "C_AND">>[Field(w, 5, 2) + 1],
                   rd, rd, CregLow(w), 0, w)
        [] OTHER -> Reserved(w)

\* x0 as the destination of C.LUI is taken for a reserved encoding.
UpperGroupBug(w) ==
  IF RdOf(w) = 0 \/ RdOf(w) = 2 \/ Gather(w, ImmLayout) = 0 THEN Reserved(w)
  ELSE Instr("C_LUI", RdOf(w), 0, 0, Imm6(w) * 4096, w)

\* funct3 = 011: rd = x2 is C.ADDI16SP, any other C.LUI.
UpperGroup(w) ==
  IF RdOf(w) = 2
  THEN IF Gather(w, AddSpLayout) = 0 THEN Reserved(w)
       ELSE Instr("C_ADDI16SP", 2, 2, 0, Negative(Gather(w, AddSpLayout), 10), w)
  ELSE IF Gather(w, ImmLayout) = 0 THEN Reserved(w)
       ELSE Instr("C_LUI", RdOf(w), 0, 0, Imm6(w) * 4096, w)

JumpOffset(w) == Negative(Gather(w, JumpLayout), 12)
BranchOffset(w) == Negative(Gather(w, BranchLayout), 9)

Quadrant1(w) ==
  CASE Funct3(w) = 0 ->
         Instr(IF RdOf(w) = 0 THEN "C_NOP" ELSE "C_ADDI", RdOf(w), RdOf(w), 0, Imm6(w), w)
    [] Funct3(w) = 1 -> Instr("C_JAL", 1, 0, 0, JumpOffset(w), w)
    [] Funct3(w) = 2 -> Instr("C_LI", RdOf(w), 0, 0, Imm6(w), w)
    [] Funct3(w) = 3 -> UpperGroup(w)
    [] Funct3(w) = 4 -> AluGroup(w)
    [] Funct3(w) = 5 -> Instr("C_J", 0, 0, 0, JumpOffset(w), w)
    [] Funct3(w) = 6 -> Instr("C_BEQZ", 0, CregHigh(w), 0, BranchOffset(w), w)
    [] Funct3(w) = 7 -> Instr("C_BNEZ", 0, CregHigh(w), 0, BranchOffset(w), w)

\* funct3 = 100 of quadrant 2, with bit 12 clear and set.
JumpMoveGroup(w) ==
  CASE Rs2Of(w) # 0 -> Instr("C_MV", RdOf(w), 0, Rs2Of(w), 0, w)
    [] Rs2Of(w) = 0 /\ RdOf(w) # 0 -> Instr("C_JR", 0, RdOf(w), 0, 0, w)
    [] OTHER -> Reserved(w)

JumpAddGroup(w) ==
  CASE Rs2Of(w) # 0 -> Instr("C_ADD", RdOf(w), RdOf(w), Rs2Of(w), 0, w)
    [] Rs2Of(w) = 0 /\ RdOf(w) # 0 -> Instr("C_JALR", 1, RdOf(w), 0, 0, w)
    [] OTHER -> Instr("C_EBREAK", 0, 0, 0, 0, w)

Quadrant2(w) ==
  CASE Funct3(w) = 0 /\ Field(w, 12, 1) = 0 ->
         Instr("C_SLLI", RdOf(w), RdOf(w), 0, Rs2Of(w), w)
    [] Funct3(w) = 2 /\ RdOf(w) # 0 ->
         Instr("C_LWSP", RdOf(w), 2, 0, Gather(w, LoadSpLayout), w)
    [] Funct3(w) = 4 -> IF Field(w, 12, 1) = 0 THEN JumpMoveGroup(w) ELSE JumpAddGroup(w)
    [] Funct3(w) = 6 -> Instr("C_SWSP", 0, 2, Rs2Of(w), Gather(w, StoreSpLayout), w)
    [] OTHER -> Reserved(w)

CDecode(w) ==
  CASE Quadrant(w) = 0 -> Quadrant0(w)
    [] Quadrant(w) = 1 -> Quadrant1(w)
    [] Quadrant(w) = 2 -> Quadrant2(w)
    [] OTHER -> Reserved(w)

(***************************************************************************)
(* rv32fc::Decoder.  C.FLWSP to f0 is legal, C.LWSP to x0 is not.          *)
(***************************************************************************)
IsCompressedFloat(w) == Quadrant(w) \in {0, 2} /\ Funct3(w) \in {3, 7}

FcDecode(w) ==
  CASE Quadrant(w) = 0 /\ Funct3(w) = 3 ->
         Instr("C_FLW", CregLow(w), CregHigh(w), 0, Gather(w, WordLayout), w)
    [] Quadrant(w) = 0 /\ Funct3(w) = 7 ->
         Instr("C_FSW", 0, CregHigh(w), CregLow(w), Gather(w, WordLayout), w)
    [] Quadrant(w) = 2 /\ Funct3(w) = 3 ->
         Instr("C_FLWSP", RdOf(w), 2, 0, Gather(w, LoadSpLayout), w)
    [] Quadrant(w) = 2 /\ Funct3(w) = 7 ->
         Instr("C_FSWSP", 0, 2, Rs2Of(w), Gather(w, StoreSpLayout), w)
    [] OTHER -> Reserved(w)

\* CPU::execute_fetched and execute_compressed: without C every parcel is
\* illegal, and the F subset is asked first.
Decode16(w, hasC, hasF) ==
  IF ~hasC THEN Reserved(w)
  ELSE IF hasF /\ IsCompressedFloat(w) THEN FcDecode(w) ELSE CDecode(w)

(***************************************************************************)
(* rv32c::Executor and rv32fc::Executor; f is the FP register file.        *)
(***************************************************************************)
\* The link register is written first: C.JALR ra jumps to its own link.
LinkJumpBug(x, after, rs1) ==
  LET target == [x EXCEPT ![1] = after][rs1]
  IN  Writes(target - (target % 2), 1, after)

\* "Read the jump target BEFORE writing the link register, so that c.jalr ra
\* (rs1 == x1) uses the old value of ra."
LinkJump(x, after, rs1) == Writes(x[rs1] - (x[rs1] % 2), 1, after)

CompressedEffect(d, x, f, pc) ==
  LET after == Trunc(pc + 2)
      a == x[d.rs1]
      b == x[d.rs2]
      target == Trunc(pc + d.imm)
      to(v) == Writes(after, d.rd, v)
  IN  CASE d.type = "C_ADDI4SPN" -> to(Trunc(x[2] + d.imm))
        [] d.type = "C_LW" -> Loads(after, "LW", d.rd, Trunc(a + d.imm))
        [] d.type = "C_SW" -> Stores(after, "SW", Trunc(a + d.imm), b)
        [] d.type = "C_NOP" -> Nothing(after)
        [] d.type = "C_ADDI" -> to(Trunc(a + d.imm))
        [] d.type = "C_JAL" -> Writes(target, 1, after)
        [] d.type = "C_LI" -> to(Trunc(d.imm))
        [] d.type = "C_ADDI16SP" -> Writes(after, 2, Trunc(x[2] + d.imm))
        [] d.type = "C_LUI" -> to(Trunc(d.imm))
        [] d.type = "C_SRLI" -> to(Shr(a, Shamt(d.imm)))
        [] d.type = "C_SRAI" -> to(Sar(a, Shamt(d.imm)))
        [] d.type = "C_ANDI" -> to(And(a, Trunc(d.imm)))
        [] d.type = "C_SUB" -> to(Trunc(a - b))
        [] d.type = "C_XOR" -> to(Xor(a, b))
        [] d.type = "C_OR" -> to(Or(a, b))
        [] d.type = "C_AND" -> to(And(a, b))
        [] d.type = "C_J" -> Nothing(target)
        [] d.type = "C_BEQZ" -> Nothing(IF a = 0 THEN target ELSE after)
        [] d.type = "C_BNEZ" -> Nothing(IF a # 0 THEN target ELSE after)
        [] d.type = "C_SLLI" -> to(Shl(a, Shamt(d.imm)))
        [] d.type = "C_LWSP" -> Loads(after, "LW", d.rd, Trunc(x[2] + d.imm))
        [] d.type = "C_JR" -> Nothing(a - (a % 2))
        [] d.type = "C_MV" -> to(b)
        [] d.type = "C_EBREAK" -> Traps(after, 3, pc)
        [] d.type = "C_JALR" -> LinkJump(x, after, d.rs1)
        [] d.type = "C_ADD" -> to(Trunc(a + b))
        [] d.type = "C_SWSP" -> Stores(after, "SW", Trunc(x[2] + d.imm), b)
        [] d.type \in {"C_FLW", "C_FLWSP"} -> Loads(after, "LW", d.rd, Trunc(a + d.imm))
        [] d.type \in {"C_FSW", "C_FSWSP"} -> Stores(after, "SW", Trunc(a + d.imm), f[d.rs2])
        [] d.type = "ILLEGAL" -> Traps(after, 2, d.raw)

(***************************************************************************)
(* What a compressed instruction stands for: the base instruction of the   *)
(* ISA manual that its name abbreviates, two bytes long.                   *)
(***************************************************************************)
BaseName ==
  [C_ADDI4SPN |-> "ADDI", C_LW |-> "LW", C_SW |-> "SW", C_NOP |-> "ADDI",
   C_ADDI |-> "ADDI", C_JAL |-> "JAL", C_LI |-> "ADDI", C_ADDI16SP |-> "ADDI",
   C_LUI |-> "LUI", C_SRLI |-> "SRLI", C_SRAI |-> "SRAI", C_ANDI |-> "ANDI",
   C_SUB |-> "SUB", C_XOR |-> "XOR", C_OR |-> "OR", C_AND |-> "AND", C_J |-> "JAL",
   C_BEQZ |-> "BEQ", C_BNEZ |-> "BNE", C_SLLI |-> "SLLI", C_LWSP |-> "LW",
   C_JR |-> "JALR", C_MV |-> "ADD", C_EBREAK |-> "EBREAK", C_JALR |-> "JALR",
   C_ADD |-> "ADD", C_SWSP |-> "SW"]

Expansion(d) == [d EXCEPT !.type = BaseName[d.type]]
=============================================================================
