---------------------------- MODULE IllegalWords ----------------------------
(***************************************************************************)
(* riscv_illegal_opgen.hpp: the classes of encodings that must trap as     *)
(* illegal instructions, as the sets of the words each generator may       *)
(* return.  The fields a class leaves open are drawn from Regs and F7s; a  *)
(* constraint such as "rs2 # 0" keeps the shape it has in the code, a draw *)
(* repeated until it holds.                                                *)
(***************************************************************************)
EXTENDS Encode

\* Values drawn for a whole funct7: its extremes and each single bit.
F7s == UnsignedProbes(7)

\* enc_r with a set of values for each field; enc_i is f7 and rs2 together.
Enc(f7s, rs2s, rs1s, f3s, rds, op) ==
  [op : {op}, f7 : f7s, rs2 : rs2s, rs1 : rs1s, f3 : f3s, rd : rds]

Random(f3s, op) == Enc(F7s, Regs, Regs, f3s, Regs, op)

\* The rounding modes that are not reserved.
Rms == {0, 1, 2, 3, 4, 7}

(***************************************************************************)
(* Categories 1 and 2: canonical patterns and reserved major opcodes.      *)
(***************************************************************************)
\* Every opcode no decoder knows is the name "RESERVED".
AllOnesWord == Enc({127}, {31}, {31}, {7}, {31}, "RESERVED")
ReservedMajor == Random(0 .. 7, "RESERVED")

(***************************************************************************)
(* Category 3: constraint violations in valid families.                    *)
(***************************************************************************)
BadLoad == Random({3, 6, 7}, "LOAD")
BadStore == Random({3, 4, 5, 6, 7}, "STORE")
BadBranch == Random({2, 3}, "BRANCH")
BadJalr == Random(1 .. 7, "JALR")

BadSlliSlot ==
  Enc({1}, Regs, Regs, {1}, Regs, "OP_IMM")
    \union Enc({2, 3, 4, 5, 6, 7, 8, 32, 127}, Regs, Regs, {1}, Regs, "OP_IMM")
    \union Enc({48}, (0 .. 31) \ {0, 1, 2, 4, 5}, Regs, {1}, Regs, "OP_IMM")

BadSrliSlot ==
  Enc({1}, Regs, Regs, {5}, Regs, "OP_IMM")
    \union Enc({2, 3, 8, 33, 49, 127}, Regs, Regs, {5}, Regs, "OP_IMM")
    \union Enc({20}, (0 .. 31) \ {7}, Regs, {5}, Regs, "OP_IMM")
    \union Enc({52}, (0 .. 31) \ {24}, Regs, {5}, Regs, "OP_IMM")

\* op_legal_funct3_mask, as the set of the legal values of funct3.
OpLegalFunct3(f7) ==
  CASE f7 \in {0, 1} -> 0 .. 7
    [] f7 = 32 -> {0, 4, 5, 6, 7}
    [] f7 = 16 -> {2, 4, 6}
    [] f7 = 5 -> {4, 5, 6, 7}
    [] f7 \in {48, 36} -> {1, 5}
    [] f7 \in {20, 52} -> {1}
    [] f7 = 7 -> {5, 7}
    [] f7 = 4 -> {4}
    [] OTHER -> {}

BadOp ==
  Enc({4}, Regs \ {0}, Regs, {4}, Regs, "OP")
    \union UNION {Enc({f7}, Regs, {0}, (0 .. 7) \ OpLegalFunct3(f7), {0}, "OP") : f7 \in 0 .. 127}

BadMiscMem == Random(2 .. 7, "MISC")

\* ecall, ebreak, mret, wfi, sret and sfence.vma are drawn again.
BadSystem ==
  {w \in Enc(F7s \union {8, 9, 24}, Regs \union {0, 1, 2, 5}, Regs, {0}, Regs, "SYSTEM") :
     /\ ~(w.rd = 0 /\ w.rs1 = 0 /\ <<w.f7, w.rs2>> \in {<<0, 0>>, <<0, 1>>, <<24, 2>>, <<8, 5>>, <<8, 2>>})
     /\ ~(w.rd = 0 /\ w.f7 = 9)}

BadSystemFunct4 == Random({4}, "SYSTEM")

\* hpmcounter3, mhpmcounter3, mcountinhibit, tselect, dcsr, hstatus
BadCsrAddresses == {3075, 2819, 800, 1952, 1968, 1536}
BadCsrAddress ==
  {EncodeI(a, rs1, f3, rd, "SYSTEM") :
     a \in BadCsrAddresses, rs1 \in Regs, f3 \in {1, 2, 3, 5, 6, 7}, rd \in Regs}

BadFpFunct7 == Enc({1, 9, 13, 45, 17, 127}, Regs, Regs, Rms, Regs, "OP_FP")
BadFpRm == Enc({0, 8, 44, 96, 104}, Regs, Regs, {5, 6}, Regs, "OP_FP")
BadFsqrt == Enc({44}, Regs \ {0}, Regs, Rms, Regs, "OP_FP")
BadFcvt == Enc({96, 104}, 2 .. 31, Regs, Rms, Regs, "OP_FP")
BadFmvFclass ==
  Enc({112}, Regs, Regs, 2 .. 7, Regs, "OP_FP")
    \union Enc({112}, Regs \ {0}, Regs, {0, 1}, Regs, "OP_FP")
BadFcmp == Enc({80}, Regs, Regs, 3 .. 7, Regs, "OP_FP")
BadFminmax == Enc({20}, Regs, Regs, 2 .. 7, Regs, "OP_FP")
BadFsgnj == Enc({16}, Regs, Regs, 3 .. 7, Regs, "OP_FP")
BadFmvWx ==
  Enc({120}, Regs, Regs, 1 .. 7, Regs, "OP_FP")
    \union Enc({120}, Regs \ {0}, Regs, {0}, Regs, "OP_FP")
BadLoadFp == Random({0, 1, 3, 4, 5, 6, 7}, "LOAD_FP")
BadStoreFp == Random({0, 1, 3, 4, 5, 6, 7}, "STORE_FP")
BadMaddFmt ==
  UNION {Enc({rs3 * 4 + fmt : rs3 \in Regs, fmt \in 1 .. 3}, Regs, Regs, Rms, Regs, op) :
           op \in {"MADD", "MSUB", "NMADD", "NMSUB"}}

BadAmoFunct3 == Random({0, 1, 3, 4, 5, 6, 7}, "AMO")

LegalFunct5 == {2, 3, 1, 0, 4, 12, 8, 16, 20, 24, 28}
BadAmoFunct5 ==
  Enc({f5 * 4 + o : f5 \in (0 .. 31) \ LegalFunct5, o \in AmoBits}, Regs, Regs, {2}, Regs, "AMO")
BadLr == Enc({8 + o : o \in AmoBits}, Regs \ {0}, Regs, {2}, Regs, "AMO")

(***************************************************************************)
(* Category 4: reserved compressed encodings, as numbers.                  *)
(***************************************************************************)
\* bits32() & 0x1FFC: eleven open bits, drawn one by one.
Open == {0, 8188} \union {2^k : k \in 2 .. 12}

BadCQuad0 == {f3 * 8192 + v : f3 \in {1, 4, 5}, v \in Open}
BadCAddi4spn == {r * 4 : r \in 0 .. 7}
BadCLwsp == {2 * 8192 + b * 4096 + r * 4 + 2 : b \in {0, 1}, r \in 0 .. 31}
BadCJr == {32770}
BadCShift ==
  {4 * 8192 + 4096 + g * 1024 + r * 128 + s * 4 + 1 : g \in {0, 1}, r \in 0 .. 7, s \in Regs}
    \union {4096 + r * 128 + s * 4 + 2 : r \in 0 .. 31, s \in Regs}
BadCAlu ==
  {4 * 8192 + 4096 + 3072 + r * 128 + g * 32 + s * 4 + 1 : r \in 0 .. 7, g \in 0 .. 3, s \in 0 .. 7}
BadCLui == {3 * 8192 + r * 128 + 1 : r \in (0 .. 31) \ {0, 2}}
BadCAddi16sp == {24833}
BadCQuad2 == {f3 * 8192 + v + 2 : f3 \in {1, 5}, v \in Open}

(***************************************************************************)
(* The class table.                                                        *)
(***************************************************************************)
Classes32 ==
  [all_ones |-> AllOnesWord, reserved_major |-> ReservedMajor, load |-> BadLoad,
   store |-> BadStore, branch |-> BadBranch, jalr |-> BadJalr, slli |-> BadSlliSlot,
   srli |-> BadSrliSlot, op |-> BadOp, misc_mem |-> BadMiscMem, system |-> BadSystem,
   system4 |-> BadSystemFunct4, csr_addr |-> BadCsrAddress, fp_funct7 |-> BadFpFunct7,
   fp_rm |-> BadFpRm, fsqrt |-> BadFsqrt, fcvt |-> BadFcvt, fmv_fclass |-> BadFmvFclass,
   fcmp |-> BadFcmp, fminmax |-> BadFminmax, fsgnj |-> BadFsgnj, fmv_wx |-> BadFmvWx,
   load_fp |-> BadLoadFp, store_fp |-> BadStoreFp, madd_fmt |-> BadMaddFmt,
   amo_funct3 |-> BadAmoFunct3, amo_funct5 |-> BadAmoFunct5, lr |-> BadLr]

Classes16 ==
  [all_zeros |-> {0}, c_quad0 |-> BadCQuad0, c_addi4spn |-> BadCAddi4spn,
   c_lwsp |-> BadCLwsp, c_jr |-> BadCJr, c_shift |-> BadCShift, c_alu |-> BadCAlu,
   c_lui |-> BadCLui, c_addi16sp |-> BadCAddi16sp, c_quad2 |-> BadCQuad2]
=============================================================================
