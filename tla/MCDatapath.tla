----------------------------- MODULE MCDatapath -----------------------------
(***************************************************************************)
(* Datapath on registers of eight bits and floats of one sign, three       *)
(* exponent and four fraction bits, in units of a half.                    *)
(***************************************************************************)
EXTENDS Datapath

MCDecks == {"integer", "memory", "float", "fused", "sequence"}

\* One instruction from many states, and some from few.
MCMaxSteps == [k \in MCDecks |-> IF k = "sequence" THEN 3 ELSE 1]

\* Zero, one, a byte of ones, both ends of the signed range and words between.
Words8 == {0, 1, 2, 3, 7, 8, 85, 90, 127, 128, 129, 170, 200, 253, 254, 255}

\* Both zeros, the least subnormals, values between integers, 1, both sides
\* of the normal boundary, the bounds of the integer ranges, the largest
\* number, infinities, and NaNs of both kinds.
Positive == {0, 1, 2, 3, 5, 15, 16, 23, 31, 63, 79, 80, 95, 96, 97, 111, 112}
NaNs == {116, 120, 121, 245}
Floats == Positive \union {Negated(a) : a \in Positive} \union NaNs
FewFloats == {0, 128, 1, 130, 3, 17, 145, 111, 112, 240, 120, 116}

XRegs(a, b) == [r \in 0 .. 3 |-> <<0, a, b, 5>>[r + 1]]
FRegs(a, b, c) == [r \in 0 .. 3 |-> <<a, b, c, 3>>[r + 1]]
Start(xs, fs, mode, flags) == [x |-> xs, f |-> fs, frm |-> mode, fflags |-> flags]

MCStarts == [k \in MCDecks |->
  CASE k = "integer" ->
         {Start(XRegs(a, b), FRegs(0, 0, 0), 0, {}) : a, b \in Words8}
    [] k = "memory" ->
         {Start(XRegs(a, b), FRegs(0, 200, 0), 5, {"NX"}) :
            a \in {0, 1, 2, 4, 252, 255}, b \in {0, 129}}
    [] k = "float" ->
         {Start(XRegs(0, a), FRegs(a, b, 3), mode, flags) :
            a \in Floats, b \in {0, 128, 1, 63, 111, 240, 116, 121},
            mode \in {2, 4, 6}, flags \in {{}, {"NV", "OF"}}}
    [] k = "fused" ->
         {Start(XRegs(0, 0), FRegs(a, b, c), 3, {"DZ"}) : a, b, c \in FewFloats}
    [] k = "sequence" ->
         {Start(XRegs(a, 128), FRegs(b, 17, 0), 2, {}) : a \in {2, 255}, b \in {1, 116}}]

D(unit, type, rd, rs1, rs2, rs3, imm, rm) ==
  [unit |-> unit, type |-> type, rd |-> rd, rs1 |-> rs1, rs2 |-> rs2, rs3 |-> rs3,
   imm |-> imm, rm |-> rm, raw |-> 77]

ImmsOf(type) == IF type \in {"SLLI", "SRLI", "SRAI"} THEN {0, 1, 7} ELSE {0, 5, -1, -8}

MCStimuli == [k \in MCDecks |->
  CASE k = "integer" ->
         {D("I", t, 3, 1, 2, 0, 0, 0) : t \in RegTypes \union {"ADD"}}
           \union {D("I", "ADD", rd, 1, rd, 0, 0, 0) : rd \in {0, 1}}
           \union UNION {{D("I", t, 3, 1, 0, 0, i, 0) : i \in ImmsOf(t)} : t \in ImmTypes}
           \union {D("I", t, 0, 1, 2, 0, i, 0) : t \in BranchTypes, i \in {6, -8}}
           \union {D("I", t, rd, 1, 0, 0, i, 0) : t \in {"JAL", "JALR"}, rd \in {0, 1, 3}, i \in {4, -6}}
           \union {D("I", t, 3, 0, 0, 0, i, 0) : t \in {"LUI", "AUIPC"}, i \in {16, -16}}
           \union {D("I", t, 0, 0, 0, 0, 0, 0) : t \in {"FENCE", "ECALL", "EBREAK", "ILLEGAL"}}
           \union {D("R", t, 3, 1, 2, 0, i, 0) :
                     t \in MTypes \union ZbbTypes \union ZbaTypes \union ZbsTypes \union ZicondTypes,
                     i \in {0, 3}}
           \union {D("R", "FENCE_I", 0, 0, 0, 0, 0, 0)}
    [] k = "memory" ->
         {D("I", t, rd, 1, 2, 0, i, 0) : t \in LoadTypes \union StoreTypes, rd \in {0, 1, 3}, i \in {0, -2}}
           \union {D("F", t, 1, 1, 2, 0, i, 0) : t \in {"FLW", "FSW"}, i \in {0, -2}}
    [] k = "float" ->
         {D("F", t, 3, 0, 1, 2, 0, rm) :
            t \in {"FADD_S", "FSUB_S", "FMUL_S", "FDIV_S", "FSQRT_S", "FCVT_W_S", "FCVT_WU_S"},
            rm \in {0, 1, 2, 3, 4, 7}}
           \union {D("F", t, 3, 2, 0, 0, 0, rm) : t \in {"FCVT_S_W", "FCVT_S_WU"}, rm \in {0, 1, 2, 3, 4, 7}}
           \union {D("F", t, rd, 0, 1, 0, 0, 0) :
                     t \in {"FMIN_S", "FMAX_S", "FMV_X_W", "FEQ_S", "FLT_S", "FLE_S",
                            "FSGNJ_S", "FSGNJN_S", "FSGNJX_S", "FCLASS_S"}, rd \in {0, 3}}
           \union {D("F", "FMV_W_X", 0, 2, 0, 0, 0, 0), D("F", "ILLEGAL", 0, 0, 0, 0, 0, 0)}
    [] k = "fused" -> {D("F", t, 3, 0, 1, 2, 0, rm) : t \in FusedTypes, rm \in {0, 1, 2, 4, 7}}
    [] k = "sequence" ->
         {D("R", t, 2, 2, 1, 0, 0, 0) : t \in {"DIV", "MULHSU", "ROL", "CTZ"}}
           \union {D("I", "JALR", 1, 1, 0, 0, 1, 0), D("I", "BGE", 0, 2, 1, 0, 6, 0),
                   D("I", "LB", 1, 2, 0, 0, 0, 0), D("F", "FSW", 0, 1, 1, 0, 0, 0),
                   D("F", "FDIV_S", 0, 0, 1, 0, 0, 7), D("F", "FNMADD_S", 1, 0, 1, 0, 0, 4),
                   D("F", "FMAX_S", 0, 0, 1, 0, 0, 1), D("F", "FCVT_W_S", 1, 0, 0, 0, 0, 3),
                   D("F", "FCVT_S_W", 1, 2, 0, 0, 0, 7), D("F", "FCLASS_S", 2, 0, 0, 0, 0, 1)}]
=============================================================================
