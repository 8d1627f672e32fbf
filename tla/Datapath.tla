------------------------------ MODULE Datapath ------------------------------
(***************************************************************************)
(* One hart executing register, jump, load, store and floating-point       *)
(* instructions: rv32i::Executor and the executors of M, Zba, Zbb, Zbs and *)
(* Zicond as Executor.tla has them, rv32f::Executor, and what CPU::        *)
(* execute_32bit does around them: the register files written, fcsr copied *)
(* out of the CSR file and back, and the trap taken.  What a trap does to  *)
(* the privileged state is module Hart's; here it only stops the hart.     *)
(***************************************************************************)
EXTENDS Executor, Float, FiniteSets

CONSTANTS
  HasC,            \* enable_c_extension: two-byte alignment of targets
  AllowMisaligned, \* allow_misaligned
  Handler,         \* the trap vector, MTVEC or STVEC without its mode bits
  Decks,           \* groups of stimuli
  Starts,          \* of each group, the register files and fcsr it starts from
  Stimuli,         \* of each group, the decoded instructions
  BusWords,        \* what the bus may answer a load
  MaxSteps         \* of each group, max_instructions of CPU::run

VARIABLES
  deck,     \* the group the stimuli are taken from
  x,        \* integer registers
  f,        \* float registers
  pc,
  frm,      \* fcsr of the CSR file: rounding mode
  fflags,   \* fcsr of the CSR file: accrued flags
  did,      \* the last instruction and its outcome
  steps

vars == <<deck, x, f, pc, frm, fflags, did, steps>>

Flags == {"NX", "UF", "OF", "DZ", "NV"}

\* What each decoder may hand to its executor.  xRET, SFENCE.VMA and WFI act
\* on the privileged state and are module Hart's; CSR instructions and
\* atomics have modules of their own.
BaseTypes ==
  {"LUI", "AUIPC", "JAL", "JALR", "FENCE", "ECALL", "EBREAK", "ILLEGAL"}
    \union BranchTypes \union LoadTypes \union StoreTypes \union ImmTypes \union RegTypes
RegisterTypes ==
  {"FENCE_I"} \union MTypes \union ZbbTypes \union ZbaTypes \union ZbsTypes \union ZicondTypes

(***************************************************************************)
(* rv32f::Executor.  An outcome has the float register or the integer      *)
(* register written, the flags raised, the access, and the trap.           *)
(***************************************************************************)
DYN == 7
FusedTypes == {"FMADD_S", "FMSUB_S", "FNMADD_S", "FNMSUB_S"}
ArithmeticTypes == FusedTypes \union {"FADD_S", "FSUB_S", "FMUL_S", "FDIV_S", "FSQRT_S"}
ConversionTypes == {"FCVT_W_S", "FCVT_WU_S", "FCVT_S_W", "FCVT_S_WU"}

FloatOps ==
  ArithmeticTypes \union ConversionTypes \union
    {"FLW", "FSW", "FMIN_S", "FMAX_S", "FMV_X_W", "FMV_W_X", "FEQ_S", "FLT_S", "FLE_S",
     "FSGNJ_S", "FSGNJN_S", "FSGNJX_S", "FCLASS_S", "ILLEGAL"}

ASSUME StimuliAssumption ==
  \A k \in Decks : \A d \in Stimuli[k] :
    \/ d.unit = "I" /\ d.type \in BaseTypes
    \/ d.unit = "R" /\ d.type \in RegisterTypes
    \/ d.unit = "F" /\ d.type \in FloatOps

\* Immediates are an int32_t, those of jumps and branches have no bit 0, a
\* rounding mode has three bits, and registers are named that there are.
ASSUME DecodedAssumption ==
  \A k \in Decks : \A d \in Stimuli[k] :
    /\ d.imm \in -MinSigned .. MinSigned - 1
    /\ d.type \in BranchTypes \union {"JAL"} => d.imm % 2 = 0
    /\ d.rm \in 0 .. 7
    /\ \A s \in Starts[k] : /\ {d.rs1, d.rs2} \subseteq DOMAIN s.x
                            /\ {d.rs1, d.rs2, d.rs3} \subseteq DOMAIN s.f

\* CPU::reset: registers hold words, x0 is zero, and fcsr has its fields.
ASSUME StartsAssumption ==
  \A k \in Decks : \A s \in Starts[k] :
    /\ DOMAIN s.x \subseteq 0 .. 31 /\ 0 \in DOMAIN s.x /\ s.x[0] = 0
    /\ \A r \in DOMAIN s.x : s.x[r] \in Word
    /\ DOMAIN s.f \subseteq 0 .. 31 /\ \A r \in DOMAIN s.f : s.f[r] \in Word
    /\ s.frm \in 0 .. 7 /\ s.fflags \subseteq Flags

\* A shift amount is a position of a word (0x1F of 32), and words have bytes.
ASSUME HartAssumption ==
  /\ XLEN = 2^ShamtBits /\ ShamtBits >= 3
  /\ Handler \in Word /\ Bit(Handler, 0) = 0
  /\ BusWords \subseteq Word
  /\ \A k \in Decks : MaxSteps[k] \in Nat

\* Decoder::uses_rm
UsesRounding(type) == type \in ArithmeticTypes \union ConversionTypes

\* FCSR::effective_rm, and the mode of a number.
EffectiveRmBug(rm, dynamic) == IF rm = DYN THEN 0 ELSE rm
EffectiveRm(rm, dynamic) == IF rm = DYN THEN dynamic ELSE rm
ModeOf(rm) == <<"RNE", "RTZ", "RDN", "RUP", "RMM">>[rm + 1]

\* FFlags::merge
MergedBug(flags, raised) == raised
Merged(flags, raised) == flags \union raised

\* write_canonical
CanonicalBug(bits) == bits
Canonical(bits) == IF IsNaN(bits) THEN CanonicalNaN ELSE bits

\* FMADD and its variants, as the code calls std::fma.
Fused(type, a, b, c, rm) ==
  LET negated(o) == [o EXCEPT !.bits = Negated(o.bits)]
  IN  CASE type = "FMADD_S" -> Fma(a, b, c, rm)
        [] type = "FMSUB_S" -> Fma(a, b, Negated(c), rm)
        [] type = "FNMADD_S" -> negated(Fma(a, b, c, rm))
        [] type = "FNMSUB_S" -> negated(Fma(a, b, Negated(c), rm))

Arithmetic(type, a, b, c, rm) ==
  LET o == CASE type = "FADD_S" -> Add(a, b, rm)
             [] type = "FSUB_S" -> Sub(a, b, rm)
             [] type = "FMUL_S" -> Mul(a, b, rm)
             [] type = "FDIV_S" -> Div(a, b, rm)
             [] type = "FSQRT_S" -> Sqrt(a, rm)
             [] type \in FusedTypes -> Fused(type, a, b, c, rm)
  IN  Outcome(Canonical(o.bits), o.flags)

\* The zeros are not told apart.
SmallerBug(a, b) == IF Less(a, b) THEN a ELSE b

\* FMIN_S and FMAX_S of two numbers: "-0 < +0", decided by the sign of a.
Smaller(a, b) ==
  IF IsZero(a) /\ IsZero(b) THEN (IF Sign(a) = 1 THEN a ELSE b)
  ELSE IF Less(a, b) THEN a ELSE b

Larger(a, b) ==
  IF IsZero(a) /\ IsZero(b) THEN (IF Sign(a) = 1 THEN b ELSE a)
  ELSE IF Less(b, a) THEN a ELSE b

MinMax(type, a, b) ==
  LET bits == CASE IsNaN(a) /\ IsNaN(b) -> CanonicalNaN
                [] IsNaN(a) /\ ~IsNaN(b) -> b
                [] IsNaN(b) /\ ~IsNaN(a) -> a
                [] OTHER -> IF type = "FMIN_S" THEN Smaller(a, b) ELSE Larger(a, b)
  IN  Outcome(Canonical(bits), IF AnySNaN({a, b}) THEN {"NV"} ELSE {})

\* round_to_int: the units of a, rounded to a whole number of ones.
RoundToInt(a, rm) ==
  LET n == Nearest(Sign(a), Units(a), One, rm) IN IF Sign(a) = 1 THEN -n ELSE n

\* The range is checked before the value is rounded.
SaturatedBug(a, low, high, rm) ==
  IF IsFinite(a) /\ Value(a) >= low * One /\ Value(a) < (high + 1) * One
  THEN Outcome(Trunc(RoundToInt(a, rm)),
               IF RoundToInt(a, rm) * One # Value(a) THEN {"NX"} ELSE {})
  ELSE Outcome(Trunc(IF ~IsNaN(a) /\ Sign(a) = 1 THEN low ELSE high), {"NV"})

\* The least integer is taken to be out of range.
BoundaryBug(a, low, high, rm) ==
  IF IsFinite(a) /\ RoundToInt(a, rm) \in low + 1 .. high
  THEN Outcome(Trunc(RoundToInt(a, rm)),
               IF RoundToInt(a, rm) * One # Value(a) THEN {"NX"} ELSE {})
  ELSE Outcome(Trunc(IF ~IsNaN(a) /\ Sign(a) = 1 THEN low ELSE high), {"NV"})

\* The conversions saturate at low and high; the result is the pattern of
\* the integer.
Saturated(a, low, high, rm) ==
  LET rounded == RoundToInt(a, rm)
      top == IsNaN(a) \/ (IsInf(a) /\ Sign(a) = 0) \/ (IsFinite(a) /\ rounded > high)
      bottom == (IsInf(a) /\ Sign(a) = 1) \/ (IsFinite(a) /\ rounded < low)
  IN  CASE top -> Outcome(Trunc(high), {"NV"})
        [] bottom -> Outcome(Trunc(low), {"NV"})
        [] OTHER -> Outcome(Trunc(rounded), IF rounded * One # Value(a) THEN {"NX"} ELSE {})

ToInteger(type, a, rm) ==
  IF type = "FCVT_W_S" THEN Saturated(a, -MinSigned, MinSigned - 1, rm)
  ELSE Saturated(a, 0, AllOnes, rm)

FromInteger(type, a, rm) ==
  LET o == OfInteger(IF type = "FCVT_S_W" THEN Signed(a) ELSE a, rm)
  IN  Outcome(Canonical(o.bits), o.flags)

Compare(type, a, b) ==
  CASE type = "FEQ_S" -> Outcome(Truth(Equal(a, b)), IF AnySNaN({a, b}) THEN {"NV"} ELSE {})
    [] type = "FLT_S" -> Outcome(Truth(Less(a, b)), IF Ordered(a, b) THEN {} ELSE {"NV"})
    [] type = "FLE_S" -> Outcome(Truth(LessEqual(a, b)), IF Ordered(a, b) THEN {} ELSE {"NV"})

Injected(type, a, b) ==
  WithSign(CASE type = "FSGNJ_S" -> Sign(b)
             [] type = "FSGNJN_S" -> 1 - Sign(b)
             [] type = "FSGNJX_S" -> Differ(Sign(a), Sign(b)), Magn(a))

\* A quiet bit that is set is taken for a signalling NaN, and zeros for normal.
ClassifyBug(a) ==
  CASE IsNaN(a) -> IF IsSNaN(a) THEN 9 ELSE 8
    [] IsInf(a) -> IF Sign(a) = 1 THEN 0 ELSE 7
    [] Exponent(a) = 0 /\ Fraction(a) # 0 -> IF Sign(a) = 1 THEN 2 ELSE 5
    [] OTHER -> IF Sign(a) = 1 THEN 1 ELSE 6

\* classify_float: the position of the one bit of its mask, which stands for
\* the mask where a register is narrow.
Classify(a) ==
  CASE IsNaN(a) -> IF Fraction(a) >= QuietBit THEN 9 ELSE 8
    [] IsInf(a) -> IF Sign(a) = 1 THEN 0 ELSE 7
    [] IsZero(a) -> IF Sign(a) = 1 THEN 3 ELSE 4
    [] Exponent(a) = 0 /\ ~IsZero(a) -> IF Sign(a) = 1 THEN 2 ELSE 5
    [] OTHER -> IF Sign(a) = 1 THEN 1 ELSE 6

(***************************************************************************)
(* Accesses.  The bus answers with a word or throws (module Memory has the *)
(* memory behind it); mem_access::load and store check the alignment       *)
(* before they ask it.                                                     *)
(***************************************************************************)
Fault == -1

AccessTrap(access, answer) ==
  CASE ~AllowMisaligned /\ access.at % access.bytes # 0 ->
         IF access.kind = "load" THEN 4 ELSE 6
    [] (AllowMisaligned \/ access.at % access.bytes = 0) /\ answer = Fault ->
         IF access.kind = "load" THEN 5 ELSE 7
    [] OTHER -> NoTrap

\* RegFile::write
WrittenBug(rd, v) == [x EXCEPT ![rd] = v]
Written(rd, v) == IF rd = 0 THEN x ELSE [x EXCEPT ![rd] = v]

(***************************************************************************)
(* The integer executors.  d.unit names the one whose decoder claimed the  *)
(* word: "I" for the base one, "R" for the register-only extensions.       *)
(***************************************************************************)
Effect(d) ==
  IF d.unit = "I" THEN BaseEffect(d, x, pc, 4, HasC, 3) ELSE RegisterEffect(d, x, pc)

Ran(d, trap, tval, value, raised) ==
  did' = [d |-> d, trap |-> trap, tval |-> tval, value |-> value, raised |-> raised]

\* take_exception
Trapped(d, cause, tval) ==
  /\ Ran(d, cause, tval, 0, {})
  /\ pc' = Handler

\* No access: the register and the next pc, or a trap.
ExecuteInteger(d) ==
  LET e == Effect(d)
  IN  /\ d.unit \in {"I", "R"}
      /\ e.access = NoAccess
      /\ x' = Written(e.rd, e.value)
      /\ \/ /\ e.trap = NoTrap
            /\ Ran(d, NoTrap, 0, e.value, {})
            /\ pc' = e.next
         \/ /\ e.trap # NoTrap
            /\ Trapped(d, e.trap, e.tval)
      /\ UNCHANGED <<f, frm, fflags>>

\* do_load, do_store: a load writes its register if the access does not trap.
AccessInteger(d, answer) ==
  LET e == Effect(d)
      trap == AccessTrap(e.access, answer)
  IN  /\ d.unit = "I"
      /\ e.access # NoAccess
      /\ \/ /\ trap # NoTrap
            /\ Trapped(d, trap, e.access.at)
            /\ UNCHANGED x
         \/ /\ trap = NoTrap
            /\ pc' = e.next
            /\ IF e.access.kind = "load"
               THEN /\ x' = Written(e.rd, Extend(d.type, answer))
                    /\ Ran(d, NoTrap, 0, Extend(d.type, answer), {})
               ELSE /\ UNCHANGED x
                    /\ Ran(d, NoTrap, 0, e.access.data, {})
      /\ UNCHANGED <<f, frm, fflags>>

(***************************************************************************)
(* The F branch of execute_32bit: fcsr is built from the CSR file, the     *)
(* executor merges the flags into it, and it is written back before the    *)
(* trap is taken.                                                          *)
(***************************************************************************)
\* "Resolve the rounding mode": the modes 5 to 7 are illegal.
IllegalFloat(d) ==
  \/ d.type = "ILLEGAL"
  \/ UsesRounding(d.type) /\ EffectiveRm(d.rm, frm) > 4

Retires(d, value, raised) ==
  /\ fflags' = Merged(fflags, raised)
  /\ UNCHANGED frm
  /\ pc' = Trunc(pc + 4)
  /\ Ran(d, NoTrap, 0, value, raised)

ToFloat(d, o) ==
  /\ f' = [f EXCEPT ![d.rd] = o.bits]
  /\ UNCHANGED x
  /\ Retires(d, o.bits, o.flags)

ToX(d, o) ==
  /\ x' = Written(d.rd, o.bits)
  /\ UNCHANGED f
  /\ Retires(d, o.bits, o.flags)

\* A trap of the executor: fcsr comes back as it was, or with no flag added.
FloatTrap(d, cause, tval) ==
  /\ fflags' = Merged(fflags, {})
  /\ Trapped(d, cause, tval)
  /\ UNCHANGED <<x, f, frm>>

ExecuteFloat(d) ==
  LET a == f[d.rs1]
      b == f[d.rs2]
      c == f[d.rs3]
      mode == ModeOf(EffectiveRm(d.rm, frm))
  IN  /\ d.unit = "F"
      /\ d.type \notin {"FLW", "FSW"}
      /\ \/ IllegalFloat(d) /\ FloatTrap(d, 2, d.raw)
         \/ /\ ~IllegalFloat(d)
            /\ \/ /\ d.type \in ArithmeticTypes
                  /\ ToFloat(d, Arithmetic(d.type, a, b, c, mode))
               \/ /\ d.type \in {"FMIN_S", "FMAX_S"}
                  /\ ToFloat(d, MinMax(d.type, a, b))
               \/ /\ d.type \in {"FCVT_W_S", "FCVT_WU_S"}
                  /\ ToX(d, ToInteger(d.type, a, mode))
               \/ /\ d.type \in {"FCVT_S_W", "FCVT_S_WU"}
                  /\ ToFloat(d, FromInteger(d.type, x[d.rs1], mode))
               \/ d.type = "FMV_X_W" /\ ToX(d, Exact(a))
               \/ d.type = "FMV_W_X" /\ ToFloat(d, Exact(x[d.rs1]))
               \/ /\ d.type \in {"FEQ_S", "FLT_S", "FLE_S"}
                  /\ ToX(d, Compare(d.type, a, b))
               \/ /\ d.type \in {"FSGNJ_S", "FSGNJN_S", "FSGNJX_S"}
                  /\ ToFloat(d, Exact(Injected(d.type, a, b)))
               \/ d.type = "FCLASS_S" /\ ToX(d, Exact(Classify(a)))

\* FLW and FSW.
AccessFloat(d, answer) ==
  LET access == [kind |-> IF d.type = "FLW" THEN "load" ELSE "store",
                 at |-> Trunc(x[d.rs1] + d.imm), bytes |-> 4, data |-> f[d.rs2]]
      trap == AccessTrap(access, answer)
  IN  /\ d.unit = "F"
      /\ d.type \in {"FLW", "FSW"}
      /\ \/ trap # NoTrap /\ FloatTrap(d, trap, access.at)
         \/ /\ trap = NoTrap
            /\ IF d.type = "FLW" THEN ToFloat(d, Exact(answer))
               ELSE Retires(d, access.data, {}) /\ UNCHANGED <<x, f>>

(***************************************************************************)
(* The hart runs some instructions of one group (CPU::run).                *)
(***************************************************************************)
NotYet == [trap |-> NoTrap]

Init ==
  /\ deck \in Decks
  /\ \E s \in Starts[deck] :
       x = s.x /\ f = s.f /\ frm = s.frm /\ fflags = s.fflags
  /\ pc = 0
  /\ did = NotYet
  /\ steps = 0

Running == steps < MaxSteps[deck] /\ steps' = steps + 1 /\ UNCHANGED deck

Next ==
  \E d \in Stimuli[deck] :
    /\ Running
    /\ \/ ExecuteInteger(d)
       \/ \E answer \in BusWords \union {Fault} : AccessInteger(d, answer)
       \/ ExecuteFloat(d)
       \/ \E answer \in BusWords \union {Fault} : AccessFloat(d, answer)

Spec == Init /\ [][Next]_vars

(***************************************************************************)
(* Properties.  A and B are the operands of the instruction just run.      *)
(***************************************************************************)
\* Registers and flags in range; x0 is zero whatever is written to it
\* (RegFile::write).
TypeOK ==
  /\ deck \in Decks
  /\ DOMAIN x \subseteq 0 .. 31 /\ x[0] = 0
  /\ \A r \in DOMAIN x : x[r] \in Word
  /\ DOMAIN f \subseteq 0 .. 31
  /\ \A r \in DOMAIN f : f[r] \in Word
  /\ pc \in Word /\ Bit(pc, 0) = 0
  /\ frm \in 0 .. 7 /\ fflags \subseteq Flags
  /\ steps \in 0 .. MaxSteps[deck]

Does(types) == did'.trap = NoTrap /\ did'.d.type \in types
A == x[did'.d.rs1]
B == x[did'.d.rs2]
Result == did'.value
FA == f[did'.d.rs1]
FB == f[did'.d.rs2]
Raised == did'.raised

\* Division rounds towards zero, a remainder has the sign of the dividend
\* and is smaller than the divisor, and the two cases C++ leaves undefined
\* have the results of the ISA manual (rv32m::Executor).
DivisionLaw ==
  [][LET a == Signed(A)
         b == Signed(B)
         remainder(r) == Magnitude(r) < Magnitude(b) /\ (r = 0 \/ (r < 0) = (a < 0))
     IN  /\ Does({"DIV"}) =>
              CASE b = 0 -> Result = AllOnes
                [] a = -MinSigned /\ b = -1 -> Result = A
                [] OTHER -> remainder(a - Signed(Result) * b)
         /\ Does({"REM"}) =>
              IF b = 0 THEN Result = A
              ELSE /\ remainder(Signed(Result))
                   /\ \E q \in -MinSigned .. MinSigned : q * b + Signed(Result) = a
         /\ Does({"DIVU"}) =>
              IF B = 0 THEN Result = AllOnes ELSE A - Result * B \in 0 .. B - 1
         /\ Does({"REMU"}) =>
              IF B = 0 THEN Result = A
              ELSE Result < B /\ \E q \in Word : q * B + Result = A]_vars

\* Either upper half, put over the lower half MUL gives, is the product of
\* the operands each read with its own sign (rv32m::Executor).
ProductHalves ==
  [][LET whole(high) == high * 2^XLEN + MulDiv("MUL", A, B)
     IN  /\ Does({"MULH"}) => whole(Signed(Result)) = Signed(A) * Signed(B)
         /\ Does({"MULHSU"}) => whole(Signed(Result)) = Signed(A) * B
         /\ Does({"MULHU"}) => whole(Result) = A * B]_vars

\* The binary searches and the parallel count of zbb give the numbers of
\* leading zeros, trailing zeros and ones, for zero too.
CountsExact ==
  [][/\ Does({"CLZ"}) =>
          Result = Cardinality({i \in Positions : \A j \in i .. XLEN - 1 : Bit(A, j) = 0})
     /\ Does({"CTZ"}) =>
          Result = Cardinality({i \in Positions : \A j \in 0 .. i : Bit(A, j) = 0})
     /\ Does({"CPOP"}) => Result = Cardinality(Ones(A))]_vars

\* A rotation moves each bit by the amount around the word, by zero not at
\* all (zbb ROL, ROR, RORI, where the code shifts by XLEN - amount).
RotationsExact ==
  [][LET moved(k) == {(i + k) % XLEN : i \in Ones(A)}
     IN  /\ Does({"ROL"}) => Ones(Result) = moved(Shamt(B))
         /\ Does({"ROR"}) => Ones(Result) = moved(XLEN - Shamt(B))
         /\ Does({"RORI"}) => Ones(Result) = moved(XLEN - Shamt(did'.d.imm))]_vars

\* The integer results that go wrong at the edges of the words: quotients,
\* upper halves, counts and rotations are what arithmetic says they are.
IntegerLaws == DivisionLaw /\ ProductHalves /\ CountsExact /\ RotationsExact

\* Set-less-than, branches, and minimum and maximum follow one signed and
\* one unsigned order, an immediate being sign-extended in both.
OrderAgreed ==
  [][LET less(signed, m, n) ==
           IF signed /\ Bit(m, XLEN - 1) # Bit(n, XLEN - 1) THEN n < m ELSE m < n
         imm == Trunc(did'.d.imm)
         first(type) == less(type \in {"SLT", "SLTI", "BLT", "BGE", "MIN", "MAX"}, A, B)
         goes(taken) == pc' = Trunc(pc + IF taken THEN did'.d.imm ELSE 4)
     IN  /\ Does({"SLT", "SLTU"}) => (Result = 1) = first(did'.d.type)
         /\ Does({"SLTI", "SLTIU"}) =>
              (Result = 1) = less(did'.d.type = "SLTI", A, imm)
         /\ Does({"BLT", "BLTU"}) => goes(first(did'.d.type))
         /\ Does({"BGE", "BGEU"}) => goes(~first(did'.d.type))
         /\ Does({"MIN", "MINU"}) => Result = IF first(did'.d.type) THEN A ELSE B
         /\ Does({"MAX", "MAXU"}) => Result = IF first(did'.d.type) THEN B ELSE A]_vars

\* An instruction that traps has changed no register and no part of fcsr:
\* a jump to a misaligned target, an access the bus or the alignment
\* refuses, a reserved dynamic rounding mode.
TrapsWithoutEffect ==
  [][did'.trap # NoTrap => UNCHANGED <<x, f, frm, fflags>>]_vars

\* Flags are only ever added to fcsr, those the instruction raised, and an
\* instruction that raises none leaves fcsr as software set it, although
\* fcsr is copied out and written back around each (execute_32bit).
FlagsAccrue ==
  [][frm' = frm /\ fflags' = fflags \union (IF did'.trap = NoTrap THEN Raised ELSE {})]_vars

\* "All arithmetic results that are NaN are canonicalized to 0x7FC00000".
NaNCanonical ==
  [][Does(ArithmeticTypes \union {"FMIN_S", "FMAX_S", "FCVT_S_W", "FCVT_S_WU"})
       /\ IsNaN(Result) => Result = CanonicalNaN]_vars

\* n is the whole number that u units round to.
RoundsTo(n, u, rm) ==
  LET error == Magnitude(n * One - u)
  IN  CASE rm = "RTZ" -> error < One /\ Magnitude(n * One) <= Magnitude(u) /\ n * u >= 0
        [] rm = "RDN" -> error < One /\ n * One <= u
        [] rm = "RUP" -> error < One /\ n * One >= u
        [] rm = "RNE" -> 2 * error < One \/ (2 * error = One /\ n % 2 = 0)
        [] rm = "RMM" -> 2 * error < One \/ (2 * error = One /\ Magnitude(n * One) > Magnitude(u))

\* "NV is raised iff the input is NaN or the *rounded* value is out of"
\* range; then the result is the nearer bound, and otherwise it is the
\* rounded value, with NX if it is not the input (FCVT.W.S, FCVT.WU.S).
ConversionsSaturate ==
  [][LET signed == did'.d.type = "FCVT_W_S"
         low == IF signed THEN -MinSigned ELSE 0
         high == IF signed THEN MinSigned - 1 ELSE AllOnes
         n == IF signed THEN Signed(Result) ELSE Result
         rm == ModeOf(EffectiveRm(did'.d.rm, frm))
         fits == IsFinite(FA) /\ \E m \in low .. high : RoundsTo(m, Value(FA), rm)
     IN  Does({"FCVT_W_S", "FCVT_WU_S"}) =>
           IF fits
           THEN /\ RoundsTo(n, Value(FA), rm)
                /\ Raised = IF n * One = Value(FA) THEN {} ELSE {"NX"}
           ELSE /\ n = IF ~IsNaN(FA) /\ Sign(FA) = 1 THEN low ELSE high
                /\ Raised = {"NV"}]_vars

\* An integer that a float holds exactly comes back from it, in every
\* rounding mode and with no flag, the least integer included.
IntegersRoundTrip ==
  [][\A rm \in RoundingModes :
       /\ Does({"FCVT_S_W"}) /\ Raised = {} => ToInteger("FCVT_W_S", Result, rm) = Exact(A)
       /\ Does({"FCVT_S_WU"}) /\ Raised = {} => ToInteger("FCVT_WU_S", Result, rm) = Exact(A)]_vars

\* Conversions saturate where a value has no place and lose nothing where
\* it has one (rv32f::Executor, FCVT).
ConversionsExact == ConversionsSaturate /\ IntegersRoundTrip

\* FMIN and FMAX: the number if the other operand is NaN, otherwise the
\* lesser or greater operand with -0 below +0; NV for a signalling NaN only.
MinMaxOrdered ==
  [][LET numbers == {v \in {FA, FB} : ~IsNaN(v)}
         below(v, w) == Less(v, w) \/ (Equal(v, w) /\ Sign(v) >= Sign(w))
     IN  Does({"FMIN_S", "FMAX_S"}) =>
           /\ Raised = IF IsSNaN(FA) \/ IsSNaN(FB) THEN {"NV"} ELSE {}
           /\ IF numbers = {} THEN IsNaN(Result) ELSE Result \in numbers
           /\ \A v \in numbers :
                IF did'.d.type = "FMIN_S" THEN below(Result, v) ELSE below(v, Result)]_vars

\* The first eight classes of FCLASS follow the order FLT and FLE put the
\* values in, zeros apart; the last two are the values not equal to
\* themselves, told apart by whether FEQ raises NV.
ClassesOrderValues ==
  [][Does({"FCLASS_S"}) =>
       /\ \A r \in DOMAIN f :
            /\ Less(f[r], FA) => Classify(f[r]) <= Result
            /\ Less(FA, f[r]) => Result <= Classify(f[r])
            /\ IsZero(f[r]) /\ Less(f[r], FA) => Classify(f[r]) < Result
            /\ IsZero(f[r]) /\ Less(FA, f[r]) => Result < Classify(f[r])
       /\ (Result >= 8) = (Compare("FEQ_S", FA, FA).bits = 0)
       /\ (Result = 8) = (Compare("FEQ_S", FA, FA).flags = {"NV"})]_vars

\* Whatever compares, compares by one order: of signed words, of unsigned
\* words, and of floats with the zeros and NaNs in their places.
OrdersAgree == OrderAgreed /\ MinMaxOrdered /\ ClassesOrderValues

\* An instruction with the dynamic rounding mode, arithmetic or conversion in
\* either direction, gives the result and raises the flags that it does with
\* the mode of frm in the word, and is illegal where frm is reserved.
DynamicAsStatic ==
  [][did'.d.unit = "F" /\ UsesRounding(did'.d.type) /\ did'.d.rm = DYN =>
       IF frm > 4 THEN did'.trap = 2
       ELSE /\ did'.trap = NoTrap
            /\ Does(ArithmeticTypes) =>
                 Outcome(Result, Raised) =
                   Arithmetic(did'.d.type, FA, FB, f[did'.d.rs3], ModeOf(frm))
            /\ Does({"FCVT_W_S", "FCVT_WU_S"}) =>
                 Outcome(Result, Raised) = ToInteger(did'.d.type, FA, ModeOf(frm))
            /\ Does({"FCVT_S_W", "FCVT_S_WU"}) =>
                 Outcome(Result, Raised) = FromInteger(did'.d.type, A, ModeOf(frm))]_vars

\* "RNE/RTZ/RDN/RUP arithmetic is bit-exact via the host FPU (IEEE 754
\* binary32 with single rounding; FMA uses fmaf)": a fused instruction
\* rounds its own exact result once.
FusedExact ==
  [][LET rm == ModeOf(EffectiveRm(did'.d.rm, frm))
         a == IF did'.d.type \in {"FNMADD_S", "FNMSUB_S"} THEN Negated(FA) ELSE FA
         c == f[did'.d.rs3]
         addend == IF did'.d.type \in {"FMSUB_S", "FNMADD_S"} THEN Negated(c) ELSE c
     IN  Does(FusedTypes) /\ rm # "RMM" =>
           Result = Canonical(Fma(a, FB, addend, rm).bits)]_vars
=============================================================================
