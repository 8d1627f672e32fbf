-------------------------------- MODULE Hart --------------------------------
(***************************************************************************)
(* One step of the CPU (riscv_cpu.hpp): interrupts are sampled first, then *)
(* an instruction is fetched, decoded and executed, and it retires or      *)
(* raises an exception.  The module is about control: privilege, the       *)
(* mstatus interrupt-enable stack, delegation, the trap vectors, xRET, the *)
(* LR/SC reservation flag and where pc goes.  What an instruction computes *)
(* in the integer and floating-point registers is left out, and so are the *)
(* report registers (mcause, mtval, scause, stval), which trap entry only  *)
(* stores: `result' has the cause.  mcycle and minstret are in Counters.   *)
(*                                                                         *)
(* The host program around the CPU drives the six interrupt lines and may  *)
(* reset the hart between any two steps.                                   *)
(***************************************************************************)
EXTENDS CsrFile

CONSTANTS
  Program,          \* instruction classes the guest program contains
  Csrs,             \* registers its CSR instructions name
  StatusOperands,   \* source values for mstatus / sstatus
  IrqOperands,      \* source values for mie / mip / mideleg / sie / sip
  DelegOperands,    \* source values for medeleg
  CounterOperands,  \* source values for mcounteren / scounteren
  AddrOperands,     \* source values for the vectors and exception pcs
  JumpTargets,      \* targets of its jumps and branches
  Faults,           \* exceptions its other instructions run into
  Irqs,             \* interrupt lines the host drives
  ResetVector,      \* CPUConfig::reset_vector
  MtvecReset        \* CPUConfig::mtvec_reset

InstrClasses == {"plain", "jump", "lr", "sc", "fault", "ecall", "csr",
                 "mret", "sret", "sfence", "wfi"}

ASSUME ProgramAssumption ==
  /\ Program \subseteq InstrClasses
  /\ Csrs \subseteq CsrNames
  /\ StatusOperands \subseteq SUBSET MstatusBits
  /\ IrqOperands \subseteq SUBSET IrqCodes
  /\ DelegOperands \subseteq SUBSET Causes
  /\ CounterOperands \subseteq SUBSET Counters
  /\ AddrOperands \subseteq Addr
  /\ Irqs \subseteq IrqCodes
  /\ Faults \subseteq {1, 2, 3, 4, 5, 6, 7}

\* Bit 0 of a target is cleared by the instruction (JALR) or not encodable.
ASSUME JumpAssumption == \A a \in JumpTargets : a \in Addr /\ a % 2 = 0

ASSUME ResetAssumption ==
  /\ ResetVector \in Addr /\ Aligned(ResetVector)
  /\ MtvecReset \in Addr

VARIABLES
  csr,       \* the CSR file
  priv,      \* CSRFile::current_privilege
  pc,        \* address of the next instruction
  reserved,  \* whether the LR/SC reservation is valid
  line,      \* the interrupt lines the host last drove high
  result     \* CPUExecResult of the last step: what happened, and the cause

vars == <<csr, priv, pc, reserved, line, result>>

Results == [kind : {"none", "retire", "trap", "interrupt"}, cause : 0 .. 11]
NoResult == [kind |-> "none", cause |-> 0]
Retired == [kind |-> "retire", cause |-> 0]

\* Variants named ...Bug are mutants: plausible mistakes in the definition
\* that follows them, which the named property must expose.
OffsetBug(a, n) == a + n

Offset(a, n) == (a + n) % AddrSpace

(***************************************************************************)
(* Trap entry and return, as functions of the CSR file.                    *)
(***************************************************************************)
\* MIE is not saved in MPIE.
EnterMBug(f, from, epc) ==
  [f EXCEPT !.mstatus = WithMpp(@ \ {"MIE"}, from), !.mepc = LegalizeEpc(epc)]

EnterM(f, from, epc) ==
  [f EXCEPT !.mstatus = WithMpp(@ \ {"MIE", "MPIE"}, from)
                          \union (IF "MIE" \in @ THEN {"MPIE"} ELSE {}),
            !.mepc = LegalizeEpc(epc)]

EnterS(f, from, epc) ==
  [f EXCEPT !.mstatus = (@ \ {"SIE", "SPIE", "SPP"})
                          \union (IF "SIE" \in @ THEN {"SPIE"} ELSE {})
                          \union (IF from = S THEN {"SPP"} ELSE {}),
            !.sepc = LegalizeEpc(epc)]

Enter(f, target, from, epc) ==
  IF target = S THEN EnterS(f, from, epc) ELSE EnterM(f, from, epc)

\* MPRV survives the return.
ReturnMBug(f) ==
  [f EXCEPT !.mstatus = WithMpp(@ \ {"MIE", "MPIE"}, IF HasU THEN U ELSE M)
                          \union (IF "MPIE" \in @ THEN {"MIE"} ELSE {})
                          \union {"MPIE"}]

\* Only the low bit of MPP is cleared.
ReturnMHalfBug(f) ==
  [f EXCEPT !.mstatus = (@ \ ({"MIE", "MPIE", "MPPL"}
                                \union (IF MppOf(@) = M THEN {} ELSE {"MPRV"})))
                          \union (IF "MPIE" \in @ THEN {"MIE"} ELSE {})
                          \union {"MPIE"}]

ReturnM(f) ==
  [f EXCEPT !.mstatus = (WithMpp(@ \ {"MIE", "MPIE"}, IF HasU THEN U ELSE M)
                           \ (IF MppOf(@) = M THEN {} ELSE {"MPRV"}))
                          \union (IF "MPIE" \in @ THEN {"MIE"} ELSE {})
                          \union {"MPIE"}]

ReturnS(f) ==
  [f EXCEPT !.mstatus = (@ \ {"SIE", "SPP", "MPRV"})
                          \union (IF "SPIE" \in @ THEN {"SIE"} ELSE {})
                          \union {"SPIE"}]

\* The mode xRET returns to: MPP as encoded, 2 read as Machine.
MretPriv(f) == IF MppOf(f.mstatus) \in {U, S} THEN MppOf(f.mstatus) ELSE M
SretPriv(f) == IF "SPP" \in f.mstatus THEN S ELSE U

TvecOf(f, target) == IF target = S THEN f.stvec ELSE f.mtvec

(***************************************************************************)
(* Interrupts.                                                             *)
(***************************************************************************)
IrqTarget(c) == IF HasS /\ c \in csr.mideleg THEN S ELSE M

\* The enable bit of the target gates lower modes too.
GloballyEnabledBug(target) ==
  priv <= target /\ (IF target = M THEN "MIE" ELSE "SIE") \in csr.mstatus

GloballyEnabled(target) ==
  \/ priv < target
  \/ priv = target /\ (IF target = M THEN "MIE" ELSE "SIE") \in csr.mstatus

\* Two passes over the priority order: targets M first, then targets S.
PriorityBug == <<11, 7, 3, 9, 1, 5>>
Priority == <<11, 3, 7, 9, 1, 5>>
ScanTargetBug(k) == IF k <= 6 THEN S ELSE M
ScanTarget(k) == IF k <= 6 THEN M ELSE S
ScanCode(k) == IF k <= 6 THEN Priority[k] ELSE Priority[k - 6]

\* The positions of the scan where the interrupt would be taken.
Deliverable ==
  {k \in 1 .. 12 : /\ ScanCode(k) \in csr.mip \intersect csr.mie
                   /\ IrqTarget(ScanCode(k)) = ScanTarget(k)
                   /\ GloballyEnabled(ScanTarget(k))}

VectorFor(tvec, code) ==
  Offset(TvecBase(tvec), IF TvecMode(tvec) = 1 THEN 4 * code ELSE 0)

TakeInterrupt ==
  \E k \in Deliverable :
    /\ \A j \in Deliverable : k <= j
    /\ csr' = Enter(csr, ScanTarget(k), priv, pc)
    /\ priv' = ScanTarget(k)
    /\ pc' = VectorFor(TvecOf(csr, ScanTarget(k)), ScanCode(k))
    /\ reserved' = FALSE
    /\ result' = [kind |-> "interrupt", cause |-> ScanCode(k)]
    /\ UNCHANGED line

(***************************************************************************)
(* Synchronous exceptions.  Never delegated from M-mode, and always to the *)
(* base of the vector.                                                     *)
(***************************************************************************)
\* A trap taken in M-mode may be delegated.
ExceptionTargetBug(cause) == IF HasS /\ cause \in csr.medeleg THEN S ELSE M

ExceptionTarget(cause) ==
  IF HasS /\ priv # M /\ cause \in csr.medeleg THEN S ELSE M

TakeException(cause) ==
  LET target == ExceptionTarget(cause)
  IN  /\ csr' = Enter(csr, target, priv, pc)
      /\ priv' = target
      /\ pc' = TvecBase(TvecOf(csr, target))
      /\ reserved' = FALSE
      /\ result' = [kind |-> "trap", cause |-> cause]
      /\ UNCHANGED line

IllegalInstruction == TakeException(2)

(***************************************************************************)
(* Instructions.  Each runs only when no interrupt is deliverable.         *)
(***************************************************************************)
Executes(class) == class \in Program /\ Deliverable = {}

\* finish_step of an instruction that did not trap.
Retire(next) == pc' = next /\ result' = Retired /\ UNCHANGED line

\* Anything that only computes, loads, stores or does not branch.
Plain ==
  /\ Executes("plain")
  /\ \E size \in {4} \union (IF HasC THEN {2} ELSE {}) : Retire(Offset(pc, size))
  /\ UNCHANGED <<csr, priv, reserved>>

\* A taken branch or jump.  Without C a target that is not a multiple of
\* four raises instruction-address-misaligned (0) at the jump.
Jump ==
  /\ Executes("jump")
  /\ \E target \in JumpTargets :
       IF ~HasC /\ target % 4 = 2
         THEN TakeException(0)
         ELSE Retire(target) /\ UNCHANGED <<csr, priv, reserved>>

LoadReserved ==
  /\ Executes("lr")
  /\ reserved' = TRUE
  /\ Retire(Offset(pc, 4))
  /\ UNCHANGED <<csr, priv>>

StoreConditional ==
  /\ Executes("sc")
  /\ reserved' = FALSE
  /\ Retire(Offset(pc, 4))
  /\ UNCHANGED <<csr, priv>>

\* A fetch fault, an illegal encoding, EBREAK, a misaligned or failing
\* memory access.
Fault == Executes("fault") /\ \E cause \in Faults : TakeException(cause)

Ecall ==
  /\ Executes("ecall")
  /\ TakeException(IF priv = U THEN 8 ELSE IF priv = S THEN 9 ELSE 11)

(***************************************************************************)
(* CSR instructions: CSRRW, CSRRS, CSRRC, and CSRRS/CSRRC with rs1 = x0,   *)
(* which only read.                                                        *)
(***************************************************************************)
CsrOps == {"write", "set", "clear", "read"}

Operands(c) ==
  CASE c \in StatusCsrs -> StatusOperands
    [] c \in IrqCsrs -> IrqOperands
    [] c = "medeleg" -> DelegOperands
    [] c \in CounterEnableCsrs -> CounterOperands
    [] c \in AddrCsrs -> AddrOperands
    [] OTHER -> {0}

\* On an address register "set" and "clear" only produce one more value to
\* store, which "write" already has.
OpsOn(c) == IF c \in AddrCsrs \union CounterCsrs \union {"satp", "mhartid"}
            THEN {"write", "read"} ELSE CsrOps

NewValue(op, old, src) ==
  CASE op = "set" -> old \union src
    [] op = "clear" -> old \ src
    [] OTHER -> src

CsrPermitted(c, op) ==
  /\ Exists(c)
  /\ CanRead(csr, priv, c)
  /\ op # "read" => CanWrite(priv, c)
  /\ ~(c = "satp" /\ HasS /\ priv = S /\ "TVM" \in csr.mstatus)

CsrInstruction ==
  /\ Executes("csr")
  /\ \E c \in Csrs : \E op \in OpsOn(c) :
       IF CsrPermitted(c, op)
         THEN /\ \E src \in Operands(c) :
                   csr' = CASE op = "read" -> csr
                            [] op = "write" -> WriteCsr(csr, c, src)
                            [] OTHER -> WriteCsr(csr, c, NewValue(op, ReadCsr(csr, c), src))
              /\ Retire(Offset(pc, 4))
              /\ UNCHANGED <<priv, reserved>>
         ELSE IllegalInstruction

(***************************************************************************)
(* Privileged instructions.                                                *)
(***************************************************************************)
Mret ==
  /\ Executes("mret")
  /\ IF priv # M
       THEN IllegalInstruction
       ELSE /\ csr' = ReturnM(csr)
            /\ priv' = MretPriv(csr)
            /\ Retire(csr.mepc)
            /\ UNCHANGED reserved

SretLegal == HasS /\ priv # U /\ ~(priv = S /\ "TSR" \in csr.mstatus)

Sret ==
  /\ Executes("sret")
  /\ IF ~SretLegal
       THEN IllegalInstruction
       ELSE /\ csr' = ReturnS(csr)
            /\ priv' = SretPriv(csr)
            /\ Retire(csr.sepc)
            /\ UNCHANGED reserved

\* Without S-mode the decoder rejects SFENCE.VMA.
SfenceLegal == HasS /\ priv # U /\ ~(priv = S /\ "TVM" \in csr.mstatus)
WfiLegal == priv # U /\ ~(priv = S /\ "TW" \in csr.mstatus)

SfenceVma ==
  /\ Executes("sfence")
  /\ IF SfenceLegal
       THEN Retire(Offset(pc, 4)) /\ UNCHANGED <<csr, priv, reserved>>
       ELSE IllegalInstruction

\* WFI does not wait.
Wfi ==
  /\ Executes("wfi")
  /\ IF WfiLegal
       THEN Retire(Offset(pc, 4)) /\ UNCHANGED <<csr, priv, reserved>>
       ELSE IllegalInstruction

(***************************************************************************)
(* The host.                                                               *)
(***************************************************************************)
SetLine(c, level) ==
  /\ line' = IF level THEN line \union {c} ELSE line \ {c}
  /\ csr' = [csr EXCEPT !.mip = IF level THEN @ \union {c} ELSE @ \ {c}]
  /\ UNCHANGED <<priv, pc, reserved, result>>

\* The lines are the platform's: a reset of the hart does not move them.
Reset ==
  /\ csr' = ResetCsr(MtvecReset)
  /\ priv' = M
  /\ pc' = ResetVector
  /\ reserved' = FALSE
  /\ result' = NoResult
  /\ UNCHANGED line

(***************************************************************************)
(* The specification.                                                      *)
(***************************************************************************)
Init ==
  /\ csr = ResetCsr(MtvecReset)
  /\ priv = M
  /\ pc = ResetVector
  /\ reserved = FALSE
  /\ line = {}
  /\ result = NoResult

Instruction ==
  \/ Plain \/ Jump \/ LoadReserved \/ StoreConditional \/ Fault \/ Ecall
  \/ CsrInstruction \/ Mret \/ Sret \/ SfenceVma \/ Wfi

Step == TakeInterrupt \/ Instruction

Host == Reset \/ \E c \in Irqs, level \in BOOLEAN : SetLine(c, level)

Next == Step \/ Host

Spec == Init /\ [][Next]_vars

\* run() and the testbench call step() in a loop: the hart never stops.
FairSpec == Spec /\ WF_vars(Step)

(***************************************************************************)
(* Invariants.                                                             *)
(***************************************************************************)
\* Every variable has its type.
TypeOK ==
  /\ csr \in CsrStates
  /\ priv \in Priv
  /\ pc \in Addr
  /\ reserved \in BOOLEAN
  /\ line \subseteq IrqCodes
  /\ result \in Results

\* The hart never runs in a privilege mode the configuration does not have.
\* Trap entry, MRET and SRET set the privilege with no test of that: it is
\* the content of MPP, SPP and the delegation registers that decides.
ModeImplemented == priv \in Modes

\* mstatus is always a value that a CSR write could have stored: a fixed
\* point of the WARL legalisation.  Only CSRFile::write legalises; trap
\* entry and xRET change mstatus through the raw set().
MstatusLegal == LegalizeMstatus(csr.mstatus) = csr.mstatus

\* MPRV is never set outside M-mode: sstatus cannot write it, MRET and SRET
\* clear it on the way down, and no trap entry sets it.
MprvOnlyInM == priv # M => "MPRV" \notin csr.mstatus

\* pc and the exception pcs respect IALIGN whatever software wrote to them
\* and to the vectors, and whatever it jumped to.
PcsAligned == Aligned(pc) /\ Aligned(csr.mepc) /\ Aligned(csr.sepc)

\* A handler that does nothing but return is invisible to the code it
\* interrupted: entering M-mode (or S-mode, from S or U) from the present
\* state and returning restores privilege, pc and all of mstatus except the
\* handler's own stack fields.
TrapReturnTransparent ==
  LET inM == EnterM(csr, priv, pc)
      inS == EnterS(csr, priv, pc)
  IN  /\ MretPriv(inM) = priv
      /\ inM.mepc = pc
      /\ ReturnM(inM).mstatus \ {"MPIE", "MPPL", "MPPH"}
           = csr.mstatus \ {"MPIE", "MPPL", "MPPH"}
      /\ priv # M =>
           /\ SretPriv(inS) = priv
           /\ inS.sepc = pc
           /\ ReturnS(inS).mstatus \ {"SPIE", "SPP"}
                = csr.mstatus \ {"SPIE", "SPP"}

(***************************************************************************)
(* Action properties.                                                      *)
(***************************************************************************)
\* Whether the pending bit of an interrupt is the level of its line.
ShowsLine(c) == c \in csr.mip <=> c \in line

\* MTIP and MEIP are the platform's.  They are pending only while their
\* line is high; whatever the hart executes, in whatever mode and through whatever
\* alias, only a reset and the driving of their own line change them; and a
\* bit that shows its line goes on showing it until a reset, which clears mip
\* and leaves the lines where they are.
PlatformPending ==
  [][\A c \in {7, 11} :
       /\ c \in csr'.mip => c \in line'
       /\ ~(c \in csr'.mip <=> c \in csr.mip) =>
             Reset \/ \E level \in BOOLEAN : SetLine(c, level)
       /\ ShowsLine(c) /\ ~ShowsLine(c)' => Reset]_vars

\* The handler of an interrupt is not pre-empted: after an interrupt entry no
\* other interrupt is deliverable, so xepc, xPP and xPIE of the entry are not
\* overwritten by a second one before software can save them.  For an entry
\* to S this needs the M-targeted interrupts to have been scanned first.
\* (Entries for exceptions are not meant: one taken to S may be followed by
\* an interrupt to M, which saves elsewhere.)
HandlerNotPreempted == [][TakeInterrupt => Deliverable' = {}]_vars

\* The documented order, MEI > MSI > MTI > SEI > SSI > STI, from what the
\* codes mean: c % 4 = 3 is a machine interrupt; c \div 4 is its source,
\* 0 software, 1 timer, 2 external.
Outranks(c, d) ==
  LET urgency == [source \in 0 .. 2 |-> CASE source = 2 -> 3 [] source = 0 -> 2 [] OTHER -> 1]
  IN  \/ c % 4 > d % 4
      \/ c % 4 = d % 4 /\ urgency[c \div 4] > urgency[d \div 4]

\* The interrupt taken outranks every other one that is pending, enabled
\* and routed to the same mode; and one that goes to S-mode is taken only
\* when none that is pending and enabled goes to M-mode.
InterruptPriority ==
  [][TakeInterrupt =>
       LET taken == result'.cause
           rivals == (csr.mip \intersect csr.mie) \ {taken}
       IN  /\ \A c \in rivals : IrqTarget(c) = IrqTarget(taken) => Outranks(taken, c)
           /\ IrqTarget(taken) = S => \A c \in rivals : IrqTarget(c) = S]_vars

\* Privilege rises only by a trap (or reset) and falls only by a return: no
\* xRET raises it, and no trap, delegated or not, lowers it.
PrivilegeMoves ==
  [][/\ priv' > priv => result'.kind \in {"trap", "interrupt", "none"}
     /\ priv' < priv => result'.kind = "retire"]_vars

(***************************************************************************)
(* Refinement: the hart keeps the isolation of the privilege modes.  The   *)
(* state is divided by owner; the S-visible bits of mstatus and the        *)
(* delegated bits of mie are the supervisor's, as sstatus and sie show     *)
(* them.                                                                   *)
(***************************************************************************)
SupervisorStatus == {"SIE", "SPIE", "SPP", "SUM", "MXR"}

MachineOwned ==
  [status |-> csr.mstatus \ SupervisorStatus, ie |-> csr.mie \ csr.mideleg,
   edeleg |-> csr.medeleg, tvec |-> csr.mtvec, epc |-> csr.mepc,
   counteren |-> csr.mcounteren]

SupervisorOwned ==
  [status |-> csr.mstatus \intersect SupervisorStatus,
   ie |-> csr.mie \intersect csr.mideleg,
   tvec |-> csr.stvec, epc |-> csr.sepc, counteren |-> csr.scounteren]

Domains == INSTANCE Isolation WITH
  mode <- priv, at <- pc, machine <- MachineOwned,
  supervisor <- SupervisorOwned, pending <- csr.mip, delegated <- csr.mideleg

\* The hart implements Isolation: no instruction, trap or return lets a mode
\* change, through an alias or a saved field, what belongs to a higher one.
ImplementsIsolation == Domains!IsolationSpec

(***************************************************************************)
(* Liveness.                                                               *)
(***************************************************************************)
\* No program can keep the hart from an interrupt that is pending, enabled
\* and routed to a higher mode, whatever it executes and whatever MIE and SIE
\* are: a user's leaves U-mode, and a supervisor's or user's enters M-mode if
\* the interrupt is not delegated, or else the interrupt is withdrawn.
HigherModesServed ==
  \A c \in Irqs :
    /\ (priv = U /\ c \in csr.mip \intersect csr.mie)
         ~> (priv # U \/ c \notin csr.mip)
    /\ (priv # M /\ c \in (csr.mip \intersect csr.mie) \ csr.mideleg)
         ~> (priv = M \/ c \notin csr.mip)

(***************************************************************************)
(* What the documentation says and the code does not do.                   *)
(***************************************************************************)
\* riscv_csr_reference.md: MPP is WARL and never encodes a mode that is not
\* implemented.  Fails with S-mode and no U-mode: SRET enters U-mode, and
\* the next trap stores it in MPP.
MppImplemented == MppOf(csr.mstatus) \in Modes
=============================================================================
