------------------------------ MODULE CsrFile ------------------------------
(***************************************************************************)
(* The control-and-status-register file of the hart (riscv_zicsr.hpp,      *)
(* class CSRFile): which registers exist, who may access them, and how a   *)
(* write is legalised before it is stored.                                 *)
(*                                                                         *)
(* A register whose bits have separate meanings is the SET OF ITS ONE      *)
(* BITS: mstatus is a set of bit names, mie / mip / mideleg sets of        *)
(* interrupt codes, medeleg a set of exception causes, mcounteren and      *)
(* scounteren sets of counter indices.  A mask is then an intersection.    *)
(* Trap vectors and exception pcs are byte addresses in 0..AddrSpace-1,    *)
(* mode and alignment bits included.                                       *)
(*                                                                         *)
(* The whole file is one record, as it is one map in the code, and every   *)
(* operator here is a function of it; Hart owns the variable.              *)
(***************************************************************************)
EXTENDS Integers

CONSTANTS
  HasS,       \* CPUConfig::enable_s_mode
  HasU,       \* CPUConfig::enable_u_mode
  HasC,       \* CPUConfig::enable_c_extension (IALIGN = 16 instead of 32)
  HasF,       \* CPUConfig::enable_f_extension
  AddrSpace   \* number of byte addresses; 2^32 in the code

ASSUME ConfigAssumption ==
  /\ HasS \in BOOLEAN
  /\ HasU \in BOOLEAN
  /\ HasC \in BOOLEAN
  /\ HasF \in BOOLEAN

ASSUME AddrSpaceAssumption ==
  /\ AddrSpace \in Nat \ {0}
  /\ AddrSpace % 4 = 0

(***************************************************************************)
(* Privilege levels, with the code's encoding: the order is numeric.       *)
(***************************************************************************)
U == 0
S == 1
M == 3
Priv == {U, S, M}

\* The modes this configuration implements.
Modes == {M} \union (IF HasS THEN {S} ELSE {}) \union (IF HasU THEN {U} ELSE {})

Addr == 0 .. AddrSpace - 1
IAlign == IF HasC THEN 2 ELSE 4
Aligned(a) == a % IAlign = 0

\* SSI, MSI, STI, MTI, SEI, MEI.
IrqCodes == {1, 3, 5, 7, 9, 11}

\* The exception causes the hart raises.
Causes == {0, 1, 2, 3, 4, 5, 6, 7, 8, 9, 11}

\* cycle, time and instret.
Counters == {0, 1, 2}

(***************************************************************************)
(* mstatus.                                                                *)
(***************************************************************************)
\* MPP is two bits, high and low; FS stands for both bits of that field.
MstatusBits == {"SIE", "MIE", "SPIE", "MPIE", "SPP", "MPPL", "MPPH", "FS",
                "MPRV", "SUM", "MXR", "TVM", "TW", "TSR", "SD"}

\* Variants named ...Bug are mutants: plausible mistakes in the definition
\* that follows them, which the properties of Hart must expose.
SstatusWriteMaskBug == {"SIE", "SPIE", "SPP", "MXR", "SUM", "TVM"}

SstatusWriteMask == {"SIE", "SPIE", "SPP", "MXR", "SUM"}

MstatusHardwired == IF HasF THEN {"FS", "SD"} ELSE {}

MstatusLegalMask ==
  ((MstatusBits \ {"FS", "SD"})
     \ (IF HasS THEN {} ELSE {"SIE", "SPIE", "SPP", "SUM", "TVM", "TSR", "TW"}))
     \ (IF HasU THEN {} ELSE {"MPRV", "SUM", "MXR", "TW"})

MppOf(status) == (IF "MPPL" \in status THEN 1 ELSE 0)
                   + (IF "MPPH" \in status THEN 2 ELSE 0)

MppBits(mpp) == (IF mpp \in {1, 3} THEN {"MPPL"} ELSE {})
                  \union (IF mpp \in {2, 3} THEN {"MPPH"} ELSE {})

WithMpp(status, mpp) == (status \ {"MPPL", "MPPH"}) \union MppBits(mpp)

\* The test for a missing S-mode is forgotten.
LegalizeMppSBug(mpp) == IF mpp = 2 \/ (~HasU /\ mpp = U) THEN M ELSE mpp

LegalizeMpp(mpp) ==
  IF \/ mpp = 2
     \/ ~HasU /\ mpp = U
     \/ ~HasS /\ mpp = S
  THEN M ELSE mpp

LegalizeMstatus(value) ==
  LET v == value \intersect MstatusLegalMask
  IN  WithMpp(v, LegalizeMpp(MppOf(v))) \union MstatusHardwired

\* The legal mask removes FS and SD and nothing puts them back.
LegalizeSstatusBug(status, value) ==
  ((status \ SstatusWriteMask) \union (value \intersect SstatusWriteMask))
    \intersect MstatusLegalMask

LegalizeSstatus(status, value) ==
  (((status \ SstatusWriteMask) \union (value \intersect SstatusWriteMask))
     \intersect MstatusLegalMask) \union MstatusHardwired

(***************************************************************************)
(* Interrupt, vector and pc registers.                                     *)
(***************************************************************************)
\* The timer bit is writable as well.
MipWritableBug == IF HasS THEN {3, 1, 5, 7, 9} ELSE {3, 7}

MipWritable == IF HasS THEN {3, 1, 5, 9} ELSE {3}

\* (old & ~mask) | (value & mask)
MergeBug(old, mask, value) == (old \ mask) \union value
Merge(old, mask, value) == (old \ mask) \union (value \intersect mask)

\* WARL mode field of mtvec / stvec: reserved modes 2 and 3 become Direct.
TvecMode(v) == IF v % 4 = 1 THEN 1 ELSE 0
TvecBase(v) == v - (v % 4)
LegalizeTvec(v) == TvecBase(v) + TvecMode(v)

\* Bit 0 is cleared whatever IALIGN is.
LegalizeEpcHalfBug(v) == v - (v % 2)

LegalizeEpc(v) == v - (v % IAlign)

(***************************************************************************)
(* The register file.                                                      *)
(***************************************************************************)
CsrStates ==
  [mstatus : SUBSET MstatusBits,
   mie : SUBSET IrqCodes, mip : SUBSET IrqCodes, mideleg : SUBSET IrqCodes,
   medeleg : SUBSET Causes,
   mtvec : Addr, stvec : Addr, mepc : Addr, sepc : Addr,
   mcounteren : SUBSET Counters, scounteren : SUBSET Counters]

\* init_storage(), then the mtvec write of CPU::reset().
ResetCsr(mtvecReset) ==
  [mstatus |-> MstatusHardwired \union MppBits(M),
   mie |-> {}, mip |-> {}, mideleg |-> {}, medeleg |-> {},
   mtvec |-> LegalizeTvec(mtvecReset), stvec |-> 0, mepc |-> 0, sepc |-> 0,
   mcounteren |-> {}, scounteren |-> {}]

\* Addresses of the registers whose access or content matters here.
CsrAddr ==
  [sstatus |-> 256, sie |-> 260, stvec |-> 261, scounteren |-> 262,
   sepc |-> 321, sip |-> 324, satp |-> 384,
   mstatus |-> 768, medeleg |-> 770, mideleg |-> 771, mie |-> 772,
   mtvec |-> 773, mcounteren |-> 774, mepc |-> 833, mip |-> 836,
   cycle |-> 3072, time |-> 3073, instret |-> 3074, mhartid |-> 3860]

CsrNames == DOMAIN CsrAddr
StatusCsrs == {"mstatus", "sstatus"}
IrqCsrs == {"mie", "mip", "mideleg", "sie", "sip"}
CounterEnableCsrs == {"mcounteren", "scounteren"}
AddrCsrs == {"mtvec", "stvec", "mepc", "sepc"}
CounterCsrs == {"cycle", "time", "instret"}
SupervisorCsrs == {"sstatus", "sie", "stvec", "scounteren", "sepc", "sip", "satp"}

\* CSRPermissions::from_address: bits 11:10 = 3 is read-only, bits 9:8 are
\* the least privilege.
ReadOnlyCsr(c) == (CsrAddr[c] \div 1024) % 4 = 3
MinPriv(c) == (CsrAddr[c] \div 256) % 4

Exists(c) ==
  CASE c \in SupervisorCsrs -> HasS
    [] c \in {"medeleg", "mideleg"} -> HasS \/ HasU
    [] OTHER -> TRUE

CounterIndex(c) == CsrAddr[c] % 32

CounterReadable(f, priv, c) ==
  \/ priv = M
  \/ /\ CounterIndex(c) \in f.mcounteren
     /\ priv = S \/ ~HasS \/ CounterIndex(c) \in f.scounteren

CanRead(f, priv, c) ==
  /\ priv >= MinPriv(c)
  /\ c \in CounterCsrs => CounterReadable(f, priv, c)

CanWrite(priv, c) == ~ReadOnlyCsr(c) /\ priv >= MinPriv(c)

\* CSRFile::read, for the registers whose value an instruction combines
\* with its operand (the set-valued ones); the sstatus view keeps FS and SD.
ReadCsr(f, c) ==
  CASE c = "sstatus" -> f.mstatus \intersect (SstatusWriteMask \union {"FS", "SD"})
    [] c = "sie" -> f.mie \intersect f.mideleg
    [] c = "sip" -> f.mip \intersect f.mideleg
    [] OTHER -> f[c]

\* CSRFile::write.  satp is stored and never used, so its value is not kept.
WriteCsr(f, c, v) ==
  CASE c = "mstatus" -> [f EXCEPT !.mstatus = LegalizeMstatus(v)]
    [] c = "sstatus" -> [f EXCEPT !.mstatus = LegalizeSstatus(f.mstatus, v)]
    [] c = "mie"     -> [f EXCEPT !.mie = v]
    [] c = "sie"     -> [f EXCEPT !.mie = Merge(f.mie, f.mideleg, v)]
    [] c = "mip"     -> [f EXCEPT !.mip = Merge(f.mip, MipWritable, v)]
    [] c = "sip"     -> [f EXCEPT !.mip = Merge(f.mip, {1} \intersect f.mideleg, v)]
    [] c = "mideleg" -> [f EXCEPT !.mideleg = v]
    [] c = "medeleg" -> [f EXCEPT !.medeleg = v \ {11}]
    [] c = "mtvec"   -> [f EXCEPT !.mtvec = LegalizeTvec(v)]
    [] c = "stvec"   -> [f EXCEPT !.stvec = LegalizeTvec(v)]
    [] c = "mepc"    -> [f EXCEPT !.mepc = LegalizeEpc(v)]
    [] c = "sepc"    -> [f EXCEPT !.sepc = LegalizeEpc(v)]
    [] c = "mcounteren" -> [f EXCEPT !.mcounteren = v]
    [] c = "scounteren" -> [f EXCEPT !.scounteren = v]
    [] OTHER -> f
=============================================================================
