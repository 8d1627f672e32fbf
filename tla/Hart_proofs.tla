---------------------------- MODULE Hart_proofs ----------------------------
(***************************************************************************)
(* Proofs about the hart, for every configuration, program and address     *)
(* space.                                                                  *)
(***************************************************************************)
EXTENDS Hart, TLAPS

(***************************************************************************)
(* Addresses.                                                              *)
(***************************************************************************)
\* Wrapping an address into the address space keeps it in the space and, the
\* size of the space being a multiple of four, keeps its alignment.
LEMMA OffsetAligned ==
  ASSUME NEW a \in Addr, NEW n \in Nat, Aligned(a), n % IAlign = 0
  PROVE  Offset(a, n) \in Addr /\ Aligned(Offset(a, n))
<1> DEFINE r == (a + n) % AddrSpace
           q == (a + n) \div AddrSpace
           k == AddrSpace \div 4
<1>1. AddrSpace \in Nat /\ AddrSpace > 0 /\ k \in Nat /\ AddrSpace = 4 * k
  BY AddrSpaceAssumption
<1>2. a \in Nat /\ a + n \in Nat
  BY AddrSpaceAssumption DEF Addr
<1>3. r \in 0 .. AddrSpace - 1 /\ q \in Nat /\ a + n = AddrSpace * q + r
  BY <1>1, <1>2
<1>4. k * q \in Nat
  BY <1>1, <1>3
<1>5. AddrSpace * q = 4 * (k * q)
  <2> HIDE DEF k, q
  <2> QED BY <1>1, <1>3
<1>6. (a + n) = 4 * (k * q) + r
  BY <1>3, <1>5
<1>7. r % IAlign = 0
  <2>0. a % IAlign = 0 BY DEF Aligned
  <2> DEFINE m == k * q
  <2>1. m \in Nat /\ a + n = 4 * m + r /\ r \in Nat
    BY <1>3, <1>4, <1>6, AddrSpaceAssumption
  <2> HIDE DEF m, r
  <2>2. CASE IAlign = 2
    BY <2>0, <2>1, <2>2, <1>2
  <2>3. CASE IAlign = 4
    BY <2>0, <2>1, <2>3, <1>2
  <2> QED BY <2>2, <2>3 DEF IAlign
<1> QED BY <1>3, <1>7 DEF Offset, Addr, Aligned

\* A legalised exception pc is an aligned address, and an aligned one is
\* left as it is.
LEMMA EpcAligned ==
  ASSUME NEW v \in Addr
  PROVE  /\ LegalizeEpc(v) \in Addr
         /\ Aligned(LegalizeEpc(v))
         /\ Aligned(v) => LegalizeEpc(v) = v
<1>1. v \in Nat /\ AddrSpace \in Nat
  BY AddrSpaceAssumption DEF Addr
<1>2. CASE IAlign = 2
  BY <1>1, <1>2 DEF Addr, LegalizeEpc, Aligned
<1>3. CASE IAlign = 4
  BY <1>1, <1>3 DEF Addr, LegalizeEpc, Aligned
<1> QED BY <1>2, <1>3 DEF IAlign

\* A legalised vector is an address with mode 0 or 1, and its base is a
\* multiple of four.
LEMMA TvecAligned ==
  ASSUME NEW v \in Addr
  PROVE  /\ LegalizeTvec(v) \in Addr
         /\ TvecBase(v) \in Addr /\ TvecBase(v) % 4 = 0
         /\ Aligned(TvecBase(v))
<1>1. v \in Nat /\ AddrSpace \in Nat /\ AddrSpace % 4 = 0
  BY AddrSpaceAssumption DEF Addr
<1>2. TvecBase(v) \in Addr /\ TvecBase(v) % 4 = 0
  BY <1>1 DEF Addr, TvecBase
<1>3. TvecBase(v) + 1 \in Addr
  BY <1>1, <1>2 DEF Addr
<1>4. LegalizeTvec(v) \in Addr
  BY <1>2, <1>3, <1>1 DEF LegalizeTvec, TvecMode, Addr
<1>5. Aligned(TvecBase(v))
  BY <1>2, <1>1 DEF Aligned, IAlign, Addr
<1> QED BY <1>2, <1>4, <1>5

(***************************************************************************)
(* The two MPP bits.                                                       *)
(***************************************************************************)
\* Writing MPP and reading it back gives the value written, and no other
\* bit of mstatus moves.
LEMMA MppRoundTrip ==
  ASSUME NEW status, NEW mpp \in 0 .. 3
  PROVE  /\ MppOf(WithMpp(status, mpp)) = mpp
         /\ WithMpp(status, mpp) \ {"MPPL", "MPPH"} = status \ {"MPPL", "MPPH"}
         /\ status \subseteq MstatusBits => WithMpp(status, mpp) \subseteq MstatusBits
<1>1. MppBits(mpp) \subseteq {"MPPL", "MPPH"}
  BY DEF MppBits
<1>2. /\ "MPPL" \in MppBits(mpp) <=> mpp \in {1, 3}
      /\ "MPPH" \in MppBits(mpp) <=> mpp \in {2, 3}
  BY DEF MppBits
<1>3. /\ "MPPL" \in WithMpp(status, mpp) <=> mpp \in {1, 3}
      /\ "MPPH" \in WithMpp(status, mpp) <=> mpp \in {2, 3}
  BY <1>2 DEF WithMpp
<1>4. MppOf(WithMpp(status, mpp)) = mpp
  BY <1>3 DEF MppOf
<1>5. {"MPPL", "MPPH"} \subseteq MstatusBits
  BY DEF MstatusBits
<1> QED BY <1>1, <1>4, <1>5 DEF WithMpp

\* MPP is a two-bit field.
LEMMA MppRange == \A status : MppOf(status) \in 0 .. 3
BY DEF MppOf

\* The modes are numbers of MPP's range.
LEMMA PrivRange == Priv \subseteq 0 .. 3 /\ Modes \subseteq Priv /\ M \in Modes
BY ConfigAssumption DEF Priv, Modes, U, S, M

(***************************************************************************)
(* The CSR file: what trap entry, return and a CSR write do to each field. *)
(***************************************************************************)
\* The fields trap entry to M-mode changes, and those it does not.
LEMMA EnterMFields ==
  ASSUME NEW f \in CsrStates, NEW from \in Priv, NEW epc \in Addr
  PROVE  LET g == EnterM(f, from, epc)
         IN  /\ g \in CsrStates
             /\ g.mstatus = WithMpp(f.mstatus \ {"MIE", "MPIE"}, from)
                              \union (IF "MIE" \in f.mstatus THEN {"MPIE"} ELSE {})
             /\ g.mepc = LegalizeEpc(epc)
             /\ g.mie = f.mie /\ g.mip = f.mip
             /\ g.mideleg = f.mideleg /\ g.medeleg = f.medeleg
             /\ g.mtvec = f.mtvec /\ g.stvec = f.stvec /\ g.sepc = f.sepc
             /\ g.mcounteren = f.mcounteren /\ g.scounteren = f.scounteren
<1> DEFINE status == WithMpp(f.mstatus \ {"MIE", "MPIE"}, from)
                       \union (IF "MIE" \in f.mstatus THEN {"MPIE"} ELSE {})
<1>1. LegalizeEpc(epc) \in Addr
  BY EpcAligned
<1>2. f.mstatus \subseteq MstatusBits
  BY DEF CsrStates
<1>3. WithMpp(f.mstatus \ {"MIE", "MPIE"}, from) \subseteq MstatusBits
  BY MppRoundTrip, PrivRange, <1>2
<1>4. status \in SUBSET MstatusBits
  BY <1>3 DEF MstatusBits
<1>5. EnterM(f, from, epc) = [f EXCEPT !.mstatus = status, !.mepc = LegalizeEpc(epc)]
  BY DEF EnterM
<1> HIDE DEF status
<1>6. /\ EnterM(f, from, epc) \in CsrStates
      /\ EnterM(f, from, epc).mstatus = status
      /\ EnterM(f, from, epc).mepc = LegalizeEpc(epc)
  BY <1>1, <1>4, <1>5 DEF CsrStates
<1>7. LET g == EnterM(f, from, epc)
      IN  /\ g.mie = f.mie /\ g.mip = f.mip
          /\ g.mideleg = f.mideleg /\ g.medeleg = f.medeleg
          /\ g.mtvec = f.mtvec /\ g.stvec = f.stvec /\ g.sepc = f.sepc
          /\ g.mcounteren = f.mcounteren /\ g.scounteren = f.scounteren
  BY <1>5 DEF CsrStates
<1> QED BY <1>6, <1>7 DEF status

\* The fields trap entry to S-mode changes, and those it does not.
LEMMA EnterSFields ==
  ASSUME NEW f \in CsrStates, NEW from \in Priv, NEW epc \in Addr
  PROVE  LET g == EnterS(f, from, epc)
         IN  /\ g \in CsrStates
             /\ g.mstatus = (f.mstatus \ {"SIE", "SPIE", "SPP"})
                              \union (IF "SIE" \in f.mstatus THEN {"SPIE"} ELSE {})
                              \union (IF from = S THEN {"SPP"} ELSE {})
             /\ g.sepc = LegalizeEpc(epc)
             /\ g.mie = f.mie /\ g.mip = f.mip
             /\ g.mideleg = f.mideleg /\ g.medeleg = f.medeleg
             /\ g.mtvec = f.mtvec /\ g.stvec = f.stvec /\ g.mepc = f.mepc
             /\ g.mcounteren = f.mcounteren /\ g.scounteren = f.scounteren
<1> DEFINE status == (f.mstatus \ {"SIE", "SPIE", "SPP"})
                       \union (IF "SIE" \in f.mstatus THEN {"SPIE"} ELSE {})
                       \union (IF from = S THEN {"SPP"} ELSE {})
<1>1. LegalizeEpc(epc) \in Addr
  BY EpcAligned
<1>2. status \in SUBSET MstatusBits
  BY DEF CsrStates, MstatusBits
<1>3. EnterS(f, from, epc) = [f EXCEPT !.mstatus = status, !.sepc = LegalizeEpc(epc)]
  BY DEF EnterS
<1> HIDE DEF status
<1>4. /\ EnterS(f, from, epc) \in CsrStates
      /\ EnterS(f, from, epc).mstatus = status
      /\ EnterS(f, from, epc).sepc = LegalizeEpc(epc)
  BY <1>1, <1>2, <1>3 DEF CsrStates
<1>5. LET g == EnterS(f, from, epc)
      IN  /\ g.mie = f.mie /\ g.mip = f.mip
          /\ g.mideleg = f.mideleg /\ g.medeleg = f.medeleg
          /\ g.mtvec = f.mtvec /\ g.stvec = f.stvec /\ g.mepc = f.mepc
          /\ g.mcounteren = f.mcounteren /\ g.scounteren = f.scounteren
  BY <1>3 DEF CsrStates
<1> QED BY <1>4, <1>5 DEF status

\* Changing mstatus changes nothing else.
LEMMA StatusUpdate ==
  ASSUME NEW f \in CsrStates, NEW status \in SUBSET MstatusBits
  PROVE  LET g == [f EXCEPT !.mstatus = status]
         IN  /\ g \in CsrStates
             /\ g.mstatus = status
             /\ g.mie = f.mie /\ g.mip = f.mip
             /\ g.mideleg = f.mideleg /\ g.medeleg = f.medeleg
             /\ g.mtvec = f.mtvec /\ g.stvec = f.stvec
             /\ g.mepc = f.mepc /\ g.sepc = f.sepc
             /\ g.mcounteren = f.mcounteren /\ g.scounteren = f.scounteren
BY DEF CsrStates

\* MRET changes mstatus and nothing else.
LEMMA ReturnMFields ==
  ASSUME NEW f \in CsrStates
  PROVE  LET g == ReturnM(f)
         IN  /\ g \in CsrStates
             /\ g.mstatus = (WithMpp(f.mstatus \ {"MIE", "MPIE"}, IF HasU THEN U ELSE M)
                               \ (IF MppOf(f.mstatus) = M THEN {} ELSE {"MPRV"}))
                              \union (IF "MPIE" \in f.mstatus THEN {"MIE"} ELSE {})
                              \union {"MPIE"}
             /\ g.mie = f.mie /\ g.mip = f.mip
             /\ g.mideleg = f.mideleg /\ g.medeleg = f.medeleg
             /\ g.mtvec = f.mtvec /\ g.stvec = f.stvec
             /\ g.mepc = f.mepc /\ g.sepc = f.sepc
             /\ g.mcounteren = f.mcounteren /\ g.scounteren = f.scounteren
<1> DEFINE lower == WithMpp(f.mstatus \ {"MIE", "MPIE"}, IF HasU THEN U ELSE M)
           status == (lower \ (IF MppOf(f.mstatus) = M THEN {} ELSE {"MPRV"}))
                       \union (IF "MPIE" \in f.mstatus THEN {"MIE"} ELSE {})
                       \union {"MPIE"}
<1>1. lower \subseteq MstatusBits
  BY MppRoundTrip DEF U, M, CsrStates
<1>2. status \in SUBSET MstatusBits
  <2> HIDE DEF lower
  <2> QED BY <1>1 DEF MstatusBits
<1>3. ReturnM(f) = [f EXCEPT !.mstatus = status]
  BY DEF ReturnM
<1>4. LET g == ReturnM(f)
      IN  /\ g \in CsrStates
          /\ g.mstatus = status
          /\ g.mie = f.mie /\ g.mip = f.mip
          /\ g.mideleg = f.mideleg /\ g.medeleg = f.medeleg
          /\ g.mtvec = f.mtvec /\ g.stvec = f.stvec
          /\ g.mepc = f.mepc /\ g.sepc = f.sepc
          /\ g.mcounteren = f.mcounteren /\ g.scounteren = f.scounteren
  <2> HIDE DEF status
  <2> QED BY <1>2, <1>3, StatusUpdate
<1> QED BY <1>4

\* SRET changes mstatus and nothing else.
LEMMA ReturnSFields ==
  ASSUME NEW f \in CsrStates
  PROVE  LET g == ReturnS(f)
         IN  /\ g \in CsrStates
             /\ g.mstatus = (f.mstatus \ {"SIE", "SPP", "MPRV"})
                              \union (IF "SPIE" \in f.mstatus THEN {"SIE"} ELSE {})
                              \union {"SPIE"}
             /\ g.mie = f.mie /\ g.mip = f.mip
             /\ g.mideleg = f.mideleg /\ g.medeleg = f.medeleg
             /\ g.mtvec = f.mtvec /\ g.stvec = f.stvec
             /\ g.mepc = f.mepc /\ g.sepc = f.sepc
             /\ g.mcounteren = f.mcounteren /\ g.scounteren = f.scounteren
<1> DEFINE status == (f.mstatus \ {"SIE", "SPP", "MPRV"})
                       \union (IF "SPIE" \in f.mstatus THEN {"SIE"} ELSE {})
                       \union {"SPIE"}
<1>1. status \in SUBSET MstatusBits
  BY DEF MstatusBits, CsrStates
<1>2. ReturnS(f) = [f EXCEPT !.mstatus = status]
  BY DEF ReturnS
<1>3. LET g == ReturnS(f)
      IN  /\ g \in CsrStates
          /\ g.mstatus = status
          /\ g.mie = f.mie /\ g.mip = f.mip
          /\ g.mideleg = f.mideleg /\ g.medeleg = f.medeleg
          /\ g.mtvec = f.mtvec /\ g.stvec = f.stvec
          /\ g.mepc = f.mepc /\ g.sepc = f.sepc
          /\ g.mcounteren = f.mcounteren /\ g.scounteren = f.scounteren
  <2> HIDE DEF status
  <2> QED BY <1>1, <1>2, StatusUpdate
<1> QED BY <1>3

\* Legalisation stores only bits of mstatus.
LEMMA LegalizeType ==
  ASSUME NEW old \in SUBSET MstatusBits, NEW v \in SUBSET MstatusBits
  PROVE  /\ LegalizeMstatus(v) \in SUBSET MstatusBits
         /\ LegalizeSstatus(old, v) \in SUBSET MstatusBits
<1>1. MstatusHardwired \subseteq MstatusBits
  BY DEF MstatusHardwired, MstatusBits
<1>2. LegalizeMpp(MppOf(v \intersect MstatusLegalMask)) \in 0 .. 3
  BY MppRange DEF LegalizeMpp, M
<1>3. WithMpp(v \intersect MstatusLegalMask,
              LegalizeMpp(MppOf(v \intersect MstatusLegalMask))) \subseteq MstatusBits
  BY <1>2, MppRoundTrip
<1>4. LegalizeMstatus(v) \in SUBSET MstatusBits
  BY <1>1, <1>3 DEF LegalizeMstatus
<1>5. LegalizeSstatus(old, v) \in SUBSET MstatusBits
  BY <1>1 DEF LegalizeSstatus, SstatusWriteMask, MstatusBits
<1> QED BY <1>4, <1>5

\* What an instruction may write to each register.
OperandType(c) ==
  CASE c \in StatusCsrs -> SUBSET MstatusBits
    [] c \in IrqCsrs -> SUBSET IrqCodes
    [] c = "medeleg" -> SUBSET Causes
    [] c \in CounterEnableCsrs -> SUBSET Counters
    [] OTHER -> Addr

\* A CSR write of a well-typed operand keeps the CSR file typed.
LEMMA WriteType ==
  ASSUME NEW f \in CsrStates, NEW c \in CsrNames, NEW v \in OperandType(c)
  PROVE  WriteCsr(f, c, v) \in CsrStates
<1>1. c \in {"sstatus", "sie", "stvec", "scounteren", "sepc", "sip", "satp",
             "mstatus", "medeleg", "mideleg", "mie", "mtvec", "mcounteren",
             "mepc", "mip", "cycle", "time", "instret", "mhartid"}
  BY DEF CsrNames, CsrAddr
<1>2. CASE c \in StatusCsrs
  <2>1. v \in SUBSET MstatusBits
    BY <1>2
       DEF OperandType, StatusCsrs, IrqCsrs, CounterEnableCsrs, AddrCsrs
  <2>2. LegalizeMstatus(v) \in SUBSET MstatusBits /\ LegalizeSstatus(f.mstatus, v) \in SUBSET MstatusBits
    BY <2>1, LegalizeType DEF CsrStates
  <2>3. c = "mstatus" => WriteCsr(f, c, v) = [f EXCEPT !.mstatus = LegalizeMstatus(v)]
    BY DEF WriteCsr
  <2>4. c = "sstatus" => WriteCsr(f, c, v) = [f EXCEPT !.mstatus = LegalizeSstatus(f.mstatus, v)]
    BY DEF WriteCsr
  <2> QED BY <1>2, <2>2, <2>3, <2>4 DEF CsrStates, StatusCsrs
<1>3. CASE c \in IrqCsrs
  <2>1. v \in SUBSET IrqCodes
    BY <1>3
       DEF OperandType, StatusCsrs, IrqCsrs, CounterEnableCsrs, AddrCsrs
  <2>2. /\ Merge(f.mie, f.mideleg, v) \in SUBSET IrqCodes
        /\ Merge(f.mip, MipWritable, v) \in SUBSET IrqCodes
        /\ Merge(f.mip, {1} \intersect f.mideleg, v) \in SUBSET IrqCodes
    BY <2>1 DEF Merge, CsrStates
  <2>3. /\ c = "mie" => WriteCsr(f, c, v) = [f EXCEPT !.mie = v]
        /\ c = "sie" => WriteCsr(f, c, v) = [f EXCEPT !.mie = Merge(f.mie, f.mideleg, v)]
        /\ c = "mip" => WriteCsr(f, c, v) = [f EXCEPT !.mip = Merge(f.mip, MipWritable, v)]
        /\ c = "sip" => WriteCsr(f, c, v)
                          = [f EXCEPT !.mip = Merge(f.mip, {1} \intersect f.mideleg, v)]
        /\ c = "mideleg" => WriteCsr(f, c, v) = [f EXCEPT !.mideleg = v]
    BY DEF WriteCsr
  <2> QED BY <1>3, <2>1, <2>2, <2>3 DEF CsrStates, IrqCsrs
<1>4. CASE c = "medeleg"
  <2>1. v \ {11} \in SUBSET Causes
    BY <1>4
       DEF OperandType, StatusCsrs, IrqCsrs, CounterEnableCsrs, AddrCsrs
  <2>2. WriteCsr(f, c, v) = [f EXCEPT !.medeleg = v \ {11}]
    BY <1>4 DEF WriteCsr
  <2> QED BY <2>1, <2>2 DEF CsrStates
<1>5. CASE c \in CounterEnableCsrs
  <2>1. v \in SUBSET Counters
    BY <1>5 DEF OperandType, StatusCsrs, IrqCsrs, CounterEnableCsrs
  <2>2. /\ c = "mcounteren" => WriteCsr(f, c, v) = [f EXCEPT !.mcounteren = v]
        /\ c = "scounteren" => WriteCsr(f, c, v) = [f EXCEPT !.scounteren = v]
    BY DEF WriteCsr
  <2> QED BY <1>5, <2>1, <2>2 DEF CsrStates, CounterEnableCsrs
<1>6. CASE c \in AddrCsrs
  <2>1. v \in Addr
    BY <1>6 DEF OperandType, StatusCsrs, IrqCsrs, CounterEnableCsrs, AddrCsrs
  <2>2. LegalizeTvec(v) \in Addr /\ LegalizeEpc(v) \in Addr
    BY <2>1, TvecAligned, EpcAligned
  <2>3. /\ c = "mtvec" => WriteCsr(f, c, v) = [f EXCEPT !.mtvec = LegalizeTvec(v)]
        /\ c = "stvec" => WriteCsr(f, c, v) = [f EXCEPT !.stvec = LegalizeTvec(v)]
        /\ c = "mepc" => WriteCsr(f, c, v) = [f EXCEPT !.mepc = LegalizeEpc(v)]
        /\ c = "sepc" => WriteCsr(f, c, v) = [f EXCEPT !.sepc = LegalizeEpc(v)]
    BY DEF WriteCsr
  <2> QED BY <1>6, <2>2, <2>3 DEF CsrStates, AddrCsrs
<1>7. CASE c \in {"satp", "cycle", "time", "instret", "mhartid"}
  <2>1. WriteCsr(f, c, v) = f
    BY <1>7 DEF WriteCsr
  <2> QED BY <2>1
<1> QED BY <1>1, <1>2, <1>3, <1>4, <1>5, <1>6, <1>7
        DEF StatusCsrs, IrqCsrs, CounterEnableCsrs, AddrCsrs

\* Reset leaves a well-typed CSR file, with aligned exception pcs.
LEMMA ResetType ==
  /\ ResetCsr(MtvecReset) \in CsrStates
  /\ ResetCsr(MtvecReset).mstatus = MstatusHardwired \union MppBits(M)
  /\ ResetCsr(MtvecReset).mepc = 0 /\ ResetCsr(MtvecReset).sepc = 0
  /\ ResetCsr(MtvecReset).mip = {} /\ ResetCsr(MtvecReset).mideleg = {}
<1>1. LegalizeTvec(MtvecReset) \in Addr /\ 0 \in Addr
  BY TvecAligned, ResetAssumption, AddrSpaceAssumption DEF Addr
<1>2. MstatusHardwired \union MppBits(M) \in SUBSET MstatusBits
  BY DEF MstatusHardwired, MppBits, MstatusBits
<1> QED BY <1>1, <1>2 DEF ResetCsr, CsrStates

(***************************************************************************)
(* What the CSR instructions write.                                        *)
(***************************************************************************)
\* The value a CSR instruction computes is well typed.
LEMMA NewValueType ==
  ASSUME csr \in CsrStates, NEW c \in Csrs, NEW op \in OpsOn(c), op \notin {"read", "write"},
         NEW src \in Operands(c)
  PROVE  NewValue(op, ReadCsr(csr, c), src) \in OperandType(c)
<1>1. c \in CsrNames /\ c \notin AddrCsrs \union CounterCsrs \union {"satp", "mhartid"}
  BY ProgramAssumption DEF OpsOn
<1>2. c \in StatusCsrs \union IrqCsrs \union CounterEnableCsrs \union {"medeleg"}
  BY <1>1 DEF CsrNames, CsrAddr, AddrCsrs, CounterCsrs, StatusCsrs, IrqCsrs, CounterEnableCsrs
<1>3. CASE c \in StatusCsrs
  <2>1. src \in SUBSET MstatusBits
    BY <1>3, ProgramAssumption
       DEF Operands, StatusCsrs, IrqCsrs, CounterEnableCsrs, AddrCsrs
  <2>2. ReadCsr(csr, c) \in SUBSET MstatusBits
    BY <1>3 DEF ReadCsr, CsrStates, StatusCsrs
  <2> QED BY <1>3, <2>1, <2>2
       DEF NewValue, OperandType, StatusCsrs, IrqCsrs, CounterEnableCsrs, AddrCsrs
<1>4. CASE c \in IrqCsrs
  <2>1. src \in SUBSET IrqCodes
    BY <1>4, ProgramAssumption
       DEF Operands, StatusCsrs, IrqCsrs, CounterEnableCsrs, AddrCsrs
  <2>2. ReadCsr(csr, c) \in SUBSET IrqCodes
    BY <1>4 DEF ReadCsr, CsrStates, IrqCsrs
  <2>3. OperandType(c) = SUBSET IrqCodes
    BY <1>4
       DEF OperandType, StatusCsrs, IrqCsrs, CounterEnableCsrs, AddrCsrs
  <2> QED BY <2>1, <2>2, <2>3 DEF NewValue
<1>5. CASE c \in CounterEnableCsrs
  <2>1. src \in SUBSET Counters
    BY <1>5, ProgramAssumption
       DEF Operands, StatusCsrs, IrqCsrs, CounterEnableCsrs, AddrCsrs
  <2>2. ReadCsr(csr, c) \in SUBSET Counters
    BY <1>5 DEF ReadCsr, CsrStates, CounterEnableCsrs
  <2>3. OperandType(c) = SUBSET Counters
    BY <1>5 DEF OperandType, StatusCsrs, IrqCsrs, CounterEnableCsrs
  <2> QED BY <2>1, <2>2, <2>3 DEF NewValue
<1>6. CASE c = "medeleg"
  <2>1. src \in SUBSET Causes
    BY <1>6, ProgramAssumption
       DEF Operands, StatusCsrs, IrqCsrs, CounterEnableCsrs, AddrCsrs
  <2>2. ReadCsr(csr, c) \in SUBSET Causes
    BY <1>6 DEF ReadCsr, CsrStates
  <2>3. OperandType(c) = SUBSET Causes
    BY <1>6
       DEF OperandType, StatusCsrs, IrqCsrs, CounterEnableCsrs, AddrCsrs
  <2> QED BY <2>1, <2>2, <2>3 DEF NewValue
<1> QED BY <1>2, <1>3, <1>4, <1>5, <1>6

\* The source operand of a write is well typed.
LEMMA SourceType ==
  ASSUME NEW c \in Csrs, NEW src \in Operands(c)
  PROVE  src \in OperandType(c)
BY ProgramAssumption, AddrSpaceAssumption
   DEF Operands, OperandType, Addr, StatusCsrs, IrqCsrs, CounterEnableCsrs, AddrCsrs

(***************************************************************************)
(* The seven kinds of step.  Whatever the instruction, a step of the hart  *)
(* is a trap entry, an instruction that leaves the CSR file alone, a CSR   *)
(* write, MRET or SRET; the host moves a line or resets.  The invariants   *)
(* below are proved of these, not of the single instructions.              *)
(***************************************************************************)
\* pc and the exception pcs are aligned in a typed state: the base of every
\* other invariant.
Shape == TypeOK /\ PcsAligned

TrapStep ==
  \E target \in {S, M} :
    /\ target = S => HasS /\ priv # M
    /\ csr' = Enter(csr, target, priv, pc)
    /\ priv' = target
    /\ pc' \in Addr /\ Aligned(pc')
    /\ reserved' = FALSE
    /\ result' \in Results /\ result'.kind \in {"trap", "interrupt"}
    /\ line' = line

QuietStep ==
  /\ csr' = csr /\ priv' = priv
  /\ pc' \in Addr /\ Aligned(pc')
  /\ reserved' \in BOOLEAN
  /\ result' = Retired
  /\ line' = line

WriteStep ==
  \E c \in CsrNames : \E v \in OperandType(c) :
    /\ Exists(c) /\ CanWrite(priv, c)
    /\ csr' = WriteCsr(csr, c, v)
    /\ priv' = priv /\ reserved' = reserved
    /\ pc' \in Addr /\ Aligned(pc')
    /\ result' = Retired
    /\ line' = line

MretStep ==
  /\ priv = M
  /\ csr' = ReturnM(csr) /\ priv' = MretPriv(csr) /\ pc' = csr.mepc
  /\ reserved' = reserved /\ result' = Retired /\ line' = line

SretStep ==
  /\ SretLegal
  /\ csr' = ReturnS(csr) /\ priv' = SretPriv(csr) /\ pc' = csr.sepc
  /\ reserved' = reserved /\ result' = Retired /\ line' = line

HostStep == Reset \/ \E c \in IrqCodes, level \in BOOLEAN : SetLine(c, level)

\* Every position of the interrupt scan names an interrupt code.
LEMMA ScanRange ==
  ASSUME NEW k \in 1 .. 12
  PROVE  ScanCode(k) \in IrqCodes /\ ScanTarget(k) \in {S, M}
<1>1. k \in {1, 2, 3, 4, 5, 6, 7, 8, 9, 10, 11, 12}
  OBVIOUS
<1> QED BY <1>1 DEF ScanCode, ScanTarget, Priority, IrqCodes

\* An interrupt enters S-mode only if there is one, and never from M-mode.
LEMMA InterruptIsTrap ==
  ASSUME Shape, TakeInterrupt
  PROVE  TrapStep
<1>1. PICK k \in Deliverable :
        /\ csr' = Enter(csr, ScanTarget(k), priv, pc)
        /\ priv' = ScanTarget(k)
        /\ pc' = VectorFor(TvecOf(csr, ScanTarget(k)), ScanCode(k))
        /\ reserved' = FALSE
        /\ result' = [kind |-> "interrupt", cause |-> ScanCode(k)]
        /\ line' = line
  BY DEF TakeInterrupt
<1>2. /\ k \in 1 .. 12
      /\ IrqTarget(ScanCode(k)) = ScanTarget(k)
      /\ GloballyEnabled(ScanTarget(k))
  BY DEF Deliverable
<1>3. ScanCode(k) \in IrqCodes /\ ScanTarget(k) \in {S, M}
  BY <1>2, ScanRange
<1>4. ScanTarget(k) = S => HasS /\ priv # M
  BY <1>2 DEF IrqTarget, GloballyEnabled, Shape, TypeOK, Priv, S, M, U
<1>5. TvecOf(csr, ScanTarget(k)) \in Addr
  BY DEF TvecOf, Shape, TypeOK, CsrStates
<1>6. pc' \in Addr /\ Aligned(pc')
  <2> DEFINE tvec == TvecOf(csr, ScanTarget(k))
             n == IF TvecMode(tvec) = 1 THEN 4 * ScanCode(k) ELSE 0
  <2>1. TvecBase(tvec) \in Addr /\ Aligned(TvecBase(tvec))
    BY <1>5, TvecAligned
  <2>2. n \in Nat /\ n % IAlign = 0
    BY <1>3 DEF IrqCodes, IAlign
  <2>3. pc' = Offset(TvecBase(tvec), n)
    BY <1>1 DEF VectorFor
  <2> HIDE DEF tvec, n
  <2> QED BY <2>1, <2>2, <2>3, OffsetAligned
<1>7. result' \in Results /\ result'.kind = "interrupt"
  BY <1>1, <1>3 DEF Results, IrqCodes
<1> QED BY <1>1, <1>3, <1>4, <1>6, <1>7 DEF TrapStep

\* An exception enters S-mode only if there is one, and never from M-mode.
LEMMA ExceptionIsTrap ==
  ASSUME Shape, NEW cause \in 0 .. 11, TakeException(cause)
  PROVE  TrapStep
<1> DEFINE target == ExceptionTarget(cause)
<1>1. target \in {S, M} /\ (target = S => HasS /\ priv # M)
  BY DEF ExceptionTarget, S, M
<1>2. TvecOf(csr, target) \in Addr
  BY DEF TvecOf, Shape, TypeOK, CsrStates
<1>3. pc' \in Addr /\ Aligned(pc')
  BY <1>2, TvecAligned DEF TakeException
<1>4. /\ csr' = Enter(csr, target, priv, pc) /\ priv' = target
      /\ reserved' = FALSE /\ line' = line
      /\ result' = [kind |-> "trap", cause |-> cause]
  BY DEF TakeException
<1>5. result' \in Results /\ result'.kind = "trap"
  BY <1>4 DEF Results
<1> HIDE DEF target
<1> QED BY <1>1, <1>3, <1>4, <1>5 DEF TrapStep

\* The next instruction's address is aligned.
LEMMA NextAligned ==
  ASSUME Shape
  PROVE  /\ Offset(pc, 4) \in Addr /\ Aligned(Offset(pc, 4))
         /\ HasC => Offset(pc, 2) \in Addr /\ Aligned(Offset(pc, 2))
<1>1. pc \in Addr /\ Aligned(pc)
  BY DEF Shape, TypeOK, PcsAligned
<1>2. 4 % IAlign = 0 /\ (HasC => 2 % IAlign = 0)
  BY DEF IAlign
<1> QED BY <1>1, <1>2, OffsetAligned

\* A step is of one of the six kinds.
LEMMA StepKinds ==
  ASSUME Shape, Next
  PROVE  TrapStep \/ QuietStep \/ WriteStep \/ MretStep \/ SretStep \/ HostStep
<1>1. CASE TakeInterrupt
  BY <1>1, InterruptIsTrap
<1>2. CASE Plain
  BY <1>2, NextAligned DEF Plain, Retire, QuietStep, Shape, TypeOK
<1>3. CASE Jump
  <2>1. PICK target \in JumpTargets :
          IF ~HasC /\ target % 4 = 2
            THEN TakeException(0)
            ELSE Retire(target) /\ UNCHANGED <<csr, priv, reserved>>
    BY <1>3 DEF Jump
  <2>2. CASE ~HasC /\ target % 4 = 2
    BY <2>1, <2>2, ExceptionIsTrap
  <2>3. CASE ~(~HasC /\ target % 4 = 2)
    <3>1. target \in Addr /\ Aligned(target)
      BY <2>3, JumpAssumption, AddrSpaceAssumption DEF Aligned, IAlign, Addr
    <3> QED BY <2>1, <2>3, <3>1 DEF Retire, QuietStep, Shape, TypeOK
  <2> QED BY <2>2, <2>3
<1>4. CASE LoadReserved \/ StoreConditional
  BY <1>4, NextAligned DEF LoadReserved, StoreConditional, Retire, QuietStep
<1>5. CASE Fault
  <2>1. PICK cause \in Faults : TakeException(cause)
    BY <1>5 DEF Fault
  <2>2. cause \in 0 .. 11
    BY ProgramAssumption
  <2> QED BY <2>1, <2>2, ExceptionIsTrap
<1>6. CASE Ecall
  BY <1>6, ExceptionIsTrap DEF Ecall
<1>7. CASE CsrInstruction
  <2>0. PICK c \in Csrs : \E op \in OpsOn(c) :
          IF CsrPermitted(c, op)
            THEN /\ \E src \in Operands(c) :
                      csr' = CASE op = "read" -> csr
                               [] op = "write" -> WriteCsr(csr, c, src)
                               [] OTHER -> WriteCsr(csr, c, NewValue(op, ReadCsr(csr, c), src))
                 /\ Retire(Offset(pc, 4))
                 /\ UNCHANGED <<priv, reserved>>
            ELSE IllegalInstruction
    BY <1>7 DEF CsrInstruction
  <2>1. PICK op \in OpsOn(c) :
          IF CsrPermitted(c, op)
            THEN /\ \E src \in Operands(c) :
                      csr' = CASE op = "read" -> csr
                               [] op = "write" -> WriteCsr(csr, c, src)
                               [] OTHER -> WriteCsr(csr, c, NewValue(op, ReadCsr(csr, c), src))
                 /\ Retire(Offset(pc, 4))
                 /\ UNCHANGED <<priv, reserved>>
            ELSE IllegalInstruction
    BY <2>0
  <2>2. CASE ~CsrPermitted(c, op)
    BY <2>1, <2>2, ExceptionIsTrap DEF IllegalInstruction
  <2>3. CASE CsrPermitted(c, op) /\ op = "read"
    BY <2>1, <2>3, NextAligned DEF Retire, QuietStep, Shape, TypeOK
  <2>4. CASE CsrPermitted(c, op) /\ op # "read"
    <3>1. PICK src \in Operands(c) :
            csr' = CASE op = "read" -> csr
                     [] op = "write" -> WriteCsr(csr, c, src)
                     [] OTHER -> WriteCsr(csr, c, NewValue(op, ReadCsr(csr, c), src))
      BY <2>1, <2>4
    <3>2. c \in CsrNames /\ Exists(c) /\ CanWrite(priv, c)
      BY <2>4, ProgramAssumption DEF CsrPermitted
    <3>3. \E v \in OperandType(c) : csr' = WriteCsr(csr, c, v)
      <4>1. CASE op = "write"
        BY <3>1, <4>1, SourceType
      <4>2. CASE op # "write"
        <5>1. csr' = WriteCsr(csr, c, NewValue(op, ReadCsr(csr, c), src))
          BY <3>1, <4>2, <2>4
        <5>2. NewValue(op, ReadCsr(csr, c), src) \in OperandType(c)
          BY <4>2, <2>4, NewValueType DEF Shape, TypeOK
        <5> QED BY <5>1, <5>2
      <4> QED BY <4>1, <4>2
    <3> QED BY <2>1, <2>4, <3>2, <3>3, NextAligned DEF Retire, WriteStep
  <2> QED BY <2>2, <2>3, <2>4
<1>8. CASE Mret
  BY <1>8, ExceptionIsTrap DEF Mret, IllegalInstruction, Retire, MretStep
<1>9. CASE Sret
  BY <1>9, ExceptionIsTrap DEF Sret, IllegalInstruction, Retire, SretStep
<1>10. CASE SfenceVma \/ Wfi
  BY <1>10, ExceptionIsTrap, NextAligned
     DEF SfenceVma, Wfi, IllegalInstruction, Retire, QuietStep, Shape, TypeOK
<1>11. CASE Host
  BY <1>11, ProgramAssumption DEF Host, HostStep
<1> QED BY <1>1, <1>2, <1>3, <1>4, <1>5, <1>6, <1>7, <1>8, <1>9, <1>10, <1>11
        DEF Next, Step, Instruction

(***************************************************************************)
(* Types and alignment.                                                    *)
(***************************************************************************)
\* A trap entry saves an aligned pc and leaves the file typed.
LEMMA TrapEntry ==
  ASSUME Shape, NEW target \in {S, M}
  PROVE  LET g == Enter(csr, target, priv, pc)
         IN  g \in CsrStates /\ Aligned(g.mepc) /\ Aligned(g.sepc)
<1>1. csr \in CsrStates /\ priv \in Priv /\ pc \in Addr
  BY DEF Shape, TypeOK
<1>2. Aligned(csr.mepc) /\ Aligned(csr.sepc) /\ Aligned(LegalizeEpc(pc))
  BY <1>1, EpcAligned DEF Shape, PcsAligned
<1>3. CASE target = M
  <2>1. Enter(csr, target, priv, pc) = EnterM(csr, priv, pc)
    BY <1>3 DEF Enter, S, M
  <2>2. /\ EnterM(csr, priv, pc) \in CsrStates
        /\ EnterM(csr, priv, pc).mepc = LegalizeEpc(pc)
        /\ EnterM(csr, priv, pc).sepc = csr.sepc
    BY <1>1, EnterMFields
  <2> QED BY <1>2, <2>1, <2>2
<1>4. CASE target = S
  BY <1>1, <1>2, <1>4, EnterSFields DEF Enter
<1> QED BY <1>3, <1>4

\* A CSR write keeps the exception pcs aligned.
LEMMA WriteAligned ==
  ASSUME NEW f \in CsrStates, NEW c \in CsrNames, NEW v \in OperandType(c),
         Aligned(f.mepc), Aligned(f.sepc)
  PROVE  Aligned(WriteCsr(f, c, v).mepc) /\ Aligned(WriteCsr(f, c, v).sepc)
<1>1. c \in {"sstatus", "sie", "stvec", "scounteren", "sepc", "sip", "satp",
             "mstatus", "medeleg", "mideleg", "mie", "mtvec", "mcounteren",
             "mepc", "mip", "cycle", "time", "instret", "mhartid"}
  BY DEF CsrNames, CsrAddr
<1>2. CASE c \in {"mepc", "sepc"}
  <2>1. v \in Addr
    BY <1>2 DEF OperandType, StatusCsrs, IrqCsrs, CounterEnableCsrs
  <2>2. Aligned(LegalizeEpc(v))
    BY <2>1, EpcAligned
  <2>3. /\ c = "mepc" => WriteCsr(f, c, v) = [f EXCEPT !.mepc = LegalizeEpc(v)]
        /\ c = "sepc" => WriteCsr(f, c, v) = [f EXCEPT !.sepc = LegalizeEpc(v)]
    BY DEF WriteCsr
  <2> QED BY <1>2, <2>2, <2>3 DEF CsrStates
<1>3. CASE c \notin {"mepc", "sepc"}
  <2>1. WriteCsr(f, c, v).mepc = f.mepc /\ WriteCsr(f, c, v).sepc = f.sepc
    BY <1>1, <1>3 DEF WriteCsr, CsrStates
  <2> QED BY <2>1
<1> QED BY <1>2, <1>3

\* The reset state has aligned exception pcs and no result.
LEMMA ResetAligned ==
  LET f == ResetCsr(MtvecReset) IN f \in CsrStates /\ Aligned(f.mepc) /\ Aligned(f.sepc)
<1>1. Aligned(0)
  BY DEF Aligned, IAlign
<1> QED BY <1>1, ResetType

\* The record of a reset, when nothing has been executed yet, is a result.
LEMMA NoResultType == NoResult \in Results
BY DEF NoResult, Results

\* Every step keeps the types and the alignment of the pcs.
LEMMA ShapeStep == Shape /\ [Next]_vars => Shape'
<1> SUFFICES ASSUME Shape, [Next]_vars PROVE Shape'
  OBVIOUS
<1>1. CASE TrapStep
  <2>1. PICK target \in {S, M} :
          /\ csr' = Enter(csr, target, priv, pc) /\ priv' = target
          /\ pc' \in Addr /\ Aligned(pc')
          /\ reserved' = FALSE /\ result' \in Results /\ line' = line
    BY <1>1 DEF TrapStep
  <2>2. csr' \in CsrStates /\ Aligned(csr'.mepc) /\ Aligned(csr'.sepc)
    BY <2>1, TrapEntry
  <2> QED BY <2>1, <2>2 DEF Shape, TypeOK, PcsAligned, Priv
<1>2. CASE QuietStep
  BY <1>2 DEF QuietStep, Shape, TypeOK, PcsAligned, Results, Retired
<1>3. CASE WriteStep
  <2>1. PICK c \in CsrNames : \E v \in OperandType(c) :
          /\ csr' = WriteCsr(csr, c, v) /\ priv' = priv /\ reserved' = reserved
          /\ pc' \in Addr /\ Aligned(pc') /\ result' = Retired /\ line' = line
    BY <1>3 DEF WriteStep
  <2>2. PICK v \in OperandType(c) :
          /\ csr' = WriteCsr(csr, c, v) /\ priv' = priv /\ reserved' = reserved
          /\ pc' \in Addr /\ Aligned(pc') /\ result' = Retired /\ line' = line
    BY <2>1
  <2>3. csr' \in CsrStates /\ Aligned(csr'.mepc) /\ Aligned(csr'.sepc)
    BY <2>2, WriteType, WriteAligned DEF Shape, TypeOK, PcsAligned
  <2> QED BY <2>2, <2>3 DEF Shape, TypeOK, PcsAligned, Results, Retired
<1>4. CASE MretStep \/ SretStep
  <2>1. /\ csr' \in CsrStates /\ csr'.mepc = csr.mepc /\ csr'.sepc = csr.sepc
    <3>1. csr \in CsrStates
      BY DEF Shape, TypeOK
    <3>2. CASE MretStep
      BY <3>1, <3>2, ReturnMFields DEF MretStep
    <3>3. CASE SretStep
      BY <3>1, <3>3, ReturnSFields DEF SretStep
    <3> QED BY <1>4, <3>2, <3>3
  <2>2. priv' \in Priv
    BY <1>4 DEF MretStep, SretStep, MretPriv, SretPriv, Priv
  <2>3. pc' \in Addr /\ Aligned(pc')
    BY <1>4 DEF MretStep, SretStep, Shape, TypeOK, PcsAligned, CsrStates
  <2> QED BY <1>4, <2>1, <2>2, <2>3
          DEF MretStep, SretStep, Shape, TypeOK, PcsAligned, Results, Retired
<1>5. CASE HostStep
  <2>1. CASE Reset
    <3>1. csr' \in CsrStates /\ Aligned(csr'.mepc) /\ Aligned(csr'.sepc)
      BY <2>1, ResetAligned DEF Reset
    <3>2. pc' \in Addr /\ Aligned(pc')
      BY <2>1, ResetAssumption DEF Reset
    <3> QED BY <2>1, <3>1, <3>2, NoResultType
            DEF Reset, Shape, TypeOK, PcsAligned, Priv
  <2>2. CASE \E c \in IrqCodes, level \in BOOLEAN : SetLine(c, level)
    <3>1. PICK c \in IrqCodes, level \in BOOLEAN : SetLine(c, level)
      BY <2>2
    <3>2. csr' = [csr EXCEPT !.mip = IF level THEN @ \union {c} ELSE @ \ {c}]
      BY <3>1 DEF SetLine
    <3>3. csr' \in CsrStates /\ csr'.mepc = csr.mepc /\ csr'.sepc = csr.sepc
      BY <3>2 DEF Shape, TypeOK, CsrStates
    <3>4. line' \subseteq IrqCodes
      BY <3>1 DEF SetLine, Shape, TypeOK
    <3> QED BY <3>1, <3>3, <3>4 DEF SetLine, Shape, TypeOK, PcsAligned
  <2> QED BY <1>5, <2>1, <2>2 DEF HostStep
<1>6. CASE UNCHANGED vars
  BY <1>6 DEF vars, Shape, TypeOK, PcsAligned
<1> QED BY <1>1, <1>2, <1>3, <1>4, <1>5, <1>6, StepKinds

\* The reset state is typed and aligned.
LEMMA ShapeInit == Init => Shape
<1>1. ASSUME Init PROVE csr \in CsrStates /\ Aligned(csr.mepc) /\ Aligned(csr.sepc)
  BY <1>1, ResetAligned DEF Init
<1>2. ASSUME Init PROVE pc \in Addr /\ Aligned(pc)
  BY <1>2, ResetAssumption DEF Init
<1> QED BY <1>1, <1>2, NoResultType
        DEF Init, Shape, TypeOK, PcsAligned, Priv

\* In every configuration, for every program and address space, the state
\* stays typed and the pcs aligned.
THEOREM ShapeInvariant == Spec => []Shape
BY ShapeInit, ShapeStep, PTL DEF Spec

\* The type invariant.
THEOREM TypeCorrect == Spec => []TypeOK
BY ShapeInvariant, PTL DEF Shape

\* pc, mepc and sepc respect IALIGN in every reachable state.
THEOREM AlwaysAligned == Spec => []PcsAligned
BY ShapeInvariant, PTL DEF Shape

(***************************************************************************)
(* Privilege and mstatus.                                                  *)
(*                                                                         *)
(* Only CSRFile::write legalises mstatus; trap entry and return build it   *)
(* bit by bit.  That the result is nevertheless legal, and that the modes  *)
(* it encodes exist, needs the privilege to be an implemented one, which   *)
(* in turn is what MPP and SPP say: the two are one inductive invariant,   *)
(* StatusOK.  It needs U-mode wherever there is S-mode (SRET enters U-mode *)
(* otherwise); that the bits are legal, BitsOK, does not.                  *)
(***************************************************************************)
\* The bits of an mstatus that a write could have stored.
BitsLegal(status) ==
  MstatusHardwired \subseteq status /\ status \subseteq MstatusLegalMask \union MstatusHardwired

BitsOK == BitsLegal(csr.mstatus)
StatusOK == priv \in Modes /\ MppOf(csr.mstatus) \in Modes

\* MPP depends on its two bits only.
LEMMA MppOnly ==
  ASSUME NEW s, NEW t, s \intersect {"MPPL", "MPPH"} = t \intersect {"MPPL", "MPPH"}
  PROVE  MppOf(s) = MppOf(t)
BY DEF MppOf

\* Writing back the MPP that is there changes nothing.
LEMMA MppSame ==
  ASSUME NEW status
  PROVE  WithMpp(status, MppOf(status)) = status
<1>1. MppBits(MppOf(status)) = status \intersect {"MPPL", "MPPH"}
  BY DEF MppBits, MppOf
<1> QED BY <1>1 DEF WithMpp

\* The bits trap entry and return may set are writable ones.
LEMMA StackBits ==
  /\ {"MIE", "MPIE", "MPPL", "MPPH"} \subseteq MstatusLegalMask
  /\ HasS => {"SIE", "SPIE", "SPP"} \subseteq MstatusLegalMask
  /\ MstatusHardwired \subseteq {"FS", "SD"}
  /\ MstatusLegalMask \intersect {"FS", "SD"} = {}
  /\ MstatusLegalMask \union MstatusHardwired \subseteq MstatusBits
BY DEF MstatusLegalMask, MstatusHardwired, MstatusBits

\* WithMpp keeps the bits legal.
LEMMA WithMppLegal ==
  ASSUME NEW status, NEW mpp \in 0 .. 3
  PROVE  /\ BitsLegal(status) => BitsLegal(WithMpp(status, mpp))
         /\ status \subseteq MstatusLegalMask => WithMpp(status, mpp) \subseteq MstatusLegalMask
<1>1. MppBits(mpp) \subseteq {"MPPL", "MPPH"}
  BY DEF MppBits
<1> QED BY <1>1, StackBits DEF WithMpp, BitsLegal

\* A legalised MPP is an implemented mode, and an implemented mode is left
\* as it is.
LEMMA LegalizeMppModes ==
  ASSUME NEW mpp \in 0 .. 3
  PROVE  LegalizeMpp(mpp) \in Modes /\ (mpp \in Modes => LegalizeMpp(mpp) = mpp)
BY ConfigAssumption DEF LegalizeMpp, Modes, U, S, M

\* What a CSR write stores in mstatus is legal.
LEMMA LegalizeLegal ==
  ASSUME NEW v \in SUBSET MstatusBits, NEW old \in SUBSET MstatusBits
  PROVE  /\ BitsLegal(LegalizeMstatus(v)) /\ MppOf(LegalizeMstatus(v)) \in Modes
         /\ BitsLegal(LegalizeSstatus(old, v))
         /\ MppOf(LegalizeSstatus(old, v)) = MppOf(old)
<1> DEFINE w == v \intersect MstatusLegalMask
           mpp == LegalizeMpp(MppOf(w))
<1>1. mpp \in Modes /\ mpp \in 0 .. 3
  BY MppRange, LegalizeMppModes, PrivRange
<1>2. LegalizeMstatus(v) = WithMpp(w, mpp) \union MstatusHardwired
  BY DEF LegalizeMstatus
<1> HIDE DEF mpp
<1>3. WithMpp(w, mpp) \subseteq MstatusLegalMask
  BY <1>1, WithMppLegal
<1>4. BitsLegal(LegalizeMstatus(v))
  BY <1>2, <1>3 DEF BitsLegal
<1>5. MppOf(LegalizeMstatus(v)) = MppOf(WithMpp(w, mpp))
  BY <1>2, StackBits, MppOnly
<1>6. MppOf(LegalizeMstatus(v)) \in Modes
  BY <1>1, <1>5, MppRoundTrip
<1>7. BitsLegal(LegalizeSstatus(old, v))
  BY DEF LegalizeSstatus, BitsLegal
<1>8. LegalizeSstatus(old, v) \intersect {"MPPL", "MPPH"} = old \intersect {"MPPL", "MPPH"}
  BY StackBits DEF LegalizeSstatus, SstatusWriteMask
<1> QED BY <1>4, <1>6, <1>7, <1>8, MppOnly

\* A CSR write leaves mstatus legal.
LEMMA WriteStatus ==
  ASSUME NEW f \in CsrStates, NEW c \in CsrNames, NEW v \in OperandType(c)
  PROVE  LET g == WriteCsr(f, c, v)
         IN  /\ BitsLegal(f.mstatus) => BitsLegal(g.mstatus)
             /\ MppOf(f.mstatus) \in Modes => MppOf(g.mstatus) \in Modes
<1>1. c \in {"sstatus", "sie", "stvec", "scounteren", "sepc", "sip", "satp",
             "mstatus", "medeleg", "mideleg", "mie", "mtvec", "mcounteren",
             "mepc", "mip", "cycle", "time", "instret", "mhartid"}
  BY DEF CsrNames, CsrAddr
<1>2. CASE c \in StatusCsrs
  <2>1. v \in SUBSET MstatusBits /\ f.mstatus \in SUBSET MstatusBits
    BY <1>2 DEF OperandType, CsrStates, StatusCsrs, IrqCsrs, CounterEnableCsrs
  <2>2. /\ c = "mstatus" => WriteCsr(f, c, v) = [f EXCEPT !.mstatus = LegalizeMstatus(v)]
        /\ c = "sstatus" => WriteCsr(f, c, v) = [f EXCEPT !.mstatus = LegalizeSstatus(f.mstatus, v)]
    BY DEF WriteCsr
  <2>3. /\ c = "mstatus" => WriteCsr(f, c, v).mstatus = LegalizeMstatus(v)
        /\ c = "sstatus" => WriteCsr(f, c, v).mstatus = LegalizeSstatus(f.mstatus, v)
    BY <2>2 DEF CsrStates
  <2> QED BY <1>2, <2>1, <2>3, LegalizeLegal DEF StatusCsrs
<1>3. CASE c \notin StatusCsrs
  <2>1. WriteCsr(f, c, v).mstatus = f.mstatus
    BY <1>1, <1>3 DEF WriteCsr, CsrStates, StatusCsrs
  <2> QED BY <2>1
<1> QED BY <1>2, <1>3

\* Reset leaves MPP = M and the hardwired bits.
LEMMA ResetStatus ==
  LET status == ResetCsr(MtvecReset).mstatus
  IN  BitsLegal(status) /\ MppOf(status) \in Modes
<1> DEFINE status == ResetCsr(MtvecReset).mstatus
<1>1. status = MstatusHardwired \union {"MPPL", "MPPH"}
  BY ResetType DEF MppBits, M
<1>2. MppOf(status) = 3
  BY <1>1 DEF MppOf
<1>3. BitsLegal(status)
  BY <1>1, StackBits DEF BitsLegal
<1> QED BY <1>2, <1>3, PrivRange DEF M

\* Trap entry keeps mstatus legal and stores an implemented mode in MPP.
LEMMA TrapStatus ==
  ASSUME Shape, TrapStep
  PROVE  (BitsOK => BitsOK') /\ (StatusOK => StatusOK')
<1>1. PICK target \in {S, M} :
        /\ target = S => HasS /\ priv # M
        /\ csr' = Enter(csr, target, priv, pc) /\ priv' = target
  BY DEF TrapStep
<1>2. csr \in CsrStates /\ priv \in Priv /\ pc \in Addr
  BY DEF Shape, TypeOK
<1>3. priv' \in Modes
  BY <1>1 DEF Modes
<1>4. CASE target = M
  <2> DEFINE w == WithMpp(csr.mstatus \ {"MIE", "MPIE"}, priv)
  <2>1. csr' = EnterM(csr, priv, pc)
    BY <1>1, <1>4 DEF Enter, S, M
  <2>2. csr'.mstatus = w \union (IF "MIE" \in csr.mstatus THEN {"MPIE"} ELSE {})
    BY <1>2, <2>1, EnterMFields
  <2>3. BitsOK => BitsLegal(csr.mstatus \ {"MIE", "MPIE"})
    BY StackBits DEF BitsOK, BitsLegal
  <2>4. (BitsOK => BitsLegal(w)) /\ MppOf(w) = priv
    BY <1>2, <2>3, PrivRange, WithMppLegal, MppRoundTrip
  <2> HIDE DEF w
  <2>5. BitsOK => BitsLegal(csr'.mstatus)
    BY <2>2, <2>4, StackBits DEF BitsLegal
  <2>6. MppOf(csr'.mstatus) = MppOf(w)
    BY <2>2, MppOnly
  <2> QED BY <1>3, <2>4, <2>5, <2>6 DEF StatusOK, BitsOK
<1>5. CASE target = S
  <2>1. csr' = EnterS(csr, priv, pc)
    BY <1>1, <1>5 DEF Enter
  <2>2. csr'.mstatus = (csr.mstatus \ {"SIE", "SPIE", "SPP"})
                         \union (IF "SIE" \in csr.mstatus THEN {"SPIE"} ELSE {})
                         \union (IF priv = S THEN {"SPP"} ELSE {})
    BY <1>2, <2>1, EnterSFields
  <2>3. BitsOK => BitsLegal(csr'.mstatus)
    BY <1>1, <1>5, <2>2, StackBits DEF BitsOK, BitsLegal
  <2>4. MppOf(csr'.mstatus) = MppOf(csr.mstatus)
    BY <2>2, MppOnly
  <2> QED BY <1>3, <2>3, <2>4 DEF StatusOK, BitsOK
<1> QED BY <1>1, <1>4, <1>5

\* MRET goes to an implemented mode, which the saved MPP named.
LEMMA MretStatus ==
  ASSUME Shape, MretStep
  PROVE  (BitsOK => BitsOK') /\ (StatusOK => StatusOK')
<1> DEFINE lower == WithMpp(csr.mstatus \ {"MIE", "MPIE"}, IF HasU THEN U ELSE M)
<1>1. csr \in CsrStates
  BY DEF Shape, TypeOK
<1>2. csr'.mstatus = (lower \ (IF MppOf(csr.mstatus) = M THEN {} ELSE {"MPRV"}))
                       \union (IF "MPIE" \in csr.mstatus THEN {"MIE"} ELSE {})
                       \union {"MPIE"}
  BY <1>1, ReturnMFields DEF MretStep
<1>3. (IF HasU THEN U ELSE M) \in Modes
  BY DEF Modes
<1>4. BitsOK => BitsLegal(csr.mstatus \ {"MIE", "MPIE"})
  BY StackBits DEF BitsOK, BitsLegal
<1>5. (BitsOK => BitsLegal(lower)) /\ MppOf(lower) \in Modes
  <2> DEFINE least == IF HasU THEN U ELSE M
  <2>1. least \in Modes /\ least \in 0 .. 3
    BY <1>3, PrivRange
  <2> HIDE DEF least
  <2>2. /\ BitsOK => BitsLegal(WithMpp(csr.mstatus \ {"MIE", "MPIE"}, least))
        /\ MppOf(WithMpp(csr.mstatus \ {"MIE", "MPIE"}, least)) = least
    BY <1>4, <2>1, WithMppLegal, MppRoundTrip
  <2> QED BY <2>1, <2>2 DEF least
<1> HIDE DEF lower
<1>6. BitsOK => BitsLegal(csr'.mstatus)
  BY <1>2, <1>5, StackBits DEF BitsLegal
<1>7. MppOf(csr'.mstatus) = MppOf(lower)
  BY <1>2, MppOnly
<1>8. StatusOK => priv' \in Modes
  BY PrivRange DEF MretStep, MretPriv, StatusOK
<1> QED BY <1>5, <1>6, <1>7, <1>8 DEF StatusOK, BitsOK

\* SRET goes to S or U; does U exist?
LEMMA SretStatus ==
  ASSUME Shape, SretStep
  PROVE  (BitsOK => BitsOK') /\ ((HasS => HasU) /\ StatusOK => StatusOK')
<1>1. csr \in CsrStates
  BY DEF Shape, TypeOK
<1>2. csr'.mstatus = (csr.mstatus \ {"SIE", "SPP", "MPRV"})
                       \union (IF "SPIE" \in csr.mstatus THEN {"SIE"} ELSE {})
                       \union {"SPIE"}
  BY <1>1, ReturnSFields DEF SretStep
<1>3. HasS
  BY DEF SretStep, SretLegal
<1>4. BitsOK => BitsLegal(csr'.mstatus)
  BY <1>2, <1>3, StackBits DEF BitsOK, BitsLegal
<1>5. MppOf(csr'.mstatus) = MppOf(csr.mstatus)
  BY <1>2, MppOnly
<1>6. (HasS => HasU) => priv' \in Modes
  BY <1>3 DEF SretStep, SretPriv, Modes
<1> QED BY <1>4, <1>5, <1>6 DEF StatusOK, BitsOK

\* Every step keeps mstatus legal and the mode implemented.
LEMMA StatusStep ==
  ASSUME Shape, [Next]_vars
  PROVE  (BitsOK => BitsOK') /\ ((HasS => HasU) /\ StatusOK => StatusOK')
<1>1. CASE TrapStep
  BY <1>1, TrapStatus
<1>2. CASE QuietStep \/ UNCHANGED vars
  BY <1>2 DEF QuietStep, vars, StatusOK, BitsOK
<1>3. CASE WriteStep
  BY <1>3, WriteStatus DEF WriteStep, Shape, TypeOK, StatusOK, BitsOK
<1>4. CASE MretStep
  BY <1>4, MretStatus
<1>5. CASE SretStep
  BY <1>5, SretStatus
<1>6. CASE Reset
  BY <1>6, ResetStatus DEF Reset, StatusOK, BitsOK, Modes
<1>7. CASE \E c \in IrqCodes, level \in BOOLEAN : SetLine(c, level)
  <2>1. csr'.mstatus = csr.mstatus /\ priv' = priv
    BY <1>7 DEF SetLine, Shape, TypeOK, CsrStates
  <2> QED BY <2>1 DEF StatusOK, BitsOK
<1> QED BY <1>1, <1>2, <1>3, <1>4, <1>5, <1>6, <1>7, StepKinds DEF HostStep

\* The bits of mstatus are always legal.
THEOREM BitsInvariant == Spec => []BitsOK
<1>1. Init => BitsOK
  BY ResetStatus DEF Init, BitsOK
<1>2. Shape /\ BitsOK /\ [Next]_vars => BitsOK'
  BY StatusStep
<1> QED BY <1>1, <1>2, ShapeInvariant, PTL DEF Spec

\* With U-mode wherever there is S-mode, MPP and the privilege are
\* implemented modes.
THEOREM StatusInvariant == (HasS => HasU) => (Spec => []StatusOK)
<1> SUFFICES ASSUME HasS => HasU PROVE Spec => []StatusOK
  OBVIOUS
<1>1. Init => StatusOK
  BY ResetStatus DEF Init, StatusOK, Modes
<1>2. Shape /\ StatusOK /\ [Next]_vars => StatusOK'
  BY StatusStep
<1> QED BY <1>1, <1>2, ShapeInvariant, PTL DEF Spec

\* The hart never runs in a mode it does not have.
THEOREM AlwaysImplemented == (HasS => HasU) => (Spec => []ModeImplemented)
<1>1. StatusOK => ModeImplemented
  BY DEF StatusOK, ModeImplemented
<1> QED BY <1>1, StatusInvariant, PTL

\* mstatus is always a fixed point of its legalisation.
THEOREM AlwaysLegal == (HasS => HasU) => (Spec => []MstatusLegal)
<1>1. ASSUME StatusOK, BitsOK PROVE MstatusLegal
  <2> DEFINE w == csr.mstatus \intersect MstatusLegalMask
  <2>1. MppOf(w) = MppOf(csr.mstatus)
    BY StackBits, MppOnly
  <2>2. LegalizeMpp(MppOf(w)) = MppOf(w)
    BY <1>1, <2>1, MppRange, LegalizeMppModes DEF StatusOK
  <2>3. WithMpp(w, LegalizeMpp(MppOf(w))) = w
    BY <2>2, MppSame
  <2>4. w \union MstatusHardwired = csr.mstatus
    BY <1>1 DEF BitsOK, BitsLegal
  <2> QED BY <2>3, <2>4 DEF MstatusLegal, LegalizeMstatus
<1>2. StatusOK /\ BitsOK => MstatusLegal
  BY <1>1
<1> QED BY <1>2, StatusInvariant, BitsInvariant, PTL

(***************************************************************************)
(* What a CSR write can reach from below M-mode.                           *)
(***************************************************************************)
\* U-mode can write none of the registers, S-mode only the supervisor's.
LEMMA WritableBelowM ==
  ASSUME NEW p \in Priv, NEW c \in CsrNames, CanWrite(p, c), p # M
  PROVE  p = S /\ c \in SupervisorCsrs
<1>1. c \in {"sstatus", "sie", "stvec", "scounteren", "sepc", "sip", "satp",
             "mstatus", "medeleg", "mideleg", "mie", "mtvec", "mcounteren",
             "mepc", "mip", "cycle", "time", "instret", "mhartid"}
  BY DEF CsrNames, CsrAddr
<1>2. p \in {0, 1}
  BY DEF Priv, U, S, M
<1>3. ~ReadOnlyCsr(c) /\ p >= MinPriv(c)
  BY DEF CanWrite
<1>4. /\ ReadOnlyCsr("cycle") /\ ReadOnlyCsr("time") /\ ReadOnlyCsr("instret")
      /\ ReadOnlyCsr("mhartid")
  BY DEF ReadOnlyCsr, CsrAddr
<1>5. /\ MinPriv("mstatus") = 3 /\ MinPriv("medeleg") = 3 /\ MinPriv("mideleg") = 3
      /\ MinPriv("mie") = 3 /\ MinPriv("mtvec") = 3 /\ MinPriv("mcounteren") = 3
      /\ MinPriv("mepc") = 3 /\ MinPriv("mip") = 3
  BY DEF MinPriv, CsrAddr
<1>6. c \in SupervisorCsrs
  BY <1>1, <1>2, <1>3, <1>4, <1>5 DEF SupervisorCsrs
<1>7. /\ MinPriv("sstatus") = 1 /\ MinPriv("sie") = 1 /\ MinPriv("stvec") = 1
      /\ MinPriv("scounteren") = 1 /\ MinPriv("sepc") = 1 /\ MinPriv("sip") = 1
      /\ MinPriv("satp") = 1
  BY DEF MinPriv, CsrAddr
<1>8. MinPriv(c) = 1
  BY <1>6, <1>7 DEF SupervisorCsrs
<1> QED BY <1>2, <1>3, <1>6, <1>8 DEF S

\* A write to a supervisor register leaves what is machine-owned: mstatus
\* but for the bits sstatus shows, the undelegated bits of mie and mip, and
\* the machine's own registers.
LEMMA SupervisorWrite ==
  ASSUME NEW f \in CsrStates, NEW c \in SupervisorCsrs, NEW v \in OperandType(c),
         BitsLegal(f.mstatus)
  PROVE  LET g == WriteCsr(f, c, v)
         IN  /\ g.mstatus \ SupervisorStatus = f.mstatus \ SupervisorStatus
             /\ g.mie \ f.mideleg = f.mie \ f.mideleg
             /\ g.mip \ f.mideleg = f.mip \ f.mideleg
             /\ g.mideleg = f.mideleg /\ g.medeleg = f.medeleg
             /\ g.mtvec = f.mtvec /\ g.mepc = f.mepc
             /\ g.mcounteren = f.mcounteren
             /\ g.mip \intersect {7, 11} = f.mip \intersect {7, 11}
<1>1. CASE c = "sstatus"
  <2>1. WriteCsr(f, c, v) = [f EXCEPT !.mstatus = LegalizeSstatus(f.mstatus, v)]
    BY <1>1 DEF WriteCsr
  <2>2. LegalizeSstatus(f.mstatus, v) \ SupervisorStatus = f.mstatus \ SupervisorStatus
    BY DEF LegalizeSstatus, BitsLegal, SupervisorStatus, SstatusWriteMask
  <2> QED BY <2>1, <2>2 DEF CsrStates
<1>2. CASE c = "sie"
  <2>1. WriteCsr(f, c, v) = [f EXCEPT !.mie = Merge(f.mie, f.mideleg, v)]
    BY <1>2 DEF WriteCsr
  <2>2. Merge(f.mie, f.mideleg, v) \ f.mideleg = f.mie \ f.mideleg
    BY DEF Merge
  <2> QED BY <2>1, <2>2 DEF CsrStates
<1>3. CASE c = "sip"
  <2> DEFINE m == Merge(f.mip, {1} \intersect f.mideleg, v)
  <2>1. WriteCsr(f, c, v) = [f EXCEPT !.mip = m]
    BY <1>3 DEF WriteCsr
  <2>2. m \ f.mideleg = f.mip \ f.mideleg /\ m \intersect {7, 11} = f.mip \intersect {7, 11}
    BY DEF Merge
  <2> HIDE DEF m
  <2> QED BY <2>1, <2>2 DEF CsrStates
<1>4. CASE c \in {"stvec", "scounteren", "sepc", "satp"}
  <2>1. /\ c = "stvec" => WriteCsr(f, c, v) = [f EXCEPT !.stvec = LegalizeTvec(v)]
        /\ c = "scounteren" => WriteCsr(f, c, v) = [f EXCEPT !.scounteren = v]
        /\ c = "sepc" => WriteCsr(f, c, v) = [f EXCEPT !.sepc = LegalizeEpc(v)]
        /\ c = "satp" => WriteCsr(f, c, v) = f
    BY DEF WriteCsr
  <2> QED BY <1>4, <2>1 DEF CsrStates
<1> QED BY <1>1, <1>2, <1>3, <1>4 DEF SupervisorCsrs

\* No CSR write changes the pending bits of the timer and the external
\* machine interrupt.
LEMMA WritePending ==
  ASSUME NEW f \in CsrStates, NEW c \in CsrNames, NEW v \in OperandType(c)
  PROVE  WriteCsr(f, c, v).mip \intersect {7, 11} = f.mip \intersect {7, 11}
<1>1. c \in {"sstatus", "sie", "stvec", "scounteren", "sepc", "sip", "satp",
             "mstatus", "medeleg", "mideleg", "mie", "mtvec", "mcounteren",
             "mepc", "mip", "cycle", "time", "instret", "mhartid"}
  BY DEF CsrNames, CsrAddr
<1>2. CASE c \in {"mip", "sip"}
  <2>1. /\ c = "mip" => WriteCsr(f, c, v) = [f EXCEPT !.mip = Merge(f.mip, MipWritable, v)]
        /\ c = "sip" => WriteCsr(f, c, v)
                          = [f EXCEPT !.mip = Merge(f.mip, {1} \intersect f.mideleg, v)]
    BY DEF WriteCsr
  <2>2. /\ c = "mip" => WriteCsr(f, c, v).mip = Merge(f.mip, MipWritable, v)
        /\ c = "sip" => WriteCsr(f, c, v).mip = Merge(f.mip, {1} \intersect f.mideleg, v)
    BY <2>1 DEF CsrStates
  <2> QED BY <1>2, <2>2 DEF Merge, MipWritable
<1>3. CASE c \notin {"mip", "sip"}
  <2>1. WriteCsr(f, c, v).mip = f.mip
    BY <1>1, <1>3 DEF WriteCsr, CsrStates
  <2> QED BY <2>1
<1> QED BY <1>2, <1>3

(***************************************************************************)
(* MPRV, forged interrupts and the movement of the privilege.              *)
(***************************************************************************)
\* MPRV stays out of the reach of S- and U-mode.
LEMMA MprvStep == Shape /\ BitsOK /\ MprvOnlyInM /\ [Next]_vars => MprvOnlyInM'
<1> SUFFICES ASSUME Shape, BitsOK, MprvOnlyInM, [Next]_vars PROVE MprvOnlyInM'
  OBVIOUS
<1>0. csr \in CsrStates /\ priv \in Priv /\ pc \in Addr
  BY DEF Shape, TypeOK
<1>1. CASE TrapStep
  <2>1. PICK target \in {S, M} :
          /\ target = S => HasS /\ priv # M
          /\ csr' = Enter(csr, target, priv, pc) /\ priv' = target
    BY <1>1 DEF TrapStep
  <2>2. CASE target = S
    <3>1. csr' = EnterS(csr, priv, pc)
      BY <2>1, <2>2 DEF Enter
    <3>2. csr'.mstatus = (csr.mstatus \ {"SIE", "SPIE", "SPP"})
                           \union (IF "SIE" \in csr.mstatus THEN {"SPIE"} ELSE {})
                           \union (IF priv = S THEN {"SPP"} ELSE {})
      BY <1>0, <3>1, EnterSFields
    <3> QED BY <2>1, <2>2, <3>2 DEF MprvOnlyInM
  <2> QED BY <2>1, <2>2 DEF MprvOnlyInM
<1>2. CASE QuietStep \/ UNCHANGED vars
  BY <1>2 DEF QuietStep, vars, MprvOnlyInM
<1>3. CASE WriteStep
  <2>1. PICK c \in CsrNames : \E v \in OperandType(c) :
          CanWrite(priv, c) /\ csr' = WriteCsr(csr, c, v) /\ priv' = priv
    BY <1>3 DEF WriteStep
  <2>2. PICK v \in OperandType(c) :
          CanWrite(priv, c) /\ csr' = WriteCsr(csr, c, v) /\ priv' = priv
    BY <2>1
  <2>3. CASE priv # M
    <3>1. c \in SupervisorCsrs
      BY <1>0, <2>2, <2>3, WritableBelowM
    <3>2. csr'.mstatus \ SupervisorStatus = csr.mstatus \ SupervisorStatus
      BY <1>0, <2>2, <3>1, SupervisorWrite DEF BitsOK
    <3> QED BY <2>2, <2>3, <3>2 DEF MprvOnlyInM, SupervisorStatus
  <2> QED BY <2>2, <2>3 DEF MprvOnlyInM
<1>4. CASE MretStep
  <2> DEFINE lower == WithMpp(csr.mstatus \ {"MIE", "MPIE"}, IF HasU THEN U ELSE M)
  <2>1. csr'.mstatus = (lower \ (IF MppOf(csr.mstatus) = M THEN {} ELSE {"MPRV"}))
                         \union (IF "MPIE" \in csr.mstatus THEN {"MIE"} ELSE {})
                         \union {"MPIE"}
    BY <1>0, <1>4, ReturnMFields DEF MretStep
  <2> HIDE DEF lower
  <2>2. priv' # M => MppOf(csr.mstatus) # M
    BY <1>4 DEF MretStep, MretPriv, U, S, M
  <2> QED BY <2>1, <2>2 DEF MprvOnlyInM
<1>5. CASE SretStep
  <2>1. csr'.mstatus = (csr.mstatus \ {"SIE", "SPP", "MPRV"})
                         \union (IF "SPIE" \in csr.mstatus THEN {"SIE"} ELSE {})
                         \union {"SPIE"}
    BY <1>0, <1>5, ReturnSFields DEF SretStep
  <2> QED BY <2>1 DEF MprvOnlyInM
<1>6. CASE Reset
  BY <1>6 DEF Reset, MprvOnlyInM
<1>7. CASE \E c \in IrqCodes, level \in BOOLEAN : SetLine(c, level)
  <2>1. csr'.mstatus = csr.mstatus /\ priv' = priv
    BY <1>0, <1>7 DEF SetLine, CsrStates
  <2> QED BY <2>1 DEF MprvOnlyInM
<1> QED BY <1>1, <1>2, <1>3, <1>4, <1>5, <1>6, <1>7, StepKinds DEF HostStep

\* MPRV is never set outside M-mode.
THEOREM MprvInvariant == Spec => []MprvOnlyInM
<1>1. Init => MprvOnlyInM
  BY DEF Init, MprvOnlyInM
<1> QED BY <1>1, MprvStep, ShapeInvariant, BitsInvariant, PTL DEF Spec

\* Only the platform moves MTIP and MEIP, each with its line.
LEMMA PendingStep ==
  ASSUME Shape, [Next]_vars, NEW c \in {7, 11}
  PROVE  \/ (c \in csr'.mip <=> c \in csr.mip) /\ (c \in line' <=> c \in line)
         \/ Reset
         \/ (c \in csr'.mip <=> c \in line') /\ \E level \in BOOLEAN : SetLine(c, level)
<1>0. csr \in CsrStates /\ priv \in Priv /\ pc \in Addr
  BY DEF Shape, TypeOK
<1>1. CASE TrapStep
  <2>1. PICK target \in {S, M} : csr' = Enter(csr, target, priv, pc) /\ line' = line
    BY <1>1 DEF TrapStep
  <2>2. EnterM(csr, priv, pc).mip = csr.mip
    BY <1>0, EnterMFields
  <2>3. EnterS(csr, priv, pc).mip = csr.mip
    BY <1>0, EnterSFields
  <2>4. csr'.mip = csr.mip
    BY <2>1, <2>2, <2>3 DEF Enter
  <2> QED BY <2>1, <2>4
<1>2. CASE QuietStep \/ UNCHANGED vars
  BY <1>2 DEF QuietStep, vars
<1>3. CASE WriteStep
  <2>1. PICK r \in CsrNames : \E v \in OperandType(r) : csr' = WriteCsr(csr, r, v) /\ line' = line
    BY <1>3 DEF WriteStep
  <2>2. csr'.mip \intersect {7, 11} = csr.mip \intersect {7, 11}
    BY <1>0, <2>1, WritePending
  <2> QED BY <2>1, <2>2
<1>4. CASE MretStep
  BY <1>0, <1>4, ReturnMFields DEF MretStep
<1>5. CASE SretStep
  BY <1>0, <1>5, ReturnSFields DEF SretStep
<1>6. CASE \E d \in IrqCodes, level \in BOOLEAN : SetLine(d, level)
  <2>1. PICK d \in IrqCodes, level \in BOOLEAN : SetLine(d, level)
    BY <1>6
  <2>2. csr'.mip = IF level THEN csr.mip \union {d} ELSE csr.mip \ {d}
    BY <1>0, <2>1 DEF SetLine, CsrStates
  <2>3. line' = IF level THEN line \union {d} ELSE line \ {d}
    BY <2>1 DEF SetLine
  <2>4. CASE d = c
    <3>1. \E up \in BOOLEAN : SetLine(c, up)
      BY <2>1, <2>4
    <3> QED BY <2>2, <2>3, <2>4, <3>1
  <2>5. CASE d # c
    BY <2>2, <2>3, <2>5
  <2> QED BY <2>4, <2>5
<1> QED BY <1>1, <1>2, <1>3, <1>4, <1>5, <1>6, StepKinds DEF HostStep

\* MTIP and MEIP are pending only while their lines are high.
NoForgedInterrupt == csr.mip \intersect {7, 11} \subseteq line

LEMMA ForgedStep == Shape /\ NoForgedInterrupt /\ [Next]_vars => NoForgedInterrupt'
<1> SUFFICES ASSUME Shape, NoForgedInterrupt, [Next]_vars, NEW c \in csr'.mip, c \in {7, 11}
             PROVE  c \in line'
  BY DEF NoForgedInterrupt
<1>1. CASE Reset
  BY <1>1, ResetType DEF Reset
<1>2. CASE ~Reset
  BY <1>2, PendingStep DEF NoForgedInterrupt
<1> QED BY <1>1, <1>2

\* Software neither sets nor clears MTIP and MEIP: each changes with its line
\* alone and is level with it, but for a reset, which clears it.
THEOREM PendingIsPlatforms == Spec => PlatformPending
<1> DEFINE driven ==
      \A c \in {7, 11} :
        /\ c \in csr'.mip => c \in line'
        /\ ~(c \in csr'.mip <=> c \in csr.mip) =>
              Reset \/ \E level \in BOOLEAN : SetLine(c, level)
        /\ ShowsLine(c) /\ ~ShowsLine(c)' => Reset
<1>1. Init => NoForgedInterrupt
  BY ResetType DEF Init, NoForgedInterrupt
<1>2. Shape /\ NoForgedInterrupt /\ [Next]_vars => [driven]_vars
  BY PendingStep, ForgedStep DEF ShowsLine, NoForgedInterrupt
<1> QED BY <1>1, <1>2, ForgedStep, ShapeInvariant, PTL DEF Spec, PlatformPending

\* The privilege of a step: a trap never lowers it, a return never raises
\* it, and nothing else but reset moves it.
LEMMA PrivilegeStep ==
  ASSUME Shape, [Next]_vars
  PROVE  /\ priv' > priv => result'.kind \in {"trap", "interrupt", "none"}
         /\ priv' < priv => result'.kind = "retire"
<1>0. priv \in Priv
  BY DEF Shape, TypeOK
<1>1. CASE TrapStep
  BY <1>0, <1>1 DEF TrapStep, Priv, U, S, M
<1>2. CASE QuietStep \/ WriteStep \/ UNCHANGED vars
  BY <1>0, <1>2 DEF QuietStep, WriteStep, vars, Priv, U, S, M
<1>3. CASE MretStep
  BY <1>3 DEF MretStep, MretPriv, Retired, U, S, M
<1>4. CASE SretStep
  BY <1>0, <1>4 DEF SretStep, SretLegal, SretPriv, Retired, Priv, U, S, M
<1>5. CASE Reset
  BY <1>0, <1>5 DEF Reset, NoResult, Priv, U, S, M
<1>6. CASE \E c \in IrqCodes, level \in BOOLEAN : SetLine(c, level)
  BY <1>0, <1>6 DEF SetLine, Priv, U, S, M
<1> QED BY <1>1, <1>2, <1>3, <1>4, <1>5, <1>6, StepKinds DEF HostStep

\* Privilege rises only by a trap or reset and falls only by a return.
THEOREM PrivilegeOnlyMoves == Spec => PrivilegeMoves
<1>1. Shape /\ [Next]_vars =>
        [/\ priv' > priv => result'.kind \in {"trap", "interrupt", "none"}
         /\ priv' < priv => result'.kind = "retire"]_vars
  BY PrivilegeStep
<1> QED BY <1>1, ShapeInvariant, PTL DEF Spec, PrivilegeMoves

(***************************************************************************)
(* Entering a handler and returning from it.                               *)
(***************************************************************************)
\* Return undoes entry, to M-mode and to S-mode, except in the handler's own
\* stack fields.
LEMMA EntryReturn == Shape /\ MprvOnlyInM => TrapReturnTransparent
<1> SUFFICES ASSUME Shape, MprvOnlyInM PROVE TrapReturnTransparent
  OBVIOUS
<1>0. csr \in CsrStates /\ priv \in Priv /\ pc \in Addr /\ Aligned(pc)
  BY DEF Shape, TypeOK, PcsAligned
<1>1. LegalizeEpc(pc) = pc
  BY <1>0, EpcAligned
<1> DEFINE inM == EnterM(csr, priv, pc)
           inS == EnterS(csr, priv, pc)
           saved == WithMpp(csr.mstatus \ {"MIE", "MPIE"}, priv)
           lower == WithMpp(inM.mstatus \ {"MIE", "MPIE"}, IF HasU THEN U ELSE M)
<1>2. /\ inM \in CsrStates /\ inM.mepc = pc
      /\ inM.mstatus = saved \union (IF "MIE" \in csr.mstatus THEN {"MPIE"} ELSE {})
  BY <1>0, <1>1, EnterMFields
<1>3. /\ inS \in CsrStates /\ inS.sepc = pc
      /\ inS.mstatus = (csr.mstatus \ {"SIE", "SPIE", "SPP"})
                         \union (IF "SIE" \in csr.mstatus THEN {"SPIE"} ELSE {})
                         \union (IF priv = S THEN {"SPP"} ELSE {})
  BY <1>0, <1>1, EnterSFields
<1>4. ReturnM(inM).mstatus =
        (lower \ (IF MppOf(inM.mstatus) = M THEN {} ELSE {"MPRV"}))
          \union (IF "MPIE" \in inM.mstatus THEN {"MIE"} ELSE {})
          \union {"MPIE"}
  BY <1>2, ReturnMFields
<1>5. ReturnS(inS).mstatus =
        (inS.mstatus \ {"SIE", "SPP", "MPRV"})
          \union (IF "SPIE" \in inS.mstatus THEN {"SIE"} ELSE {})
          \union {"SPIE"}
  BY <1>3, ReturnSFields
<1>6. /\ MppOf(saved) = priv
      /\ saved \ {"MPPL", "MPPH"} = (csr.mstatus \ {"MIE", "MPIE"}) \ {"MPPL", "MPPH"}
  BY <1>0, PrivRange, MppRoundTrip
<1>7. lower \ {"MPPL", "MPPH"} = (inM.mstatus \ {"MIE", "MPIE"}) \ {"MPPL", "MPPH"}
  BY MppRoundTrip DEF U, M
<1> HIDE DEF inM, inS, saved, lower
<1>8. MppOf(inM.mstatus) = priv
  BY <1>2, <1>6, MppOnly
<1>9. MretPriv(inM) = priv
  BY <1>0, <1>8 DEF MretPriv, Priv, U, S, M
<1>10. ReturnM(inM).mstatus \ {"MPIE", "MPPL", "MPPH"} = csr.mstatus \ {"MPIE", "MPPL", "MPPH"}
  <2>1. "MPIE" \in inM.mstatus <=> "MIE" \in csr.mstatus
    BY <1>2, <1>6
  <2>2. lower \ {"MPIE", "MIE", "MPPL", "MPPH"} = csr.mstatus \ {"MPIE", "MIE", "MPPL", "MPPH"}
    BY <1>2, <1>6, <1>7
  <2>3. "MIE" \notin lower
    BY <1>7
  <2>4. MppOf(inM.mstatus) # M => "MPRV" \notin csr.mstatus
    BY <1>8 DEF MprvOnlyInM
  <2> QED BY <1>4, <2>1, <2>2, <2>3, <2>4
<1>11. ASSUME priv # M
       PROVE  /\ SretPriv(inS) = priv
              /\ ReturnS(inS).mstatus \ {"SPIE", "SPP"} = csr.mstatus \ {"SPIE", "SPP"}
  <2>1. SretPriv(inS) = priv
    BY <1>0, <1>3, <1>11 DEF SretPriv, Priv
  <2>2. "MPRV" \notin csr.mstatus
    BY <1>11 DEF MprvOnlyInM
  <2> QED BY <1>3, <1>5, <2>1, <2>2
<1> QED BY <1>2, <1>3, <1>9, <1>10, <1>11 DEF TrapReturnTransparent, inM, inS

\* A handler that does nothing but return is invisible.
THEOREM AlwaysTransparent == Spec => []TrapReturnTransparent
BY EntryReturn, ShapeInvariant, MprvInvariant, PTL

(***************************************************************************)
(* Interrupts.                                                             *)
(***************************************************************************)
\* What an interrupt entry does, and the two facts the scan guarantees: its
\* place is the first deliverable one.
LEMMA InterruptEntry ==
  ASSUME Shape, TakeInterrupt
  PROVE  \E k \in Deliverable :
           /\ \A j \in Deliverable : k <= j
           /\ priv' = ScanTarget(k)
           /\ csr' \in CsrStates
           /\ csr'.mie = csr.mie /\ csr'.mip = csr.mip /\ csr'.mideleg = csr.mideleg
           /\ ScanTarget(k) = M => "MIE" \notin csr'.mstatus
           /\ ScanTarget(k) = S => "SIE" \notin csr'.mstatus
           /\ result'.cause = ScanCode(k)
<1>0. csr \in CsrStates /\ priv \in Priv /\ pc \in Addr
  BY DEF Shape, TypeOK
<1>1. PICK k \in Deliverable :
        /\ \A j \in Deliverable : k <= j
        /\ csr' = Enter(csr, ScanTarget(k), priv, pc)
        /\ priv' = ScanTarget(k)
        /\ result' = [kind |-> "interrupt", cause |-> ScanCode(k)]
  BY DEF TakeInterrupt
<1>2. ScanTarget(k) \in {S, M}
  BY ScanRange DEF Deliverable
<1>3. CASE ScanTarget(k) = M
  <2> DEFINE saved == WithMpp(csr.mstatus \ {"MIE", "MPIE"}, priv)
  <2>1. csr' = EnterM(csr, priv, pc)
    BY <1>1, <1>3 DEF Enter, S, M
  <2>2. /\ csr' \in CsrStates
        /\ csr'.mie = csr.mie /\ csr'.mip = csr.mip /\ csr'.mideleg = csr.mideleg
        /\ csr'.mstatus = saved \union (IF "MIE" \in csr.mstatus THEN {"MPIE"} ELSE {})
    BY <1>0, <2>1, EnterMFields
  <2>3. "MIE" \notin saved
    BY <1>0, PrivRange, MppRoundTrip
  <2> HIDE DEF saved
  <2>4. "MIE" \notin csr'.mstatus
    BY <2>2, <2>3
  <2> QED BY <1>1, <1>3, <2>2, <2>4 DEF S, M
<1>4. CASE ScanTarget(k) = S
  <2>1. csr' = EnterS(csr, priv, pc)
    BY <1>1, <1>4 DEF Enter
  <2>2. /\ csr' \in CsrStates
        /\ csr'.mie = csr.mie /\ csr'.mip = csr.mip /\ csr'.mideleg = csr.mideleg
        /\ csr'.mstatus = (csr.mstatus \ {"SIE", "SPIE", "SPP"})
                            \union (IF "SIE" \in csr.mstatus THEN {"SPIE"} ELSE {})
                            \union (IF priv = S THEN {"SPP"} ELSE {})
    BY <1>0, <2>1, EnterSFields
  <2>3. "SIE" \notin csr'.mstatus
    BY <2>2
  <2> QED BY <1>1, <1>4, <2>2, <2>3 DEF S, M
<1> QED BY <1>2, <1>3, <1>4

\* After an interrupt entry nothing is deliverable: entry to M-mode masks
\* everything, and entry to S-mode happens only when no interrupt for
\* M-mode is pending, because those come first in the scan.
LEMMA EntryMasks ==
  ASSUME Shape, TakeInterrupt
  PROVE  Deliverable' = {}
<1>1. PICK k \in Deliverable :
        /\ \A j \in Deliverable : k <= j
        /\ priv' = ScanTarget(k)
        /\ csr'.mie = csr.mie /\ csr'.mip = csr.mip /\ csr'.mideleg = csr.mideleg
        /\ ScanTarget(k) = M => "MIE" \notin csr'.mstatus
        /\ ScanTarget(k) = S => "SIE" \notin csr'.mstatus
  BY InterruptEntry
<1>2. k \in 1 .. 12 /\ ScanTarget(k) \in {S, M} /\ GloballyEnabled(ScanTarget(k))
  BY ScanRange DEF Deliverable
<1>3. ASSUME NEW j \in Deliverable' PROVE FALSE
  <2>1. /\ j \in 1 .. 12
        /\ ScanCode(j) \in csr.mip \intersect csr.mie
        /\ IrqTarget(ScanCode(j))' = ScanTarget(j)
        /\ GloballyEnabled(ScanTarget(j))'
    BY <1>1, <1>3 DEF Deliverable, ScanCode, ScanTarget, Priority
  <2>2. IrqTarget(ScanCode(j)) = ScanTarget(j)
    BY <1>1, <2>1 DEF IrqTarget
  <2>3. ScanTarget(j) \in {S, M}
    BY <2>1, ScanRange
  <2>4. ScanTarget(k) = S /\ ScanTarget(j) = M
    BY <1>1, <1>2, <2>1, <2>3 DEF GloballyEnabled, S, M
  <2>5. priv \in {U, S}
    BY <1>2, <2>4 DEF GloballyEnabled, Shape, TypeOK, Priv, U, S, M
  <2>6. j \in Deliverable
    BY <2>1, <2>2, <2>4, <2>5 DEF Deliverable, GloballyEnabled, U, S, M
  <2>7. j <= 6 /\ k > 6
    BY <1>2, <2>1, <2>4 DEF ScanTarget, S, M
  <2> QED BY <1>1, <1>2, <2>1, <2>6, <2>7
<1> QED BY <1>3

\* The handler of an interrupt is not pre-empted by another interrupt.
THEOREM NeverPreempted == Spec => HandlerNotPreempted
<1>1. Shape /\ [Next]_vars => [TakeInterrupt => Deliverable' = {}]_vars
  BY EntryMasks
<1> QED BY <1>1, ShapeInvariant, PTL DEF Spec, HandlerNotPreempted

(***************************************************************************)
(* The order of the interrupts.                                            *)
(***************************************************************************)
\* The scan visits every interrupt once for each target.
LEMMA ScanPosition ==
  ASSUME NEW c \in IrqCodes, NEW target \in {S, M}
  PROVE  \E j \in 1 .. 12 : ScanCode(j) = c /\ ScanTarget(j) = target
<1>1. /\ ScanCode(1) = 11 /\ ScanCode(2) = 3 /\ ScanCode(3) = 7
      /\ ScanCode(4) = 9 /\ ScanCode(5) = 1 /\ ScanCode(6) = 5
  BY DEF ScanCode, Priority
<1>2. /\ ScanCode(7) = 11 /\ ScanCode(8) = 3 /\ ScanCode(9) = 7
      /\ ScanCode(10) = 9 /\ ScanCode(11) = 1 /\ ScanCode(12) = 5
  BY DEF ScanCode, Priority
<1>3. /\ \A j \in 1 .. 6 : ScanTarget(j) = M
      /\ \A j \in 7 .. 12 : ScanTarget(j) = S
  BY DEF ScanTarget
<1>4. c \in {1, 3, 5, 7, 9, 11}
  BY DEF IrqCodes
<1>5. CASE target = M
  <2>1. \E j \in 1 .. 6 : ScanCode(j) = c
    BY <1>1, <1>4
  <2> QED BY <1>3, <1>5, <2>1
<1>6. CASE target = S
  <2>1. \E j \in 7 .. 12 : ScanCode(j) = c
    BY <1>2, <1>4
  <2> QED BY <1>3, <1>6, <2>1
<1> QED BY <1>5, <1>6

\* For one target the scan visits an interrupt before those it outranks.
LEMMA ScanOrder ==
  ASSUME NEW k \in 1 .. 12, NEW j \in 1 .. 12, k < j, ScanTarget(k) = ScanTarget(j)
  PROVE  Outranks(ScanCode(k), ScanCode(j))
<1>0. k \in Int /\ j \in Int /\ S # M
  BY DEF S, M
<1>1. (k <= 6 /\ j <= 6) \/ (k > 6 /\ j > 6)
  <2>1. (k <= 6 => ScanTarget(k) = M) /\ (~(k <= 6) => ScanTarget(k) = S)
    BY DEF ScanTarget
  <2>2. (j <= 6 => ScanTarget(j) = M) /\ (~(j <= 6) => ScanTarget(j) = S)
    BY DEF ScanTarget
  <2> QED BY <1>0, <2>1, <2>2
<1>2. ASSUME NEW p \in 1 .. 6, NEW q \in 1 .. 6, p < q
      PROVE  Outranks(Priority[p], Priority[q])
  <2>1. /\ Priority[1] = 11 /\ Priority[2] = 3 /\ Priority[3] = 7
        /\ Priority[4] = 9 /\ Priority[5] = 1 /\ Priority[6] = 5
    BY DEF Priority
  <2>2. /\ Outranks(11, 3) /\ Outranks(11, 7) /\ Outranks(3, 7)
        /\ Outranks(9, 1) /\ Outranks(9, 5) /\ Outranks(1, 5)
    BY DEF Outranks
  <2>3. /\ Outranks(11, 9) /\ Outranks(11, 1) /\ Outranks(11, 5)
        /\ Outranks(3, 9) /\ Outranks(3, 1) /\ Outranks(3, 5)
        /\ Outranks(7, 9) /\ Outranks(7, 1) /\ Outranks(7, 5)
    BY DEF Outranks
  <2>4. CASE p \in {1, 2, 3} /\ q \in {4, 5, 6}
    BY <2>1, <2>3, <2>4
  <2>5. CASE (p \in {1, 2} /\ q \in {2, 3}) \/ (p \in {4, 5} /\ q \in {5, 6})
    BY <1>2, <2>1, <2>2, <2>5
  <2>6. CASE p \in {4, 5, 6} /\ q \in {1, 2, 3}
    BY <1>2, <2>6
  <2>7. p \in {1, 2, 3, 4, 5, 6} /\ q \in {1, 2, 3, 4, 5, 6}
    BY <1>2
  <2>8. CASE (p \in {1, 2, 3} /\ q \in {1, 2, 3}) \/ (p \in {4, 5, 6} /\ q \in {4, 5, 6})
    BY <1>2, <2>5, <2>8
  <2> QED BY <2>4, <2>6, <2>7, <2>8
<1>3. CASE k <= 6 /\ j <= 6
  BY <1>2, <1>3 DEF ScanCode
<1>4. CASE k > 6 /\ j > 6
  <2>1. k - 6 \in 1 .. 6 /\ j - 6 \in 1 .. 6 /\ k - 6 < j - 6
    BY <1>4
  <2> QED BY <1>2, <1>4, <2>1 DEF ScanCode
<1> QED BY <1>1, <1>3, <1>4

\* The interrupt taken is first among those that could be taken, and none
\* that goes to M-mode waits behind one that goes to S-mode.
LEMMA PriorityStep ==
  ASSUME Shape, TakeInterrupt,
         NEW c \in (csr.mip \intersect csr.mie) \ {result'.cause}
  PROVE  /\ IrqTarget(c) = IrqTarget(result'.cause) => Outranks(result'.cause, c)
         /\ IrqTarget(result'.cause) = S => IrqTarget(c) = S
<1>1. PICK k \in Deliverable :
        /\ \A j \in Deliverable : k <= j
        /\ result' = [kind |-> "interrupt", cause |-> ScanCode(k)]
  BY DEF TakeInterrupt
<1>2. /\ k \in 1 .. 12 /\ IrqTarget(ScanCode(k)) = ScanTarget(k)
      /\ GloballyEnabled(ScanTarget(k)) /\ result'.cause = ScanCode(k)
  BY <1>1 DEF Deliverable
<1>3. c \in IrqCodes /\ c # ScanCode(k) /\ priv \in Priv
  BY <1>2 DEF Shape, TypeOK, CsrStates
<1>4. IrqTarget(c) \in {S, M} /\ IrqTarget(ScanCode(k)) \in {S, M}
  BY DEF IrqTarget
<1>5. PICK j \in 1 .. 12 : ScanCode(j) = c /\ ScanTarget(j) = IrqTarget(c)
  BY <1>3, <1>4, ScanPosition
<1>6. GloballyEnabled(IrqTarget(c)) => k < j
  <2>1. GloballyEnabled(IrqTarget(c)) => j \in Deliverable
    BY <1>5 DEF Deliverable
  <2>2. k # j
    BY <1>3, <1>5
  <2> QED BY <1>1, <1>2, <2>1, <2>2
<1>7. IrqTarget(c) = IrqTarget(ScanCode(k)) => Outranks(ScanCode(k), c)
  BY <1>2, <1>5, <1>6, ScanOrder
<1>8. IrqTarget(ScanCode(k)) = S => IrqTarget(c) = S
  <2>1. SUFFICES ASSUME IrqTarget(ScanCode(k)) = S, IrqTarget(c) = M PROVE FALSE
    BY <1>4
  <2>2. priv < M
    BY <1>2, <1>3, <2>1 DEF GloballyEnabled, Priv, U, S, M
  <2>3. GloballyEnabled(IrqTarget(c))
    BY <2>1, <2>2 DEF GloballyEnabled
  <2>4. j <= 6 /\ k > 6
    BY <1>2, <1>5, <2>1 DEF ScanTarget, S, M
  <2> QED BY <1>2, <1>6, <2>3, <2>4
<1> QED BY <1>2, <1>7, <1>8

\* Every interrupt taken outranks its rivals.
THEOREM PriorityKept == Spec => InterruptPriority
<1> DEFINE Kept ==
      LET taken == result'.cause
          rivals == (csr.mip \intersect csr.mie) \ {taken}
      IN  /\ \A c \in rivals : IrqTarget(c) = IrqTarget(taken) => Outranks(taken, c)
          /\ IrqTarget(taken) = S => \A c \in rivals : IrqTarget(c) = S
<1>1. Shape /\ [Next]_vars => [TakeInterrupt => Kept]_vars
  BY PriorityStep
<1> QED BY <1>1, ShapeInvariant, PTL DEF Spec, InterruptPriority

(***************************************************************************)
(* The hart implements Isolation, in every configuration, for every        *)
(* program, and whatever the platform does: the initial states are         *)
(* initial states of the abstract specification, and every step of the     *)
(* hart is one of its steps or a stutter.                                  *)
(***************************************************************************)
\* The variables of Isolation, as the hart maps them.
Dvars == <<priv, pc, MachineOwned, SupervisorOwned, csr.mip, csr.mideleg>>

\* A trap saves the interrupted context in the state of the mode it enters.
LEMMA TrapIsolated ==
  ASSUME Shape, TrapStep
  PROVE  Domains!IsolationNext
<1>0. csr \in CsrStates /\ priv \in Priv /\ pc \in Addr
  BY DEF Shape, TypeOK
<1>1. PICK target \in {S, M} :
        /\ target = S => HasS /\ priv # M
        /\ csr' = Enter(csr, target, priv, pc) /\ priv' = target
  BY DEF TrapStep
<1>2. CASE priv = M
  BY <1>2 DEF Domains!IsolationNext, Domains!MachineStep
<1>3. CASE priv # M /\ target = M
  <2>1. csr' = EnterM(csr, priv, pc)
    BY <1>1, <1>3 DEF Enter, S, M
  <2>2. csr'.mstatus = WithMpp(csr.mstatus \ {"MIE", "MPIE"}, priv)
                         \union (IF "MIE" \in csr.mstatus THEN {"MPIE"} ELSE {})
    BY <1>0, <2>1, EnterMFields
  <2>3. csr'.mstatus \intersect SupervisorStatus = csr.mstatus \intersect SupervisorStatus
    BY <2>2 DEF WithMpp, MppBits, SupervisorStatus
  <2>4. /\ csr'.mie = csr.mie /\ csr'.mip = csr.mip /\ csr'.mideleg = csr.mideleg
        /\ csr'.stvec = csr.stvec /\ csr'.sepc = csr.sepc
        /\ csr'.scounteren = csr.scounteren
    BY <1>0, <2>1, EnterMFields
  <2>5. SupervisorOwned' = SupervisorOwned
    BY <2>3, <2>4 DEF SupervisorOwned
  <2> QED BY <1>0, <1>1, <1>3, <2>4, <2>5
          DEF Domains!IsolationNext, Domains!TrapToMachine, Priv
<1>4. CASE priv # M /\ target = S
  <2>1. csr' = EnterS(csr, priv, pc)
    BY <1>1, <1>4 DEF Enter
  <2>2. csr'.mstatus = (csr.mstatus \ {"SIE", "SPIE", "SPP"})
                         \union (IF "SIE" \in csr.mstatus THEN {"SPIE"} ELSE {})
                         \union (IF priv = S THEN {"SPP"} ELSE {})
    BY <1>0, <2>1, EnterSFields
  <2>3. csr'.mstatus \ SupervisorStatus = csr.mstatus \ SupervisorStatus
    BY <2>2 DEF SupervisorStatus
  <2>4. /\ csr'.mie = csr.mie /\ csr'.mip = csr.mip /\ csr'.mideleg = csr.mideleg
        /\ csr'.medeleg = csr.medeleg /\ csr'.mtvec = csr.mtvec
        /\ csr'.mepc = csr.mepc /\ csr'.mcounteren = csr.mcounteren
    BY <1>0, <2>1, EnterSFields
  <2>5. MachineOwned' = MachineOwned
    BY <2>3, <2>4 DEF MachineOwned
  <2> QED BY <1>0, <1>1, <1>4, <2>4, <2>5
          DEF Domains!IsolationNext, Domains!TrapToSupervisor, Priv
<1> QED BY <1>1, <1>2, <1>3, <1>4

\* An instruction that leaves the CSR file alone moves pc only.
LEMMA QuietIsolated ==
  ASSUME Shape, QuietStep
  PROVE  Domains!IsolationNext
<1>1. priv \in Priv /\ csr' = csr /\ priv' = priv
  BY DEF Shape, TypeOK, QuietStep
<1>2. MachineOwned' = MachineOwned /\ SupervisorOwned' = SupervisorOwned
  BY <1>1 DEF MachineOwned, SupervisorOwned
<1> QED BY <1>1, <1>2
        DEF Domains!IsolationNext, Domains!MachineStep, Domains!SupervisorStep,
            Domains!UserStep, Priv

\* A CSR write from S-mode reaches the supervisor's state only, through
\* whichever alias; from U-mode there is none.
LEMMA WriteIsolated ==
  ASSUME Shape, BitsOK, WriteStep
  PROVE  Domains!IsolationNext
<1>0. csr \in CsrStates /\ priv \in Priv
  BY DEF Shape, TypeOK
<1>1. PICK c \in CsrNames : \E v \in OperandType(c) :
        CanWrite(priv, c) /\ csr' = WriteCsr(csr, c, v) /\ priv' = priv
  BY DEF WriteStep
<1>2. PICK v \in OperandType(c) :
        CanWrite(priv, c) /\ csr' = WriteCsr(csr, c, v) /\ priv' = priv
  BY <1>1
<1>3. CASE priv = M
  BY <1>3 DEF Domains!IsolationNext, Domains!MachineStep
<1>4. CASE priv # M
  <2>1. priv = S /\ c \in SupervisorCsrs
    BY <1>0, <1>2, <1>4, WritableBelowM
  <2>2. /\ csr'.mstatus \ SupervisorStatus = csr.mstatus \ SupervisorStatus
        /\ csr'.mie \ csr.mideleg = csr.mie \ csr.mideleg
        /\ csr'.mip \ csr.mideleg = csr.mip \ csr.mideleg
        /\ csr'.mideleg = csr.mideleg /\ csr'.medeleg = csr.medeleg
        /\ csr'.mtvec = csr.mtvec /\ csr'.mepc = csr.mepc
        /\ csr'.mcounteren = csr.mcounteren
    BY <1>0, <1>2, <2>1, SupervisorWrite DEF BitsOK
  <2>3. MachineOwned' = MachineOwned
    BY <2>2 DEF MachineOwned
  <2> QED BY <1>2, <2>1, <2>2, <2>3
          DEF Domains!IsolationNext, Domains!SupervisorStep
<1> QED BY <1>3, <1>4

\* MRET is a step of M-mode; SRET leaves S-mode downwards or not at all, and
\* what it clears outside the supervisor's state, MPRV, is clear already.
LEMMA ReturnIsolated ==
  ASSUME Shape, MprvOnlyInM, MretStep \/ SretStep
  PROVE  Domains!IsolationNext
<1>0. csr \in CsrStates /\ priv \in Priv
  BY DEF Shape, TypeOK
<1>1. CASE priv = M
  BY <1>1 DEF Domains!IsolationNext, Domains!MachineStep
<1>2. CASE priv # M
  <2>1. priv = S /\ csr' = ReturnS(csr) /\ priv' \in {U, S}
    BY <1>0, <1>2 DEF MretStep, SretStep, SretLegal, SretPriv, Priv
  <2>2. csr'.mstatus = (csr.mstatus \ {"SIE", "SPP", "MPRV"})
                         \union (IF "SPIE" \in csr.mstatus THEN {"SIE"} ELSE {})
                         \union {"SPIE"}
    BY <1>0, <2>1, ReturnSFields
  <2>3. csr'.mstatus \ SupervisorStatus = csr.mstatus \ SupervisorStatus
    BY <1>2, <2>2 DEF SupervisorStatus, MprvOnlyInM
  <2>4. /\ csr'.mie = csr.mie /\ csr'.mip = csr.mip /\ csr'.mideleg = csr.mideleg
        /\ csr'.medeleg = csr.medeleg /\ csr'.mtvec = csr.mtvec
        /\ csr'.mepc = csr.mepc /\ csr'.mcounteren = csr.mcounteren
    BY <1>0, <2>1, ReturnSFields
  <2>5. MachineOwned' = MachineOwned
    BY <2>3, <2>4 DEF MachineOwned
  <2> QED BY <2>1, <2>4, <2>5
          DEF Domains!IsolationNext, Domains!SupervisorStep
<1> QED BY <1>1, <1>2

\* The host resets the hart or moves a pending bit.
LEMMA HostIsolated ==
  ASSUME Shape, HostStep
  PROVE  Domains!IsolationNext
<1>0. csr \in CsrStates
  BY DEF Shape, TypeOK
<1>1. CASE Reset
  BY <1>1 DEF Reset, ResetCsr, Domains!IsolationNext, Domains!ResetStep
<1>2. CASE \E c \in IrqCodes, level \in BOOLEAN : SetLine(c, level)
  <2>1. PICK c \in IrqCodes, level \in BOOLEAN : SetLine(c, level)
    BY <1>2
  <2>2. csr' = [csr EXCEPT !.mip = IF level THEN @ \union {c} ELSE @ \ {c}]
    BY <2>1 DEF SetLine
  <2>3. /\ csr'.mstatus = csr.mstatus /\ csr'.mie = csr.mie
        /\ csr'.mideleg = csr.mideleg /\ csr'.medeleg = csr.medeleg
        /\ csr'.mtvec = csr.mtvec /\ csr'.stvec = csr.stvec
        /\ csr'.mepc = csr.mepc /\ csr'.sepc = csr.sepc
        /\ csr'.mcounteren = csr.mcounteren /\ csr'.scounteren = csr.scounteren
    BY <1>0, <2>2 DEF CsrStates
  <2>4. MachineOwned' = MachineOwned /\ SupervisorOwned' = SupervisorOwned
    BY <2>3 DEF MachineOwned, SupervisorOwned
  <2> QED BY <2>1, <2>3, <2>4
          DEF SetLine, Domains!IsolationNext, Domains!PlatformStep
<1> QED BY <1>1, <1>2 DEF HostStep

\* Every step of the hart is a step of Isolation or a stutter.
LEMMA IsolationStep ==
  Shape /\ BitsOK /\ MprvOnlyInM /\ [Next]_vars => [Domains!IsolationNext]_Dvars
<1> SUFFICES ASSUME Shape, BitsOK, MprvOnlyInM, [Next]_vars
             PROVE  Domains!IsolationNext \/ UNCHANGED Dvars
  OBVIOUS
<1>1. CASE UNCHANGED vars
  BY <1>1 DEF vars, Dvars, MachineOwned, SupervisorOwned
<1>2. CASE Next
  BY <1>2, StepKinds, TrapIsolated, QuietIsolated, WriteIsolated,
     ReturnIsolated, HostIsolated
<1> QED BY <1>1, <1>2

\* The hart implements Isolation: no instruction, trap, return or alias lets
\* a mode change what belongs to a higher one.
THEOREM HartIsolated == Spec => ImplementsIsolation
<1>1. Init => Domains!IsolationInit
  BY DEF Init, ResetCsr, Domains!IsolationInit
<1>2. Dvars = Domains!ivars
  BY DEF Dvars, Domains!ivars
<1>3. Shape /\ BitsOK /\ MprvOnlyInM /\ [Next]_vars
        => [Domains!IsolationNext]_(Domains!ivars)
  BY IsolationStep, <1>2 DEF Dvars, Domains!ivars
<1> QED BY <1>1, <1>3, ShapeInvariant, BitsInvariant, MprvInvariant, PTL
        DEF Spec, ImplementsIsolation, Domains!IsolationSpec
=============================================================================
