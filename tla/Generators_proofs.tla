------------------------- MODULE Generators_proofs --------------------------
(***************************************************************************)
(* Proofs about the generators, the decoders and the meaning of            *)
(* compressed instructions, for every set of registers, rounding modes     *)
(* and orderings that is drawn from, for registers of every width, and     *)
(* for every register file and pc a word is executed with.                 *)
(*                                                                         *)
(* First the claim in the header of CPU::execute_32bit: the decoders are   *)
(* exact.  Then the round trip of every format, 32 bits and compressed;    *)
(* the illegal words; what a compressed instruction does; and last the     *)
(* state machine, whose inductive invariant says that a word a generator   *)
(* has returned is sound.                                                  *)
(***************************************************************************)
EXTENDS Generators, Words_proofs

(***************************************************************************)
(* The decoders.  Every word has one owner, told by its opcode and         *)
(* function fields, and a decoder reads and claims only words it owns.     *)
(***************************************************************************)
\* The owner of a register form, told by funct7 and, of subtractions, funct3.
RegisterOwner(w) ==
  CASE w.f7 = 1 -> "M"
    [] w.f7 = 16 -> "Zba"
    [] w.f7 = 7 -> "Zicond"
    [] w.f7 \in {4, 5, 48} -> "Zbb"
    [] w.f7 \in {20, 36, 52} -> "Zbs"
    [] w.f7 = 32 -> IF w.f3 \in {0, 5} THEN "I" ELSE "Zbb"
    [] OTHER -> "I"

\* The owner of an immediate form, told by funct3 and the bits above the shamt.
ImmediateOwner(w) ==
  IF w.f3 = 1 /\ w.f7 = 48 THEN "Zbb"
  ELSE IF w.f3 = 5 /\ w.f7 \in {20, 48, 52} THEN "Zbb"
  ELSE IF w.f3 = 1 /\ w.f7 \in {20, 36, 52} THEN "Zbs"
  ELSE IF w.f3 = 5 /\ w.f7 = 36 THEN "Zbs"
  ELSE "I"

\* The only decoder that may read or claim the word.
Owner(w) ==
  CASE w.op = "MISC" -> IF w.f3 = 1 THEN "Zifencei" ELSE "I"
    [] w.op = "SYSTEM" -> IF w.f3 = 0 THEN "I" ELSE "Zicsr"
    [] w.op = "AMO" -> "A"
    [] w.op \in {"LOAD_FP", "STORE_FP", "MADD", "MSUB", "NMSUB", "NMADD", "OP_FP"} -> "F"
    [] w.op = "OP" -> RegisterOwner(w)
    [] w.op = "OP_IMM" -> ImmediateOwner(w)
    [] OTHER -> "I"

\* The decoders by name.
LEMMA Names ==
  /\ Decoders = {"Zifencei", "Zicsr", "M", "A", "F", "Zba", "Zbb", "Zbs", "Zicond", "I"}
  /\ Extensions = Decoders \ {"I"}
  /\ \A i \in 1 .. 9 : Order[i] \in Extensions
  /\ \A i, j \in 1 .. 9 : Order[i] = Order[j] => i = j
<1>1. /\ Order[1] = "Zifencei" /\ Order[2] = "Zicsr" /\ Order[3] = "M" /\ Order[4] = "A"
      /\ Order[5] = "F" /\ Order[6] = "Zba" /\ Order[7] = "Zbb" /\ Order[8] = "Zbs"
      /\ Order[9] = "Zicond"
  BY DEF Order
<1>2. \A i \in 1 .. 9 : i \in {1, 2, 3, 4, 5, 6, 7, 8, 9}
  OBVIOUS
<1>3. Extensions = {"Zifencei", "Zicsr", "M", "A", "F", "Zba", "Zbb", "Zbs", "Zicond"}
  BY <1>1, <1>2 DEF Extensions
<1>4. \A i, j \in 1 .. 9 : Order[i] = Order[j] => i = j
  BY <1>1, <1>2
<1>5. \A i \in 1 .. 9 : Order[i] \in Extensions
  BY DEF Extensions
<1> QED BY <1>3, <1>4, <1>5 DEF Decoders

\* A word has one of eight codes in funct3.
LEMMA Funct3Values ==
  ASSUME NEW w \in Word32
  PROVE  w.f3 \in {0, 1, 2, 3, 4, 5, 6, 7}
BY DEF Word32

\* The register forms of rv32i and of zbb with funct7 = 32 share no funct3.
LEMMA RegisterForms ==
  ASSUME NEW w \in Word32, w.f7 = 32
  PROVE  /\ OpType(w) # Illegal => w.f3 \in {0, 5}
         /\ ZbbRegType(w) # Illegal => w.f3 \in {4, 6, 7}
<1>1. w.f3 \in {0, 1, 2, 3, 4, 5, 6, 7}
  BY Funct3Values
<1>2. OpType(w) = Switch(w.f3, <<"SUB", No, No, No, No, "SRA", No, No>>)
  BY DEF OpType
<1>3. ZbbRegType(w) = Switch(w.f3, <<No, No, No, No, "XNOR", No, "ORN", "ANDN">>)
  BY DEF ZbbRegType
<1> QED BY <1>1, <1>2, <1>3 DEF Switch, No

\* An extension claims only words it owns.
LEMMA ClaimsOwned ==
  ASSUME NEW w \in Word32, NEW x \in Extensions, Claims(x, w)
  PROVE  x = Owner(w)
<1>1. x \in {"Zifencei", "Zicsr", "M", "A", "F", "Zba", "Zbb", "Zbs", "Zicond"}
  BY Names
<1>2. w.f3 \in {0, 1, 2, 3, 4, 5, 6, 7}
  BY Funct3Values
<1>3. CASE x = "Zifencei"
  BY <1>3 DEF Claims, IsFenceI, Owner
<1>4. CASE x = "Zicsr"
  BY <1>2, <1>4 DEF Claims, IsCsr, Owner
<1>5. CASE x = "M"
  BY <1>5 DEF Claims, IsM, Owner, RegisterOwner
<1>6. CASE x = "A"
  BY <1>6 DEF Claims, IsA, Owner
<1>7. CASE x = "F"
  BY <1>7 DEF Claims, IsF, Owner
<1>8. CASE x = "Zba"
  BY <1>8 DEF Claims, IsZba, Owner, RegisterOwner
<1>9. CASE x = "Zbb"
  <2>1. ZbbType(w) # Illegal
    BY <1>9 DEF Claims
  <2>2. CASE w.op = "OP"
    <3>1. ZbbRegType(w) # Illegal
      BY <2>1, <2>2 DEF ZbbType
    <3>2. w.f7 \in {4, 5, 32, 48}
      BY <3>1 DEF ZbbRegType
    <3>3. w.f7 = 32 => w.f3 \in {4, 6, 7}
      BY <3>1, RegisterForms
    <3> QED BY <1>9, <2>2, <3>2, <3>3 DEF Owner, RegisterOwner
  <2>3. CASE w.op = "OP_IMM"
    <3>1. ZbbImmType(w) # Illegal
      BY <2>1, <2>3 DEF ZbbType
    <3>2. (w.f3 = 1 /\ w.f7 = 48) \/ (w.f3 = 5 /\ w.f7 \in {20, 48, 52})
      BY <3>1 DEF ZbbImmType
    <3> QED BY <1>9, <2>3, <3>2 DEF Owner, ImmediateOwner
  <2>4. w.op \in {"OP", "OP_IMM"}
    BY <2>1 DEF ZbbType
  <2> QED BY <2>2, <2>3, <2>4
<1>10. CASE x = "Zbs"
  <2>1. ZbsType(w) # Illegal
    BY <1>10 DEF Claims
  <2>2. (w.f3 = 1 /\ w.f7 \in {20, 36, 52}) \/ (w.f3 = 5 /\ w.f7 = 36)
    BY <2>1 DEF ZbsType
  <2>3. w.op \in {"OP", "OP_IMM"}
    BY <2>1 DEF ZbsType
  <2> QED BY <1>10, <2>2, <2>3 DEF Owner, RegisterOwner, ImmediateOwner
<1>11. CASE x = "Zicond"
  BY <1>11 DEF Claims, IsZicond, Owner, RegisterOwner
<1> QED BY <1>1, <1>3, <1>4, <1>5, <1>6, <1>7, <1>8, <1>9, <1>10, <1>11

\* An extension claims every word its decoder reads.
LEMMA ReadsClaimed ==
  ASSUME NEW w \in Word32, NEW x \in Extensions, NEW sMode \in BOOLEAN,
         TypeBy(x, w, sMode) # Illegal
  PROVE  Claims(x, w)
<1>1. x \in {"Zifencei", "Zicsr", "M", "A", "F", "Zba", "Zbb", "Zbs", "Zicond"}
  BY Names
<1>2. w.f3 \in {0, 1, 2, 3, 4, 5, 6, 7}
  BY Funct3Values
<1>3. CASE x = "Zifencei"
  BY <1>3 DEF TypeBy, FenceIType, Claims
<1>4. CASE x = "Zicsr"
  <2>1. CsrType(w) # Illegal
    BY <1>4 DEF TypeBy
  <2>2. w.op = "SYSTEM"
    BY <2>1 DEF CsrType
  <2>3. w.f3 # 0 /\ w.f3 # 4
    BY <2>1, <2>2 DEF CsrType, Switch, No
  <2> QED BY <1>2, <1>4, <2>2, <2>3 DEF Claims, IsCsr
<1>5. CASE x = "M"
  BY <1>5 DEF TypeBy, MType, Claims
<1>6. CASE x = "A"
  BY <1>6 DEF TypeBy, AType, Claims
<1>7. CASE x = "F"
  <2>1. FormatType(w) # Illegal
    BY <1>7 DEF TypeBy, FType
  <2> QED BY <1>7, <2>1 DEF FormatType, Claims, IsF
<1>8. CASE x = "Zba"
  <2>1. ZbaType(w) # Illegal
    BY <1>8 DEF TypeBy
  <2>2. w.op = "OP" /\ w.f7 = 16
    BY <2>1 DEF ZbaType
  <2>3. w.f3 \in {2, 4, 6}
    BY <1>2, <2>1, <2>2 DEF ZbaType, Switch, No
  <2> QED BY <1>8, <2>2, <2>3 DEF Claims, IsZba
<1>9. CASE x = "Zbb"
  BY <1>9 DEF TypeBy, Claims
<1>10. CASE x = "Zbs"
  BY <1>10 DEF TypeBy, Claims
<1>11. CASE x = "Zicond"
  <2>1. ZicondType(w) # Illegal
    BY <1>11 DEF TypeBy
  <2>2. w.op = "OP" /\ w.f7 = 7
    BY <2>1 DEF ZicondType
  <2>3. w.f3 \in {5, 7}
    BY <1>2, <2>1, <2>2 DEF ZicondType, Switch, No
  <2> QED BY <1>11, <2>2, <2>3 DEF Claims, IsZicond
<1> QED BY <1>1, <1>3, <1>4, <1>5, <1>6, <1>7, <1>8, <1>9, <1>10, <1>11

\* The base decoder reads only words it owns.
LEMMA BaseOwned ==
  ASSUME NEW w \in Word32, NEW sMode \in BOOLEAN, BaseType(w, sMode) # Illegal
  PROVE  Owner(w) = "I"
<1>1. CASE w.op \in {"LUI", "AUIPC", "JAL", "JALR", "BRANCH", "LOAD", "STORE"}
  BY <1>1 DEF Owner
<1>2. CASE w.op = "OP_IMM"
  <2>1. OpImmType(w) # Illegal
    BY <1>2 DEF BaseType
  <2>2. (w.f3 = 1 => w.f7 = 0) /\ (w.f3 = 5 => w.f7 \in {0, 32})
    BY <2>1 DEF OpImmType
  <2> QED BY <1>2, <2>2 DEF Owner, ImmediateOwner
<1>3. CASE w.op = "OP"
  <2>1. OpType(w) # Illegal
    BY <1>3 DEF BaseType
  <2>2. w.f7 \in {0, 32}
    BY <2>1 DEF OpType
  <2>3. w.f7 = 32 => w.f3 \in {0, 5}
    BY <2>1, RegisterForms
  <2> QED BY <1>3, <2>2, <2>3 DEF Owner, RegisterOwner
<1>4. CASE w.op = "MISC"
  BY <1>4 DEF BaseType, Owner
<1>5. CASE w.op = "SYSTEM"
  <2>1. SystemType(w, sMode) # Illegal
    BY <1>5 DEF BaseType
  <2>2. w.f3 = 0
    BY <2>1 DEF SystemType
  <2> QED BY <1>5, <2>2 DEF Owner
<1>6. w.op \in {"LUI", "AUIPC", "JAL", "JALR", "BRANCH", "LOAD", "STORE"}
         \union {"OP_IMM", "OP", "MISC", "SYSTEM"}
  BY DEF BaseType
<1> QED BY <1>1, <1>2, <1>3, <1>4, <1>5, <1>6

\* A decoder reads only words it owns.
LEMMA ReadsOwned ==
  ASSUME NEW w \in Word32, NEW sMode \in BOOLEAN, NEW x \in Classes(w, sMode)
  PROVE  x = Owner(w)
<1>1. x \in Decoders /\ TypeBy(x, w, sMode) # Illegal
  BY DEF Classes
<1>2. CASE x = "I"
  BY <1>1, <1>2, BaseOwned DEF TypeBy
<1>3. CASE x # "I"
  BY <1>1, <1>3, Names, ReadsClaimed, ClaimsOwned
<1> QED BY <1>2, <1>3

\* "The decoders are exact (no aliasing between extensions)": no word has a
\* meaning in two decoders, with or without S-mode.
THEOREM DecodersAreExact ==
  \A w \in Word32, sMode \in BOOLEAN : NoAliasing(w, sMode)
BY ReadsOwned DEF NoAliasing

\* At most one enabled extension claims a word, the one that owns it.
LEMMA OneClaimant ==
  ASSUME NEW w \in Word32, NEW enabled \in SUBSET Extensions,
         NEW i \in Claimants(w, enabled)
  PROVE  /\ i \in 1 .. 9 /\ Order[i] = Owner(w) /\ Owner(w) \in enabled
         /\ Claimants(w, enabled) = {i}
         /\ Executing(w, enabled) = Owner(w)
<1>1. \A j \in Claimants(w, enabled) : j \in 1 .. 9 /\ Order[j] \in enabled /\ Order[j] = Owner(w)
  BY ClaimsOwned, Names DEF Claimants
<1>2. Claimants(w, enabled) = {i}
  BY <1>1, Names
<1>3. (CHOOSE k \in {i} : \A j \in {i} : k <= j) = i
  BY <1>1
<1>4. Executing(w, enabled) = Owner(w)
  BY <1>1, <1>2, <1>3 DEF Executing
<1> QED BY <1>1, <1>2, <1>4

\* "The order below only determines which module claims its own opcodes;
\* disabled extensions simply fall through and end up ILLEGAL": whatever is
\* enabled, a word is executed by the one decoder that reads it, if that is
\* enabled, and traps otherwise.
THEOREM DispatchIsExact ==
  \A w \in Word32, enabled \in SUBSET Extensions, sMode \in BOOLEAN :
    DispatchedByItsOwner(w, enabled, sMode)
<1> SUFFICES ASSUME NEW w \in Word32, NEW enabled \in SUBSET Extensions,
                    NEW sMode \in BOOLEAN
             PROVE  DispatchedByItsOwner(w, enabled, sMode)
  OBVIOUS
<1> DEFINE owners == Classes(w, sMode) \intersect (enabled \union {"I"})
<1>1. \A x \in owners : x = Owner(w) /\ TypeBy(x, w, sMode) # Illegal
  BY ReadsOwned DEF Classes
<1>2. Executing(w, enabled) \in Decoders /\ Executing(w, enabled) \in enabled \union {"I"}
  <2>1. CASE Claimants(w, enabled) = {}
    BY <2>1, Names DEF Executing
  <2>2. CASE Claimants(w, enabled) # {}
    BY <2>2, OneClaimant, Names
  <2> QED BY <2>1, <2>2
<1>3. CASE TypeBy(Executing(w, enabled), w, sMode) # Illegal
  BY <1>2, <1>3 DEF DispatchedByItsOwner, Dispatch, Classes
<1>4. CASE TypeBy(Executing(w, enabled), w, sMode) = Illegal
  <2>1. SUFFICES ASSUME NEW x \in owners PROVE FALSE
    BY <1>4 DEF DispatchedByItsOwner, Dispatch
  <2>2. x = Owner(w) /\ TypeBy(x, w, sMode) # Illegal
    BY <1>1, <2>1
  <2>3. CASE Claimants(w, enabled) # {}
    BY <1>4, <2>2, <2>3, OneClaimant
  <2>4. CASE Claimants(w, enabled) = {}
    <3>1. Executing(w, enabled) = "I"
      BY <2>4 DEF Executing
    <3>2. x # "I" /\ x \in enabled
      BY <1>4, <2>1, <2>2, <3>1
    <3>3. Claims(x, w)
      BY <2>2, <3>2, ReadsClaimed
    <3>4. PICK i \in 1 .. 9 : Order[i] = x
      BY <3>2 DEF Extensions
    <3> QED BY <2>4, <3>2, <3>3, <3>4 DEF Claimants
  <2> QED BY <2>3, <2>4
<1> QED BY <1>3, <1>4

(***************************************************************************)
(* What is drawn: the probes of an immediate are values of its format.     *)
(***************************************************************************)
\* A power of two under a name: a fact of all powers that the provers are to
\* apply to a number is stated with it.
Pow(n) == 2^n

\* A number of an interval, as a predicate that a prover need not open.
Between(i, lo, hi) == i \in Int /\ lo <= i /\ i <= hi

\* The powers of two that bound the fields of a word.
LEMMA PowValues ==
  /\ Pow(5) = 32 /\ Pow(6) = 64 /\ Pow(7) = 128 /\ Pow(8) = 256 /\ Pow(10) = 1024
  /\ Pow(11) = 2048 /\ Pow(19) = 524288 /\ Pow(20) = 1048576
BY SMT DEF Pow

\* An unsigned probe of n bits is a number of n bits.
LEMMA UnsignedProbesType ==
  ASSUME NEW n \in Nat \ {0}
  PROVE  \A i \in UnsignedProbes(n) : Between(i, 0, Pow(n) - 1)
<1>1. 2^n \in Nat \ {0}
  BY PowerType
<1>2. ASSUME NEW k \in 0 .. n - 1 PROVE 2^k \in 0 .. 2^n - 1
  <2>1. 2 * 2^k <= 2^n /\ 2^k \in Nat \ {0}
    BY PowerType, PowerGrows
  <2> QED BY <1>1, <2>1
<1> QED BY <1>1, <1>2 DEF UnsignedProbes, Pow, Between

\* A signed probe of n bits is a number of n bits.
LEMMA ProbesType ==
  ASSUME NEW n \in Nat, n >= 2
  PROVE  \A i \in Probes(n) : i \in -Pow(n - 1) .. Pow(n - 1) - 1
<1>1. 2^(n - 1) \in Nat \ {0} /\ 2 * 2^0 <= 2^(n - 1) /\ 2^0 = 1
  BY PowerType, PowerGrows
<1>2. ASSUME NEW k \in 0 .. n - 2 PROVE 2^k \in 0 .. 2^(n - 1) - 1
  <2>1. 2 * 2^k <= 2^(n - 1) /\ 2^k \in Nat \ {0}
    BY PowerType, PowerGrows
  <2> QED BY <1>1, <2>1
<1> QED BY <1>1, <1>2 DEF Probes, Pow, Between

\* The ranges of the immediates of every format.
LEMMA ProbeRanges ==
  /\ \A i \in Shamts : Between(i, 0, 31)
  /\ \A i \in UnsignedProbes(5) : Between(i, 0, 31)
  /\ \A i \in UnsignedProbes(6) : Between(i, 0, 63)
  /\ \A i \in UnsignedProbes(7) : Between(i, 0, 127)
  /\ \A i \in UnsignedProbes(8) : Between(i, 0, 255)
  /\ \A i \in UnsignedProbes(20) : Between(i, 0, 1048575)
  /\ \A i \in Probes(6) : Between(i, -32, 31)
  /\ \A i \in Probes(12) : Between(i, -2048, 2047)
  /\ \A i \in EvenProbes(9) : Between(i, -256, 255) /\ i % 2 = 0
  /\ \A i \in EvenProbes(12) : Between(i, -2048, 2047) /\ i % 2 = 0
  /\ \A i \in EvenProbes(13) : Between(i, -4096, 4095) /\ i % 2 = 0
  /\ \A i \in EvenProbes(21) : Between(i, -1048576, 1048575) /\ i % 2 = 0
<1>1. /\ \A i \in UnsignedProbes(5) : Between(i, 0, 31)
      /\ \A i \in UnsignedProbes(6) : Between(i, 0, 63)
      /\ \A i \in UnsignedProbes(7) : Between(i, 0, 127)
      /\ \A i \in UnsignedProbes(8) : Between(i, 0, 255)
      /\ \A i \in UnsignedProbes(20) : Between(i, 0, 1048575)
  BY UnsignedProbesType, PowValues DEF Between
<1>2. /\ \A i \in Probes(6) : Between(i, -32, 31)
      /\ \A i \in Probes(8) : Between(i, -128, 127)
      /\ \A i \in Probes(11) : Between(i, -1024, 1023)
      /\ \A i \in Probes(12) : Between(i, -2048, 2047)
      /\ \A i \in Probes(20) : Between(i, -524288, 524287)
  <2>1. 6 - 1 = 5 /\ 8 - 1 = 7 /\ 11 - 1 = 10 /\ 12 - 1 = 11 /\ 20 - 1 = 19
    OBVIOUS
  <2> QED BY <2>1, ProbesType, PowValues DEF Between
<1>3. \A v \in Int : (2 * v) % 2 = 0
  OBVIOUS
<1>4. 9 - 1 = 8 /\ 12 - 1 = 11 /\ 13 - 1 = 12 /\ 21 - 1 = 20
  OBVIOUS
<1>5. /\ EvenProbes(9) = {2 * v : v \in Probes(8)}
      /\ EvenProbes(12) = {2 * v : v \in Probes(11)}
      /\ EvenProbes(13) = {2 * v : v \in Probes(12)}
      /\ EvenProbes(21) = {2 * v : v \in Probes(20)}
  BY <1>4 DEF EvenProbes
<1> QED BY <1>1, <1>2, <1>3, <1>5 DEF Shamts, Between

\* The operands a decoder is to read.
Meant(d) == [rd |-> d.rd, rs1 |-> d.rs1, rs2 |-> d.rs2, imm |-> d.imm]

\* The I-format: its fields, and the immediate a decoder gathers.
LEMMA EncodeIWord ==
  ASSUME NEW w, NEW imm, NEW rs1, NEW f3, NEW rd, NEW op,
         Between(imm, -2048, 4095), rs1 \in 0 .. 31, f3 \in 0 .. 7, rd \in 0 .. 31,
         op \in MajorOps, w = EncodeI(imm, rs1, f3, rd, op)
  PROVE  /\ w \in Word32
         /\ w.op = op /\ w.rs1 = rs1 /\ w.f3 = f3 /\ w.rd = rd
         /\ w.f7 = (imm % 4096) \div 32 /\ w.rs2 = imm % 32
         /\ Csr(w) = imm % 4096
         /\ imm <= 2047 => ImmI(w) = imm
<1>1. (imm % 4096) \div 32 \in 0 .. 127 /\ imm % 32 \in 0 .. 31
  BY DEF Between
<1>2. /\ w \in Word32
      /\ w.op = op /\ w.rs1 = rs1 /\ w.f3 = f3 /\ w.rd = rd
      /\ w.f7 = (imm % 4096) \div 32 /\ w.rs2 = imm % 32
  <2> DEFINE hi == (imm % 4096) \div 32
             lo == imm % 32
  <2>1. w = EncodeR(hi, lo, rs1, f3, rd, op)
    BY DEF EncodeI
  <2>2. hi \in 0 .. 127 /\ lo \in 0 .. 31
    BY <1>1
  <2> HIDE DEF hi, lo
  <2>3. /\ w \in Word32
        /\ w.op = op /\ w.rs1 = rs1 /\ w.f3 = f3 /\ w.rd = rd /\ w.f7 = hi /\ w.rs2 = lo
    BY <2>1, <2>2 DEF EncodeR, Word32
  <2> QED BY <2>3 DEF hi, lo
<1>3. Csr(w) = imm % 4096
  BY <1>2 DEF Csr, Between
<1>4. imm <= 2047 => ImmI(w) = imm
  <2>1. 2^(12 - 1) = 2048 /\ 2^12 = 4096
    OBVIOUS
  <2> QED BY <1>3, <2>1 DEF ImmI, Extended, Between
<1> QED BY <1>2, <1>3, <1>4

\* The S-format: the immediate is split over funct7 and rd.
LEMMA EncodeSWord ==
  ASSUME NEW w, NEW imm, NEW rs2, NEW rs1, NEW f3, NEW op,
         Between(imm, -2048, 2047), rs2 \in 0 .. 31, rs1 \in 0 .. 31, f3 \in 0 .. 7,
         op \in MajorOps, w = EncodeS(imm, rs2, rs1, f3, op)
  PROVE  /\ w \in Word32
         /\ w.op = op /\ w.rs2 = rs2 /\ w.rs1 = rs1 /\ w.f3 = f3
         /\ ImmS(w) = imm
<1>1. (imm % 4096) \div 32 \in 0 .. 127 /\ imm % 32 \in 0 .. 31
  BY DEF Between
<1>2. /\ w \in Word32
      /\ w.op = op /\ w.rs2 = rs2 /\ w.rs1 = rs1 /\ w.f3 = f3 /\ w.rd = imm % 32
      /\ w.f7 = (imm % 4096) \div 32
  <2> DEFINE hi == (imm % 4096) \div 32
             lo == imm % 32
  <2>1. w = EncodeR(hi, rs2, rs1, f3, lo, op)
    BY DEF EncodeS
  <2>2. hi \in 0 .. 127 /\ lo \in 0 .. 31
    BY <1>1
  <2> HIDE DEF hi, lo
  <2>3. /\ w \in Word32
        /\ w.op = op /\ w.rs2 = rs2 /\ w.rs1 = rs1 /\ w.f3 = f3 /\ w.f7 = hi /\ w.rd = lo
    BY <2>1, <2>2 DEF EncodeR, Word32
  <2> QED BY <2>3 DEF hi, lo
<1>3. ImmS(w) = imm
  <2>1. 2^(12 - 1) = 2048 /\ 2^12 = 4096
    OBVIOUS
  <2>2. w.f7 * 32 + w.rd = imm % 4096
    BY <1>2 DEF Between
  <2> QED BY <2>2, <2>1 DEF ImmS, Extended, Between
<1> QED BY <1>2, <1>3

\* A piece of an immediate is a number of its width.
LEMMA PieceRange ==
  ASSUME NEW imm \in Int
  PROVE  /\ Piece(imm, 12, 1) = (imm \div 4096) % 2
         /\ Piece(imm, 11, 1) = (imm \div 2048) % 2
         /\ Piece(imm, 5, 6) = (imm \div 32) % 64
         /\ Piece(imm, 1, 4) = (imm \div 2) % 16
         /\ Piece(imm, 20, 1) = (imm \div 1048576) % 2
         /\ Piece(imm, 15, 5) = (imm \div 32768) % 32
         /\ Piece(imm, 12, 3) = (imm \div 4096) % 8
         /\ Piece(imm, 13, 7) = (imm \div 8192) % 128
         /\ Piece(imm, 8, 5) = (imm \div 256) % 32
         /\ Piece(imm, 3, 5) = (imm \div 8) % 32
         /\ Piece(imm, 0, 3) = imm % 8
BY DEF Piece

\* The B-format: the four pieces of the offset come back in place.
LEMMA EncodeBWord ==
  ASSUME NEW w, NEW imm, NEW rs2, NEW rs1, NEW f3, NEW op,
         Between(imm, -4096, 4095), imm % 2 = 0, rs2 \in 0 .. 31, rs1 \in 0 .. 31,
         f3 \in 0 .. 7, op \in MajorOps, w = EncodeB(imm, rs2, rs1, f3, op)
  PROVE  /\ w \in Word32
         /\ w.op = op /\ w.rs2 = rs2 /\ w.rs1 = rs1 /\ w.f3 = f3
         /\ ImmB(w) = imm
<1> DEFINE p12 == Piece(imm, 12, 1)
           p11 == Piece(imm, 11, 1)
           p5 == Piece(imm, 5, 6)
           p1 == Piece(imm, 1, 4)
<1>0. /\ imm \in Int
      /\ p12 = (imm \div 4096) % 2 /\ p11 = (imm \div 2048) % 2
      /\ p5 = (imm \div 32) % 64 /\ p1 = (imm \div 2) % 16
  BY PieceRange DEF Between
<1> HIDE DEF p12, p11, p5, p1
<1>1. p12 \in 0 .. 1 /\ p11 \in 0 .. 1 /\ p5 \in 0 .. 63 /\ p1 \in 0 .. 15
  BY <1>0
<1>2. imm % 8192 = p12 * 4096 + p11 * 2048 + p5 * 32 + p1 * 2
  <2>1. /\ imm = 2 * (imm \div 2)
        /\ imm \div 2 = 16 * (imm \div 32) + p1
        /\ imm \div 32 = 64 * (imm \div 2048) + p5
        /\ imm \div 2048 = 2 * (imm \div 4096) + p11
        /\ imm \div 4096 = 2 * (imm \div 8192) + p12
    BY <1>0
  <2>2. imm = 8192 * (imm \div 8192) + (p12 * 4096 + p11 * 2048 + p5 * 32 + p1 * 2)
    BY <1>0, <1>1, <2>1
  <2> QED BY <1>0, <1>1, <2>2
<1>3. w = EncodeR(p12 * 64 + p5, rs2, rs1, f3, p1 * 2 + p11, op)
  BY DEF EncodeB, p12, p11, p5, p1
<1>4. /\ w \in Word32
      /\ w.op = op /\ w.rs2 = rs2 /\ w.rs1 = rs1 /\ w.f3 = f3
      /\ w.f7 = p12 * 64 + p5 /\ w.rd = p1 * 2 + p11
  BY <1>1, <1>3 DEF EncodeR, Word32
<1>5. /\ w.f7 \div 64 = p12 /\ w.f7 % 64 = p5
      /\ w.rd \div 2 = p1 /\ w.rd % 2 = p11
  BY <1>1, <1>4
<1>6. ImmB(w) = imm
  <2>1. 2^(13 - 1) = 4096 /\ 2^13 = 8192
    OBVIOUS
  <2>2. (w.f7 \div 64) * 4096 + (w.rd % 2) * 2048 + (w.f7 % 64) * 32 + (w.rd \div 2) * 2
          = imm % 8192
    BY <1>1, <1>2, <1>5
  <2> QED BY <2>1, <2>2 DEF ImmB, Extended, Between
<1> QED BY <1>4, <1>6

\* The U-format: the immediate in units of 4096 comes back.
LEMMA EncodeUWord ==
  ASSUME NEW w, NEW imm, NEW rd, NEW op,
         Between(imm, 0, 1048575), rd \in 0 .. 31, op \in MajorOps,
         w = EncodeU(imm, rd, op)
  PROVE  w \in Word32 /\ w.op = op /\ w.rd = rd /\ ImmU(w) = imm
<1> DEFINE p13 == Piece(imm, 13, 7)
           p8 == Piece(imm, 8, 5)
           p3 == Piece(imm, 3, 5)
           p0 == Piece(imm, 0, 3)
<1>1. imm \in Int /\ imm \div 1048576 = 0
  BY DEF Between
<1>2. /\ p13 = (imm \div 8192) % 128 /\ p8 = (imm \div 256) % 32
      /\ p3 = (imm \div 8) % 32 /\ p0 = imm % 8
  <2>1. imm \in Int
    BY <1>1
  <2> QED BY <2>1, PieceRange
<1> HIDE DEF p13, p8, p3, p0
<1>3. p13 \in 0 .. 127 /\ p8 \in 0 .. 31 /\ p3 \in 0 .. 31 /\ p0 \in 0 .. 7
  BY <1>1, <1>2
<1>4. imm = p13 * 8192 + p8 * 256 + p3 * 8 + p0
  <2>1. /\ imm = 8 * (imm \div 8) + p0
        /\ imm \div 8 = 32 * (imm \div 256) + p3
        /\ imm \div 256 = 32 * (imm \div 8192) + p8
        /\ imm \div 8192 = 128 * (imm \div 1048576) + p13
    BY <1>1, <1>2
  <2> QED BY <1>1, <1>3, <2>1
<1>5. w = EncodeR(p13, p8, p3, p0, rd, op)
  BY DEF EncodeU, p13, p8, p3, p0
<1>6. /\ w \in Word32 /\ w.op = op /\ w.rd = rd
      /\ w.f7 = p13 /\ w.rs2 = p8 /\ w.rs1 = p3 /\ w.f3 = p0
  BY <1>3, <1>5 DEF EncodeR, Word32
<1>7. ImmU(w) = imm
  BY <1>3, <1>4, <1>6 DEF ImmU, Csr
<1> QED BY <1>6, <1>7

\* The J-format: the four pieces of the offset come back in place.
LEMMA EncodeJWord ==
  ASSUME NEW w, NEW imm, NEW rd, NEW op,
         Between(imm, -1048576, 1048575), imm % 2 = 0, rd \in 0 .. 31, op \in MajorOps,
         w = EncodeJ(imm, rd, op)
  PROVE  w \in Word32 /\ w.op = op /\ w.rd = rd /\ ImmJ(w) = imm
<1> DEFINE p20 == Piece(imm, 20, 1)
           p15 == Piece(imm, 15, 5)
           p12 == Piece(imm, 12, 3)
           p11 == Piece(imm, 11, 1)
           p5 == Piece(imm, 5, 6)
           p1 == Piece(imm, 1, 4)
<1>0. /\ imm \in Int
      /\ p20 = (imm \div 1048576) % 2 /\ p15 = (imm \div 32768) % 32
      /\ p12 = (imm \div 4096) % 8 /\ p11 = (imm \div 2048) % 2
      /\ p5 = (imm \div 32) % 64 /\ p1 = (imm \div 2) % 16
  BY PieceRange DEF Between
<1> HIDE DEF p20, p15, p12, p11, p5, p1
<1>1. /\ p20 \in 0 .. 1 /\ p15 \in 0 .. 31 /\ p12 \in 0 .. 7 /\ p11 \in 0 .. 1
      /\ p5 \in 0 .. 63 /\ p1 \in 0 .. 15
  BY <1>0
<1>2. imm % 2097152 = p20 * 1048576 + p15 * 32768 + p12 * 4096 + p11 * 2048 + p5 * 32 + p1 * 2
  <2>1. /\ imm = 2 * (imm \div 2)
        /\ imm \div 2 = 16 * (imm \div 32) + p1
        /\ imm \div 32 = 64 * (imm \div 2048) + p5
        /\ imm \div 2048 = 2 * (imm \div 4096) + p11
        /\ imm \div 4096 = 8 * (imm \div 32768) + p12
        /\ imm \div 32768 = 32 * (imm \div 1048576) + p15
        /\ imm \div 1048576 = 2 * (imm \div 2097152) + p20
    BY <1>0
  <2>2. imm = 2097152 * (imm \div 2097152)
              + (p20 * 1048576 + p15 * 32768 + p12 * 4096 + p11 * 2048 + p5 * 32 + p1 * 2)
    BY <1>0, <1>1, <2>1
  <2> QED BY <1>0, <1>1, <2>2
<1>3. w = EncodeR(p20 * 64 + p5, p1 * 2 + p11, p15, p12, rd, op)
  BY DEF EncodeJ, p20, p15, p12, p11, p5, p1
<1>4. /\ w \in Word32 /\ w.op = op /\ w.rd = rd
      /\ w.f7 = p20 * 64 + p5 /\ w.rs2 = p1 * 2 + p11 /\ w.rs1 = p15 /\ w.f3 = p12
  BY <1>1, <1>3 DEF EncodeR, Word32
<1>5. /\ w.f7 \div 64 = p20 /\ w.f7 % 64 = p5
      /\ w.rs2 \div 2 = p1 /\ w.rs2 % 2 = p11
  BY <1>1, <1>4
<1>6. ImmJ(w) = imm
  <2>1. 2^(21 - 1) = 1048576 /\ 2^21 = 2097152 /\ 2^20 = 1048576
    OBVIOUS
  <2>2. (w.f7 \div 64) * 2^20 + (w.rs1 * 8 + w.f3) * 4096
             + (w.rs2 % 2) * 2048 + (w.f7 % 64) * 32 + (w.rs2 \div 2) * 2
          = imm % 2097152
    BY <1>1, <1>2, <1>4, <1>5, <2>1
  <2> QED BY <2>1, <2>2 DEF ImmJ, Extended, Between
<1> QED BY <1>4, <1>6

\* What the rows of each format encode and a decoder reads.
LEMMA UWords ==
  ASSUME NEW r, NEW t, NEW d \in Operands(r, t), r.format = "U", r.op \in {"LUI", "AUIPC"}
  PROVE  LET w == Encode32(r, d) IN w \in Word32 /\ w.op = r.op /\ Read(w) = Meant(d)
<1>1. /\ d.rd \in 0 .. 31 /\ d.rs1 = 0 /\ d.rs2 = 0 /\ Between(d.imm, 0, 1048575)
  BY DrawAssumption, ProbeRanges DEF Operands, Drawn
<1> DEFINE w == Encode32(r, d)
<1>2. w = EncodeU(d.imm, d.rd, r.op)
  BY DEF Encode32
<1>3. r.op \in MajorOps
  BY DEF MajorOps
<1> HIDE DEF w
<1>4. w \in Word32 /\ w.op = r.op /\ w.rd = d.rd /\ ImmU(w) = d.imm
  BY <1>1, <1>2, <1>3, EncodeUWord
<1>5. Read(w) = Meant(d)
  BY <1>1, <1>4 DEF Read, Meant
<1> QED BY <1>4, <1>5 DEF w

\* JAL.
LEMMA JWords ==
  ASSUME NEW r, NEW t, NEW d \in Operands(r, t), r.format = "J", r.op = "JAL"
  PROVE  LET w == Encode32(r, d) IN w \in Word32 /\ w.op = r.op /\ Read(w) = Meant(d)
<1>1. /\ d.rd \in 0 .. 31 /\ d.rs1 = 0 /\ d.rs2 = 0
      /\ Between(d.imm, -1048576, 1048575) /\ d.imm % 2 = 0
  BY DrawAssumption, ProbeRanges DEF Operands, Drawn
<1> DEFINE w == Encode32(r, d)
<1>2. w = EncodeJ(d.imm, d.rd, r.op)
  BY DEF Encode32
<1>3. r.op \in MajorOps
  BY DEF MajorOps
<1> HIDE DEF w
<1>4. w \in Word32 /\ w.op = r.op /\ w.rd = d.rd /\ ImmJ(w) = d.imm
  BY <1>1, <1>2, <1>3, EncodeJWord
<1>5. Read(w) = Meant(d)
  BY <1>1, <1>4 DEF Read, Meant
<1> QED BY <1>4, <1>5 DEF w

\* The branches.
LEMMA BWords ==
  ASSUME NEW r, NEW t, NEW d \in Operands(r, t), r.format = "B", r.op = "BRANCH", r.f3 \in 0 .. 7
  PROVE  LET w == Encode32(r, d)
         IN  w \in Word32 /\ w.op = r.op /\ w.f3 = r.f3 /\ Read(w) = Meant(d)
<1>1. /\ d.rd = 0 /\ d.rs1 \in 0 .. 31 /\ d.rs2 \in 0 .. 31
      /\ Between(d.imm, -4096, 4095) /\ d.imm % 2 = 0
  BY DrawAssumption, ProbeRanges DEF Operands, Drawn
<1> DEFINE w == Encode32(r, d)
<1>2. w = EncodeB(d.imm, d.rs2, d.rs1, r.f3, r.op)
  BY DEF Encode32
<1>3. r.op \in MajorOps
  BY DEF MajorOps
<1> HIDE DEF w
<1>4. w \in Word32 /\ w.op = r.op /\ w.f3 = r.f3 /\ w.rs1 = d.rs1 /\ w.rs2 = d.rs2 /\ ImmB(w) = d.imm
  BY <1>1, <1>2, <1>3, EncodeBWord
<1>5. Read(w) = Meant(d)
  BY <1>1, <1>4 DEF Read, Meant
<1> QED BY <1>4, <1>5 DEF w

\* The stores.
LEMMA SWords ==
  ASSUME NEW r, NEW t, NEW d \in Operands(r, t), r.format = "S", r.op \in {"STORE", "STORE_FP"},
         r.f3 \in 0 .. 7
  PROVE  LET w == Encode32(r, d)
         IN  w \in Word32 /\ w.op = r.op /\ w.f3 = r.f3 /\ Read(w) = Meant(d)
<1>1. d.rd = 0 /\ d.rs1 \in 0 .. 31 /\ d.rs2 \in 0 .. 31 /\ Between(d.imm, -2048, 2047)
  BY DrawAssumption, ProbeRanges DEF Operands, Drawn
<1> DEFINE w == Encode32(r, d)
<1>2. w = EncodeS(d.imm, d.rs2, d.rs1, r.f3, r.op)
  BY DEF Encode32
<1>3. r.op \in MajorOps
  BY DEF MajorOps
<1> HIDE DEF w
<1>4. w \in Word32 /\ w.op = r.op /\ w.f3 = r.f3 /\ w.rs1 = d.rs1 /\ w.rs2 = d.rs2 /\ ImmS(w) = d.imm
  BY <1>1, <1>2, <1>3, EncodeSWord
<1>5. Read(w) = Meant(d)
  BY <1>1, <1>4 DEF Read, Meant
<1> QED BY <1>4, <1>5 DEF w

\* The register forms.
LEMMA RWords ==
  ASSUME NEW r, NEW t, NEW d \in Operands(r, t), r.format = "R", r.op = "OP", r.f3 \in 0 .. 7,
         r.f7 \in 0 .. 127
  PROVE  LET w == Encode32(r, d)
         IN  /\ w \in Word32 /\ w.op = r.op /\ w.f3 = r.f3 /\ w.f7 = r.f7
             /\ t = "ZEXT_H" => w.rs2 = 0
             /\ Read(w) = Meant(d)
<1>1. /\ d.rd \in 0 .. 31 /\ d.rs1 \in 0 .. 31 /\ d.rs2 \in 0 .. 31 /\ d.imm = 0
      /\ t = "ZEXT_H" => d.rs2 = 0
  BY DrawAssumption, ProbeRanges DEF Operands, Drawn
<1>2. Encode32(r, d) = EncodeR(r.f7, d.rs2, d.rs1, r.f3, d.rd, r.op)
  BY DEF Encode32
<1> QED BY <1>1, <1>2 DEF EncodeR, Word32, MajorOps, Read, Meant

\* The operands of the formats with a twelve-bit immediate.
LEMMA IWords ==
  ASSUME NEW r, NEW t, NEW d \in Operands(r, t), r.f3 \in 0 .. 7,
         \/ r.format = "I" /\ r.op \in {"JALR", "LOAD", "OP_IMM", "LOAD_FP"}
         \/ r.format \in {"shift", "unary"} /\ r.op = "OP_IMM"
         \/ r.format = "fence" /\ r.op = "MISC"
         \/ r.format = "fixed" /\ r.op = "SYSTEM" /\ r.f3 = 0,
         r.format = "shift" => r.f7 \in 0 .. 63,
         r.format = "unary" => Between(r.f7, 0, 2047),
         r.format = "fixed" => r.f7 \in 0 .. 1
  PROVE  LET w == Encode32(r, d)
         IN  /\ w \in Word32 /\ w.op = r.op /\ w.f3 = r.f3
             /\ r.format = "shift" => w.f7 = r.f7
             /\ r.format = "unary" => w.f7 = r.f7 \div 32 /\ w.rs2 = r.f7 % 32
             /\ r.format = "fixed" => w.rd = 0 /\ w.rs1 = 0 /\ Csr(w) = r.f7
             /\ Read(w) = Meant(d)
<1>1. d.rd \in 0 .. 31 /\ d.rs1 \in 0 .. 31 /\ d.rs2 = 0
  BY DrawAssumption DEF Operands, Drawn
<1>2. /\ Between(d.imm, -2048, 2047)
      /\ r.format = "shift" => d.imm \div 32 = r.f7 /\ Between(d.imm, 0, 2047)
      /\ r.format \in {"unary", "fixed"} => d.imm = r.f7
      /\ r.format = "fixed" => d.rd = 0 /\ d.rs1 = 0
  <2>1. CASE r.format = "I"
    BY <2>1, ProbeRanges DEF Operands, Drawn
  <2>2. CASE r.format = "shift"
    <3>1. PICK s \in Shamts : d.imm = r.f7 * 32 + s
      BY <2>2 DEF Operands, Drawn
    <3>2. s \in 0 .. 31
      BY ProbeRanges DEF Between
    <3> QED BY <2>2, <3>1, <3>2 DEF Between
  <2>3. CASE r.format = "unary"
    BY <2>3 DEF Operands, Drawn, Between
  <2>4. CASE r.format = "fixed"
    BY <2>4 DEF Operands, Drawn, Between
  <2>5. CASE r.format = "fence"
    <3>1. PICK p \in UnsignedProbes(8), tso \in {0, 1} : d.imm = p - 2048 * tso
      BY <2>5 DEF Operands, Drawn
    <3>2. Between(p, 0, 255)
      BY ProbeRanges
    <3> QED BY <2>5, <3>1, <3>2 DEF Between
  <2> QED BY <2>1, <2>2, <2>3, <2>4, <2>5
<1> DEFINE w == Encode32(r, d)
<1>3. w = EncodeI(d.imm, d.rs1, r.f3, d.rd, r.op)
  BY DEF Encode32
<1>4. r.op \in MajorOps
  BY DEF MajorOps
<1> HIDE DEF w
<1>9. Between(d.imm, -2048, 4095) /\ d.imm <= 2047
  BY <1>2 DEF Between
<1>5. /\ w \in Word32
      /\ w.op = r.op /\ w.rs1 = d.rs1 /\ w.f3 = r.f3 /\ w.rd = d.rd
      /\ w.f7 = (d.imm % 4096) \div 32 /\ w.rs2 = d.imm % 32
      /\ Csr(w) = d.imm % 4096
      /\ ImmI(w) = d.imm
  BY <1>1, <1>9, <1>3, <1>4, EncodeIWord
<1>6. Between(d.imm, 0, 2047) => d.imm % 4096 = d.imm
  BY DEF Between
<1>7. Read(w) = Meant(d)
  <2>1. CASE r.op = "SYSTEM"
    BY <1>1, <1>2, <1>5, <1>6, <2>1 DEF Read, Meant, Between
  <2>2. CASE r.op \in {"JALR", "LOAD", "OP_IMM", "LOAD_FP", "MISC"}
    BY <1>1, <1>5, <2>2 DEF Read, Meant
  <2> QED BY <2>1, <2>2
<1> QED BY <1>1, <1>2, <1>5, <1>6, <1>7 DEF w

\* What the row of an AMO encodes and a decoder reads, with any bits aq and rl.
LEMMA AmoFields ==
  ASSUME NEW r, r.format = "AMO", r.op = "AMO", r.f7 \in 0 .. 31,
         NEW d, d.rd \in 0 .. 31, d.rs1 \in 0 .. 31, d.rs2 \in 0 .. 31, d.imm \in 0 .. 3
  PROVE  LET w == Encode32(r, d)
         IN  /\ w \in Word32 /\ w.op = r.op /\ w.f3 = 2 /\ Funct5(w) = r.f7 /\ w.rs2 = d.rs2
             /\ Read(w) = Meant(d)
<1> DEFINE f7 == r.f7 * 4 + d.imm
           w == Encode32(r, d)
<1>2. w = EncodeR(f7, d.rs2, d.rs1, 2, d.rd, r.op)
  BY DEF Encode32
<1>3. f7 \in 0 .. 127 /\ f7 \div 4 = r.f7 /\ f7 % 4 = d.imm
  OBVIOUS
<1> HIDE DEF f7, w
<1>4. /\ w \in Word32 /\ w.op = r.op /\ w.f3 = 2 /\ w.f7 = f7
      /\ w.rs2 = d.rs2 /\ w.rs1 = d.rs1 /\ w.rd = d.rd
  BY <1>2, <1>3 DEF EncodeR, Word32, MajorOps
<1>5. Funct5(w) = r.f7 /\ Read(w) = Meant(d)
  BY <1>3, <1>4 DEF Funct5, Read, Meant
<1> QED BY <1>4, <1>5 DEF w

\* The operands drawn for an atomic.
LEMMA AmoDrawn ==
  ASSUME NEW r, r.format = "AMO", NEW t, NEW d \in Operands(r, t)
  PROVE  /\ d.rd \in 0 .. 31 /\ d.rs1 \in 0 .. 31 /\ d.rs2 \in 0 .. 31 /\ d.imm \in 0 .. 3
         /\ t = "LR_W" => d.rs2 = 0
BY DrawAssumption DEF Operands, Drawn

\* The atomics.
LEMMA AmoWords ==
  ASSUME NEW r, NEW t, NEW d \in Operands(r, t), r.format = "AMO", r.op = "AMO", r.f7 \in 0 .. 31
  PROVE  LET w == Encode32(r, d)
         IN  /\ w \in Word32 /\ w.op = r.op /\ w.f3 = 2 /\ Funct5(w) = r.f7
             /\ t = "LR_W" => w.rs2 = 0
             /\ Read(w) = Meant(d)
BY AmoDrawn, AmoFields

\* The floating-point forms with a rounding mode or function in funct3.
LEMMA FpWords ==
  ASSUME NEW r, NEW t, NEW d \in Operands(r, t), r.format \in {"FR", "F1"}, r.op = "OP_FP",
         r.f7 \in 0 .. 127, r.f3 \in 0 .. 8, r.format = "F1" => r.rs2 \in 0 .. 31
  PROVE  LET w == Encode32(r, d)
         IN  /\ w \in Word32 /\ w.op = r.op /\ w.f7 = r.f7
             /\ r.f3 = 8 => w.f3 \notin {5, 6}
             /\ r.f3 # 8 => w.f3 = r.f3
             /\ r.format = "F1" => w.rs2 = r.rs2
             /\ Read(w) = Meant(d)
<1>1. /\ d.rd \in 0 .. 31 /\ d.rs1 \in 0 .. 31 /\ d.rs2 \in 0 .. 31 /\ d.imm \in 0 .. 7
      /\ r.f3 = 8 => d.imm \notin {5, 6}
      /\ r.f3 # 8 => d.imm = r.f3
      /\ r.format = "F1" => d.rs2 = r.rs2
  <2>1. CASE r.format = "FR"
    BY <2>1, DrawAssumption DEF Operands, Drawn
  <2>2. CASE r.format = "F1"
    BY <2>2, DrawAssumption DEF Operands, Drawn
  <2> QED BY <2>1, <2>2
<1> DEFINE w == Encode32(r, d)
<1>2. w = EncodeR(r.f7, d.rs2, d.rs1, d.imm, d.rd, r.op)
  BY DEF Encode32
<1> HIDE DEF w
<1>3. /\ w \in Word32 /\ w.op = r.op /\ w.f3 = d.imm /\ w.f7 = r.f7
      /\ w.rs2 = d.rs2 /\ w.rs1 = d.rs1 /\ w.rd = d.rd
  BY <1>1, <1>2 DEF EncodeR, Word32, MajorOps
<1>4. Read(w) = Meant(d)
  BY <1>3 DEF Read, Meant
<1> QED BY <1>1, <1>3, <1>4 DEF w

\* The fused forms, with a third source.
LEMMA FusedWords ==
  ASSUME NEW r, NEW t, NEW d \in Operands(r, t), r.format = "R4",
         r.op \in {"MADD", "MSUB", "NMADD", "NMSUB"}
  PROVE  LET w == Encode32(r, d)
         IN  /\ w \in Word32 /\ w.op = r.op /\ w.f7 % 4 = 0 /\ w.f3 \notin {5, 6}
             /\ Read(w) = Meant(d)
<1>1. d.rd \in 0 .. 31 /\ d.rs1 \in 0 .. 31 /\ d.rs2 \in 0 .. 31
  BY DrawAssumption DEF Operands, Drawn
<1>2. PICK rs3 \in Regs, rm \in FpRms : d.imm = rs3 * 8 + rm
  BY DEF Operands, Drawn
<1>3. rs3 \in 0 .. 31 /\ rm \in 0 .. 7 /\ rm \notin {5, 6}
  BY DrawAssumption
<1>4. d.imm \div 8 = rs3 /\ d.imm % 8 = rm
  BY <1>2, <1>3
<1> DEFINE w == Encode32(r, d)
<1>5. w = EncodeR(rs3 * 4, d.rs2, d.rs1, rm, d.rd, r.op)
  BY <1>4 DEF Encode32
<1> HIDE DEF w
<1>6. /\ w \in Word32 /\ w.op = r.op /\ w.f3 = rm /\ w.f7 = rs3 * 4
      /\ w.rs2 = d.rs2 /\ w.rs1 = d.rs1 /\ w.rd = d.rd
  BY <1>1, <1>3, <1>5 DEF EncodeR, Word32, MajorOps
<1>7. w.f7 % 4 = 0 /\ w.f7 \div 4 = rs3
  BY <1>3, <1>6
<1>8. Read(w) = Meant(d)
  BY <1>2, <1>6, <1>7 DEF Read, Meant
<1> QED BY <1>3, <1>6, <1>7, <1>8 DEF w

(***************************************************************************)
(* The tables: the rows have the shapes the formats are encoded from, and  *)
(* the decoders read the row of a word back.                               *)
(***************************************************************************)
\* The shape of a row, format by format.
RowShape(r) ==
  \/ r.format = "U" /\ r.op \in {"LUI", "AUIPC"}
  \/ r.format = "J" /\ r.op = "JAL"
  \/ r.format = "B" /\ r.op = "BRANCH" /\ r.f3 \in 0 .. 7
  \/ r.format = "S" /\ r.op \in {"STORE", "STORE_FP"} /\ r.f3 \in 0 .. 7
  \/ r.format = "R" /\ r.op = "OP" /\ r.f3 \in 0 .. 7 /\ r.f7 \in 0 .. 127
  \/ r.format = "I" /\ r.op \in {"JALR", "LOAD", "OP_IMM", "LOAD_FP"} /\ r.f3 \in 0 .. 7
  \/ r.format = "shift" /\ r.op = "OP_IMM" /\ r.f3 \in 0 .. 7 /\ r.f7 \in 0 .. 63
  \/ r.format = "unary" /\ r.op = "OP_IMM" /\ r.f3 \in 0 .. 7 /\ Between(r.f7, 0, 2047)
  \/ r.format = "fence" /\ r.op = "MISC" /\ r.f3 = 0
  \/ r.format = "fixed" /\ r.op = "SYSTEM" /\ r.f3 = 0 /\ r.f7 \in 0 .. 1
  \/ r.format = "AMO" /\ r.op = "AMO" /\ r.f7 \in 0 .. 31
  \/ r.format = "FR" /\ r.op = "OP_FP" /\ r.f7 \in 0 .. 127 /\ r.f3 \in 0 .. 8
  \/ r.format = "F1" /\ r.op = "OP_FP" /\ r.f7 \in 0 .. 127 /\ r.f3 \in 0 .. 8 /\ r.rs2 \in 0 .. 31
  \/ r.format = "R4" /\ r.op \in {"MADD", "MSUB", "NMADD", "NMSUB"}

\* The fields of a word that are those of the row.
OfRow(w, r, t) ==
  /\ w.op = r.op
  /\ r.format \in {"B", "S", "R", "I", "shift", "unary", "fence", "fixed"} => w.f3 = r.f3
  /\ r.format \in {"R", "shift", "FR", "F1"} => w.f7 = r.f7
  /\ r.format = "unary" => w.f7 = r.f7 \div 32 /\ w.rs2 = r.f7 % 32
  /\ r.format = "fixed" => w.rd = 0 /\ w.rs1 = 0 /\ Csr(w) = r.f7
  /\ r.format = "AMO" => w.f3 = 2 /\ Funct5(w) = r.f7
  /\ t \in {"LR_W", "ZEXT_H"} => w.rs2 = 0
  /\ r.format \in {"FR", "F1"} => IF r.f3 = 8 THEN w.f3 \notin {5, 6} ELSE w.f3 = r.f3
  /\ r.format = "F1" => w.rs2 = r.rs2
  /\ r.format = "R4" => w.f7 % 4 = 0 /\ w.f3 \notin {5, 6}

\* The word of a row has the row's fields and is read as the operands drawn.
LEMMA RowWords ==
  ASSUME NEW r, NEW t, NEW d \in Operands(r, t), RowShape(r),
         t = "LR_W" => r.format = "AMO", t = "ZEXT_H" => r.format = "R"
  PROVE  LET w == Encode32(r, d) IN w \in Word32 /\ OfRow(w, r, t) /\ Read(w) = Meant(d)
<1>1. CASE r.format = "U"
  BY <1>1, UWords DEF RowShape, OfRow
<1>2. CASE r.format = "J"
  BY <1>2, JWords DEF RowShape, OfRow
<1>3. CASE r.format = "B"
  BY <1>3, BWords DEF RowShape, OfRow
<1>4. CASE r.format = "S"
  BY <1>4, SWords DEF RowShape, OfRow
<1>5. CASE r.format = "R"
  BY <1>5, RWords DEF RowShape, OfRow
<1>6. CASE r.format \in {"I", "shift", "unary", "fence", "fixed"}
  <2>1. r.f3 \in 0 .. 7 /\ (r.format = "shift" => r.f7 \in 0 .. 63)
    BY <1>6 DEF RowShape
  <2> QED BY <1>6, <2>1, IWords DEF RowShape, OfRow
<1>7. CASE r.format = "AMO"
  BY <1>7, AmoWords DEF RowShape, OfRow
<1>8. CASE r.format \in {"FR", "F1"}
  BY <1>8, FpWords DEF RowShape, OfRow
<1>9. CASE r.format = "R4"
  BY <1>9, FusedWords DEF RowShape, OfRow
<1> QED BY <1>1, <1>2, <1>3, <1>4, <1>5, <1>6, <1>7, <1>8, <1>9 DEF RowShape

\* The decoder of a generator reads a word with the fields of a row as the
\* type of the row.

\* The base generator.
LEMMA BaseRows ==
  ASSUME NEW t \in DOMAIN BaseTable
  PROVE  /\ RowShape(BaseTable[t]) /\ t \notin {"LR_W", "ZEXT_H"}
         /\ \A w \in Word32 : OfRow(w, BaseTable[t], t) => BaseType(w, TRUE) = t
<1> DEFINE r == BaseTable[t]
<1>1. /\ r.format \in {"U", "J", "I", "B", "S", "shift", "R", "fence", "fixed"}
      /\ r.f3 \in 0 .. 7 /\ r.f7 \in {0, 1, 32}
      /\ r.format = "U" => r.op \in {"LUI", "AUIPC"}
      /\ r.format = "J" => r.op = "JAL"
      /\ r.format = "I" => r.op \in {"JALR", "LOAD", "OP_IMM"}
      /\ r.format = "B" => r.op = "BRANCH"
      /\ r.format = "S" => r.op = "STORE"
      /\ r.format = "shift" => r.op = "OP_IMM"
      /\ r.format = "R" => r.op = "OP"
      /\ r.format = "fence" => r.op = "MISC" /\ r.f3 = 0
      /\ r.format = "fixed" => r.op = "SYSTEM" /\ r.f3 = 0 /\ r.f7 \in 0 .. 1
      /\ t \notin {"LR_W", "ZEXT_H"}
  BY DEF BaseTable, Row
<1>2. RowShape(r)
  <2> HIDE DEF r
  <2> QED BY <1>1 DEF RowShape
<1> SUFFICES ASSUME NEW w \in Word32, OfRow(w, r, t) PROVE BaseType(w, TRUE) = t
  BY <1>1, <1>2
<1>3. w.op = r.op /\ (r.format \notin {"U", "J"} => w.f3 = r.f3)
  BY <1>1 DEF OfRow
<1>4. CASE r.format \in {"U", "J"}
  <2>1. r.op = t /\ t \in {"LUI", "AUIPC", "JAL"}
    BY <1>4 DEF BaseTable, Row
  <2>2. w.op = t
    BY <1>3, <2>1
  <2>3. BaseType(w, TRUE) = t
    BY <2>1, <2>2 DEF BaseType
  <2> QED BY <1>1, <1>2, <2>3
<1>5. CASE r.op = "JALR"
  <2>1. t = "JALR" /\ r.f3 = 0
    BY <1>5 DEF BaseTable, Row
  <2>2. w.op = "JALR" /\ w.f3 = 0
    BY <1>3, <1>5, <1>1, <2>1
  <2> QED BY <1>1, <1>2, <2>1, <2>2 DEF BaseType
<1>6. CASE r.op = "BRANCH"
  <2>1. w.op = "BRANCH" /\ w.f3 = r.f3
    BY <1>1, <1>3, <1>6
  <2>2. BranchType(w) = t
    BY <1>6, <2>1 DEF BaseTable, Row, BranchType, Switch
  <2> QED BY <1>1, <1>2, <2>1, <2>2 DEF BaseType
<1>7. CASE r.op = "LOAD"
  <2>1. w.op = "LOAD" /\ w.f3 = r.f3
    BY <1>1, <1>3, <1>7
  <2>2. LoadType(w) = t
    BY <1>7, <2>1 DEF BaseTable, Row, LoadType, Switch
  <2> QED BY <1>1, <1>2, <2>1, <2>2 DEF BaseType
<1>8. CASE r.op = "STORE"
  <2>1. w.op = "STORE" /\ w.f3 = r.f3
    BY <1>1, <1>3, <1>8
  <2>2. StoreType(w) = t
    BY <1>8, <2>1 DEF BaseTable, Row, StoreType, Switch
  <2> QED BY <1>1, <1>2, <2>1, <2>2 DEF BaseType
<1>9. CASE r.format = "I" /\ r.op = "OP_IMM"
  <2>1. w.op = "OP_IMM" /\ w.f3 = r.f3
    BY <1>3, <1>9
  <2>2. OpImmType(w) = t
    BY <1>9, <2>1 DEF BaseTable, Row, OpImmType, Switch, No, Illegal
  <2> QED BY <1>1, <1>2, <2>1, <2>2 DEF BaseType
<1>10. CASE r.format = "shift"
  <2>1. w.op = "OP_IMM" /\ w.f3 = r.f3 /\ w.f7 = r.f7
    BY <1>1, <1>3, <1>10 DEF OfRow
  <2>2. OpImmType(w) = t
    BY <1>10, <2>1 DEF BaseTable, Row, OpImmType, Switch, No, Illegal
  <2> QED BY <1>1, <1>2, <2>1, <2>2 DEF BaseType
<1>11. CASE r.format = "R"
  <2>1. w.op = "OP" /\ w.f3 = r.f3 /\ w.f7 = r.f7
    BY <1>1, <1>3, <1>11 DEF OfRow
  <2>2. OpType(w) = t
    BY <1>11, <2>1 DEF BaseTable, Row, OpType, Switch
  <2> QED BY <1>1, <1>2, <2>1, <2>2 DEF BaseType
<1>12. CASE r.format = "fence"
  <2>1. t = "FENCE"
    BY <1>12 DEF BaseTable, Row
  <2>2. w.op = "MISC" /\ w.f3 = 0
    BY <1>1, <1>3, <1>12
  <2> QED BY <1>1, <1>2, <2>1, <2>2 DEF BaseType
<1>13. CASE r.format = "fixed"
  <2>1. (t = "ECALL" /\ r.f7 = 0) \/ (t = "EBREAK" /\ r.f7 = 1)
    BY <1>13 DEF BaseTable, Row
  <2>2. w.op = "SYSTEM" /\ w.f3 = 0 /\ w.rd = 0 /\ w.rs1 = 0 /\ Csr(w) = r.f7
    BY <1>1, <1>3, <1>13 DEF OfRow
  <2> HIDE DEF r
  <2>3. w.f7 # 9
    BY <2>1, <2>2 DEF Csr, Word32
  <2>4. SystemType(w, TRUE) = t
    BY <2>1, <2>2, <2>3 DEF SystemType
  <2>5. BaseType(w, TRUE) = t
    BY <2>2, <2>4 DEF BaseType
  <2> USE DEF r
  <2> QED BY <2>5, <1>1, <1>2, <2>2, <2>3 DEF BaseType
<1> HIDE DEF r
<1> QED BY <1>1, <1>4, <1>5, <1>6, <1>7, <1>8, <1>9, <1>10, <1>11, <1>12, <1>13

\* The generator of M.
LEMMA MRows ==
  ASSUME NEW t \in DOMAIN MTable
  PROVE  /\ RowShape(MTable[t]) /\ t \notin {"LR_W", "ZEXT_H"}
         /\ \A w \in Word32 : OfRow(w, MTable[t], t) => MType(w) = t
<1> DEFINE r == MTable[t]
<1>1. r.format = "R" /\ r.op = "OP" /\ r.f7 = 1 /\ r.f3 \in 0 .. 7 /\ t \notin {"LR_W", "ZEXT_H"}
  BY DEF MTable, Row
<1>2. RowShape(r)
  BY <1>1 DEF RowShape
<1> SUFFICES ASSUME NEW w \in Word32, OfRow(w, r, t) PROVE MType(w) = t
  BY <1>1, <1>2
<1>3. w.op = "OP" /\ w.f7 = 1 /\ w.f3 = r.f3
  BY <1>1 DEF OfRow
<1>4. MType(w) = t
  BY <1>3 DEF MTable, Row, MType, IsM, Switch
<1> QED BY <1>1, <1>2, <1>4

\* The generator of Zba.
LEMMA ZbaRows ==
  ASSUME NEW t \in DOMAIN ZbaTable
  PROVE  /\ RowShape(ZbaTable[t]) /\ t \notin {"LR_W", "ZEXT_H"}
         /\ \A w \in Word32 : OfRow(w, ZbaTable[t], t) => ZbaType(w) = t
<1> DEFINE r == ZbaTable[t]
<1>1. r.format = "R" /\ r.op = "OP" /\ r.f7 = 16 /\ r.f3 \in 0 .. 7 /\ t \notin {"LR_W", "ZEXT_H"}
  BY DEF ZbaTable, Row
<1>2. RowShape(r)
  BY <1>1 DEF RowShape
<1> SUFFICES ASSUME NEW w \in Word32, OfRow(w, r, t) PROVE ZbaType(w) = t
  BY <1>1, <1>2
<1>3. w.op = "OP" /\ w.f7 = 16 /\ w.f3 = r.f3
  BY <1>1 DEF OfRow
<1>4. ZbaType(w) = t
  BY <1>3 DEF ZbaTable, Row, ZbaType, Switch
<1> QED BY <1>1, <1>2, <1>4

\* The generator of Zicond.
LEMMA ZicondRows ==
  ASSUME NEW t \in DOMAIN ZicondTable
  PROVE  /\ RowShape(ZicondTable[t]) /\ t \notin {"LR_W", "ZEXT_H"}
         /\ \A w \in Word32 : OfRow(w, ZicondTable[t], t) => ZicondType(w) = t
<1> DEFINE r == ZicondTable[t]
<1>1. r.format = "R" /\ r.op = "OP" /\ r.f7 = 7 /\ r.f3 \in 0 .. 7 /\ t \notin {"LR_W", "ZEXT_H"}
  BY DEF ZicondTable, Row
<1>2. RowShape(r)
  BY <1>1 DEF RowShape
<1> SUFFICES ASSUME NEW w \in Word32, OfRow(w, r, t) PROVE ZicondType(w) = t
  BY <1>1, <1>2
<1>3. w.op = "OP" /\ w.f7 = 7 /\ w.f3 = r.f3
  BY <1>1 DEF OfRow
<1>4. ZicondType(w) = t
  BY <1>3 DEF ZicondTable, Row, ZicondType, Switch
<1> QED BY <1>1, <1>2, <1>4

\* The generator of Zbs.
LEMMA ZbsRows ==
  ASSUME NEW t \in DOMAIN ZbsTable
  PROVE  /\ RowShape(ZbsTable[t]) /\ t \notin {"LR_W", "ZEXT_H"}
         /\ \A w \in Word32 : OfRow(w, ZbsTable[t], t) => ZbsType(w) = t
<1> DEFINE r == ZbsTable[t]
<1>1. /\ \/ r.format = "R" /\ r.op = "OP"
         \/ r.format = "shift" /\ r.op = "OP_IMM"
      /\ r.f7 \in {20, 36, 52} /\ r.f3 \in {1, 5} /\ t \notin {"LR_W", "ZEXT_H"}
  BY DEF ZbsTable, Row
<1>2. RowShape(r)
  BY <1>1 DEF RowShape
<1> SUFFICES ASSUME NEW w \in Word32, OfRow(w, r, t) PROVE ZbsType(w) = t
  BY <1>1, <1>2
<1>3. w.op = r.op /\ w.f7 = r.f7 /\ w.f3 = r.f3
  BY <1>1 DEF OfRow
<1>4. ZbsType(w) = t
  BY <1>3 DEF ZbsTable, Row, ZbsType
<1> QED BY <1>1, <1>2, <1>4

\* The generator of Zbb.
LEMMA ZbbRows ==
  ASSUME NEW t \in DOMAIN ZbbTable
  PROVE  /\ RowShape(ZbbTable[t]) /\ t # "LR_W" /\ (t = "ZEXT_H" => ZbbTable[t].format = "R")
         /\ \A w \in Word32 : OfRow(w, ZbbTable[t], t) => ZbbType(w) = t
<1> DEFINE r == ZbbTable[t]
<1>1. /\ \/ r.format = "R" /\ r.op = "OP" /\ r.f7 \in {4, 5, 32, 48}
         \/ r.format = "shift" /\ r.op = "OP_IMM" /\ r.f7 = 48 /\ t = "RORI"
         \/ r.format = "unary" /\ r.op = "OP_IMM" /\ r.f7 \in {1536, 1537, 1538, 1540, 1541, 647, 1688}
      /\ r.f3 \in {1, 4, 5, 6, 7}
      /\ t # "LR_W" /\ (t = "ZEXT_H" => r.format = "R")
  BY DEF ZbbTable, Row
<1>2. RowShape(r)
  BY <1>1 DEF RowShape, Between
<1> SUFFICES ASSUME NEW w \in Word32, OfRow(w, r, t) PROVE ZbbType(w) = t
  BY <1>1, <1>2
<1>3. w.op = r.op /\ w.f3 = r.f3
  BY <1>1 DEF OfRow
<1>4. CASE r.format = "R"
  <2>1. w.op = "OP" /\ w.f7 = r.f7 /\ w.f3 = r.f3 /\ (t = "ZEXT_H" => w.rs2 = 0)
    BY <1>1, <1>3, <1>4 DEF OfRow
  <2>2. ZbbRegType(w) = t
    BY <1>4, <2>1 DEF ZbbTable, Row, ZbbRegType, Switch
  <2> QED BY <1>1, <1>2, <2>1, <2>2 DEF ZbbType
<1>5. CASE r.format = "shift"
  <2>1. w.op = "OP_IMM" /\ w.f7 = 48 /\ w.f3 = 5
    BY <1>1, <1>3, <1>5 DEF OfRow, ZbbTable, Row
  <2> QED BY <1>1, <1>2, <1>5, <2>1 DEF ZbbType, ZbbImmType
<1>6. CASE r.format = "unary"
  <2>1. w.op = "OP_IMM" /\ w.f7 = r.f7 \div 32 /\ w.rs2 = r.f7 % 32
    BY <1>1, <1>3, <1>6 DEF OfRow
  <2>2. /\ 1536 \div 32 = 48 /\ 1536 % 32 = 0 /\ 1537 \div 32 = 48 /\ 1537 % 32 = 1
        /\ 1538 \div 32 = 48 /\ 1538 % 32 = 2 /\ 1540 \div 32 = 48 /\ 1540 % 32 = 4
        /\ 1541 \div 32 = 48 /\ 1541 % 32 = 5
        /\ 647 \div 32 = 20 /\ 647 % 32 = 7 /\ 1688 \div 32 = 52 /\ 1688 % 32 = 24
    OBVIOUS
  <2>3. \/ t = "CLZ" /\ r.f7 = 1536 /\ r.f3 = 1
        \/ t = "CTZ" /\ r.f7 = 1537 /\ r.f3 = 1
        \/ t = "CPOP" /\ r.f7 = 1538 /\ r.f3 = 1
        \/ t = "SEXT_B" /\ r.f7 = 1540 /\ r.f3 = 1
        \/ t = "SEXT_H" /\ r.f7 = 1541 /\ r.f3 = 1
        \/ t = "ORC_B" /\ r.f7 = 647 /\ r.f3 = 5
        \/ t = "REV8" /\ r.f7 = 1688 /\ r.f3 = 5
    BY <1>6 DEF ZbbTable, Row
  <2> HIDE DEF r
  <2>4. ZbbImmType(w) = t
    BY <1>3, <2>1, <2>2, <2>3 DEF ZbbImmType
  <2>5. RowShape(ZbbTable[t])
    BY <1>2 DEF r
  <2> QED BY <1>1, <2>1, <2>4, <2>5 DEF ZbbType, r
<1> QED BY <1>1, <1>4, <1>5, <1>6

\* The generator of A.
LEMMA ARows ==
  ASSUME NEW t \in DOMAIN ATable
  PROVE  /\ RowShape(ATable[t]) /\ t # "ZEXT_H" /\ ATable[t].format = "AMO"
         /\ \A w \in Word32 : OfRow(w, ATable[t], t) => AType(w) = t
<1> DEFINE r == ATable[t]
<1>1. r.format = "AMO" /\ r.op = "AMO" /\ r.f7 \in 0 .. 31 /\ t # "ZEXT_H"
  BY DEF ATable, Row
<1>2. RowShape(r)
  BY <1>1 DEF RowShape
<1> SUFFICES ASSUME NEW w \in Word32, OfRow(w, r, t) PROVE AType(w) = t
  BY <1>1, <1>2
<1>3. w.op = "AMO" /\ w.f3 = 2 /\ Funct5(w) = r.f7 /\ (t = "LR_W" => w.rs2 = 0)
  BY <1>1 DEF OfRow
<1>4. AType(w) = t
  BY <1>3 DEF ATable, Row, AType, IsA
<1> QED BY <1>1, <1>2, <1>4

\* The generator of F.
LEMMA FRows ==
  ASSUME NEW t \in DOMAIN FTable
  PROVE  /\ RowShape(FTable[t]) /\ t \notin {"LR_W", "ZEXT_H"}
         /\ \A w \in Word32 : OfRow(w, FTable[t], t) => FType(w) = t
<1> DEFINE r == FTable[t]
<1>1. /\ \/ t = "FLW" /\ r.format = "I" /\ r.op = "LOAD_FP" /\ r.f3 = 2
         \/ t = "FSW" /\ r.format = "S" /\ r.op = "STORE_FP" /\ r.f3 = 2
         \/ t = "FMADD_S" /\ r.format = "R4" /\ r.op = "MADD"
         \/ t = "FMSUB_S" /\ r.format = "R4" /\ r.op = "MSUB"
         \/ t = "FNMADD_S" /\ r.format = "R4" /\ r.op = "NMADD"
         \/ t = "FNMSUB_S" /\ r.format = "R4" /\ r.op = "NMSUB"
         \/ r.format = "FR" /\ r.op = "OP_FP" /\ r.f7 \in {0, 4, 8, 12, 16, 20, 80} /\ r.f3 \in {0, 1, 2, 8}
         \/ r.format = "F1" /\ r.op = "OP_FP" /\ r.f7 \in {44, 96, 104, 112, 120} /\ r.f3 \in {0, 1, 8}
              /\ r.rs2 \in {0, 1}
      /\ t \notin {"LR_W", "ZEXT_H"}
  BY DEF FTable, Row, Fr, F1
<1>2. RowShape(r)
  <2> HIDE DEF r
  <2> QED BY <1>1 DEF RowShape
<1> SUFFICES ASSUME NEW w \in Word32, OfRow(w, r, t) PROVE FType(w) = t
  BY <1>1, <1>2
<1>3. CASE r.format \in {"I", "S"}
  <2>1. w.op = r.op /\ w.f3 = 2 /\ ((t = "FLW" /\ r.op = "LOAD_FP") \/ (t = "FSW" /\ r.op = "STORE_FP"))
    <3>1. w.op = r.op /\ w.f3 = r.f3
      BY <1>3 DEF OfRow
    <3> HIDE DEF r
    <3> QED BY <1>1, <1>3, <3>1
  <2>2. FormatType(w) = t
    BY <2>1 DEF FormatType
  <2> QED BY <1>1, <1>2, <2>1, <2>2 DEF FType, UsesRm
<1>4. CASE r.format = "R4"
  <2>1. w.op = r.op /\ w.f7 % 4 = 0 /\ w.f3 \notin {5, 6}
    BY <1>4 DEF OfRow
  <2> HIDE DEF r
  <2>2. FormatType(w) = t
    BY <1>1, <1>4, <2>1 DEF FormatType
  <2>3. FType(w) = t
    BY <2>1, <2>2 DEF FType
  <2> USE DEF r
  <2> QED BY <1>1, <1>2, <2>3
<1>5. CASE r.format \in {"FR", "F1"}
  <2>1. /\ w.op = "OP_FP" /\ w.f7 = r.f7
        /\ IF r.f3 = 8 THEN w.f3 \notin {5, 6} ELSE w.f3 = r.f3
        /\ r.format = "F1" => w.rs2 = r.rs2
    <3>1. /\ w.op = r.op /\ w.f7 = r.f7
          /\ IF r.f3 = 8 THEN w.f3 \notin {5, 6} ELSE w.f3 = r.f3
          /\ r.format = "F1" => w.rs2 = r.rs2
      BY <1>5 DEF OfRow
    <3> HIDE DEF r
    <3> QED BY <1>1, <1>5, <3>1
  <2>2. CASE r.f3 = 8
    <3>1. OpFpType(w) = t
      BY <1>5, <2>1, <2>2 DEF FTable, Row, Fr, F1, OpFpType
    <3>2. FormatType(w) = t /\ w.f3 \notin {5, 6}
      BY <2>1, <2>2, <3>1 DEF FormatType
    <3> QED BY <1>1, <1>2, <3>2 DEF FType
  <2>3. CASE r.f3 # 8
    <3>1. OpFpType(w) = t
      BY <1>5, <2>1, <2>3 DEF FTable, Row, Fr, F1, OpFpType, Switch
    <3>2. r.f3 \in {0, 1, 2}
      <4> HIDE DEF r
      <4> QED BY <1>1, <1>5, <2>3
    <3>3. FormatType(w) = t /\ w.f3 \notin {5, 6}
      BY <2>1, <2>3, <3>1, <3>2 DEF FormatType
    <3> QED BY <1>1, <1>2, <3>3 DEF FType
  <2> QED BY <2>2, <2>3
<1>6. r.format \in {"I", "S", "R4", "FR", "F1"}
  <2> HIDE DEF r
  <2> QED BY <1>1
<1> QED BY <1>3, <1>4, <1>5, <1>6

\* The word of a row is read by the generator's own decoder as the type of
\* the row, with the operands drawn.
RoundTrip(g, t, w, d) == w \in Word32 /\ TypeBy(g, w, TRUE) = t /\ Read(w) = Meant(d)

\* A word of a row of a table makes the round trip.
LEMMA TableRoundTrip ==
  ASSUME NEW g \in TableGens, NEW t \in DOMAIN Table(g), NEW d \in Operands(Table(g)[t], t)
  PROVE  RoundTrip(g, t, Encode32(Table(g)[t], d), d)
<1> DEFINE r == Table(g)[t]
           w == Encode32(r, d)
<1>1. g \in {"I", "M", "A", "F", "Zba", "Zbb", "Zbs", "Zicond"}
  BY DEF TableGens
<1>2. /\ RowShape(r) /\ (t = "LR_W" => r.format = "AMO") /\ (t = "ZEXT_H" => r.format = "R")
      /\ \A v \in Word32 : OfRow(v, r, t) => TypeBy(g, v, TRUE) = t
  <2>1. CASE g = "I"
    BY <2>1, BaseRows DEF Table, TypeBy
  <2>2. CASE g = "M"
    BY <2>2, MRows DEF Table, TypeBy
  <2>3. CASE g = "A"
    BY <2>3, ARows DEF Table, TypeBy
  <2>4. CASE g = "F"
    BY <2>4, FRows DEF Table, TypeBy
  <2>5. CASE g = "Zba"
    BY <2>5, ZbaRows DEF Table, TypeBy
  <2>6. CASE g = "Zbb"
    BY <2>6, ZbbRows DEF Table, TypeBy
  <2>7. CASE g = "Zbs"
    BY <2>7, ZbsRows DEF Table, TypeBy
  <2>8. CASE g = "Zicond"
    BY <2>8, ZicondRows DEF Table, TypeBy
  <2> QED BY <1>1, <2>1, <2>2, <2>3, <2>4, <2>5, <2>6, <2>7, <2>8
<1> HIDE DEF r
<1>3. d \in Operands(r, t)
  BY DEF r
<1>4. w \in Word32 /\ OfRow(w, r, t) /\ Read(w) = Meant(d)
  BY <1>2, <1>3, RowWords
<1> QED BY <1>2, <1>4 DEF RoundTrip, r

\* What is drawn for a field is a value of the field.
LEMMA DrawRanges ==
  /\ \A i \in Regs : i \in 0 .. 31
  /\ \A i \in CRegs : i \in 8 .. 15
  /\ \A i \in FpRms : i \in 0 .. 7 /\ i # 5 /\ i # 6
  /\ \A i \in AmoBits : i \in 0 .. 3
BY DrawAssumption

\* A CSR instruction makes the round trip.
LEMMA CsrRoundTrip ==
  ASSUME NEW t \in CsrTypes, NEW s, NEW u, NEW d \in CsrOperands(t, s, u)
  PROVE  RoundTrip("Zicsr", t, EncodeCsr(d), d)
<1>1. Between(770, 0, 4095) /\ Between(771, 0, 4095) /\ \A a \in WritableCsrs(s, u) \union ReadOnlyCsrs : Between(a, 0, 4095)
  BY DEF WritableCsrs, ReadOnlyCsrs, Between
<1>2. /\ d.type = t /\ d.rd \in 0 .. 31 /\ d.rs1 \in 0 .. 31 /\ d.rs2 = 0
      /\ d.imm \in WritableCsrs(s, u) \union ReadOnlyCsrs
  <2>1. /\ d.type = t /\ d.rd \in Regs /\ d.rs1 \in Regs \union {0} /\ d.rs2 = 0
        /\ d.imm \in WritableCsrs(s, u) \union ReadOnlyCsrs
    BY DEF CsrOperands, Drawn
  <2> QED BY <2>1, DrawRanges
<1>3. Between(d.imm, 0, 4095)
  BY <1>1, <1>2
<1> DEFINE f3 == CsrFunct3(t)
           w == EncodeCsr(d)
<1>4. /\ f3 \in {1, 2, 3, 5, 6, 7}
      /\ <<No, "CSRRW", "CSRRS", "CSRRC", No, "CSRRWI", "CSRRSI", "CSRRCI">>[f3 + 1] = t
  BY DEF CsrTypes, CsrFunct3
<1>5. w = EncodeI(d.imm, d.rs1, f3, d.rd, "SYSTEM")
  BY <1>2 DEF EncodeCsr
<1> HIDE DEF w, f3
<1>6. Between(d.imm, -2048, 4095) /\ d.imm % 4096 = d.imm
  BY <1>3 DEF Between
<1>7. w \in Word32 /\ w.op = "SYSTEM" /\ w.rs1 = d.rs1 /\ w.f3 = f3 /\ w.rd = d.rd /\ Csr(w) = d.imm
  BY <1>2, <1>4, <1>5, <1>6, EncodeIWord DEF MajorOps
<1>8. TypeBy("Zicsr", w, TRUE) = t
  BY <1>4, <1>7 DEF TypeBy, CsrType, Switch
<1>9. Read(w) = Meant(d)
  BY <1>2, <1>7 DEF Read, Meant
<1> QED BY <1>7, <1>8, <1>9 DEF RoundTrip, w

\* FENCE.I makes the round trip, with its ignored fields drawn or not.
LEMMA FenceIRoundTrip ==
  ASSUME NEW standardOnly \in BOOLEAN, NEW d \in FenceIOperands(standardOnly)
  PROVE  RoundTrip("Zifencei", "FENCE_I", EncodeFenceI(d), d)
<1>1. d.rd \in 0 .. 31 /\ d.rs1 \in 0 .. 31 /\ d.rs2 = 0 /\ Between(d.imm, -2048, 2047)
  <2>1. CASE d \in Drawn("FENCE_I", {0}, {0}, {0}, {0})
    BY <2>1 DEF Drawn, Between
  <2>2. CASE d \in Drawn("FENCE_I", Regs, Regs, {0}, Probes(12))
    <3>1. d.rd \in Regs /\ d.rs1 \in Regs /\ d.rs2 = 0 /\ d.imm \in Probes(12)
      BY <2>2 DEF Drawn
    <3>2. d.rd \in 0 .. 31 /\ d.rs1 \in 0 .. 31
      BY <3>1, DrawRanges
    <3>3. Between(d.imm, -2048, 2047)
      BY <3>1, ProbeRanges
    <3> QED BY <3>1, <3>2, <3>3
  <2> QED BY <2>1, <2>2 DEF FenceIOperands
<1> DEFINE w == EncodeFenceI(d)
<1>2. w = EncodeI(d.imm, d.rs1, 1, d.rd, "MISC")
  BY DEF EncodeFenceI
<1> HIDE DEF w
<1>3. Between(d.imm, -2048, 4095) /\ d.imm <= 2047
  BY <1>1 DEF Between
<1>4. w \in Word32 /\ w.op = "MISC" /\ w.rs1 = d.rs1 /\ w.f3 = 1 /\ w.rd = d.rd /\ ImmI(w) = d.imm
  BY <1>1, <1>2, <1>3, EncodeIWord DEF MajorOps
<1>5. TypeBy("Zifencei", w, TRUE) = "FENCE_I"
  BY <1>4 DEF TypeBy, FenceIType, IsFenceI
<1>6. Read(w) = Meant(d)
  BY <1>1, <1>4 DEF Read, Meant
<1> QED BY <1>4, <1>5, <1>6 DEF RoundTrip, w

\* A word that a decoder reads is read by no other.
LEMMA ReadAlone ==
  ASSUME NEW g \in Decoders, NEW w \in Word32, TypeBy(g, w, TRUE) # Illegal
  PROVE  Classes(w, TRUE) = {g}
<1>1. g \in Classes(w, TRUE)
  BY DEF Classes
<1>2. \A x \in Classes(w, TRUE) : x = Owner(w)
  BY ReadsOwned
<1> QED BY <1>1, <1>2

(***************************************************************************)
(* The illegal words.                                                      *)
(***************************************************************************)
\* A word of a class has the fields of the class.
LEMMA EncWords ==
  ASSUME NEW f7s, NEW rs2s, NEW rs1s, NEW f3s, NEW rds, NEW op,
         NEW w \in Enc(f7s, rs2s, rs1s, f3s, rds, op),
         \A i \in f7s : Between(i, 0, 127), \A i \in rs2s : Between(i, 0, 31),
         \A i \in rs1s : Between(i, 0, 31), \A i \in f3s : Between(i, 0, 7),
         \A i \in rds : Between(i, 0, 31), op \in MajorOps
  PROVE  /\ w \in Word32 /\ w.op = op /\ w.f7 \in f7s /\ w.rs2 \in rs2s /\ w.rs1 \in rs1s
         /\ w.f3 \in f3s /\ w.rd \in rds
<1>1. /\ w = [op |-> w.op, f7 |-> w.f7, rs2 |-> w.rs2, rs1 |-> w.rs1, f3 |-> w.f3, rd |-> w.rd]
      /\ w.op = op /\ w.f7 \in f7s /\ w.rs2 \in rs2s /\ w.rs1 \in rs1s
      /\ w.f3 \in f3s /\ w.rd \in rds
  BY DEF Enc
<1>2. /\ w.f7 \in 0 .. 127 /\ w.rs2 \in 0 .. 31 /\ w.rs1 \in 0 .. 31 /\ w.f3 \in 0 .. 7
      /\ w.rd \in 0 .. 31
  BY <1>1 DEF Between
<1> QED BY <1>1, <1>2 DEF Word32

\* A class has a word if each field has a value.
LEMMA EncSome ==
  ASSUME NEW f7s, NEW rs2s, NEW rs1s, NEW f3s, NEW rds, NEW op,
         f7s # {}, rs2s # {}, rs1s # {}, f3s # {}, rds # {}
  PROVE  Enc(f7s, rs2s, rs1s, f3s, rds, op) # {}
<1>1. PICK f7 \in f7s, rs2 \in rs2s, rs1 \in rs1s, f3 \in f3s, rd \in rds : TRUE
  OBVIOUS
<1>2. [op |-> op, f7 |-> f7, rs2 |-> rs2, rs1 |-> rs1, f3 |-> f3, rd |-> rd]
        \in Enc(f7s, rs2s, rs1s, f3s, rds, op)
  BY DEF Enc
<1> QED BY <1>2

\* What is drawn for the open fields of an illegal word.
LEMMA FieldDraws ==
  /\ \A i \in F7s : Between(i, 0, 127)
  /\ \A i \in Regs : Between(i, 0, 31)
  /\ \A i \in Rms : Between(i, 0, 7) /\ i # 5 /\ i # 6
  /\ F7s # {} /\ Regs # {} /\ Regs \ {0} # {} /\ Rms # {}
<1>1. \A i \in F7s : Between(i, 0, 127)
  BY ProbeRanges DEF F7s
<1>2. \A i \in Regs : Between(i, 0, 31)
  BY DrawRanges DEF Between
<1>3. F7s # {} /\ Regs # {} /\ Regs \ {0} # {}
  BY DrawAssumption DEF F7s, UnsignedProbes
<1>4. Rms # {} /\ \A i \in Rms : Between(i, 0, 7) /\ i # 5 /\ i # 6
  BY DEF Rms, Between
<1> QED BY <1>1, <1>2, <1>3, <1>4

\* A class with all fields open but the opcode and funct3.
LEMMA RandomWords ==
  ASSUME NEW f3s, NEW op, \A i \in f3s : Between(i, 0, 7), f3s # {}, op \in MajorOps
  PROVE  /\ Random(f3s, op) # {}
         /\ \A w \in Random(f3s, op) : w \in Word32 /\ w.op = op /\ w.f3 \in f3s
<1>1. Random(f3s, op) # {}
  BY FieldDraws, EncSome DEF Random
<1>2. ASSUME NEW w \in Random(f3s, op) PROVE w \in Word32 /\ w.op = op /\ w.f3 \in f3s
  <2>1. w \in Enc(F7s, Regs, Regs, f3s, Regs, op)
    BY DEF Random
  <2> QED BY <2>1, FieldDraws, EncWords
<1> QED BY <1>1, <1>2

\* No decoder reads the word, with or without S-mode.
Unread(w) == w \in Word32 /\ \A s \in BOOLEAN : TypeBy(Owner(w), w, s) = Illegal

\* A word of the base decoder that it does not read is unread.
LEMMA UnreadByBase ==
  ASSUME NEW w \in Word32, Owner(w) = "I", BaseType(w, TRUE) = Illegal, BaseType(w, FALSE) = Illegal
  PROVE  Unread(w)
<1>1. \A s \in BOOLEAN : TypeBy(Owner(w), w, s) = BaseType(w, s)
  BY DEF TypeBy
<1>2. \A s \in BOOLEAN : s = TRUE \/ s = FALSE
  OBVIOUS
<1> QED BY <1>1, <1>2 DEF Unread

\* The classes told by opcode and funct3.
LEMMA RandomClasses ==
  /\ AllOnesWord # {} /\ \A w \in AllOnesWord : Unread(w)
  /\ ReservedMajor # {} /\ \A w \in ReservedMajor : Unread(w)
  /\ BadLoad # {} /\ \A w \in BadLoad : Unread(w)
  /\ BadStore # {} /\ \A w \in BadStore : Unread(w)
  /\ BadBranch # {} /\ \A w \in BadBranch : Unread(w)
  /\ BadJalr # {} /\ \A w \in BadJalr : Unread(w)
  /\ BadMiscMem # {} /\ \A w \in BadMiscMem : Unread(w)
  /\ BadSystemFunct4 # {} /\ \A w \in BadSystemFunct4 : Unread(w)
  /\ BadLoadFp # {} /\ \A w \in BadLoadFp : Unread(w)
  /\ BadStoreFp # {} /\ \A w \in BadStoreFp : Unread(w)
  /\ BadAmoFunct3 # {} /\ \A w \in BadAmoFunct3 : Unread(w)
<1>1. AllOnesWord # {} /\ \A w \in AllOnesWord : Unread(w)
  <2>1. AllOnesWord # {} /\ \A w \in AllOnesWord : w \in Word32 /\ w.op = "RESERVED"
    <3>1. AllOnesWord # {}
      BY EncSome DEF AllOnesWord
    <3>2. /\ \A i \in {127} : Between(i, 0, 127)
          /\ \A i \in {31} : Between(i, 0, 31)
          /\ \A i \in {7} : Between(i, 0, 7)
          /\ "RESERVED" \in MajorOps
      BY DEF Between, MajorOps
    <3>3. \A w \in AllOnesWord : w \in Word32 /\ w.op = "RESERVED"
      BY <3>2, EncWords DEF AllOnesWord
    <3> QED BY <3>1, <3>3
  <2> QED BY <2>1, UnreadByBase DEF Owner, BaseType
<1>2. ReservedMajor # {} /\ \A w \in ReservedMajor : Unread(w)
  <2>1. 0 .. 7 # {} /\ (\A i \in 0 .. 7 : Between(i, 0, 7)) /\ "RESERVED" \in MajorOps
    BY DEF MajorOps, Between
  <2>2. ReservedMajor # {} /\ \A w \in ReservedMajor : w \in Word32 /\ w.op = "RESERVED"
    BY <2>1, RandomWords DEF ReservedMajor
  <2> QED BY <2>2, UnreadByBase DEF Owner, BaseType
<1>3. BadLoad # {} /\ \A w \in BadLoad : Unread(w)
  <2>1. {3, 6, 7} # {} /\ (\A i \in {3, 6, 7} : Between(i, 0, 7)) /\ "LOAD" \in MajorOps
    BY DEF MajorOps, Between
  <2>2. BadLoad # {} /\ \A w \in BadLoad : w \in Word32 /\ w.op = "LOAD" /\ w.f3 \in {3, 6, 7}
    BY <2>1, RandomWords DEF BadLoad
  <2>3. \A w : w.op = "LOAD" /\ w.f3 \in {3, 6, 7} => LoadType(w) = Illegal
    BY DEF LoadType, Switch, No
  <2> QED BY <2>2, <2>3, UnreadByBase DEF Owner, BaseType
<1>4. BadStore # {} /\ \A w \in BadStore : Unread(w)
  <2>1. {3, 4, 5, 6, 7} # {} /\ (\A i \in {3, 4, 5, 6, 7} : Between(i, 0, 7)) /\ "STORE" \in MajorOps
    BY DEF MajorOps, Between
  <2>2. BadStore # {} /\ \A w \in BadStore : w \in Word32 /\ w.op = "STORE" /\ w.f3 \in {3, 4, 5, 6, 7}
    BY <2>1, RandomWords DEF BadStore
  <2>3. \A w : w.op = "STORE" /\ w.f3 \in {3, 4, 5, 6, 7} => StoreType(w) = Illegal
    BY DEF StoreType, Switch, No
  <2> QED BY <2>2, <2>3, UnreadByBase DEF Owner, BaseType
<1>5. BadBranch # {} /\ \A w \in BadBranch : Unread(w)
  <2>1. {2, 3} # {} /\ (\A i \in {2, 3} : Between(i, 0, 7)) /\ "BRANCH" \in MajorOps
    BY DEF MajorOps, Between
  <2>2. BadBranch # {} /\ \A w \in BadBranch : w \in Word32 /\ w.op = "BRANCH" /\ w.f3 \in {2, 3}
    BY <2>1, RandomWords DEF BadBranch
  <2>3. \A w : w.op = "BRANCH" /\ w.f3 \in {2, 3} => BranchType(w) = Illegal
    BY DEF BranchType, Switch, No
  <2> QED BY <2>2, <2>3, UnreadByBase DEF Owner, BaseType
<1>6. BadJalr # {} /\ \A w \in BadJalr : Unread(w)
  <2>1. 1 .. 7 # {} /\ (\A i \in 1 .. 7 : Between(i, 0, 7)) /\ "JALR" \in MajorOps
    BY DEF MajorOps, Between
  <2>2. BadJalr # {} /\ \A w \in BadJalr : w \in Word32 /\ w.op = "JALR" /\ w.f3 \in 1 .. 7
    BY <2>1, RandomWords DEF BadJalr
  <2>3. \A i \in 1 .. 7 : i # 0
    OBVIOUS
  <2> QED BY <2>2, <2>3, UnreadByBase DEF Owner, BaseType
<1>7. BadMiscMem # {} /\ \A w \in BadMiscMem : Unread(w)
  <2>1. 2 .. 7 # {} /\ (\A i \in 2 .. 7 : Between(i, 0, 7)) /\ "MISC" \in MajorOps
    BY DEF MajorOps, Between
  <2>2. BadMiscMem # {} /\ \A w \in BadMiscMem : w \in Word32 /\ w.op = "MISC" /\ w.f3 \in 2 .. 7
    BY <2>1, RandomWords DEF BadMiscMem
  <2>3. \A i \in 2 .. 7 : i # 0 /\ i # 1
    OBVIOUS
  <2> QED BY <2>2, <2>3, UnreadByBase DEF Owner, BaseType
<1>8. BadSystemFunct4 # {} /\ \A w \in BadSystemFunct4 : Unread(w)
  <2>1. {4} # {} /\ (\A i \in {4} : Between(i, 0, 7)) /\ "SYSTEM" \in MajorOps
    BY DEF MajorOps, Between
  <2>2. BadSystemFunct4 # {} /\ \A w \in BadSystemFunct4 : w \in Word32 /\ w.op = "SYSTEM" /\ w.f3 \in {4}
    BY <2>1, RandomWords DEF BadSystemFunct4
  <2> QED BY <2>2 DEF Unread, Owner, TypeBy, CsrType, Switch, No
<1>9. BadLoadFp # {} /\ \A w \in BadLoadFp : Unread(w)
  <2>1. {0, 1, 3, 4, 5, 6, 7} # {} /\ (\A i \in {0, 1, 3, 4, 5, 6, 7} : Between(i, 0, 7)) /\ "LOAD_FP" \in MajorOps
    BY DEF MajorOps, Between
  <2>2. BadLoadFp # {} /\ \A w \in BadLoadFp : w \in Word32 /\ w.op = "LOAD_FP" /\ w.f3 \in {0, 1, 3, 4, 5, 6, 7}
    BY <2>1, RandomWords DEF BadLoadFp
  <2> QED BY <2>2 DEF Unread, Owner, TypeBy, FType, FormatType
<1>10. BadStoreFp # {} /\ \A w \in BadStoreFp : Unread(w)
  <2>1. {0, 1, 3, 4, 5, 6, 7} # {} /\ (\A i \in {0, 1, 3, 4, 5, 6, 7} : Between(i, 0, 7)) /\ "STORE_FP" \in MajorOps
    BY DEF MajorOps, Between
  <2>2. BadStoreFp # {} /\ \A w \in BadStoreFp : w \in Word32 /\ w.op = "STORE_FP" /\ w.f3 \in {0, 1, 3, 4, 5, 6, 7}
    BY <2>1, RandomWords DEF BadStoreFp
  <2> QED BY <2>2 DEF Unread, Owner, TypeBy, FType, FormatType
<1>11. BadAmoFunct3 # {} /\ \A w \in BadAmoFunct3 : Unread(w)
  <2>1. {0, 1, 3, 4, 5, 6, 7} # {} /\ (\A i \in {0, 1, 3, 4, 5, 6, 7} : Between(i, 0, 7)) /\ "AMO" \in MajorOps
    BY DEF MajorOps, Between
  <2>2. BadAmoFunct3 # {} /\ \A w \in BadAmoFunct3 : w \in Word32 /\ w.op = "AMO" /\ w.f3 \in {0, 1, 3, 4, 5, 6, 7}
    BY <2>1, RandomWords DEF BadAmoFunct3
  <2> QED BY <2>2 DEF Unread, Owner, TypeBy, AType, IsA
<1> QED BY <1>1, <1>2, <1>3, <1>4, <1>5, <1>6, <1>7, <1>8, <1>9, <1>10, <1>11

\* The words of an immediate slot of OP_IMM.
LEMMA SlotWords ==
  ASSUME NEW f7s, NEW rs2s, NEW f3, NEW w \in Enc(f7s, rs2s, Regs, {f3}, Regs, "OP_IMM"),
         \A i \in f7s : Between(i, 0, 127), \A i \in rs2s : Between(i, 0, 31), Between(f3, 0, 7)
  PROVE  w \in Word32 /\ w.op = "OP_IMM" /\ w.f7 \in f7s /\ w.rs2 \in rs2s /\ w.f3 = f3
<1>1. (\A i \in {f3} : Between(i, 0, 7)) /\ "OP_IMM" \in MajorOps
  BY DEF MajorOps
<1> QED BY <1>1, FieldDraws, EncWords

\* The shift slots that belong to no extension.
LEMMA ShiftSlots ==
  /\ BadSlliSlot # {} /\ \A w \in BadSlliSlot : Unread(w)
  /\ BadSrliSlot # {} /\ \A w \in BadSrliSlot : Unread(w)
<1>1. BadSlliSlot # {} /\ BadSrliSlot # {}
  BY FieldDraws, EncSome DEF BadSlliSlot, BadSrliSlot
<1>2. /\ \A i \in {1} : Between(i, 0, 127)
      /\ \A i \in {2, 3, 4, 5, 6, 7, 8, 32, 127} : Between(i, 0, 127)
      /\ \A i \in {2, 3, 8, 33, 49, 127} : Between(i, 0, 127)
      /\ (\A i \in {48} : Between(i, 0, 127)) /\ (\A i \in {20} : Between(i, 0, 127))
      /\ \A i \in {52} : Between(i, 0, 127)
      /\ Between(1, 0, 7) /\ Between(5, 0, 7)
  BY DEF Between
<1>3. ASSUME NEW a PROVE \A i \in (0 .. 31) \ a : Between(i, 0, 31)
  BY DEF Between
<1>4. ASSUME NEW w \in BadSlliSlot PROVE Unread(w)
  <2>1. CASE w \in Enc({1}, Regs, Regs, {1}, Regs, "OP_IMM")
    <3>1. w \in Word32 /\ w.op = "OP_IMM" /\ w.f7 = 1 /\ w.f3 = 1
      BY <1>2, <2>1, FieldDraws, SlotWords
    <3>2. Owner(w) = "I" /\ OpImmType(w) = Illegal
      BY <3>1 DEF Owner, ImmediateOwner, OpImmType
    <3> QED BY <3>1, <3>2, UnreadByBase DEF BaseType
  <2>2. CASE w \in Enc({2, 3, 4, 5, 6, 7, 8, 32, 127}, Regs, Regs, {1}, Regs, "OP_IMM")
    <3>1. /\ w \in Word32 /\ w.op = "OP_IMM" /\ w.f7 \in {2, 3, 4, 5, 6, 7, 8, 32, 127}
          /\ w.f3 = 1
      BY <1>2, <2>2, FieldDraws, SlotWords
    <3>2. Owner(w) = "I" /\ OpImmType(w) = Illegal
      BY <3>1 DEF Owner, ImmediateOwner, OpImmType
    <3> QED BY <3>1, <3>2, UnreadByBase DEF BaseType
  <2>3. CASE w \in Enc({48}, (0 .. 31) \ {0, 1, 2, 4, 5}, Regs, {1}, Regs, "OP_IMM")
    <3> DEFINE rs2s == (0 .. 31) \ {0, 1, 2, 4, 5}
    <3>1. w \in Enc({48}, rs2s, Regs, {1}, Regs, "OP_IMM") /\ \A i \in rs2s : Between(i, 0, 31)
      BY <1>3, <2>3
    <3> HIDE DEF rs2s
    <3>2. w \in Word32 /\ w.op = "OP_IMM" /\ w.f7 = 48 /\ w.f3 = 1 /\ w.rs2 \in rs2s
      BY <1>2, <3>1, SlotWords
    <3> QED BY <3>2 DEF Unread, Owner, ImmediateOwner, TypeBy, ZbbType, ZbbImmType, rs2s
  <2> QED BY <2>1, <2>2, <2>3 DEF BadSlliSlot
<1>5. ASSUME NEW w \in BadSrliSlot PROVE Unread(w)
  <2>1. CASE w \in Enc({1}, Regs, Regs, {5}, Regs, "OP_IMM")
    <3>1. w \in Word32 /\ w.op = "OP_IMM" /\ w.f7 = 1 /\ w.f3 = 5
      BY <1>2, <2>1, FieldDraws, SlotWords
    <3>2. Owner(w) = "I" /\ OpImmType(w) = Illegal
      BY <3>1 DEF Owner, ImmediateOwner, OpImmType
    <3> QED BY <3>1, <3>2, UnreadByBase DEF BaseType
  <2>2. CASE w \in Enc({2, 3, 8, 33, 49, 127}, Regs, Regs, {5}, Regs, "OP_IMM")
    <3>1. w \in Word32 /\ w.op = "OP_IMM" /\ w.f7 \in {2, 3, 8, 33, 49, 127} /\ w.f3 = 5
      BY <1>2, <2>2, FieldDraws, SlotWords
    <3>2. Owner(w) = "I" /\ OpImmType(w) = Illegal
      BY <3>1 DEF Owner, ImmediateOwner, OpImmType
    <3> QED BY <3>1, <3>2, UnreadByBase DEF BaseType
  <2>3. CASE w \in Enc({20}, (0 .. 31) \ {7}, Regs, {5}, Regs, "OP_IMM")
    <3> DEFINE rs2s == (0 .. 31) \ {7}
    <3>1. w \in Enc({20}, rs2s, Regs, {5}, Regs, "OP_IMM") /\ \A i \in rs2s : Between(i, 0, 31)
      BY <1>3, <2>3
    <3> HIDE DEF rs2s
    <3>2. w \in Word32 /\ w.op = "OP_IMM" /\ w.f7 = 20 /\ w.f3 = 5 /\ w.rs2 \in rs2s
      BY <1>2, <3>1, SlotWords
    <3> QED BY <3>2 DEF Unread, Owner, ImmediateOwner, TypeBy, ZbbType, ZbbImmType, rs2s
  <2>4. CASE w \in Enc({52}, (0 .. 31) \ {24}, Regs, {5}, Regs, "OP_IMM")
    <3> DEFINE rs2s == (0 .. 31) \ {24}
    <3>1. w \in Enc({52}, rs2s, Regs, {5}, Regs, "OP_IMM") /\ \A i \in rs2s : Between(i, 0, 31)
      BY <1>3, <2>4
    <3> HIDE DEF rs2s
    <3>2. w \in Word32 /\ w.op = "OP_IMM" /\ w.f7 = 52 /\ w.f3 = 5 /\ w.rs2 \in rs2s
      BY <1>2, <3>1, SlotWords
    <3> QED BY <3>2 DEF Unread, Owner, ImmediateOwner, TypeBy, ZbbType, ZbbImmType, rs2s
  <2> QED BY <2>1, <2>2, <2>3, <2>4 DEF BadSrliSlot
<1> QED BY <1>1, <1>4, <1>5

\* The slots of OP that belong to no extension.
LEMMA RegisterSlots == BadOp # {} /\ \A w \in BadOp : Unread(w)
<1>1. BadOp # {}
  <2>1. Enc({4}, Regs \ {0}, Regs, {4}, Regs, "OP") # {}
    BY FieldDraws, EncSome
  <2> QED BY <2>1 DEF BadOp
<1>2. ASSUME NEW w \in Enc({4}, Regs \ {0}, Regs, {4}, Regs, "OP") PROVE Unread(w)
  <2>1. /\ \A i \in {4} : Between(i, 0, 127) /\ Between(i, 0, 7)
        /\ \A i \in Regs \ {0} : Between(i, 0, 31)
        /\ "OP" \in MajorOps
    BY FieldDraws DEF MajorOps, Between
  <2>2. w \in Word32 /\ w.op = "OP" /\ w.f7 = 4 /\ w.f3 = 4 /\ w.rs2 # 0
    BY <2>1, FieldDraws, EncWords
  <2> QED BY <2>2 DEF Unread, Owner, RegisterOwner, TypeBy, ZbbType, ZbbRegType
<1>3. ASSUME NEW f7 \in 0 .. 127,
             NEW w \in Enc({f7}, Regs, {0}, (0 .. 7) \ OpLegalFunct3(f7), {0}, "OP")
      PROVE  Unread(w)
  <2>1. /\ \A i \in {f7} : Between(i, 0, 127)
        /\ \A i \in {0} : Between(i, 0, 31)
        /\ \A i \in (0 .. 7) \ OpLegalFunct3(f7) : Between(i, 0, 7)
        /\ "OP" \in MajorOps
    BY DEF MajorOps, Between
  <2>2. w \in Word32 /\ w.op = "OP" /\ w.f7 = f7 /\ w.f3 \in (0 .. 7) \ OpLegalFunct3(f7)
    BY <2>1, FieldDraws, EncWords
  <2>3. w.f3 \in {0, 1, 2, 3, 4, 5, 6, 7}
    BY <2>2, Funct3Values
  <2>4. CASE f7 \in {0, 1}
    BY <2>2, <2>4 DEF OpLegalFunct3
  <2>5. CASE f7 = 32
    <3>1. w.f3 \in {1, 2, 3}
      BY <2>2, <2>3, <2>5 DEF OpLegalFunct3
    <3> QED BY <2>2, <2>5, <3>1 DEF Unread, Owner, RegisterOwner, TypeBy, ZbbType, ZbbRegType, Switch, No
  <2>6. CASE f7 = 16
    <3>1. w.f3 \in {0, 1, 3, 5, 7}
      BY <2>2, <2>3, <2>6 DEF OpLegalFunct3
    <3> QED BY <2>2, <2>6, <3>1 DEF Unread, Owner, RegisterOwner, TypeBy, ZbaType, Switch, No
  <2>7. CASE f7 = 5
    <3>1. w.f3 \in {0, 1, 2, 3}
      BY <2>2, <2>3, <2>7 DEF OpLegalFunct3
    <3> QED BY <2>2, <2>7, <3>1 DEF Unread, Owner, RegisterOwner, TypeBy, ZbbType, ZbbRegType, Switch, No
  <2>8. CASE f7 = 48
    <3>1. w.f3 \in {0, 2, 3, 4, 6, 7}
      BY <2>2, <2>3, <2>8 DEF OpLegalFunct3
    <3> QED BY <2>2, <2>8, <3>1 DEF Unread, Owner, RegisterOwner, TypeBy, ZbbType, ZbbRegType, Switch, No
  <2>9. CASE f7 \in {20, 36, 52}
    <3>1. w.f3 # 1 /\ (f7 = 36 => w.f3 # 5)
      BY <2>2, <2>9 DEF OpLegalFunct3
    <3> QED BY <2>2, <2>9, <3>1 DEF Unread, Owner, RegisterOwner, TypeBy, ZbsType
  <2>10. CASE f7 = 7
    <3>1. w.f3 \in {0, 1, 2, 3, 4, 6}
      BY <2>2, <2>3, <2>10 DEF OpLegalFunct3
    <3> QED BY <2>2, <2>10, <3>1 DEF Unread, Owner, RegisterOwner, TypeBy, ZicondType, Switch, No
  <2>11. CASE f7 = 4
    <3>1. w.f3 # 4
      BY <2>2, <2>11 DEF OpLegalFunct3
    <3> QED BY <2>2, <2>11, <3>1 DEF Unread, Owner, RegisterOwner, TypeBy, ZbbType, ZbbRegType
  <2>12. CASE f7 \notin {0, 1, 32, 16, 5, 48, 20, 36, 52, 7, 4}
    <3>1. Owner(w) = "I" /\ OpType(w) = Illegal
      BY <2>2, <2>12 DEF Owner, RegisterOwner, OpType
    <3> QED BY <2>2, <3>1, UnreadByBase DEF BaseType
  <2> QED BY <2>4, <2>5, <2>6, <2>7, <2>8, <2>9, <2>10, <2>11, <2>12
<1> QED BY <1>1, <1>2, <1>3 DEF BadOp

\* bits 31 to 20 of the fixed words of SYSTEM, by funct7 and rs2.
LEMMA SystemSlots == BadSystem # {} /\ \A w \in BadSystem : Unread(w)
<1> DEFINE f7s == F7s \union {8, 9, 24}
           rs2s == Regs \union {0, 1, 2, 5}
           words == Enc(f7s, rs2s, Regs, {0}, Regs, "SYSTEM")
<1>1. /\ \A i \in f7s : Between(i, 0, 127)
      /\ \A i \in rs2s : Between(i, 0, 31)
      /\ \A i \in {0} : Between(i, 0, 7)
      /\ "SYSTEM" \in MajorOps
  BY FieldDraws DEF Between, MajorOps
<1>2. BadSystem # {}
  <2>1. 8 \in f7s /\ 0 \in rs2s
    OBVIOUS
  <2>2. Regs # {} /\ Regs \ {0} # {}
    BY FieldDraws
  <2>3. PICK rs1 \in Regs, rd \in Regs \ {0} : TRUE
    BY <2>2
  <2> DEFINE w == [op |-> "SYSTEM", f7 |-> 8, rs2 |-> 0, rs1 |-> rs1, f3 |-> 0, rd |-> rd]
  <2> HIDE DEF f7s, rs2s
  <2>4. w \in words /\ w.rd # 0
    BY <2>1, <2>3 DEF Enc
  <2>5. w \in BadSystem
    BY <2>4 DEF BadSystem, f7s, rs2s
  <2> QED BY <2>5
<1>3. ASSUME NEW w \in BadSystem PROVE Unread(w)
  <2>1. /\ w \in words
        /\ ~(w.rd = 0 /\ w.rs1 = 0 /\ <<w.f7, w.rs2>> \in {<<0, 0>>, <<0, 1>>, <<24, 2>>, <<8, 5>>, <<8, 2>>})
        /\ ~(w.rd = 0 /\ w.f7 = 9)
    BY DEF BadSystem
  <2> HIDE DEF f7s, rs2s
  <2>2. w \in Word32 /\ w.op = "SYSTEM" /\ w.f3 = 0
    BY <1>1, <2>1, FieldDraws, EncWords
  <2>3. w.f7 \in 0 .. 127 /\ w.rs2 \in 0 .. 31
    BY <2>2 DEF Word32
  <2>4. /\ Csr(w) = 0 => w.f7 = 0 /\ w.rs2 = 0
        /\ Csr(w) = 1 => w.f7 = 0 /\ w.rs2 = 1
        /\ Csr(w) = 770 => w.f7 = 24 /\ w.rs2 = 2
        /\ Csr(w) = 261 => w.f7 = 8 /\ w.rs2 = 5
        /\ Csr(w) = 258 => w.f7 = 8 /\ w.rs2 = 2
    <3> DEFINE a == w.f7
               b == w.rs2
    <3>1. a \in Int /\ b \in Int /\ 0 <= a /\ 0 <= b /\ b <= 31 /\ Csr(w) = a * 32 + b
      BY <2>3 DEF Csr
    <3> HIDE DEF a, b
    <3>2. /\ Csr(w) = 0 => a = 0 /\ b = 0
          /\ Csr(w) = 1 => a = 0 /\ b = 1
          /\ Csr(w) = 770 => a = 24 /\ b = 2
          /\ Csr(w) = 261 => a = 8 /\ b = 5
          /\ Csr(w) = 258 => a = 8 /\ b = 2
      BY <3>1
    <3> QED BY <3>2 DEF a, b
  <2>5. w.rd = 0 /\ w.rs1 = 0 =>
          /\ ~(w.f7 = 0 /\ w.rs2 = 0) /\ ~(w.f7 = 0 /\ w.rs2 = 1) /\ ~(w.f7 = 24 /\ w.rs2 = 2)
          /\ ~(w.f7 = 8 /\ w.rs2 = 5) /\ ~(w.f7 = 8 /\ w.rs2 = 2)
    BY <2>1
  <2>6. SystemType(w, TRUE) = Illegal /\ SystemType(w, FALSE) = Illegal
    <3>1. CASE w.rd # 0
      BY <3>1 DEF SystemType
    <3>2. CASE w.rd = 0 /\ w.rs1 # 0
      BY <2>1, <3>2 DEF SystemType
    <3>3. CASE w.rd = 0 /\ w.rs1 = 0
      <4>1. Csr(w) \notin {0, 1, 770, 261, 258}
        BY <2>4, <2>5, <3>3
      <4> QED BY <2>1, <3>3, <4>1 DEF SystemType
    <3> QED BY <3>1, <3>2, <3>3
  <2>7. Owner(w) = "I" /\ BaseType(w, TRUE) = Illegal /\ BaseType(w, FALSE) = Illegal
    BY <2>2, <2>6 DEF Owner, BaseType
  <2> QED BY <2>2, <2>7, UnreadByBase
<1> QED BY <1>2, <1>3

\* The addresses of CSRs that exist on no hart.
LEMMA NoSuchCsrs ==
  /\ BadCsrAddress # {}
  /\ \A w \in BadCsrAddress :
       /\ w \in Word32
       /\ \A hasF, s, u \in BOOLEAN : ~CsrExists(Csr(w), hasF, s, u)
<1>1. BadCsrAddress # {}
  <2>1. 3075 \in BadCsrAddresses /\ 1 \in {1, 2, 3, 5, 6, 7} /\ Regs # {}
    BY FieldDraws DEF BadCsrAddresses
  <2>2. PICK r \in Regs : TRUE
    BY <2>1
  <2>3. EncodeI(3075, r, 1, r, "SYSTEM") \in BadCsrAddress
    BY <2>1 DEF BadCsrAddress
  <2> QED BY <2>3
<1>2. \A a \in BadCsrAddresses :
        /\ Between(a, -2048, 4095) /\ a % 4096 = a
        /\ \A hasF, s, u \in BOOLEAN : ~CsrExists(a, hasF, s, u)
  BY DEF BadCsrAddresses, CsrExists, SupervisorAddresses, Between
<1>3. ASSUME NEW w \in BadCsrAddress PROVE w \in Word32 /\ Csr(w) \in BadCsrAddresses
  <2>1. PICK a \in BadCsrAddresses, rs1 \in Regs, f3 \in {1, 2, 3, 5, 6, 7}, rd \in Regs :
          w = EncodeI(a, rs1, f3, rd, "SYSTEM")
    BY DEF BadCsrAddress
  <2>2. rs1 \in 0 .. 31 /\ rd \in 0 .. 31 /\ f3 \in 0 .. 7 /\ "SYSTEM" \in MajorOps
    BY DrawRanges DEF MajorOps
  <2>3. Between(a, -2048, 4095) /\ a % 4096 = a
    BY <1>2
  <2>4. w \in Word32 /\ Csr(w) = a
    BY <2>1, <2>2, <2>3, EncodeIWord
  <2> QED BY <2>4
<1> QED BY <1>1, <1>2, <1>3

\* The words of OP_FP.
LEMMA FpSlot ==
  ASSUME NEW f7s, NEW rs2s, NEW f3s, f7s # {}, rs2s # {}, f3s # {},
         \A i \in f7s : Between(i, 0, 127), \A i \in rs2s : Between(i, 0, 31),
         \A i \in f3s : Between(i, 0, 7)
  PROVE  /\ Enc(f7s, rs2s, Regs, f3s, Regs, "OP_FP") # {}
         /\ \A w \in Enc(f7s, rs2s, Regs, f3s, Regs, "OP_FP") :
              /\ w \in Word32 /\ w.op = "OP_FP" /\ w.f7 \in f7s /\ w.rs2 \in rs2s /\ w.f3 \in f3s
<1>1. "OP_FP" \in MajorOps
  BY DEF MajorOps
<1>2. Enc(f7s, rs2s, Regs, f3s, Regs, "OP_FP") # {}
  BY FieldDraws, EncSome
<1>3. ASSUME NEW w \in Enc(f7s, rs2s, Regs, f3s, Regs, "OP_FP")
      PROVE  w \in Word32 /\ w.op = "OP_FP" /\ w.f7 \in f7s /\ w.rs2 \in rs2s /\ w.f3 \in f3s
  BY <1>1, FieldDraws, EncWords
<1> QED BY <1>2, <1>3

\* A word of the F decoder that it does not read is unread.
LEMMA UnreadByF ==
  ASSUME NEW w \in Word32, w.op = "OP_FP",
         \/ OpFpType(w) = Illegal
         \/ UsesRm(OpFpType(w)) /\ w.f3 \in {5, 6}
  PROVE  Unread(w)
<1>1. FormatType(w) = OpFpType(w)
  BY DEF FormatType
<1>2. FType(w) = Illegal
  BY <1>1 DEF FType
<1>3. \A s \in BOOLEAN : TypeBy(Owner(w), w, s) = FType(w)
  BY DEF Owner, TypeBy
<1> QED BY <1>2, <1>3 DEF Unread

\* The slots of OP_FP that belong to nothing.
LEMMA FpSlots ==
  /\ BadFpFunct7 # {} /\ \A w \in BadFpFunct7 : Unread(w)
  /\ BadFpRm # {} /\ \A w \in BadFpRm : Unread(w)
  /\ BadFsqrt # {} /\ \A w \in BadFsqrt : Unread(w)
  /\ BadFcvt # {} /\ \A w \in BadFcvt : Unread(w)
  /\ BadFmvFclass # {} /\ \A w \in BadFmvFclass : Unread(w)
  /\ BadFcmp # {} /\ \A w \in BadFcmp : Unread(w)
  /\ BadFminmax # {} /\ \A w \in BadFminmax : Unread(w)
  /\ BadFsgnj # {} /\ \A w \in BadFsgnj : Unread(w)
  /\ BadFmvWx # {} /\ \A w \in BadFmvWx : Unread(w)
<1> DEFINE NZ == Regs \ {0}
<1>1. /\ \A i \in {1, 9, 13, 45, 17, 127} : Between(i, 0, 127)
      /\ \A i \in {0, 8, 44, 96, 104} : Between(i, 0, 127)
      /\ \A i \in {44} : Between(i, 0, 127)
      /\ \A i \in {96, 104} : Between(i, 0, 127)
      /\ \A i \in {112} : Between(i, 0, 127)
      /\ \A i \in {80} : Between(i, 0, 127)
      /\ \A i \in {20} : Between(i, 0, 127)
      /\ \A i \in {16} : Between(i, 0, 127)
      /\ \A i \in {120} : Between(i, 0, 127)
  BY DEF Between
<1>2. /\ \A i \in {5, 6} : Between(i, 0, 7)
      /\ \A i \in {0, 1} : Between(i, 0, 7)
      /\ \A i \in {0} : Between(i, 0, 7)
      /\ \A i \in NZ : Between(i, 0, 31) /\ i # 0
      /\ NZ # {}
  BY FieldDraws DEF Between
<1> HIDE DEF NZ
<1>3. BadFpFunct7 # {} /\ \A w \in BadFpFunct7 : Unread(w)
  <2> DEFINE slot1 == Enc({1, 9, 13, 45, 17, 127}, Regs, Regs, Rms, Regs, "OP_FP")
  <2>12. /\ slot1 # {}
          /\ \A w \in slot1 :
               w \in Word32 /\ w.op = "OP_FP" /\ w.f7 \in {1, 9, 13, 45, 17, 127} /\ w.rs2 \in Regs /\ w.f3 \in Rms
    BY <1>1, <1>2, FieldDraws, FpSlot
  <2>13. \A w \in slot1 : Unread(w)
    <3> SUFFICES ASSUME NEW w \in slot1 PROVE Unread(w)
      OBVIOUS
    <3> HIDE DEF slot1
    <3>1. w \in Word32 /\ w.op = "OP_FP" /\ w.f7 \in {1, 9, 13, 45, 17, 127} /\ w.rs2 \in Regs /\ w.f3 \in Rms
      BY <2>12
    <3>3. OpFpType(w) = Illegal
      BY <3>1 DEF OpFpType, Switch, No
    <3> QED BY <3>1, <3>3, UnreadByF
  <2> QED BY <2>12, <2>13 DEF BadFpFunct7, NZ
<1>4. BadFpRm # {} /\ \A w \in BadFpRm : Unread(w)
  <2> DEFINE slot1 == Enc({0, 8, 44, 96, 104}, Regs, Regs, {5, 6}, Regs, "OP_FP")
  <2>12. /\ slot1 # {}
          /\ \A w \in slot1 :
               w \in Word32 /\ w.op = "OP_FP" /\ w.f7 \in {0, 8, 44, 96, 104} /\ w.rs2 \in Regs /\ w.f3 \in {5, 6}
    BY <1>1, <1>2, FieldDraws, FpSlot
  <2>13. \A w \in slot1 : Unread(w)
    <3> SUFFICES ASSUME NEW w \in slot1 PROVE Unread(w)
      OBVIOUS
    <3> HIDE DEF slot1
    <3>1. w \in Word32 /\ w.op = "OP_FP" /\ w.f7 \in {0, 8, 44, 96, 104} /\ w.rs2 \in Regs /\ w.f3 \in {5, 6}
      BY <2>12
    <3>2. OpFpType(w) = Illegal \/ OpFpType(w) \in
            {"FADD_S", "FMUL_S", "FSQRT_S", "FCVT_W_S", "FCVT_WU_S", "FCVT_S_W", "FCVT_S_WU"}
      <4>1. /\ w.f7 = 0 => OpFpType(w) = "FADD_S"
            /\ w.f7 = 8 => OpFpType(w) = "FMUL_S"
            /\ w.f7 = 44 /\ w.rs2 = 0 => OpFpType(w) = "FSQRT_S"
            /\ w.f7 = 96 /\ w.rs2 = 0 => OpFpType(w) = "FCVT_W_S"
            /\ w.f7 = 96 /\ w.rs2 = 1 => OpFpType(w) = "FCVT_WU_S"
            /\ w.f7 = 104 /\ w.rs2 = 0 => OpFpType(w) = "FCVT_S_W"
            /\ w.f7 = 104 /\ w.rs2 = 1 => OpFpType(w) = "FCVT_S_WU"
        BY DEF OpFpType, Switch, No
      <4>2. CASE (w.f7 = 44 /\ w.rs2 # 0) \/ (w.f7 \in {96, 104} /\ w.rs2 \notin {0, 1})
        <5>1. OpFpType(w) = Illegal
          BY <4>2 DEF OpFpType
        <5> QED BY <5>1
      <4> QED BY <3>1, <4>1, <4>2
    <3>3. OpFpType(w) = Illegal \/ UsesRm(OpFpType(w))
      BY <3>2 DEF UsesRm
    <3> QED BY <3>1, <3>3, UnreadByF
  <2> QED BY <2>12, <2>13 DEF BadFpRm, NZ
<1>5. BadFsqrt # {} /\ \A w \in BadFsqrt : Unread(w)
  <2> DEFINE slot1 == Enc({44}, NZ, Regs, Rms, Regs, "OP_FP")
  <2>12. /\ slot1 # {}
          /\ \A w \in slot1 :
               w \in Word32 /\ w.op = "OP_FP" /\ w.f7 \in {44} /\ w.rs2 \in NZ /\ w.f3 \in Rms
    BY <1>1, <1>2, FieldDraws, FpSlot
  <2>13. \A w \in slot1 : Unread(w)
    <3> SUFFICES ASSUME NEW w \in slot1 PROVE Unread(w)
      OBVIOUS
    <3> HIDE DEF slot1
    <3>1. w \in Word32 /\ w.op = "OP_FP" /\ w.f7 \in {44} /\ w.rs2 \in NZ /\ w.f3 \in Rms
      BY <2>12
    <3>2. w.rs2 # 0
      BY <1>2, <3>1
    <3>3. OpFpType(w) = Illegal
      BY <3>1, <3>2 DEF OpFpType, Switch, No
    <3> QED BY <3>1, <3>3, UnreadByF
  <2> QED BY <2>12, <2>13 DEF BadFsqrt, NZ
<1>6. BadFcvt # {} /\ \A w \in BadFcvt : Unread(w)
  <2> DEFINE slot1 == Enc({96, 104}, 2 .. 31, Regs, Rms, Regs, "OP_FP")
  <2>11. 2 .. 31 # {} /\ \A i \in 2 .. 31 : Between(i, 0, 31) /\ i \notin {0, 1}
    BY DEF Between
  <2>12. /\ slot1 # {}
          /\ \A w \in slot1 :
               w \in Word32 /\ w.op = "OP_FP" /\ w.f7 \in {96, 104} /\ w.rs2 \in 2 .. 31 /\ w.f3 \in Rms
    BY <1>1, <1>2, FieldDraws, <2>11, FpSlot
  <2>13. \A w \in slot1 : Unread(w)
    <3> SUFFICES ASSUME NEW w \in slot1 PROVE Unread(w)
      OBVIOUS
    <3> HIDE DEF slot1
    <3>1. w \in Word32 /\ w.op = "OP_FP" /\ w.f7 \in {96, 104} /\ w.rs2 \in 2 .. 31 /\ w.f3 \in Rms
      BY <2>12
    <3>2. w.rs2 # 0 /\ w.rs2 # 1
      BY <2>11, <3>1
    <3>3. OpFpType(w) = Illegal
      BY <3>1, <3>2 DEF OpFpType, Switch, No
    <3> QED BY <3>1, <3>3, UnreadByF
  <2> QED BY <2>12, <2>13 DEF BadFcvt, NZ
<1>7. BadFmvFclass # {} /\ \A w \in BadFmvFclass : Unread(w)
  <2> DEFINE slot1 == Enc({112}, Regs, Regs, 2 .. 7, Regs, "OP_FP")
  <2>11. 2 .. 7 # {} /\ \A i \in 2 .. 7 : Between(i, 0, 7)
    BY DEF Between
  <2>12. /\ slot1 # {}
          /\ \A w \in slot1 :
               w \in Word32 /\ w.op = "OP_FP" /\ w.f7 \in {112} /\ w.rs2 \in Regs /\ w.f3 \in 2 .. 7
    BY <1>1, <1>2, FieldDraws, <2>11, FpSlot
  <2>13. \A w \in slot1 : Unread(w)
    <3> SUFFICES ASSUME NEW w \in slot1 PROVE Unread(w)
      OBVIOUS
    <3> HIDE DEF slot1
    <3>1. w \in Word32 /\ w.op = "OP_FP" /\ w.f7 \in {112} /\ w.rs2 \in Regs /\ w.f3 \in 2 .. 7
      BY <2>12
    <3>2. w.f3 \in {2, 3, 4, 5, 6, 7}
      BY <3>1
    <3>3. OpFpType(w) = Illegal
      BY <3>1, <3>2 DEF OpFpType, Switch, No
    <3> QED BY <3>1, <3>3, UnreadByF
  <2> DEFINE slot2 == Enc({112}, NZ, Regs, {0, 1}, Regs, "OP_FP")
  <2>22. /\ slot2 # {}
          /\ \A w \in slot2 :
               w \in Word32 /\ w.op = "OP_FP" /\ w.f7 \in {112} /\ w.rs2 \in NZ /\ w.f3 \in {0, 1}
    BY <1>1, <1>2, FieldDraws, FpSlot
  <2>23. \A w \in slot2 : Unread(w)
    <3> SUFFICES ASSUME NEW w \in slot2 PROVE Unread(w)
      OBVIOUS
    <3> HIDE DEF slot2
    <3>1. w \in Word32 /\ w.op = "OP_FP" /\ w.f7 \in {112} /\ w.rs2 \in NZ /\ w.f3 \in {0, 1}
      BY <2>22
    <3>2. w.rs2 # 0
      BY <1>2, <3>1
    <3>3. OpFpType(w) = Illegal
      BY <3>1, <3>2 DEF OpFpType, Switch, No
    <3> QED BY <3>1, <3>3, UnreadByF
  <2> QED BY <2>12, <2>13, <2>22, <2>23 DEF BadFmvFclass, NZ
<1>8. BadFcmp # {} /\ \A w \in BadFcmp : Unread(w)
  <2> DEFINE slot1 == Enc({80}, Regs, Regs, 3 .. 7, Regs, "OP_FP")
  <2>11. 3 .. 7 # {} /\ \A i \in 3 .. 7 : Between(i, 0, 7)
    BY DEF Between
  <2>12. /\ slot1 # {}
          /\ \A w \in slot1 :
               w \in Word32 /\ w.op = "OP_FP" /\ w.f7 \in {80} /\ w.rs2 \in Regs /\ w.f3 \in 3 .. 7
    BY <1>1, <1>2, FieldDraws, <2>11, FpSlot
  <2>13. \A w \in slot1 : Unread(w)
    <3> SUFFICES ASSUME NEW w \in slot1 PROVE Unread(w)
      OBVIOUS
    <3> HIDE DEF slot1
    <3>1. w \in Word32 /\ w.op = "OP_FP" /\ w.f7 \in {80} /\ w.rs2 \in Regs /\ w.f3 \in 3 .. 7
      BY <2>12
    <3>2. w.f3 \in {3, 4, 5, 6, 7}
      BY <3>1
    <3>3. OpFpType(w) = Illegal
      BY <3>1, <3>2 DEF OpFpType, Switch, No
    <3> QED BY <3>1, <3>3, UnreadByF
  <2> QED BY <2>12, <2>13 DEF BadFcmp, NZ
<1>9. BadFminmax # {} /\ \A w \in BadFminmax : Unread(w)
  <2> DEFINE slot1 == Enc({20}, Regs, Regs, 2 .. 7, Regs, "OP_FP")
  <2>11. 2 .. 7 # {} /\ \A i \in 2 .. 7 : Between(i, 0, 7)
    BY DEF Between
  <2>12. /\ slot1 # {}
          /\ \A w \in slot1 :
               w \in Word32 /\ w.op = "OP_FP" /\ w.f7 \in {20} /\ w.rs2 \in Regs /\ w.f3 \in 2 .. 7
    BY <1>1, <1>2, FieldDraws, <2>11, FpSlot
  <2>13. \A w \in slot1 : Unread(w)
    <3> SUFFICES ASSUME NEW w \in slot1 PROVE Unread(w)
      OBVIOUS
    <3> HIDE DEF slot1
    <3>1. w \in Word32 /\ w.op = "OP_FP" /\ w.f7 \in {20} /\ w.rs2 \in Regs /\ w.f3 \in 2 .. 7
      BY <2>12
    <3>2. w.f3 \in {2, 3, 4, 5, 6, 7}
      BY <3>1
    <3>3. OpFpType(w) = Illegal
      BY <3>1, <3>2 DEF OpFpType, Switch, No
    <3> QED BY <3>1, <3>3, UnreadByF
  <2> QED BY <2>12, <2>13 DEF BadFminmax, NZ
<1>10. BadFsgnj # {} /\ \A w \in BadFsgnj : Unread(w)
  <2> DEFINE slot1 == Enc({16}, Regs, Regs, 3 .. 7, Regs, "OP_FP")
  <2>11. 3 .. 7 # {} /\ \A i \in 3 .. 7 : Between(i, 0, 7)
    BY DEF Between
  <2>12. /\ slot1 # {}
          /\ \A w \in slot1 :
               w \in Word32 /\ w.op = "OP_FP" /\ w.f7 \in {16} /\ w.rs2 \in Regs /\ w.f3 \in 3 .. 7
    BY <1>1, <1>2, FieldDraws, <2>11, FpSlot
  <2>13. \A w \in slot1 : Unread(w)
    <3> SUFFICES ASSUME NEW w \in slot1 PROVE Unread(w)
      OBVIOUS
    <3> HIDE DEF slot1
    <3>1. w \in Word32 /\ w.op = "OP_FP" /\ w.f7 \in {16} /\ w.rs2 \in Regs /\ w.f3 \in 3 .. 7
      BY <2>12
    <3>2. w.f3 \in {3, 4, 5, 6, 7}
      BY <3>1
    <3>3. OpFpType(w) = Illegal
      BY <3>1, <3>2 DEF OpFpType, Switch, No
    <3> QED BY <3>1, <3>3, UnreadByF
  <2> QED BY <2>12, <2>13 DEF BadFsgnj, NZ
<1>11. BadFmvWx # {} /\ \A w \in BadFmvWx : Unread(w)
  <2> DEFINE slot1 == Enc({120}, Regs, Regs, 1 .. 7, Regs, "OP_FP")
  <2>11. 1 .. 7 # {} /\ \A i \in 1 .. 7 : Between(i, 0, 7)
    BY DEF Between
  <2>12. /\ slot1 # {}
          /\ \A w \in slot1 :
               w \in Word32 /\ w.op = "OP_FP" /\ w.f7 \in {120} /\ w.rs2 \in Regs /\ w.f3 \in 1 .. 7
    BY <1>1, <1>2, FieldDraws, <2>11, FpSlot
  <2>13. \A w \in slot1 : Unread(w)
    <3> SUFFICES ASSUME NEW w \in slot1 PROVE Unread(w)
      OBVIOUS
    <3> HIDE DEF slot1
    <3>1. w \in Word32 /\ w.op = "OP_FP" /\ w.f7 \in {120} /\ w.rs2 \in Regs /\ w.f3 \in 1 .. 7
      BY <2>12
    <3>2. w.f3 \in {1, 2, 3, 4, 5, 6, 7}
      BY <3>1
    <3>3. OpFpType(w) = Illegal
      BY <3>1, <3>2 DEF OpFpType, Switch, No
    <3> QED BY <3>1, <3>3, UnreadByF
  <2> DEFINE slot2 == Enc({120}, NZ, Regs, {0}, Regs, "OP_FP")
  <2>22. /\ slot2 # {}
          /\ \A w \in slot2 :
               w \in Word32 /\ w.op = "OP_FP" /\ w.f7 \in {120} /\ w.rs2 \in NZ /\ w.f3 \in {0}
    BY <1>1, <1>2, FieldDraws, FpSlot
  <2>23. \A w \in slot2 : Unread(w)
    <3> SUFFICES ASSUME NEW w \in slot2 PROVE Unread(w)
      OBVIOUS
    <3> HIDE DEF slot2
    <3>1. w \in Word32 /\ w.op = "OP_FP" /\ w.f7 \in {120} /\ w.rs2 \in NZ /\ w.f3 \in {0}
      BY <2>22
    <3>2. w.rs2 # 0
      BY <1>2, <3>1
    <3>3. OpFpType(w) = Illegal
      BY <3>1, <3>2 DEF OpFpType, Switch, No
    <3> QED BY <3>1, <3>3, UnreadByF
  <2> QED BY <2>12, <2>13, <2>22, <2>23 DEF BadFmvWx, NZ
<1> QED BY <1>3, <1>4, <1>5, <1>6, <1>7, <1>8, <1>9, <1>10, <1>11

\* The formats of a fused instruction that are not single precision.
LEMMA FusedSlots == BadMaddFmt # {} /\ \A w \in BadMaddFmt : Unread(w)
<1> DEFINE ops == {"MADD", "MSUB", "NMADD", "NMSUB"}
           f7s == {rs3 * 4 + fmt : rs3 \in Regs, fmt \in 1 .. 3}
<1>1. BadMaddFmt = UNION {Enc(f7s, Regs, Regs, Rms, Regs, op) : op \in ops}
  BY DEF BadMaddFmt
<1>2. ASSUME NEW i \in f7s PROVE Between(i, 0, 127) /\ i % 4 # 0
  <2>1. PICK rs3 \in Regs, fmt \in 1 .. 3 : i = rs3 * 4 + fmt
    OBVIOUS
  <2>2. Between(rs3, 0, 31)
    BY FieldDraws
  <2> QED BY <2>1, <2>2 DEF Between
<1>3. f7s # {}
  <2>1. PICK r \in Regs : TRUE
    BY FieldDraws
  <2>2. r * 4 + 1 \in f7s
    OBVIOUS
  <2> QED BY <2>2
<1> HIDE DEF f7s
<1>4. ASSUME NEW op \in ops, NEW w \in Enc(f7s, Regs, Regs, Rms, Regs, op) PROVE Unread(w)
  <2>1. op \in MajorOps /\ (\A i \in Rms : Between(i, 0, 7)) /\ (\A i \in f7s : Between(i, 0, 127))
    BY <1>2, FieldDraws DEF MajorOps
  <2>2. w \in Word32 /\ w.op = op /\ w.f7 \in f7s
    BY <2>1, FieldDraws, EncWords
  <2>3. w.f7 % 4 # 0
    BY <1>2, <2>2
  <2> QED BY <2>2, <2>3 DEF Unread, Owner, TypeBy, FType, FormatType
<1>5. Enc(f7s, Regs, Regs, Rms, Regs, "MADD") # {}
  BY <1>3, FieldDraws, EncSome
<1> QED BY <1>1, <1>4, <1>5

\* The values of funct5 that are no atomic, and LR with a source.
LEMMA AmoSlots ==
  /\ BadAmoFunct5 # {} /\ \A w \in BadAmoFunct5 : Unread(w)
  /\ BadLr # {} /\ \A w \in BadLr : Unread(w)
<1> DEFINE f5s == (0 .. 31) \ LegalFunct5
           f7s == {f5 * 4 + o : f5 \in f5s, o \in AmoBits}
           lrs == {8 + o : o \in AmoBits}
           NZ == Regs \ {0}
<1>1. ASSUME NEW i \in f7s PROVE Between(i, 0, 127) /\ i \div 4 \notin LegalFunct5
  <2>1. PICK f5 \in f5s, o \in AmoBits : i = f5 * 4 + o
    OBVIOUS
  <2>2. o \in 0 .. 3 /\ f5 \in 0 .. 31 /\ f5 \notin LegalFunct5
    BY DrawRanges
  <2>3. i \div 4 = f5 /\ Between(i, 0, 127)
    BY <2>1, <2>2 DEF Between
  <2> QED BY <2>2, <2>3
<1>2. ASSUME NEW i \in lrs PROVE Between(i, 0, 127) /\ i \div 4 = 2
  <2>1. PICK o \in AmoBits : i = 8 + o
    OBVIOUS
  <2>2. o \in 0 .. 3
    BY DrawRanges
  <2> QED BY <2>1, <2>2 DEF Between
<1>3. f7s # {} /\ lrs # {}
  <2>1. PICK o \in AmoBits : TRUE
    BY DrawAssumption
  <2>2. 31 \in f5s
    BY DEF LegalFunct5
  <2>3. 31 * 4 + o \in f7s /\ 8 + o \in lrs
    BY <2>1, <2>2
  <2> HIDE DEF f7s, lrs
  <2> QED BY <2>3
<1>4. /\ \A i \in {2} : Between(i, 0, 7)
      /\ "AMO" \in MajorOps
      /\ \A i \in NZ : Between(i, 0, 31) /\ i # 0
      /\ NZ # {}
  BY FieldDraws DEF MajorOps, Between
<1>5. /\ BadAmoFunct5 = Enc(f7s, Regs, Regs, {2}, Regs, "AMO")
      /\ BadLr = Enc(lrs, NZ, Regs, {2}, Regs, "AMO")
  BY DEF BadAmoFunct5, BadLr
<1> HIDE DEF f7s, lrs, NZ, f5s
<1>6. BadAmoFunct5 # {} /\ BadLr # {}
  BY <1>3, <1>4, <1>5, FieldDraws, EncSome
<1>7. ASSUME NEW w \in BadAmoFunct5 PROVE Unread(w)
  <2>1. w \in Word32 /\ w.op = "AMO" /\ w.f7 \in f7s
    BY <1>1, <1>4, <1>5, FieldDraws, EncWords
  <2>2. Funct5(w) \notin LegalFunct5
    BY <1>1, <2>1 DEF Funct5
  <2>3. AType(w) = Illegal
    BY <2>2 DEF AType, LegalFunct5
  <2> QED BY <2>1, <2>3 DEF Unread, Owner, TypeBy
<1>8. ASSUME NEW w \in BadLr PROVE Unread(w)
  <2>1. w \in Word32 /\ w.op = "AMO" /\ w.f7 \in lrs /\ w.rs2 \in NZ
    BY <1>2, <1>4, <1>5, FieldDraws, EncWords
  <2>2. Funct5(w) = 2 /\ w.rs2 # 0
    BY <1>2, <1>4, <2>1 DEF Funct5
  <2>3. AType(w) = Illegal
    BY <2>2 DEF AType
  <2> QED BY <2>1, <2>3 DEF Unread, Owner, TypeBy
<1> QED BY <1>6, <1>7, <1>8

\* The word has no reader, or is a CSR instruction of a CSR of no hart.
Refused(c, w) ==
  \/ Unread(w)
  \/ c = "csr_addr" /\ w \in Word32 /\ \A hasF, s, u \in BOOLEAN : ~CsrExists(Csr(w), hasF, s, u)

\* Every class of 32-bit words has a word, and its words are refused.
LEMMA WordClasses ==
  ASSUME NEW c \in DOMAIN Classes32
  PROVE  Classes32[c] # {} /\ \A w \in Classes32[c] : Refused(c, w)
<1>1. c \in {"all_ones", "reserved_major", "load", "store", "branch", "jalr", "slli", "srli", "op",
             "misc_mem", "system", "system4", "csr_addr", "fp_funct7", "fp_rm", "fsqrt", "fcvt",
             "fmv_fclass", "fcmp", "fminmax", "fsgnj", "fmv_wx", "load_fp", "store_fp", "madd_fmt",
             "amo_funct3", "amo_funct5", "lr"}
  BY DEF Classes32
<1>2. CASE c \in {"all_ones", "reserved_major", "load", "store", "branch", "jalr", "misc_mem",
                  "system4", "load_fp", "store_fp", "amo_funct3"}
  BY <1>2, RandomClasses DEF Classes32, Refused
<1>3. CASE c \in {"slli", "srli", "op", "system"}
  BY <1>3, ShiftSlots, RegisterSlots, SystemSlots DEF Classes32, Refused
<1>4. CASE c = "csr_addr"
  BY <1>4, NoSuchCsrs DEF Classes32, Refused
<1>5. CASE c \in {"fp_funct7", "fp_rm", "fsqrt", "fcvt", "fmv_fclass", "fcmp", "fminmax", "fsgnj", "fmv_wx"}
  BY <1>5, FpSlots DEF Classes32, Refused
<1>6. CASE c \in {"madd_fmt", "amo_funct5", "lr"}
  BY <1>6, FusedSlots, AmoSlots DEF Classes32, Refused
<1> QED BY <1>1, <1>2, <1>3, <1>4, <1>5, <1>6

\* An unread word is illegal on a hart with any extensions.
LEMMA UnreadTraps ==
  ASSUME NEW w, Unread(w), NEW enabled \in SUBSET Extensions, NEW s \in BOOLEAN
  PROVE  Dispatch(w, enabled, s) = Illegal
<1>1. w \in Word32 /\ TypeBy(Owner(w), w, s) = Illegal
  BY DEF Unread
<1>2. Classes(w, s) = {}
  <2>1. SUFFICES ASSUME NEW x \in Classes(w, s) PROVE FALSE
    OBVIOUS
  <2>2. x = Owner(w) /\ TypeBy(x, w, s) # Illegal
    BY <1>1, ReadsOwned DEF Classes
  <2> QED BY <1>1, <2>2
<1>3. DispatchedByItsOwner(w, enabled, s)
  BY <1>1, DispatchIsExact
<1> QED BY <1>2, <1>3 DEF DispatchedByItsOwner

(***************************************************************************)
(* Scattered and gathered immediates of the compressed formats.            *)
(***************************************************************************)
\* A piece of a gathered immediate, and of a scattered one.
GatherTerm(w, piece) == Field(w, piece[1], piece[2]) * 2^piece[3]
\* And of a scattered one.
ScatterTerm(imm, piece) == Piece(imm, piece[1], piece[2]) * 2^piece[3]

\* f adds up the first n pieces of a gathered immediate.
GatherSteps(w, layout, f, n) ==
  /\ f[0] = 0
  /\ \A i \in 1 .. n : f[i] = f[i - 1] + GatherTerm(w, layout[i])
  /\ Gather(w, layout) = f[n]

\* f adds up the first n pieces of a scattered immediate.
ScatterSteps(imm, pieces, f, n) ==
  /\ f[0] = 0
  /\ \A i \in 1 .. n : f[i] = f[i - 1] + ScatterTerm(imm, pieces[i])
  /\ Scatter(imm, pieces) = f[n]

\* A gathered immediate is the sum of its pieces.
LEMMA GatherSum ==
  ASSUME NEW w, NEW layout, NEW n, n \in Nat, Len(layout) = n
  PROVE  \E f : GatherSteps(w, layout, f, n)
<1> DEFINE T == [i \in 1 .. n |-> Field(w, layout[i][1], layout[i][2]) * 2^layout[i][3]]
           Sum(f) == [i \in 0 .. n |->
                        IF i = 0 THEN 0
                        ELSE f[i - 1] + Field(w, layout[i][1], layout[i][2]) * 2^layout[i][3]]
<1>1. PICK f : f = [i \in 0 .. n |-> IF i = 0 THEN 0 ELSE f[i - 1] + T[i]]
  BY SumExists
<1>2. \A h : Sum(h) = [i \in 0 .. n |-> IF i = 0 THEN 0 ELSE h[i - 1] + T[i]]
  <2>1. \A i \in 0 .. n : i # 0 => T[i] = Field(w, layout[i][1], layout[i][2]) * 2^layout[i][3]
    OBVIOUS
  <2> HIDE DEF T
  <2> QED BY <2>1
<1>3. \A i \in 1 .. n : T[i] = GatherTerm(w, layout[i])
  BY DEF GatherTerm
<1>4. f = Sum(f)
  <2> HIDE DEF Sum, T
  <2> QED BY <1>1, <1>2
<1> DEFINE g == CHOOSE h : h = Sum(h)
<1>5. g = Sum(g)
  <2> HIDE DEF Sum
  <2> QED BY <1>4
<1>6. Gather(w, layout) = g[n]
  BY DEF Gather
<1> HIDE DEF g, Sum, T
<1>7. g = [i \in 0 .. n |-> IF i = 0 THEN 0 ELSE g[i - 1] + T[i]]
  BY <1>2, <1>5
<1>8. g[0] = 0 /\ \A i \in 1 .. n : g[i] = g[i - 1] + T[i]
  BY <1>7
<1>9. \A i \in 1 .. n : g[i] = g[i - 1] + GatherTerm(w, layout[i])
  BY <1>3, <1>8
<1> QED BY <1>6, <1>8, <1>9 DEF GatherSteps

\* A scattered immediate is the sum of its pieces.
LEMMA ScatterSum ==
  ASSUME NEW imm, NEW pieces, NEW n, n \in Nat, Len(pieces) = n
  PROVE  \E f : ScatterSteps(imm, pieces, f, n)
<1> DEFINE T == [i \in 1 .. n |-> Piece(imm, pieces[i][1], pieces[i][2]) * 2^pieces[i][3]]
           Sum(f) == [i \in 0 .. n |->
                        IF i = 0 THEN 0
                        ELSE f[i - 1] + Piece(imm, pieces[i][1], pieces[i][2]) * 2^pieces[i][3]]
<1>1. PICK f : f = [i \in 0 .. n |-> IF i = 0 THEN 0 ELSE f[i - 1] + T[i]]
  BY SumExists
<1>2. \A h : Sum(h) = [i \in 0 .. n |-> IF i = 0 THEN 0 ELSE h[i - 1] + T[i]]
  <2>1. \A i \in 0 .. n : i # 0 => T[i] = Piece(imm, pieces[i][1], pieces[i][2]) * 2^pieces[i][3]
    OBVIOUS
  <2> HIDE DEF T
  <2> QED BY <2>1
<1>3. \A i \in 1 .. n : T[i] = ScatterTerm(imm, pieces[i])
  BY DEF ScatterTerm
<1>4. f = Sum(f)
  <2> HIDE DEF Sum, T
  <2> QED BY <1>1, <1>2
<1> DEFINE g == CHOOSE h : h = Sum(h)
<1>5. g = Sum(g)
  <2> HIDE DEF Sum
  <2> QED BY <1>4
<1>6. Scatter(imm, pieces) = g[n]
  BY DEF Scatter
<1> HIDE DEF g, Sum, T
<1>7. g = [i \in 0 .. n |-> IF i = 0 THEN 0 ELSE g[i - 1] + T[i]]
  BY <1>2, <1>5
<1>8. g[0] = 0 /\ \A i \in 1 .. n : g[i] = g[i - 1] + T[i]
  BY <1>7
<1>9. \A i \in 1 .. n : g[i] = g[i - 1] + ScatterTerm(imm, pieces[i])
  BY <1>3, <1>8
<1> QED BY <1>6, <1>8, <1>9 DEF ScatterSteps
\* The powers of two of the layouts.
LEMMA Powers ==
  /\ 2^0 = 1 /\ 2^1 = 2 /\ 2^2 = 4 /\ 2^3 = 8 /\ 2^4 = 16 /\ 2^5 = 32 /\ 2^6 = 64
  /\ 2^7 = 128 /\ 2^8 = 256 /\ 2^9 = 512 /\ 2^10 = 1024 /\ 2^11 = 2048 /\ 2^12 = 4096
  /\ 2^13 = 8192
OBVIOUS

\* The sums that the layouts of the decoders stand for.
LEMMA GatherLayouts ==
  ASSUME NEW w \in Int
  PROVE  /\ Gather(w, AddSpnLayout) = Field(w, 5, 1) * 8 + Field(w, 6, 1) * 4 + Field(w, 7, 4) * 64 + Field(w, 11, 2) * 16
         /\ Gather(w, WordLayout) = Field(w, 5, 1) * 64 + Field(w, 6, 1) * 4 + Field(w, 10, 3) * 8
         /\ Gather(w, ImmLayout) = Field(w, 2, 5) + Field(w, 12, 1) * 32
         /\ Gather(w, AddSpLayout) = Field(w, 2, 1) * 32 + Field(w, 3, 2) * 128 + Field(w, 5, 1) * 64 + Field(w, 6, 1) * 16 + Field(w, 12, 1) * 512
         /\ Gather(w, LoadSpLayout) = Field(w, 2, 2) * 64 + Field(w, 4, 3) * 4 + Field(w, 12, 1) * 32
         /\ Gather(w, StoreSpLayout) = Field(w, 7, 2) * 64 + Field(w, 9, 4) * 4
         /\ Gather(w, BranchLayout) = Field(w, 2, 1) * 32 + Field(w, 3, 2) * 2 + Field(w, 5, 2) * 64 + Field(w, 10, 2) * 8 + Field(w, 12, 1) * 256
         /\ Gather(w, JumpLayout) = Field(w, 2, 1) * 32 + Field(w, 3, 3) * 2 + Field(w, 6, 1) * 128 + Field(w, 7, 1) * 64 + Field(w, 8, 1) * 1024 + Field(w, 9, 2) * 256 + Field(w, 11, 1) * 16 + Field(w, 12, 1) * 2048
<1>1. Gather(w, AddSpnLayout) = Field(w, 5, 1) * 8 + Field(w, 6, 1) * 4 + Field(w, 7, 4) * 64 + Field(w, 11, 2) * 16
  <2>1. Len(AddSpnLayout) = 4 /\ AddSpnLayout[1] = <<5, 1, 3>> /\ AddSpnLayout[2] = <<6, 1, 2>> /\ AddSpnLayout[3] = <<7, 4, 6>> /\ AddSpnLayout[4] = <<11, 2, 4>>
    BY DEF AddSpnLayout
  <2>0. Len(AddSpnLayout) = 4
    BY <2>1
  <2>2. PICK f : GatherSteps(w, AddSpnLayout, f, 4)
    BY <2>0, GatherSum
  <2>3. /\ f[1] = f[0] + GatherTerm(w, <<5, 1, 3>>)
        /\ f[2] = f[1] + GatherTerm(w, <<6, 1, 2>>)
        /\ f[3] = f[2] + GatherTerm(w, <<7, 4, 6>>)
        /\ f[4] = f[3] + GatherTerm(w, <<11, 2, 4>>)
    BY <2>1, <2>2 DEF GatherSteps
  <2>4. /\ GatherTerm(w, <<5, 1, 3>>) = Field(w, 5, 1) * 8 /\ Field(w, 5, 1) * 8 \in Int
        /\ GatherTerm(w, <<6, 1, 2>>) = Field(w, 6, 1) * 4 /\ Field(w, 6, 1) * 4 \in Int
        /\ GatherTerm(w, <<7, 4, 6>>) = Field(w, 7, 4) * 64 /\ Field(w, 7, 4) * 64 \in Int
        /\ GatherTerm(w, <<11, 2, 4>>) = Field(w, 11, 2) * 16 /\ Field(w, 11, 2) * 16 \in Int
    BY Powers DEF GatherTerm, Field
  <2> QED BY <2>2, <2>3, <2>4 DEF GatherSteps
<1>2. Gather(w, WordLayout) = Field(w, 5, 1) * 64 + Field(w, 6, 1) * 4 + Field(w, 10, 3) * 8
  <2>1. Len(WordLayout) = 3 /\ WordLayout[1] = <<5, 1, 6>> /\ WordLayout[2] = <<6, 1, 2>> /\ WordLayout[3] = <<10, 3, 3>>
    BY DEF WordLayout
  <2>0. Len(WordLayout) = 3
    BY <2>1
  <2>2. PICK f : GatherSteps(w, WordLayout, f, 3)
    BY <2>0, GatherSum
  <2>3. /\ f[1] = f[0] + GatherTerm(w, <<5, 1, 6>>)
        /\ f[2] = f[1] + GatherTerm(w, <<6, 1, 2>>)
        /\ f[3] = f[2] + GatherTerm(w, <<10, 3, 3>>)
    BY <2>1, <2>2 DEF GatherSteps
  <2>4. /\ GatherTerm(w, <<5, 1, 6>>) = Field(w, 5, 1) * 64 /\ Field(w, 5, 1) * 64 \in Int
        /\ GatherTerm(w, <<6, 1, 2>>) = Field(w, 6, 1) * 4 /\ Field(w, 6, 1) * 4 \in Int
        /\ GatherTerm(w, <<10, 3, 3>>) = Field(w, 10, 3) * 8 /\ Field(w, 10, 3) * 8 \in Int
    BY Powers DEF GatherTerm, Field
  <2> QED BY <2>2, <2>3, <2>4 DEF GatherSteps
<1>3. Gather(w, ImmLayout) = Field(w, 2, 5) + Field(w, 12, 1) * 32
  <2>1. Len(ImmLayout) = 2 /\ ImmLayout[1] = <<2, 5, 0>> /\ ImmLayout[2] = <<12, 1, 5>>
    BY DEF ImmLayout
  <2>0. Len(ImmLayout) = 2
    BY <2>1
  <2>2. PICK f : GatherSteps(w, ImmLayout, f, 2)
    BY <2>0, GatherSum
  <2>3. /\ f[1] = f[0] + GatherTerm(w, <<2, 5, 0>>)
        /\ f[2] = f[1] + GatherTerm(w, <<12, 1, 5>>)
    BY <2>1, <2>2 DEF GatherSteps
  <2>4. /\ GatherTerm(w, <<2, 5, 0>>) = Field(w, 2, 5) /\ Field(w, 2, 5) \in Int
        /\ GatherTerm(w, <<12, 1, 5>>) = Field(w, 12, 1) * 32 /\ Field(w, 12, 1) * 32 \in Int
    BY Powers DEF GatherTerm, Field
  <2> QED BY <2>2, <2>3, <2>4 DEF GatherSteps
<1>4. Gather(w, AddSpLayout) = Field(w, 2, 1) * 32 + Field(w, 3, 2) * 128 + Field(w, 5, 1) * 64 + Field(w, 6, 1) * 16 + Field(w, 12, 1) * 512
  <2>1. Len(AddSpLayout) = 5 /\ AddSpLayout[1] = <<2, 1, 5>> /\ AddSpLayout[2] = <<3, 2, 7>> /\ AddSpLayout[3] = <<5, 1, 6>> /\ AddSpLayout[4] = <<6, 1, 4>> /\ AddSpLayout[5] = <<12, 1, 9>>
    BY DEF AddSpLayout
  <2>0. Len(AddSpLayout) = 5
    BY <2>1
  <2>2. PICK f : GatherSteps(w, AddSpLayout, f, 5)
    BY <2>0, GatherSum
  <2>3. /\ f[1] = f[0] + GatherTerm(w, <<2, 1, 5>>)
        /\ f[2] = f[1] + GatherTerm(w, <<3, 2, 7>>)
        /\ f[3] = f[2] + GatherTerm(w, <<5, 1, 6>>)
        /\ f[4] = f[3] + GatherTerm(w, <<6, 1, 4>>)
        /\ f[5] = f[4] + GatherTerm(w, <<12, 1, 9>>)
    BY <2>1, <2>2 DEF GatherSteps
  <2>4. /\ GatherTerm(w, <<2, 1, 5>>) = Field(w, 2, 1) * 32 /\ Field(w, 2, 1) * 32 \in Int
        /\ GatherTerm(w, <<3, 2, 7>>) = Field(w, 3, 2) * 128 /\ Field(w, 3, 2) * 128 \in Int
        /\ GatherTerm(w, <<5, 1, 6>>) = Field(w, 5, 1) * 64 /\ Field(w, 5, 1) * 64 \in Int
        /\ GatherTerm(w, <<6, 1, 4>>) = Field(w, 6, 1) * 16 /\ Field(w, 6, 1) * 16 \in Int
        /\ GatherTerm(w, <<12, 1, 9>>) = Field(w, 12, 1) * 512 /\ Field(w, 12, 1) * 512 \in Int
    BY Powers DEF GatherTerm, Field
  <2> QED BY <2>2, <2>3, <2>4 DEF GatherSteps
<1>5. Gather(w, LoadSpLayout) = Field(w, 2, 2) * 64 + Field(w, 4, 3) * 4 + Field(w, 12, 1) * 32
  <2>1. Len(LoadSpLayout) = 3 /\ LoadSpLayout[1] = <<2, 2, 6>> /\ LoadSpLayout[2] = <<4, 3, 2>> /\ LoadSpLayout[3] = <<12, 1, 5>>
    BY DEF LoadSpLayout
  <2>0. Len(LoadSpLayout) = 3
    BY <2>1
  <2>2. PICK f : GatherSteps(w, LoadSpLayout, f, 3)
    BY <2>0, GatherSum
  <2>3. /\ f[1] = f[0] + GatherTerm(w, <<2, 2, 6>>)
        /\ f[2] = f[1] + GatherTerm(w, <<4, 3, 2>>)
        /\ f[3] = f[2] + GatherTerm(w, <<12, 1, 5>>)
    BY <2>1, <2>2 DEF GatherSteps
  <2>4. /\ GatherTerm(w, <<2, 2, 6>>) = Field(w, 2, 2) * 64 /\ Field(w, 2, 2) * 64 \in Int
        /\ GatherTerm(w, <<4, 3, 2>>) = Field(w, 4, 3) * 4 /\ Field(w, 4, 3) * 4 \in Int
        /\ GatherTerm(w, <<12, 1, 5>>) = Field(w, 12, 1) * 32 /\ Field(w, 12, 1) * 32 \in Int
    BY Powers DEF GatherTerm, Field
  <2> QED BY <2>2, <2>3, <2>4 DEF GatherSteps
<1>6. Gather(w, StoreSpLayout) = Field(w, 7, 2) * 64 + Field(w, 9, 4) * 4
  <2>1. Len(StoreSpLayout) = 2 /\ StoreSpLayout[1] = <<7, 2, 6>> /\ StoreSpLayout[2] = <<9, 4, 2>>
    BY DEF StoreSpLayout
  <2>0. Len(StoreSpLayout) = 2
    BY <2>1
  <2>2. PICK f : GatherSteps(w, StoreSpLayout, f, 2)
    BY <2>0, GatherSum
  <2>3. /\ f[1] = f[0] + GatherTerm(w, <<7, 2, 6>>)
        /\ f[2] = f[1] + GatherTerm(w, <<9, 4, 2>>)
    BY <2>1, <2>2 DEF GatherSteps
  <2>4. /\ GatherTerm(w, <<7, 2, 6>>) = Field(w, 7, 2) * 64 /\ Field(w, 7, 2) * 64 \in Int
        /\ GatherTerm(w, <<9, 4, 2>>) = Field(w, 9, 4) * 4 /\ Field(w, 9, 4) * 4 \in Int
    BY Powers DEF GatherTerm, Field
  <2> QED BY <2>2, <2>3, <2>4 DEF GatherSteps
<1>7. Gather(w, BranchLayout) = Field(w, 2, 1) * 32 + Field(w, 3, 2) * 2 + Field(w, 5, 2) * 64 + Field(w, 10, 2) * 8 + Field(w, 12, 1) * 256
  <2>1. Len(BranchLayout) = 5 /\ BranchLayout[1] = <<2, 1, 5>> /\ BranchLayout[2] = <<3, 2, 1>> /\ BranchLayout[3] = <<5, 2, 6>> /\ BranchLayout[4] = <<10, 2, 3>> /\ BranchLayout[5] = <<12, 1, 8>>
    BY DEF BranchLayout
  <2>0. Len(BranchLayout) = 5
    BY <2>1
  <2>2. PICK f : GatherSteps(w, BranchLayout, f, 5)
    BY <2>0, GatherSum
  <2>3. /\ f[1] = f[0] + GatherTerm(w, <<2, 1, 5>>)
        /\ f[2] = f[1] + GatherTerm(w, <<3, 2, 1>>)
        /\ f[3] = f[2] + GatherTerm(w, <<5, 2, 6>>)
        /\ f[4] = f[3] + GatherTerm(w, <<10, 2, 3>>)
        /\ f[5] = f[4] + GatherTerm(w, <<12, 1, 8>>)
    BY <2>1, <2>2 DEF GatherSteps
  <2>4. /\ GatherTerm(w, <<2, 1, 5>>) = Field(w, 2, 1) * 32 /\ Field(w, 2, 1) * 32 \in Int
        /\ GatherTerm(w, <<3, 2, 1>>) = Field(w, 3, 2) * 2 /\ Field(w, 3, 2) * 2 \in Int
        /\ GatherTerm(w, <<5, 2, 6>>) = Field(w, 5, 2) * 64 /\ Field(w, 5, 2) * 64 \in Int
        /\ GatherTerm(w, <<10, 2, 3>>) = Field(w, 10, 2) * 8 /\ Field(w, 10, 2) * 8 \in Int
        /\ GatherTerm(w, <<12, 1, 8>>) = Field(w, 12, 1) * 256 /\ Field(w, 12, 1) * 256 \in Int
    BY Powers DEF GatherTerm, Field
  <2> QED BY <2>2, <2>3, <2>4 DEF GatherSteps
<1>8. Gather(w, JumpLayout) = Field(w, 2, 1) * 32 + Field(w, 3, 3) * 2 + Field(w, 6, 1) * 128 + Field(w, 7, 1) * 64 + Field(w, 8, 1) * 1024 + Field(w, 9, 2) * 256 + Field(w, 11, 1) * 16 + Field(w, 12, 1) * 2048
  <2>1. Len(JumpLayout) = 8 /\ JumpLayout[1] = <<2, 1, 5>> /\ JumpLayout[2] = <<3, 3, 1>> /\ JumpLayout[3] = <<6, 1, 7>> /\ JumpLayout[4] = <<7, 1, 6>> /\ JumpLayout[5] = <<8, 1, 10>> /\ JumpLayout[6] = <<9, 2, 8>> /\ JumpLayout[7] = <<11, 1, 4>> /\ JumpLayout[8] = <<12, 1, 11>>
    BY DEF JumpLayout
  <2>0. Len(JumpLayout) = 8
    BY <2>1
  <2>2. PICK f : GatherSteps(w, JumpLayout, f, 8)
    BY <2>0, GatherSum
  <2>3. /\ f[1] = f[0] + GatherTerm(w, <<2, 1, 5>>)
        /\ f[2] = f[1] + GatherTerm(w, <<3, 3, 1>>)
        /\ f[3] = f[2] + GatherTerm(w, <<6, 1, 7>>)
        /\ f[4] = f[3] + GatherTerm(w, <<7, 1, 6>>)
        /\ f[5] = f[4] + GatherTerm(w, <<8, 1, 10>>)
        /\ f[6] = f[5] + GatherTerm(w, <<9, 2, 8>>)
        /\ f[7] = f[6] + GatherTerm(w, <<11, 1, 4>>)
        /\ f[8] = f[7] + GatherTerm(w, <<12, 1, 11>>)
    BY <2>1, <2>2 DEF GatherSteps
  <2>4. /\ GatherTerm(w, <<2, 1, 5>>) = Field(w, 2, 1) * 32 /\ Field(w, 2, 1) * 32 \in Int
        /\ GatherTerm(w, <<3, 3, 1>>) = Field(w, 3, 3) * 2 /\ Field(w, 3, 3) * 2 \in Int
        /\ GatherTerm(w, <<6, 1, 7>>) = Field(w, 6, 1) * 128 /\ Field(w, 6, 1) * 128 \in Int
        /\ GatherTerm(w, <<7, 1, 6>>) = Field(w, 7, 1) * 64 /\ Field(w, 7, 1) * 64 \in Int
        /\ GatherTerm(w, <<8, 1, 10>>) = Field(w, 8, 1) * 1024 /\ Field(w, 8, 1) * 1024 \in Int
        /\ GatherTerm(w, <<9, 2, 8>>) = Field(w, 9, 2) * 256 /\ Field(w, 9, 2) * 256 \in Int
        /\ GatherTerm(w, <<11, 1, 4>>) = Field(w, 11, 1) * 16 /\ Field(w, 11, 1) * 16 \in Int
        /\ GatherTerm(w, <<12, 1, 11>>) = Field(w, 12, 1) * 2048 /\ Field(w, 12, 1) * 2048 \in Int
    BY Powers DEF GatherTerm, Field
  <2> QED BY <2>2, <2>3, <2>4 DEF GatherSteps
<1> QED BY <1>1, <1>2, <1>3, <1>4, <1>5, <1>6, <1>7, <1>8

\* The sums that the layouts of the encoders stand for.
LEMMA ScatterLayouts ==
  ASSUME NEW imm \in Int
  PROVE  /\ Scatter(imm, ScatterAddSpn) = Piece(imm, 3, 1) * 32 + Piece(imm, 2, 1) * 64 + Piece(imm, 6, 4) * 128 + Piece(imm, 4, 2) * 2048
         /\ Scatter(imm, ScatterWord) = Piece(imm, 6, 1) * 32 + Piece(imm, 2, 1) * 64 + Piece(imm, 3, 3) * 1024
         /\ Scatter(imm, ScatterImm) = Piece(imm, 0, 5) * 4 + Piece(imm, 5, 1) * 4096
         /\ Scatter(imm, ScatterAddSp) = Piece(imm, 5, 1) * 4 + Piece(imm, 7, 2) * 8 + Piece(imm, 6, 1) * 32 + Piece(imm, 4, 1) * 64 + Piece(imm, 9, 1) * 4096
         /\ Scatter(imm, ScatterJump) = Piece(imm, 5, 1) * 4 + Piece(imm, 1, 3) * 8 + Piece(imm, 7, 1) * 64 + Piece(imm, 6, 1) * 128 + Piece(imm, 10, 1) * 256 + Piece(imm, 8, 2) * 512 + Piece(imm, 4, 1) * 2048 + Piece(imm, 11, 1) * 4096
         /\ Scatter(imm, ScatterBranch) = Piece(imm, 5, 1) * 4 + Piece(imm, 1, 2) * 8 + Piece(imm, 6, 2) * 32 + Piece(imm, 3, 2) * 1024 + Piece(imm, 8, 1) * 4096
         /\ Scatter(imm, ScatterLoadSp) = Piece(imm, 6, 2) * 4 + Piece(imm, 2, 3) * 16 + Piece(imm, 5, 1) * 4096
         /\ Scatter(imm, ScatterStoreSp) = Piece(imm, 6, 2) * 128 + Piece(imm, 2, 4) * 512
<1>1. Scatter(imm, ScatterAddSpn) = Piece(imm, 3, 1) * 32 + Piece(imm, 2, 1) * 64 + Piece(imm, 6, 4) * 128 + Piece(imm, 4, 2) * 2048
  <2>1. Len(ScatterAddSpn) = 4 /\ ScatterAddSpn[1] = <<3, 1, 5>> /\ ScatterAddSpn[2] = <<2, 1, 6>> /\ ScatterAddSpn[3] = <<6, 4, 7>> /\ ScatterAddSpn[4] = <<4, 2, 11>>
    BY DEF ScatterAddSpn
  <2>0. Len(ScatterAddSpn) = 4
    BY <2>1
  <2>2. PICK f : ScatterSteps(imm, ScatterAddSpn, f, 4)
    BY <2>0, ScatterSum
  <2>3. /\ f[1] = f[0] + ScatterTerm(imm, <<3, 1, 5>>)
        /\ f[2] = f[1] + ScatterTerm(imm, <<2, 1, 6>>)
        /\ f[3] = f[2] + ScatterTerm(imm, <<6, 4, 7>>)
        /\ f[4] = f[3] + ScatterTerm(imm, <<4, 2, 11>>)
    BY <2>1, <2>2 DEF ScatterSteps
  <2>4. /\ ScatterTerm(imm, <<3, 1, 5>>) = Piece(imm, 3, 1) * 32 /\ Piece(imm, 3, 1) * 32 \in Int
        /\ ScatterTerm(imm, <<2, 1, 6>>) = Piece(imm, 2, 1) * 64 /\ Piece(imm, 2, 1) * 64 \in Int
        /\ ScatterTerm(imm, <<6, 4, 7>>) = Piece(imm, 6, 4) * 128 /\ Piece(imm, 6, 4) * 128 \in Int
        /\ ScatterTerm(imm, <<4, 2, 11>>) = Piece(imm, 4, 2) * 2048 /\ Piece(imm, 4, 2) * 2048 \in Int
    BY Powers DEF ScatterTerm, Piece
  <2> QED BY <2>2, <2>3, <2>4 DEF ScatterSteps
<1>2. Scatter(imm, ScatterWord) = Piece(imm, 6, 1) * 32 + Piece(imm, 2, 1) * 64 + Piece(imm, 3, 3) * 1024
  <2>1. Len(ScatterWord) = 3 /\ ScatterWord[1] = <<6, 1, 5>> /\ ScatterWord[2] = <<2, 1, 6>> /\ ScatterWord[3] = <<3, 3, 10>>
    BY DEF ScatterWord
  <2>0. Len(ScatterWord) = 3
    BY <2>1
  <2>2. PICK f : ScatterSteps(imm, ScatterWord, f, 3)
    BY <2>0, ScatterSum
  <2>3. /\ f[1] = f[0] + ScatterTerm(imm, <<6, 1, 5>>)
        /\ f[2] = f[1] + ScatterTerm(imm, <<2, 1, 6>>)
        /\ f[3] = f[2] + ScatterTerm(imm, <<3, 3, 10>>)
    BY <2>1, <2>2 DEF ScatterSteps
  <2>4. /\ ScatterTerm(imm, <<6, 1, 5>>) = Piece(imm, 6, 1) * 32 /\ Piece(imm, 6, 1) * 32 \in Int
        /\ ScatterTerm(imm, <<2, 1, 6>>) = Piece(imm, 2, 1) * 64 /\ Piece(imm, 2, 1) * 64 \in Int
        /\ ScatterTerm(imm, <<3, 3, 10>>) = Piece(imm, 3, 3) * 1024 /\ Piece(imm, 3, 3) * 1024 \in Int
    BY Powers DEF ScatterTerm, Piece
  <2> QED BY <2>2, <2>3, <2>4 DEF ScatterSteps
<1>3. Scatter(imm, ScatterImm) = Piece(imm, 0, 5) * 4 + Piece(imm, 5, 1) * 4096
  <2>1. Len(ScatterImm) = 2 /\ ScatterImm[1] = <<0, 5, 2>> /\ ScatterImm[2] = <<5, 1, 12>>
    BY DEF ScatterImm
  <2>0. Len(ScatterImm) = 2
    BY <2>1
  <2>2. PICK f : ScatterSteps(imm, ScatterImm, f, 2)
    BY <2>0, ScatterSum
  <2>3. /\ f[1] = f[0] + ScatterTerm(imm, <<0, 5, 2>>)
        /\ f[2] = f[1] + ScatterTerm(imm, <<5, 1, 12>>)
    BY <2>1, <2>2 DEF ScatterSteps
  <2>4. /\ ScatterTerm(imm, <<0, 5, 2>>) = Piece(imm, 0, 5) * 4 /\ Piece(imm, 0, 5) * 4 \in Int
        /\ ScatterTerm(imm, <<5, 1, 12>>) = Piece(imm, 5, 1) * 4096 /\ Piece(imm, 5, 1) * 4096 \in Int
    BY Powers DEF ScatterTerm, Piece
  <2> QED BY <2>2, <2>3, <2>4 DEF ScatterSteps
<1>4. Scatter(imm, ScatterAddSp) = Piece(imm, 5, 1) * 4 + Piece(imm, 7, 2) * 8 + Piece(imm, 6, 1) * 32 + Piece(imm, 4, 1) * 64 + Piece(imm, 9, 1) * 4096
  <2>1. Len(ScatterAddSp) = 5 /\ ScatterAddSp[1] = <<5, 1, 2>> /\ ScatterAddSp[2] = <<7, 2, 3>> /\ ScatterAddSp[3] = <<6, 1, 5>> /\ ScatterAddSp[4] = <<4, 1, 6>> /\ ScatterAddSp[5] = <<9, 1, 12>>
    BY DEF ScatterAddSp
  <2>0. Len(ScatterAddSp) = 5
    BY <2>1
  <2>2. PICK f : ScatterSteps(imm, ScatterAddSp, f, 5)
    BY <2>0, ScatterSum
  <2>3. /\ f[1] = f[0] + ScatterTerm(imm, <<5, 1, 2>>)
        /\ f[2] = f[1] + ScatterTerm(imm, <<7, 2, 3>>)
        /\ f[3] = f[2] + ScatterTerm(imm, <<6, 1, 5>>)
        /\ f[4] = f[3] + ScatterTerm(imm, <<4, 1, 6>>)
        /\ f[5] = f[4] + ScatterTerm(imm, <<9, 1, 12>>)
    BY <2>1, <2>2 DEF ScatterSteps
  <2>4. /\ ScatterTerm(imm, <<5, 1, 2>>) = Piece(imm, 5, 1) * 4 /\ Piece(imm, 5, 1) * 4 \in Int
        /\ ScatterTerm(imm, <<7, 2, 3>>) = Piece(imm, 7, 2) * 8 /\ Piece(imm, 7, 2) * 8 \in Int
        /\ ScatterTerm(imm, <<6, 1, 5>>) = Piece(imm, 6, 1) * 32 /\ Piece(imm, 6, 1) * 32 \in Int
        /\ ScatterTerm(imm, <<4, 1, 6>>) = Piece(imm, 4, 1) * 64 /\ Piece(imm, 4, 1) * 64 \in Int
        /\ ScatterTerm(imm, <<9, 1, 12>>) = Piece(imm, 9, 1) * 4096 /\ Piece(imm, 9, 1) * 4096 \in Int
    BY Powers DEF ScatterTerm, Piece
  <2> QED BY <2>2, <2>3, <2>4 DEF ScatterSteps
<1>5. Scatter(imm, ScatterJump) = Piece(imm, 5, 1) * 4 + Piece(imm, 1, 3) * 8 + Piece(imm, 7, 1) * 64 + Piece(imm, 6, 1) * 128 + Piece(imm, 10, 1) * 256 + Piece(imm, 8, 2) * 512 + Piece(imm, 4, 1) * 2048 + Piece(imm, 11, 1) * 4096
  <2>1. Len(ScatterJump) = 8 /\ ScatterJump[1] = <<5, 1, 2>> /\ ScatterJump[2] = <<1, 3, 3>> /\ ScatterJump[3] = <<7, 1, 6>> /\ ScatterJump[4] = <<6, 1, 7>> /\ ScatterJump[5] = <<10, 1, 8>> /\ ScatterJump[6] = <<8, 2, 9>> /\ ScatterJump[7] = <<4, 1, 11>> /\ ScatterJump[8] = <<11, 1, 12>>
    BY DEF ScatterJump
  <2>0. Len(ScatterJump) = 8
    BY <2>1
  <2>2. PICK f : ScatterSteps(imm, ScatterJump, f, 8)
    BY <2>0, ScatterSum
  <2>3. /\ f[1] = f[0] + ScatterTerm(imm, <<5, 1, 2>>)
        /\ f[2] = f[1] + ScatterTerm(imm, <<1, 3, 3>>)
        /\ f[3] = f[2] + ScatterTerm(imm, <<7, 1, 6>>)
        /\ f[4] = f[3] + ScatterTerm(imm, <<6, 1, 7>>)
        /\ f[5] = f[4] + ScatterTerm(imm, <<10, 1, 8>>)
        /\ f[6] = f[5] + ScatterTerm(imm, <<8, 2, 9>>)
        /\ f[7] = f[6] + ScatterTerm(imm, <<4, 1, 11>>)
        /\ f[8] = f[7] + ScatterTerm(imm, <<11, 1, 12>>)
    BY <2>1, <2>2 DEF ScatterSteps
  <2>4. /\ ScatterTerm(imm, <<5, 1, 2>>) = Piece(imm, 5, 1) * 4 /\ Piece(imm, 5, 1) * 4 \in Int
        /\ ScatterTerm(imm, <<1, 3, 3>>) = Piece(imm, 1, 3) * 8 /\ Piece(imm, 1, 3) * 8 \in Int
        /\ ScatterTerm(imm, <<7, 1, 6>>) = Piece(imm, 7, 1) * 64 /\ Piece(imm, 7, 1) * 64 \in Int
        /\ ScatterTerm(imm, <<6, 1, 7>>) = Piece(imm, 6, 1) * 128 /\ Piece(imm, 6, 1) * 128 \in Int
        /\ ScatterTerm(imm, <<10, 1, 8>>) = Piece(imm, 10, 1) * 256 /\ Piece(imm, 10, 1) * 256 \in Int
        /\ ScatterTerm(imm, <<8, 2, 9>>) = Piece(imm, 8, 2) * 512 /\ Piece(imm, 8, 2) * 512 \in Int
        /\ ScatterTerm(imm, <<4, 1, 11>>) = Piece(imm, 4, 1) * 2048 /\ Piece(imm, 4, 1) * 2048 \in Int
        /\ ScatterTerm(imm, <<11, 1, 12>>) = Piece(imm, 11, 1) * 4096 /\ Piece(imm, 11, 1) * 4096 \in Int
    BY Powers DEF ScatterTerm, Piece
  <2> QED BY <2>2, <2>3, <2>4 DEF ScatterSteps
<1>6. Scatter(imm, ScatterBranch) = Piece(imm, 5, 1) * 4 + Piece(imm, 1, 2) * 8 + Piece(imm, 6, 2) * 32 + Piece(imm, 3, 2) * 1024 + Piece(imm, 8, 1) * 4096
  <2>1. Len(ScatterBranch) = 5 /\ ScatterBranch[1] = <<5, 1, 2>> /\ ScatterBranch[2] = <<1, 2, 3>> /\ ScatterBranch[3] = <<6, 2, 5>> /\ ScatterBranch[4] = <<3, 2, 10>> /\ ScatterBranch[5] = <<8, 1, 12>>
    BY DEF ScatterBranch
  <2>0. Len(ScatterBranch) = 5
    BY <2>1
  <2>2. PICK f : ScatterSteps(imm, ScatterBranch, f, 5)
    BY <2>0, ScatterSum
  <2>3. /\ f[1] = f[0] + ScatterTerm(imm, <<5, 1, 2>>)
        /\ f[2] = f[1] + ScatterTerm(imm, <<1, 2, 3>>)
        /\ f[3] = f[2] + ScatterTerm(imm, <<6, 2, 5>>)
        /\ f[4] = f[3] + ScatterTerm(imm, <<3, 2, 10>>)
        /\ f[5] = f[4] + ScatterTerm(imm, <<8, 1, 12>>)
    BY <2>1, <2>2 DEF ScatterSteps
  <2>4. /\ ScatterTerm(imm, <<5, 1, 2>>) = Piece(imm, 5, 1) * 4 /\ Piece(imm, 5, 1) * 4 \in Int
        /\ ScatterTerm(imm, <<1, 2, 3>>) = Piece(imm, 1, 2) * 8 /\ Piece(imm, 1, 2) * 8 \in Int
        /\ ScatterTerm(imm, <<6, 2, 5>>) = Piece(imm, 6, 2) * 32 /\ Piece(imm, 6, 2) * 32 \in Int
        /\ ScatterTerm(imm, <<3, 2, 10>>) = Piece(imm, 3, 2) * 1024 /\ Piece(imm, 3, 2) * 1024 \in Int
        /\ ScatterTerm(imm, <<8, 1, 12>>) = Piece(imm, 8, 1) * 4096 /\ Piece(imm, 8, 1) * 4096 \in Int
    BY Powers DEF ScatterTerm, Piece
  <2> QED BY <2>2, <2>3, <2>4 DEF ScatterSteps
<1>7. Scatter(imm, ScatterLoadSp) = Piece(imm, 6, 2) * 4 + Piece(imm, 2, 3) * 16 + Piece(imm, 5, 1) * 4096
  <2>1. Len(ScatterLoadSp) = 3 /\ ScatterLoadSp[1] = <<6, 2, 2>> /\ ScatterLoadSp[2] = <<2, 3, 4>> /\ ScatterLoadSp[3] = <<5, 1, 12>>
    BY DEF ScatterLoadSp
  <2>0. Len(ScatterLoadSp) = 3
    BY <2>1
  <2>2. PICK f : ScatterSteps(imm, ScatterLoadSp, f, 3)
    BY <2>0, ScatterSum
  <2>3. /\ f[1] = f[0] + ScatterTerm(imm, <<6, 2, 2>>)
        /\ f[2] = f[1] + ScatterTerm(imm, <<2, 3, 4>>)
        /\ f[3] = f[2] + ScatterTerm(imm, <<5, 1, 12>>)
    BY <2>1, <2>2 DEF ScatterSteps
  <2>4. /\ ScatterTerm(imm, <<6, 2, 2>>) = Piece(imm, 6, 2) * 4 /\ Piece(imm, 6, 2) * 4 \in Int
        /\ ScatterTerm(imm, <<2, 3, 4>>) = Piece(imm, 2, 3) * 16 /\ Piece(imm, 2, 3) * 16 \in Int
        /\ ScatterTerm(imm, <<5, 1, 12>>) = Piece(imm, 5, 1) * 4096 /\ Piece(imm, 5, 1) * 4096 \in Int
    BY Powers DEF ScatterTerm, Piece
  <2> QED BY <2>2, <2>3, <2>4 DEF ScatterSteps
<1>8. Scatter(imm, ScatterStoreSp) = Piece(imm, 6, 2) * 128 + Piece(imm, 2, 4) * 512
  <2>1. Len(ScatterStoreSp) = 2 /\ ScatterStoreSp[1] = <<6, 2, 7>> /\ ScatterStoreSp[2] = <<2, 4, 9>>
    BY DEF ScatterStoreSp
  <2>0. Len(ScatterStoreSp) = 2
    BY <2>1
  <2>2. PICK f : ScatterSteps(imm, ScatterStoreSp, f, 2)
    BY <2>0, ScatterSum
  <2>3. /\ f[1] = f[0] + ScatterTerm(imm, <<6, 2, 7>>)
        /\ f[2] = f[1] + ScatterTerm(imm, <<2, 4, 9>>)
    BY <2>1, <2>2 DEF ScatterSteps
  <2>4. /\ ScatterTerm(imm, <<6, 2, 7>>) = Piece(imm, 6, 2) * 128 /\ Piece(imm, 6, 2) * 128 \in Int
        /\ ScatterTerm(imm, <<2, 4, 9>>) = Piece(imm, 2, 4) * 512 /\ Piece(imm, 2, 4) * 512 \in Int
    BY Powers DEF ScatterTerm, Piece
  <2> QED BY <2>2, <2>3, <2>4 DEF ScatterSteps
<1> QED BY <1>1, <1>2, <1>3, <1>4, <1>5, <1>6, <1>7, <1>8

\* A scattered immediate is a number.
LEMMA ScatterTypes ==
  ASSUME NEW imm \in Int
  PROVE  /\ Scatter(imm, ScatterAddSpn) \in Int
         /\ Scatter(imm, ScatterWord) \in Int
         /\ Scatter(imm, ScatterImm) \in Int
         /\ Scatter(imm, ScatterAddSp) \in Int
         /\ Scatter(imm, ScatterJump) \in Int
         /\ Scatter(imm, ScatterBranch) \in Int
         /\ Scatter(imm, ScatterLoadSp) \in Int
         /\ Scatter(imm, ScatterStoreSp) \in Int
<1>1. Scatter(imm, ScatterAddSpn) \in Int
  <2>1. Piece(imm, 3, 1) \in Int /\ Piece(imm, 2, 1) \in Int /\ Piece(imm, 6, 4) \in Int /\ Piece(imm, 4, 2) \in Int
    BY Powers DEF Piece
  <2> QED BY <2>1, ScatterLayouts
<1>2. Scatter(imm, ScatterWord) \in Int
  <2>1. Piece(imm, 6, 1) \in Int /\ Piece(imm, 2, 1) \in Int /\ Piece(imm, 3, 3) \in Int
    BY Powers DEF Piece
  <2> QED BY <2>1, ScatterLayouts
<1>3. Scatter(imm, ScatterImm) \in Int
  <2>1. Piece(imm, 0, 5) \in Int /\ Piece(imm, 5, 1) \in Int
    BY Powers DEF Piece
  <2> QED BY <2>1, ScatterLayouts
<1>4. Scatter(imm, ScatterAddSp) \in Int
  <2>1. Piece(imm, 5, 1) \in Int /\ Piece(imm, 7, 2) \in Int /\ Piece(imm, 6, 1) \in Int /\ Piece(imm, 4, 1) \in Int /\ Piece(imm, 9, 1) \in Int
    BY Powers DEF Piece
  <2> QED BY <2>1, ScatterLayouts
<1>5. Scatter(imm, ScatterJump) \in Int
  <2>1. Piece(imm, 5, 1) \in Int /\ Piece(imm, 1, 3) \in Int /\ Piece(imm, 7, 1) \in Int /\ Piece(imm, 6, 1) \in Int /\ Piece(imm, 10, 1) \in Int /\ Piece(imm, 8, 2) \in Int /\ Piece(imm, 4, 1) \in Int /\ Piece(imm, 11, 1) \in Int
    BY Powers DEF Piece
  <2> QED BY <2>1, ScatterLayouts
<1>6. Scatter(imm, ScatterBranch) \in Int
  <2>1. Piece(imm, 5, 1) \in Int /\ Piece(imm, 1, 2) \in Int /\ Piece(imm, 6, 2) \in Int /\ Piece(imm, 3, 2) \in Int /\ Piece(imm, 8, 1) \in Int
    BY Powers DEF Piece
  <2> QED BY <2>1, ScatterLayouts
<1>7. Scatter(imm, ScatterLoadSp) \in Int
  <2>1. Piece(imm, 6, 2) \in Int /\ Piece(imm, 2, 3) \in Int /\ Piece(imm, 5, 1) \in Int
    BY Powers DEF Piece
  <2> QED BY <2>1, ScatterLayouts
<1>8. Scatter(imm, ScatterStoreSp) \in Int
  <2>1. Piece(imm, 6, 2) \in Int /\ Piece(imm, 2, 4) \in Int
    BY Powers DEF Piece
  <2> QED BY <2>1, ScatterLayouts
<1> QED BY <1>1, <1>2, <1>3, <1>4, <1>5, <1>6, <1>7, <1>8

\* The operand groups of a compressed word: quadrant q, the five bits s from
\* bit 2 on and r from bit 7 on, bit 12 and funct3.
Parts(w, q, s, r, h, f) ==
  /\ q \in Int /\ s \in Int /\ r \in Int /\ h \in Int /\ f \in Int /\ w \in Int
  /\ 0 <= q /\ q <= 3 /\ 0 <= s /\ s <= 31 /\ 0 <= r /\ r <= 31
  /\ 0 <= h /\ h <= 1 /\ 0 <= f /\ f <= 7
  /\ w = q + 4 * s + 128 * r + 4096 * h + 8192 * f

\* Each field of a compressed word is a part of one of its groups, or of two.
LEMMA ParcelRange ==
  ASSUME NEW w \in Int, 0 <= w, w <= 65535
  PROVE  w \in Parcel
<1> DEFINE m == 65535
<1>1. m \in Int /\ w <= m
  OBVIOUS
<1>2. Parcel = 0 .. m
  BY DEF Parcel
<1> HIDE DEF m
<1> QED BY <1>1, <1>2

\* The fields of a parcel, from its parts.
LEMMA PartFields ==
  ASSUME NEW w, NEW q, NEW s, NEW r, NEW h, NEW f, Parts(w, q, s, r, h, f)
  PROVE  /\ w \in Parcel
         /\ Quadrant(w) = q
         /\ Field(w, 2, 1) = s % 2
         /\ Field(w, 2, 2) = s % 4
         /\ Field(w, 2, 3) = s % 8
         /\ Field(w, 2, 5) = s
         /\ Field(w, 3, 2) = (s \div 2) % 4
         /\ Field(w, 3, 3) = (s \div 2) % 8
         /\ Field(w, 4, 3) = s \div 4
         /\ Field(w, 5, 1) = (s \div 8) % 2
         /\ Field(w, 5, 2) = s \div 8
         /\ Field(w, 6, 1) = s \div 16
         /\ Field(w, 7, 1) = r % 2
         /\ Field(w, 7, 2) = r % 4
         /\ Field(w, 7, 3) = r % 8
         /\ Field(w, 7, 4) = r % 16
         /\ Field(w, 7, 5) = r
         /\ Field(w, 8, 1) = (r \div 2) % 2
         /\ Field(w, 9, 2) = (r \div 4) % 4
         /\ Field(w, 9, 4) = (r \div 4) + 8 * h
         /\ Field(w, 10, 2) = r \div 8
         /\ Field(w, 10, 3) = (r \div 8) + 4 * h
         /\ Field(w, 11, 1) = r \div 16
         /\ Field(w, 11, 2) = (r \div 16) + 2 * h
         /\ Field(w, 12, 1) = h
         /\ Field(w, 13, 3) = f
<1> USE DEF Parts
<1>a. w \in Parcel
  <2>1. w \in Int /\ 0 <= w /\ w <= 65535
    OBVIOUS
  <2> QED BY <2>1, ParcelRange
<1>b. Quadrant(w) = q
  BY DEF Quadrant
<1>1. Field(w, 2, 1) = s % 2
  <2>1. (w \div 4) % 2 = s % 2
    OBVIOUS
  <2> QED BY <2>1, Powers DEF Field
<1>2. Field(w, 2, 2) = s % 4
  <2>1. (w \div 4) % 4 = s % 4
    OBVIOUS
  <2> QED BY <2>1, Powers DEF Field
<1>3. Field(w, 2, 3) = s % 8
  <2>1. (w \div 4) % 8 = s % 8
    OBVIOUS
  <2> QED BY <2>1, Powers DEF Field
<1>4. Field(w, 2, 5) = s
  <2>1. (w \div 4) % 32 = s
    OBVIOUS
  <2> QED BY <2>1, Powers DEF Field
<1>5. Field(w, 3, 2) = (s \div 2) % 4
  <2>1. (w \div 8) % 4 = (s \div 2) % 4
    OBVIOUS
  <2> QED BY <2>1, Powers DEF Field
<1>6. Field(w, 3, 3) = (s \div 2) % 8
  <2>1. (w \div 8) % 8 = (s \div 2) % 8
    OBVIOUS
  <2> QED BY <2>1, Powers DEF Field
<1>7. Field(w, 4, 3) = s \div 4
  <2>1. (w \div 16) % 8 = s \div 4
    OBVIOUS
  <2> QED BY <2>1, Powers DEF Field
<1>8. Field(w, 5, 1) = (s \div 8) % 2
  <2>1. (w \div 32) % 2 = (s \div 8) % 2
    OBVIOUS
  <2> QED BY <2>1, Powers DEF Field
<1>9. Field(w, 5, 2) = s \div 8
  <2>1. (w \div 32) % 4 = s \div 8
    OBVIOUS
  <2> QED BY <2>1, Powers DEF Field
<1>10. Field(w, 6, 1) = s \div 16
  <2>1. (w \div 64) % 2 = s \div 16
    OBVIOUS
  <2> QED BY <2>1, Powers DEF Field
<1>11. Field(w, 7, 1) = r % 2
  <2>1. (w \div 128) % 2 = r % 2
    OBVIOUS
  <2> QED BY <2>1, Powers DEF Field
<1>12. Field(w, 7, 2) = r % 4
  <2>1. (w \div 128) % 4 = r % 4
    OBVIOUS
  <2> QED BY <2>1, Powers DEF Field
<1>13. Field(w, 7, 3) = r % 8
  <2>1. (w \div 128) % 8 = r % 8
    OBVIOUS
  <2> QED BY <2>1, Powers DEF Field
<1>14. Field(w, 7, 4) = r % 16
  <2>1. (w \div 128) % 16 = r % 16
    OBVIOUS
  <2> QED BY <2>1, Powers DEF Field
<1>15. Field(w, 7, 5) = r
  <2>1. (w \div 128) % 32 = r
    OBVIOUS
  <2> QED BY <2>1, Powers DEF Field
<1>16. Field(w, 8, 1) = (r \div 2) % 2
  <2>1. (w \div 256) % 2 = (r \div 2) % 2
    OBVIOUS
  <2> QED BY <2>1, Powers DEF Field
<1>17. Field(w, 9, 2) = (r \div 4) % 4
  <2>1. (w \div 512) % 4 = (r \div 4) % 4
    OBVIOUS
  <2> QED BY <2>1, Powers DEF Field
<1>18. Field(w, 9, 4) = (r \div 4) + 8 * h
  <2>1. (w \div 512) % 16 = (r \div 4) + 8 * h
    OBVIOUS
  <2> QED BY <2>1, Powers DEF Field
<1>19. Field(w, 10, 2) = r \div 8
  <2>1. (w \div 1024) % 4 = r \div 8
    OBVIOUS
  <2> QED BY <2>1, Powers DEF Field
<1>20. Field(w, 10, 3) = (r \div 8) + 4 * h
  <2>1. (w \div 1024) % 8 = (r \div 8) + 4 * h
    OBVIOUS
  <2> QED BY <2>1, Powers DEF Field
<1>21. Field(w, 11, 1) = r \div 16
  <2>1. (w \div 2048) % 2 = r \div 16
    OBVIOUS
  <2> QED BY <2>1, Powers DEF Field
<1>22. Field(w, 11, 2) = (r \div 16) + 2 * h
  <2>1. (w \div 2048) % 4 = (r \div 16) + 2 * h
    OBVIOUS
  <2> QED BY <2>1, Powers DEF Field
<1>23. Field(w, 12, 1) = h
  <2>1. (w \div 4096) % 2 = h
    OBVIOUS
  <2> QED BY <2>1, Powers DEF Field
<1>24. Field(w, 13, 3) = f
  <2>1. (w \div 8192) % 8 = f
    OBVIOUS
  <2> QED BY <2>1, Powers DEF Field
<1> QED BY <1>a, <1>b, <1>1, <1>2, <1>3, <1>4, <1>5, <1>6, <1>7, <1>8, <1>9, <1>10, <1>11, <1>12, <1>13, <1>14, <1>15, <1>16, <1>17, <1>18, <1>19, <1>20, <1>21, <1>22, <1>23, <1>24

\* The word of C.ADDI4SPN: its quadrant, funct3, register and scattered immediate.
AddSpnWord(w, q, f, low, imm) ==
  /\ q \in Int /\ 0 <= q /\ q <= 3 /\ f \in Int /\ 0 <= f /\ f <= 7
  /\ low \in Int /\ 0 <= low /\ low <= 7
  /\ imm \in Int /\ 0 <= imm /\ imm <= 1023 /\ imm % 4 = 0
  /\ w = q + 8192 * f + 4 * low + Scatter(imm, ScatterAddSpn)

\* It is a parcel, and its decoder gathers the immediate that was scattered.
LEMMA AddSpnFormat ==
  ASSUME NEW w, NEW q, NEW f, NEW low, NEW imm, AddSpnWord(w, q, f, low, imm)
  PROVE  /\ w \in Parcel
         /\ Quadrant(w) = q
         /\ Funct3(w) = f
         /\ CregLow(w) = 8 + low
         /\ Gather(w, AddSpnLayout) = imm
<1> USE DEF AddSpnWord
<1> DEFINE p3 == ((imm \div 8) % 2)
           p2 == ((imm \div 4) % 2)
           p6 == ((imm \div 64) % 16)
           p4 == ((imm \div 16) % 4)
           s == low + 8 * p3 + 16 * p2
           r == p6 + 16 * (p4 % 2)
           h == (p4 \div 2)
<1>1. /\ p3 \in Int /\ 0 <= p3 /\ p3 <= 1
      /\ p2 \in Int /\ 0 <= p2 /\ p2 <= 1
      /\ p6 \in Int /\ 0 <= p6 /\ p6 <= 15
      /\ p4 \in Int /\ 0 <= p4 /\ p4 <= 3
  OBVIOUS
<1>2. Scatter(imm, ScatterAddSpn) = p3 * 32 + p2 * 64 + p6 * 128 + p4 * 2048
  <2>1. Piece(imm, 3, 1) = p3
    BY Powers DEF Piece
  <2>2. Piece(imm, 2, 1) = p2
    BY Powers DEF Piece
  <2>3. Piece(imm, 6, 4) = p6
    BY Powers DEF Piece
  <2>4. Piece(imm, 4, 2) = p4
    BY Powers DEF Piece
  <2> HIDE DEF p3, p2, p6, p4
  <2> QED BY <2>1, <2>2, <2>3, <2>4, ScatterLayouts
<1>3. imm = 4 * p2 + 8 * p3 + 16 * p4 + 64 * p6
  <2>1. imm = 4 * (imm \div 4)
    OBVIOUS
  <2>2. (imm \div 4) = 2 * (imm \div 8) + p2
    OBVIOUS
  <2>3. (imm \div 8) = 2 * (imm \div 16) + p3
    OBVIOUS
  <2>4. (imm \div 16) = 4 * (imm \div 64) + p4
    OBVIOUS
  <2>5. (imm \div 64) = 16 * (imm \div 1024) + p6
    OBVIOUS
  <2>6. (imm \div 1024) \in Int /\ (imm \div 1024) = 0
    OBVIOUS
  <2>7. (imm \div 8) \in Int /\ (imm \div 16) \in Int /\ (imm \div 64) \in Int /\ (imm \div 1024) \in Int
    OBVIOUS
  <2> HIDE DEF p3, p2, p6, p4
  <2> QED BY <1>1, <2>1, <2>2, <2>3, <2>4, <2>5, <2>6, <2>7
<1> HIDE DEF p3, p2, p6, p4
<1>4. Parts(w, q, s, r, h, f)
  <2>1. s \in Int /\ 0 <= s /\ s <= 31 /\ r \in Int /\ 0 <= r /\ r <= 31 /\ h \in Int /\ 0 <= h /\ h <= 1
    BY <1>1
  <2>2. w = q + 4 * s + 128 * r + 4096 * h + 8192 * f
    BY <1>1, <1>2
  <2>3. w \in Int
    <3> HIDE DEF s, r, h
    <3> QED BY <2>1, <2>2
  <2> HIDE DEF s, r, h
  <2> QED BY <2>1, <2>2, <2>3 DEF Parts
<1> HIDE DEF s, r, h
<1>5. Gather(w, AddSpnLayout) = 4 * p2 + 8 * p3 + 16 * p4 + 64 * p6
  <2>1. Field(w, 5, 1) = p3
    <3>1. (s \div 8) % 2 = p3
      BY <1>1 DEF s, r, h
    <3> QED BY <3>1, <1>4, PartFields
  <2>2. Field(w, 6, 1) = p2
    <3>1. s \div 16 = p2
      BY <1>1 DEF s, r, h
    <3> QED BY <3>1, <1>4, PartFields
  <2>3. Field(w, 7, 4) = p6
    <3>1. r % 16 = p6
      BY <1>1 DEF s, r, h
    <3> QED BY <3>1, <1>4, PartFields
  <2>4. Field(w, 11, 2) = p4
    <3>1. (r \div 16) + 2 * h = p4
      BY <1>1 DEF s, r, h
    <3> QED BY <3>1, <1>4, PartFields
  <2>w. w \in Int
    BY <1>4 DEF Parts
  <2> QED BY <1>1, <2>w, <2>1, <2>2, <2>3, <2>4, GatherLayouts
<1>6. w \in Parcel /\ Quadrant(w) = q /\ Funct3(w) = f
  BY <1>4, PartFields DEF Funct3
<1>7. CregLow(w) = 8 + low
  <2>1. s % 8 = low
    BY <1>1 DEF s, r
  <2> QED BY <2>1, <1>4, PartFields DEF CregLow
<1> QED BY <1>3, <1>5, <1>6, <1>7

\* The word of a load or store with compressed registers.
WordWord(w, q, f, low, high, imm) ==
  /\ q \in Int /\ 0 <= q /\ q <= 3 /\ f \in Int /\ 0 <= f /\ f <= 7
  /\ low \in Int /\ 0 <= low /\ low <= 7
  /\ high \in Int /\ 0 <= high /\ high <= 7
  /\ imm \in Int /\ 0 <= imm /\ imm <= 127 /\ imm % 4 = 0
  /\ w = q + 8192 * f + 4 * low + 128 * high + Scatter(imm, ScatterWord)

\* Its fields and its offset.
LEMMA WordFormat ==
  ASSUME NEW w, NEW q, NEW f, NEW low, NEW high, NEW imm, WordWord(w, q, f, low, high, imm)
  PROVE  /\ w \in Parcel
         /\ Quadrant(w) = q
         /\ Funct3(w) = f
         /\ CregLow(w) = 8 + low
         /\ CregHigh(w) = 8 + high
         /\ Gather(w, WordLayout) = imm
<1> USE DEF WordWord
<1> DEFINE p6 == ((imm \div 64) % 2)
           p2 == ((imm \div 4) % 2)
           p3 == ((imm \div 8) % 8)
           s == low + 8 * p6 + 16 * p2
           r == high + 8 * (p3 % 4)
           h == (p3 \div 4)
<1>1. /\ p6 \in Int /\ 0 <= p6 /\ p6 <= 1
      /\ p2 \in Int /\ 0 <= p2 /\ p2 <= 1
      /\ p3 \in Int /\ 0 <= p3 /\ p3 <= 7
  OBVIOUS
<1>2. Scatter(imm, ScatterWord) = p6 * 32 + p2 * 64 + p3 * 1024
  <2>1. Piece(imm, 6, 1) = p6
    BY Powers DEF Piece
  <2>2. Piece(imm, 2, 1) = p2
    BY Powers DEF Piece
  <2>3. Piece(imm, 3, 3) = p3
    BY Powers DEF Piece
  <2> HIDE DEF p6, p2, p3
  <2> QED BY <2>1, <2>2, <2>3, ScatterLayouts
<1>3. imm = 4 * p2 + 8 * p3 + 64 * p6
  <2>1. imm = 4 * (imm \div 4)
    OBVIOUS
  <2>2. (imm \div 4) = 2 * (imm \div 8) + p2
    OBVIOUS
  <2>3. (imm \div 8) = 8 * (imm \div 64) + p3
    OBVIOUS
  <2>4. (imm \div 64) = 2 * (imm \div 128) + p6
    OBVIOUS
  <2>5. (imm \div 128) \in Int /\ (imm \div 128) = 0
    OBVIOUS
  <2>6. (imm \div 8) \in Int /\ (imm \div 64) \in Int /\ (imm \div 128) \in Int
    OBVIOUS
  <2> HIDE DEF p6, p2, p3
  <2> QED BY <1>1, <2>1, <2>2, <2>3, <2>4, <2>5, <2>6
<1> HIDE DEF p6, p2, p3
<1>4. Parts(w, q, s, r, h, f)
  <2>1. s \in Int /\ 0 <= s /\ s <= 31 /\ r \in Int /\ 0 <= r /\ r <= 31 /\ h \in Int /\ 0 <= h /\ h <= 1
    BY <1>1
  <2>2. w = q + 4 * s + 128 * r + 4096 * h + 8192 * f
    BY <1>1, <1>2
  <2>3. w \in Int
    <3> HIDE DEF s, r, h
    <3> QED BY <2>1, <2>2
  <2> HIDE DEF s, r, h
  <2> QED BY <2>1, <2>2, <2>3 DEF Parts
<1> HIDE DEF s, r, h
<1>5. Gather(w, WordLayout) = 4 * p2 + 8 * p3 + 64 * p6
  <2>1. Field(w, 5, 1) = p6
    <3>1. (s \div 8) % 2 = p6
      BY <1>1 DEF s, r, h
    <3> QED BY <3>1, <1>4, PartFields
  <2>2. Field(w, 6, 1) = p2
    <3>1. s \div 16 = p2
      BY <1>1 DEF s, r, h
    <3> QED BY <3>1, <1>4, PartFields
  <2>3. Field(w, 10, 3) = p3
    <3>1. (r \div 8) + 4 * h = p3
      BY <1>1 DEF s, r, h
    <3> QED BY <3>1, <1>4, PartFields
  <2>w. w \in Int
    BY <1>4 DEF Parts
  <2> QED BY <1>1, <2>w, <2>1, <2>2, <2>3, GatherLayouts
<1>6. w \in Parcel /\ Quadrant(w) = q /\ Funct3(w) = f
  BY <1>4, PartFields DEF Funct3
<1>7. CregLow(w) = 8 + low
  <2>1. s % 8 = low
    BY <1>1 DEF s, r
  <2> QED BY <2>1, <1>4, PartFields DEF CregLow
<1>8. CregHigh(w) = 8 + high
  <2>1. r % 8 = high
    BY <1>1 DEF s, r
  <2> QED BY <2>1, <1>4, PartFields DEF CregHigh
<1> QED BY <1>3, <1>5, <1>6, <1>7, <1>8

\* The word of a six-bit immediate.
ImmWord(w, q, f, rd, imm) ==
  /\ q \in Int /\ 0 <= q /\ q <= 3 /\ f \in Int /\ 0 <= f /\ f <= 7
  /\ rd \in Int /\ 0 <= rd /\ rd <= 31
  /\ imm \in Int /\ -32 <= imm /\ imm <= 31
  /\ w = q + 8192 * f + 128 * rd + Scatter(imm, ScatterImm)

\* Its fields and its immediate, read signed.
LEMMA ImmFormat ==
  ASSUME NEW w, NEW q, NEW f, NEW rd, NEW imm, ImmWord(w, q, f, rd, imm)
  PROVE  /\ w \in Parcel
         /\ Quadrant(w) = q
         /\ Funct3(w) = f
         /\ RdOf(w) = rd
         /\ Rs2Of(w) = imm % 32
         /\ Field(w, 12, 1) = (imm \div 32) % 2
         /\ CregHigh(w) = 8 + (rd % 8)
         /\ Field(w, 10, 2) = rd \div 8
         /\ Negative(Gather(w, ImmLayout), 6) = imm
         /\ (Gather(w, ImmLayout) = 0 <=> imm = 0)
<1> USE DEF ImmWord
<1> DEFINE p0 == (imm % 32)
           p5 == ((imm \div 32) % 2)
           s == p0
           r == rd
           h == p5
<1>1. /\ p0 \in Int /\ 0 <= p0 /\ p0 <= 31
      /\ p5 \in Int /\ 0 <= p5 /\ p5 <= 1
  OBVIOUS
<1>2. Scatter(imm, ScatterImm) = p0 * 4 + p5 * 4096
  <2>1. Piece(imm, 0, 5) = p0
    BY Powers DEF Piece
  <2>2. Piece(imm, 5, 1) = p5
    BY Powers DEF Piece
  <2> HIDE DEF p0, p5
  <2> QED BY <2>1, <2>2, ScatterLayouts
<1>3. \/ ((imm \div 64) = 0 /\ imm = p0 + 32 * p5)
      \/ ((imm \div 64) = -1 /\ imm = p0 + 32 * p5 - 64)
  <2>1. imm = 32 * (imm \div 32) + p0
    OBVIOUS
  <2>2. (imm \div 32) = 2 * (imm \div 64) + p5
    OBVIOUS
  <2>3. (imm \div 64) \in Int /\ ((imm \div 64) = 0 \/ (imm \div 64) = -1)
    OBVIOUS
  <2>4. (imm \div 32) \in Int /\ (imm \div 64) \in Int
    OBVIOUS
  <2> HIDE DEF p0, p5
  <2> QED BY <1>1, <2>1, <2>2, <2>3, <2>4
<1> HIDE DEF p0, p5
<1>4. Parts(w, q, s, r, h, f)
  <2>1. s \in Int /\ 0 <= s /\ s <= 31 /\ r \in Int /\ 0 <= r /\ r <= 31 /\ h \in Int /\ 0 <= h /\ h <= 1
    BY <1>1
  <2>2. w = q + 4 * s + 128 * r + 4096 * h + 8192 * f
    BY <1>1, <1>2
  <2>3. w \in Int
    <3> HIDE DEF s, r, h
    <3> QED BY <2>1, <2>2
  <2> HIDE DEF s, r, h
  <2> QED BY <2>1, <2>2, <2>3 DEF Parts
<1> HIDE DEF s, r, h
<1>5. Gather(w, ImmLayout) = p0 + 32 * p5
  <2>1. Field(w, 2, 5) = p0
    <3>1. s = p0
      BY <1>1 DEF s, r, h
    <3> QED BY <3>1, <1>4, PartFields
  <2>2. Field(w, 12, 1) = p5
    <3>1. h = p5
      BY <1>1 DEF s, r, h
    <3> QED BY <3>1, <1>4, PartFields
  <2>w. w \in Int
    BY <1>4 DEF Parts
  <2> QED BY <1>1, <2>w, <2>1, <2>2, GatherLayouts
<1>6. w \in Parcel /\ Quadrant(w) = q /\ Funct3(w) = f
  BY <1>4, PartFields DEF Funct3
<1>7. RdOf(w) = rd
  <2>1. r = rd
    BY <1>1 DEF s, r
  <2> QED BY <2>1, <1>4, PartFields DEF RdOf
<1>8. Rs2Of(w) = imm % 32 /\ Field(w, 12, 1) = (imm \div 32) % 2
  BY <1>4, PartFields DEF Rs2Of, s, h, p0, p5
<1>9. CregHigh(w) = 8 + (rd % 8) /\ Field(w, 10, 2) = rd \div 8
  <2>1. r = rd
    BY DEF r
  <2> QED BY <2>1, <1>4, PartFields DEF CregHigh
<1>10. Negative(Gather(w, ImmLayout), 6) = imm /\ (Gather(w, ImmLayout) = 0 <=> imm = 0)
  <2>1. 2^(6 - 1) = 32 /\ 2^6 = 64
    BY Powers
  <2> DEFINE g == p0 + 32 * p5
  <2>2. g \in Int /\ 0 <= g /\ g <= 63
    BY <1>1
  <2>3. imm = g \/ imm = g - 64
    BY <1>1, <1>3
  <2>4. Gather(w, ImmLayout) = g
    BY <1>5
  <2> HIDE DEF g
  <2> QED BY <2>1, <2>2, <2>3, <2>4 DEF Negative
<1> QED BY <1>6, <1>7, <1>8, <1>9, <1>10

\* The word of C.ADDI16SP.
AddSpWord(w, q, f, rd, imm) ==
  /\ q \in Int /\ 0 <= q /\ q <= 3 /\ f \in Int /\ 0 <= f /\ f <= 7
  /\ rd \in Int /\ 0 <= rd /\ rd <= 31
  /\ imm \in Int /\ -512 <= imm /\ imm <= 511 /\ imm % 16 = 0
  /\ w = q + 8192 * f + 128 * rd + Scatter(imm, ScatterAddSp)

\* Its fields and its immediate.
LEMMA AddSpFormat ==
  ASSUME NEW w, NEW q, NEW f, NEW rd, NEW imm, AddSpWord(w, q, f, rd, imm)
  PROVE  /\ w \in Parcel
         /\ Quadrant(w) = q
         /\ Funct3(w) = f
         /\ RdOf(w) = rd
         /\ Negative(Gather(w, AddSpLayout), 10) = imm
         /\ (Gather(w, AddSpLayout) = 0 <=> imm = 0)
<1> USE DEF AddSpWord
<1> DEFINE p5 == ((imm \div 32) % 2)
           p7 == ((imm \div 128) % 4)
           p6 == ((imm \div 64) % 2)
           p4 == ((imm \div 16) % 2)
           p9 == ((imm \div 512) % 2)
           s == p5 + 2 * p7 + 8 * p6 + 16 * p4
           r == rd
           h == p9
<1>1. /\ p5 \in Int /\ 0 <= p5 /\ p5 <= 1
      /\ p7 \in Int /\ 0 <= p7 /\ p7 <= 3
      /\ p6 \in Int /\ 0 <= p6 /\ p6 <= 1
      /\ p4 \in Int /\ 0 <= p4 /\ p4 <= 1
      /\ p9 \in Int /\ 0 <= p9 /\ p9 <= 1
  OBVIOUS
<1>2. Scatter(imm, ScatterAddSp) = p5 * 4 + p7 * 8 + p6 * 32 + p4 * 64 + p9 * 4096
  <2>1. Piece(imm, 5, 1) = p5
    BY Powers DEF Piece
  <2>2. Piece(imm, 7, 2) = p7
    BY Powers DEF Piece
  <2>3. Piece(imm, 6, 1) = p6
    BY Powers DEF Piece
  <2>4. Piece(imm, 4, 1) = p4
    BY Powers DEF Piece
  <2>5. Piece(imm, 9, 1) = p9
    BY Powers DEF Piece
  <2> HIDE DEF p5, p7, p6, p4, p9
  <2> QED BY <2>1, <2>2, <2>3, <2>4, <2>5, ScatterLayouts
<1>3. \/ ((imm \div 1024) = 0 /\ imm = 16 * p4 + 32 * p5 + 64 * p6 + 128 * p7 + 512 * p9)
      \/ ((imm \div 1024) = -1 /\ imm = 16 * p4 + 32 * p5 + 64 * p6 + 128 * p7 + 512 * p9 - 1024)
  <2>1. imm = 16 * (imm \div 16)
    OBVIOUS
  <2>2. (imm \div 16) = 2 * (imm \div 32) + p4
    OBVIOUS
  <2>3. (imm \div 32) = 2 * (imm \div 64) + p5
    OBVIOUS
  <2>4. (imm \div 64) = 2 * (imm \div 128) + p6
    OBVIOUS
  <2>5. (imm \div 128) = 4 * (imm \div 512) + p7
    OBVIOUS
  <2>6. (imm \div 512) = 2 * (imm \div 1024) + p9
    OBVIOUS
  <2>7. (imm \div 1024) \in Int /\ ((imm \div 1024) = 0 \/ (imm \div 1024) = -1)
    OBVIOUS
  <2>8. (imm \div 32) \in Int /\ (imm \div 64) \in Int /\ (imm \div 128) \in Int /\ (imm \div 512) \in Int /\ (imm \div 1024) \in Int
    OBVIOUS
  <2> HIDE DEF p5, p7, p6, p4, p9
  <2> QED BY <1>1, <2>1, <2>2, <2>3, <2>4, <2>5, <2>6, <2>7, <2>8
<1> HIDE DEF p5, p7, p6, p4, p9
<1>4. Parts(w, q, s, r, h, f)
  <2>1. s \in Int /\ 0 <= s /\ s <= 31 /\ r \in Int /\ 0 <= r /\ r <= 31 /\ h \in Int /\ 0 <= h /\ h <= 1
    BY <1>1
  <2>2. w = q + 4 * s + 128 * r + 4096 * h + 8192 * f
    BY <1>1, <1>2
  <2>3. w \in Int
    <3> HIDE DEF s, r, h
    <3> QED BY <2>1, <2>2
  <2> HIDE DEF s, r, h
  <2> QED BY <2>1, <2>2, <2>3 DEF Parts
<1> HIDE DEF s, r, h
<1>5. Gather(w, AddSpLayout) = 16 * p4 + 32 * p5 + 64 * p6 + 128 * p7 + 512 * p9
  <2>1. Field(w, 2, 1) = p5
    <3>1. s % 2 = p5
      BY <1>1 DEF s, r, h
    <3> QED BY <3>1, <1>4, PartFields
  <2>2. Field(w, 3, 2) = p7
    <3>1. (s \div 2) % 4 = p7
      BY <1>1 DEF s, r, h
    <3> QED BY <3>1, <1>4, PartFields
  <2>3. Field(w, 5, 1) = p6
    <3>1. (s \div 8) % 2 = p6
      BY <1>1 DEF s, r, h
    <3> QED BY <3>1, <1>4, PartFields
  <2>4. Field(w, 6, 1) = p4
    <3>1. s \div 16 = p4
      BY <1>1 DEF s, r, h
    <3> QED BY <3>1, <1>4, PartFields
  <2>5. Field(w, 12, 1) = p9
    <3>1. h = p9
      BY <1>1 DEF s, r, h
    <3> QED BY <3>1, <1>4, PartFields
  <2>w. w \in Int
    BY <1>4 DEF Parts
  <2> QED BY <1>1, <2>w, <2>1, <2>2, <2>3, <2>4, <2>5, GatherLayouts
<1>6. w \in Parcel /\ Quadrant(w) = q /\ Funct3(w) = f
  BY <1>4, PartFields DEF Funct3
<1>7. RdOf(w) = rd
  <2>1. r = rd
    BY <1>1 DEF s, r
  <2> QED BY <2>1, <1>4, PartFields DEF RdOf
<1>8. Negative(Gather(w, AddSpLayout), 10) = imm /\ (Gather(w, AddSpLayout) = 0 <=> imm = 0)
  <2>1. 2^(10 - 1) = 512 /\ 2^10 = 1024
    BY Powers
  <2> DEFINE g == 16 * p4 + 32 * p5 + 64 * p6 + 128 * p7 + 512 * p9
  <2>2. g \in Int /\ 0 <= g /\ g <= 1023
    BY <1>1
  <2>3. imm = g \/ imm = g - 1024
    BY <1>1, <1>3
  <2>4. Gather(w, AddSpLayout) = g
    BY <1>5
  <2> HIDE DEF g
  <2> QED BY <2>1, <2>2, <2>3, <2>4 DEF Negative
<1> QED BY <1>6, <1>7, <1>8

\* The word of C.J and C.JAL.
JumpWord(w, q, f, imm) ==
  /\ q \in Int /\ 0 <= q /\ q <= 3 /\ f \in Int /\ 0 <= f /\ f <= 7
  /\ imm \in Int /\ -2048 <= imm /\ imm <= 2047 /\ imm % 2 = 0
  /\ w = q + 8192 * f + Scatter(imm, ScatterJump)

\* Its fields and its offset.
LEMMA JumpFormat ==
  ASSUME NEW w, NEW q, NEW f, NEW imm, JumpWord(w, q, f, imm)
  PROVE  /\ w \in Parcel
         /\ Quadrant(w) = q
         /\ Funct3(w) = f
         /\ Negative(Gather(w, JumpLayout), 12) = imm
         /\ (Gather(w, JumpLayout) = 0 <=> imm = 0)
<1> USE DEF JumpWord
<1> DEFINE p5 == ((imm \div 32) % 2)
           p1 == ((imm \div 2) % 8)
           p7 == ((imm \div 128) % 2)
           p6 == ((imm \div 64) % 2)
           p10 == ((imm \div 1024) % 2)
           p8 == ((imm \div 256) % 4)
           p4 == ((imm \div 16) % 2)
           p11 == ((imm \div 2048) % 2)
           s == p5 + 2 * p1 + 16 * p7
           r == p6 + 2 * p10 + 4 * p8 + 16 * p4
           h == p11
<1>1. /\ p5 \in Int /\ 0 <= p5 /\ p5 <= 1
      /\ p1 \in Int /\ 0 <= p1 /\ p1 <= 7
      /\ p7 \in Int /\ 0 <= p7 /\ p7 <= 1
      /\ p6 \in Int /\ 0 <= p6 /\ p6 <= 1
      /\ p10 \in Int /\ 0 <= p10 /\ p10 <= 1
      /\ p8 \in Int /\ 0 <= p8 /\ p8 <= 3
      /\ p4 \in Int /\ 0 <= p4 /\ p4 <= 1
      /\ p11 \in Int /\ 0 <= p11 /\ p11 <= 1
  OBVIOUS
<1>2. Scatter(imm, ScatterJump) = p5 * 4 + p1 * 8 + p7 * 64 + p6 * 128 + p10 * 256 + p8 * 512 + p4 * 2048 + p11 * 4096
  <2>1. Piece(imm, 5, 1) = p5
    BY Powers DEF Piece
  <2>2. Piece(imm, 1, 3) = p1
    BY Powers DEF Piece
  <2>3. Piece(imm, 7, 1) = p7
    BY Powers DEF Piece
  <2>4. Piece(imm, 6, 1) = p6
    BY Powers DEF Piece
  <2>5. Piece(imm, 10, 1) = p10
    BY Powers DEF Piece
  <2>6. Piece(imm, 8, 2) = p8
    BY Powers DEF Piece
  <2>7. Piece(imm, 4, 1) = p4
    BY Powers DEF Piece
  <2>8. Piece(imm, 11, 1) = p11
    BY Powers DEF Piece
  <2> HIDE DEF p5, p1, p7, p6, p10, p8, p4, p11
  <2> QED BY <2>1, <2>2, <2>3, <2>4, <2>5, <2>6, <2>7, <2>8, ScatterLayouts
<1>3. \/ ((imm \div 4096) = 0 /\ imm = 2 * p1 + 16 * p4 + 32 * p5 + 64 * p6 + 128 * p7 + 256 * p8 + 1024 * p10 + 2048 * p11)
      \/ ((imm \div 4096) = -1 /\ imm = 2 * p1 + 16 * p4 + 32 * p5 + 64 * p6 + 128 * p7 + 256 * p8 + 1024 * p10 + 2048 * p11 - 4096)
  <2>1. imm = 2 * (imm \div 2)
    OBVIOUS
  <2>2. (imm \div 2) = 8 * (imm \div 16) + p1
    OBVIOUS
  <2>3. (imm \div 16) = 2 * (imm \div 32) + p4
    OBVIOUS
  <2>4. (imm \div 32) = 2 * (imm \div 64) + p5
    OBVIOUS
  <2>5. (imm \div 64) = 2 * (imm \div 128) + p6
    OBVIOUS
  <2>6. (imm \div 128) = 2 * (imm \div 256) + p7
    OBVIOUS
  <2>7. (imm \div 256) = 4 * (imm \div 1024) + p8
    OBVIOUS
  <2>8. (imm \div 1024) = 2 * (imm \div 2048) + p10
    OBVIOUS
  <2>9. (imm \div 2048) = 2 * (imm \div 4096) + p11
    OBVIOUS
  <2>10. (imm \div 4096) \in Int /\ ((imm \div 4096) = 0 \/ (imm \div 4096) = -1)
    OBVIOUS
  <2>11. (imm \div 16) \in Int /\ (imm \div 32) \in Int /\ (imm \div 64) \in Int /\ (imm \div 128) \in Int /\ (imm \div 256) \in Int /\ (imm \div 1024) \in Int /\ (imm \div 2048) \in Int /\ (imm \div 4096) \in Int
    OBVIOUS
  <2> HIDE DEF p5, p1, p7, p6, p10, p8, p4, p11
  <2> QED BY <1>1, <2>1, <2>2, <2>3, <2>4, <2>5, <2>6, <2>7, <2>8, <2>9, <2>10, <2>11
<1> HIDE DEF p5, p1, p7, p6, p10, p8, p4, p11
<1>4. Parts(w, q, s, r, h, f)
  <2>1. s \in Int /\ 0 <= s /\ s <= 31 /\ r \in Int /\ 0 <= r /\ r <= 31 /\ h \in Int /\ 0 <= h /\ h <= 1
    BY <1>1
  <2>2. w = q + 4 * s + 128 * r + 4096 * h + 8192 * f
    BY <1>1, <1>2
  <2>3. w \in Int
    <3> HIDE DEF s, r, h
    <3> QED BY <2>1, <2>2
  <2> HIDE DEF s, r, h
  <2> QED BY <2>1, <2>2, <2>3 DEF Parts
<1> HIDE DEF s, r, h
<1>5. Gather(w, JumpLayout) = 2 * p1 + 16 * p4 + 32 * p5 + 64 * p6 + 128 * p7 + 256 * p8 + 1024 * p10 + 2048 * p11
  <2>1. Field(w, 2, 1) = p5
    <3>1. s % 2 = p5
      BY <1>1 DEF s, r, h
    <3> QED BY <3>1, <1>4, PartFields
  <2>2. Field(w, 3, 3) = p1
    <3>1. (s \div 2) % 8 = p1
      BY <1>1 DEF s, r, h
    <3> QED BY <3>1, <1>4, PartFields
  <2>3. Field(w, 6, 1) = p7
    <3>1. s \div 16 = p7
      BY <1>1 DEF s, r, h
    <3> QED BY <3>1, <1>4, PartFields
  <2>4. Field(w, 7, 1) = p6
    <3>1. r % 2 = p6
      BY <1>1 DEF s, r, h
    <3> QED BY <3>1, <1>4, PartFields
  <2>5. Field(w, 8, 1) = p10
    <3>1. (r \div 2) % 2 = p10
      BY <1>1 DEF s, r, h
    <3> QED BY <3>1, <1>4, PartFields
  <2>6. Field(w, 9, 2) = p8
    <3>1. (r \div 4) % 4 = p8
      BY <1>1 DEF s, r, h
    <3> QED BY <3>1, <1>4, PartFields
  <2>7. Field(w, 11, 1) = p4
    <3>1. r \div 16 = p4
      BY <1>1 DEF s, r, h
    <3> QED BY <3>1, <1>4, PartFields
  <2>8. Field(w, 12, 1) = p11
    <3>1. h = p11
      BY <1>1 DEF s, r, h
    <3> QED BY <3>1, <1>4, PartFields
  <2>w. w \in Int
    BY <1>4 DEF Parts
  <2> QED BY <1>1, <2>w, <2>1, <2>2, <2>3, <2>4, <2>5, <2>6, <2>7, <2>8, GatherLayouts
<1>6. w \in Parcel /\ Quadrant(w) = q /\ Funct3(w) = f
  BY <1>4, PartFields DEF Funct3
<1>7. Negative(Gather(w, JumpLayout), 12) = imm /\ (Gather(w, JumpLayout) = 0 <=> imm = 0)
  <2>1. 2^(12 - 1) = 2048 /\ 2^12 = 4096
    BY Powers
  <2> DEFINE g == 2 * p1 + 16 * p4 + 32 * p5 + 64 * p6 + 128 * p7 + 256 * p8 + 1024 * p10 + 2048 * p11
  <2>2. g \in Int /\ 0 <= g /\ g <= 4095
    BY <1>1
  <2>3. imm = g \/ imm = g - 4096
    BY <1>1, <1>3
  <2>4. Gather(w, JumpLayout) = g
    BY <1>5
  <2> HIDE DEF g
  <2> QED BY <2>1, <2>2, <2>3, <2>4 DEF Negative
<1> QED BY <1>6, <1>7

\* The word of C.BEQZ and C.BNEZ.
BranchWord(w, q, f, high, imm) ==
  /\ q \in Int /\ 0 <= q /\ q <= 3 /\ f \in Int /\ 0 <= f /\ f <= 7
  /\ high \in Int /\ 0 <= high /\ high <= 7
  /\ imm \in Int /\ -256 <= imm /\ imm <= 255 /\ imm % 2 = 0
  /\ w = q + 8192 * f + 128 * high + Scatter(imm, ScatterBranch)

\* Its fields and its offset.
LEMMA BranchFormat ==
  ASSUME NEW w, NEW q, NEW f, NEW high, NEW imm, BranchWord(w, q, f, high, imm)
  PROVE  /\ w \in Parcel
         /\ Quadrant(w) = q
         /\ Funct3(w) = f
         /\ CregHigh(w) = 8 + high
         /\ Negative(Gather(w, BranchLayout), 9) = imm
         /\ (Gather(w, BranchLayout) = 0 <=> imm = 0)
<1> USE DEF BranchWord
<1> DEFINE p5 == ((imm \div 32) % 2)
           p1 == ((imm \div 2) % 4)
           p6 == ((imm \div 64) % 4)
           p3 == ((imm \div 8) % 4)
           p8 == ((imm \div 256) % 2)
           s == p5 + 2 * p1 + 8 * p6
           r == high + 8 * p3
           h == p8
<1>1. /\ p5 \in Int /\ 0 <= p5 /\ p5 <= 1
      /\ p1 \in Int /\ 0 <= p1 /\ p1 <= 3
      /\ p6 \in Int /\ 0 <= p6 /\ p6 <= 3
      /\ p3 \in Int /\ 0 <= p3 /\ p3 <= 3
      /\ p8 \in Int /\ 0 <= p8 /\ p8 <= 1
  OBVIOUS
<1>2. Scatter(imm, ScatterBranch) = p5 * 4 + p1 * 8 + p6 * 32 + p3 * 1024 + p8 * 4096
  <2>1. Piece(imm, 5, 1) = p5
    BY Powers DEF Piece
  <2>2. Piece(imm, 1, 2) = p1
    BY Powers DEF Piece
  <2>3. Piece(imm, 6, 2) = p6
    BY Powers DEF Piece
  <2>4. Piece(imm, 3, 2) = p3
    BY Powers DEF Piece
  <2>5. Piece(imm, 8, 1) = p8
    BY Powers DEF Piece
  <2> HIDE DEF p5, p1, p6, p3, p8
  <2> QED BY <2>1, <2>2, <2>3, <2>4, <2>5, ScatterLayouts
<1>3. \/ ((imm \div 512) = 0 /\ imm = 2 * p1 + 8 * p3 + 32 * p5 + 64 * p6 + 256 * p8)
      \/ ((imm \div 512) = -1 /\ imm = 2 * p1 + 8 * p3 + 32 * p5 + 64 * p6 + 256 * p8 - 512)
  <2>1. imm = 2 * (imm \div 2)
    OBVIOUS
  <2>2. (imm \div 2) = 4 * (imm \div 8) + p1
    OBVIOUS
  <2>3. (imm \div 8) = 4 * (imm \div 32) + p3
    OBVIOUS
  <2>4. (imm \div 32) = 2 * (imm \div 64) + p5
    OBVIOUS
  <2>5. (imm \div 64) = 4 * (imm \div 256) + p6
    OBVIOUS
  <2>6. (imm \div 256) = 2 * (imm \div 512) + p8
    OBVIOUS
  <2>7. (imm \div 512) \in Int /\ ((imm \div 512) = 0 \/ (imm \div 512) = -1)
    OBVIOUS
  <2>8. (imm \div 8) \in Int /\ (imm \div 32) \in Int /\ (imm \div 64) \in Int /\ (imm \div 256) \in Int /\ (imm \div 512) \in Int
    OBVIOUS
  <2> HIDE DEF p5, p1, p6, p3, p8
  <2> QED BY <1>1, <2>1, <2>2, <2>3, <2>4, <2>5, <2>6, <2>7, <2>8
<1> HIDE DEF p5, p1, p6, p3, p8
<1>4. Parts(w, q, s, r, h, f)
  <2>1. s \in Int /\ 0 <= s /\ s <= 31 /\ r \in Int /\ 0 <= r /\ r <= 31 /\ h \in Int /\ 0 <= h /\ h <= 1
    BY <1>1
  <2>2. w = q + 4 * s + 128 * r + 4096 * h + 8192 * f
    BY <1>1, <1>2
  <2>3. w \in Int
    <3> HIDE DEF s, r, h
    <3> QED BY <2>1, <2>2
  <2> HIDE DEF s, r, h
  <2> QED BY <2>1, <2>2, <2>3 DEF Parts
<1> HIDE DEF s, r, h
<1>5. Gather(w, BranchLayout) = 2 * p1 + 8 * p3 + 32 * p5 + 64 * p6 + 256 * p8
  <2>1. Field(w, 2, 1) = p5
    <3>1. s % 2 = p5
      BY <1>1 DEF s, r, h
    <3> QED BY <3>1, <1>4, PartFields
  <2>2. Field(w, 3, 2) = p1
    <3>1. (s \div 2) % 4 = p1
      BY <1>1 DEF s, r, h
    <3> QED BY <3>1, <1>4, PartFields
  <2>3. Field(w, 5, 2) = p6
    <3>1. s \div 8 = p6
      BY <1>1 DEF s, r, h
    <3> QED BY <3>1, <1>4, PartFields
  <2>4. Field(w, 10, 2) = p3
    <3>1. r \div 8 = p3
      BY <1>1 DEF s, r, h
    <3> QED BY <3>1, <1>4, PartFields
  <2>5. Field(w, 12, 1) = p8
    <3>1. h = p8
      BY <1>1 DEF s, r, h
    <3> QED BY <3>1, <1>4, PartFields
  <2>w. w \in Int
    BY <1>4 DEF Parts
  <2> QED BY <1>1, <2>w, <2>1, <2>2, <2>3, <2>4, <2>5, GatherLayouts
<1>6. w \in Parcel /\ Quadrant(w) = q /\ Funct3(w) = f
  BY <1>4, PartFields DEF Funct3
<1>7. CregHigh(w) = 8 + high
  <2>1. r % 8 = high
    BY <1>1 DEF s, r
  <2> QED BY <2>1, <1>4, PartFields DEF CregHigh
<1>8. Negative(Gather(w, BranchLayout), 9) = imm /\ (Gather(w, BranchLayout) = 0 <=> imm = 0)
  <2>1. 2^(9 - 1) = 256 /\ 2^9 = 512
    BY Powers
  <2> DEFINE g == 2 * p1 + 8 * p3 + 32 * p5 + 64 * p6 + 256 * p8
  <2>2. g \in Int /\ 0 <= g /\ g <= 511
    BY <1>1
  <2>3. imm = g \/ imm = g - 512
    BY <1>1, <1>3
  <2>4. Gather(w, BranchLayout) = g
    BY <1>5
  <2> HIDE DEF g
  <2> QED BY <2>1, <2>2, <2>3, <2>4 DEF Negative
<1> QED BY <1>6, <1>7, <1>8

\* The word of a load from the stack.
LoadSpWord(w, q, f, rd, imm) ==
  /\ q \in Int /\ 0 <= q /\ q <= 3 /\ f \in Int /\ 0 <= f /\ f <= 7
  /\ rd \in Int /\ 0 <= rd /\ rd <= 31
  /\ imm \in Int /\ 0 <= imm /\ imm <= 255 /\ imm % 4 = 0
  /\ w = q + 8192 * f + 128 * rd + Scatter(imm, ScatterLoadSp)

\* Its fields and its offset.
LEMMA LoadSpFormat ==
  ASSUME NEW w, NEW q, NEW f, NEW rd, NEW imm, LoadSpWord(w, q, f, rd, imm)
  PROVE  /\ w \in Parcel
         /\ Quadrant(w) = q
         /\ Funct3(w) = f
         /\ RdOf(w) = rd
         /\ Gather(w, LoadSpLayout) = imm
<1> USE DEF LoadSpWord
<1> DEFINE p6 == ((imm \div 64) % 4)
           p2 == ((imm \div 4) % 8)
           p5 == ((imm \div 32) % 2)
           s == p6 + 4 * p2
           r == rd
           h == p5
<1>1. /\ p6 \in Int /\ 0 <= p6 /\ p6 <= 3
      /\ p2 \in Int /\ 0 <= p2 /\ p2 <= 7
      /\ p5 \in Int /\ 0 <= p5 /\ p5 <= 1
  OBVIOUS
<1>2. Scatter(imm, ScatterLoadSp) = p6 * 4 + p2 * 16 + p5 * 4096
  <2>1. Piece(imm, 6, 2) = p6
    BY Powers DEF Piece
  <2>2. Piece(imm, 2, 3) = p2
    BY Powers DEF Piece
  <2>3. Piece(imm, 5, 1) = p5
    BY Powers DEF Piece
  <2> HIDE DEF p6, p2, p5
  <2> QED BY <2>1, <2>2, <2>3, ScatterLayouts
<1>3. imm = 4 * p2 + 32 * p5 + 64 * p6
  <2>1. imm = 4 * (imm \div 4)
    OBVIOUS
  <2>2. (imm \div 4) = 8 * (imm \div 32) + p2
    OBVIOUS
  <2>3. (imm \div 32) = 2 * (imm \div 64) + p5
    OBVIOUS
  <2>4. (imm \div 64) = 4 * (imm \div 256) + p6
    OBVIOUS
  <2>5. (imm \div 256) \in Int /\ (imm \div 256) = 0
    OBVIOUS
  <2>6. (imm \div 32) \in Int /\ (imm \div 64) \in Int /\ (imm \div 256) \in Int
    OBVIOUS
  <2> HIDE DEF p6, p2, p5
  <2> QED BY <1>1, <2>1, <2>2, <2>3, <2>4, <2>5, <2>6
<1> HIDE DEF p6, p2, p5
<1>4. Parts(w, q, s, r, h, f)
  <2>1. s \in Int /\ 0 <= s /\ s <= 31 /\ r \in Int /\ 0 <= r /\ r <= 31 /\ h \in Int /\ 0 <= h /\ h <= 1
    BY <1>1
  <2>2. w = q + 4 * s + 128 * r + 4096 * h + 8192 * f
    BY <1>1, <1>2
  <2>3. w \in Int
    <3> HIDE DEF s, r, h
    <3> QED BY <2>1, <2>2
  <2> HIDE DEF s, r, h
  <2> QED BY <2>1, <2>2, <2>3 DEF Parts
<1> HIDE DEF s, r, h
<1>5. Gather(w, LoadSpLayout) = 4 * p2 + 32 * p5 + 64 * p6
  <2>1. Field(w, 2, 2) = p6
    <3>1. s % 4 = p6
      BY <1>1 DEF s, r, h
    <3> QED BY <3>1, <1>4, PartFields
  <2>2. Field(w, 4, 3) = p2
    <3>1. s \div 4 = p2
      BY <1>1 DEF s, r, h
    <3> QED BY <3>1, <1>4, PartFields
  <2>3. Field(w, 12, 1) = p5
    <3>1. h = p5
      BY <1>1 DEF s, r, h
    <3> QED BY <3>1, <1>4, PartFields
  <2>w. w \in Int
    BY <1>4 DEF Parts
  <2> QED BY <1>1, <2>w, <2>1, <2>2, <2>3, GatherLayouts
<1>6. w \in Parcel /\ Quadrant(w) = q /\ Funct3(w) = f
  BY <1>4, PartFields DEF Funct3
<1>7. RdOf(w) = rd
  <2>1. r = rd
    BY <1>1 DEF s, r
  <2> QED BY <2>1, <1>4, PartFields DEF RdOf
<1> QED BY <1>3, <1>5, <1>6, <1>7

\* The word of a store to the stack.
StoreSpWord(w, q, f, rs2, imm) ==
  /\ q \in Int /\ 0 <= q /\ q <= 3 /\ f \in Int /\ 0 <= f /\ f <= 7
  /\ rs2 \in Int /\ 0 <= rs2 /\ rs2 <= 31
  /\ imm \in Int /\ 0 <= imm /\ imm <= 255 /\ imm % 4 = 0
  /\ w = q + 8192 * f + 4 * rs2 + Scatter(imm, ScatterStoreSp)

\* Its fields and its offset.
LEMMA StoreSpFormat ==
  ASSUME NEW w, NEW q, NEW f, NEW rs2, NEW imm, StoreSpWord(w, q, f, rs2, imm)
  PROVE  /\ w \in Parcel
         /\ Quadrant(w) = q
         /\ Funct3(w) = f
         /\ Rs2Of(w) = rs2
         /\ Gather(w, StoreSpLayout) = imm
<1> USE DEF StoreSpWord
<1> DEFINE p6 == ((imm \div 64) % 4)
           p2 == ((imm \div 4) % 16)
           s == rs2
           r == p6 + 4 * (p2 % 8)
           h == (p2 \div 8)
<1>1. /\ p6 \in Int /\ 0 <= p6 /\ p6 <= 3
      /\ p2 \in Int /\ 0 <= p2 /\ p2 <= 15
  OBVIOUS
<1>2. Scatter(imm, ScatterStoreSp) = p6 * 128 + p2 * 512
  <2>1. Piece(imm, 6, 2) = p6
    BY Powers DEF Piece
  <2>2. Piece(imm, 2, 4) = p2
    BY Powers DEF Piece
  <2> HIDE DEF p6, p2
  <2> QED BY <2>1, <2>2, ScatterLayouts
<1>3. imm = 4 * p2 + 64 * p6
  <2>1. imm = 4 * (imm \div 4)
    OBVIOUS
  <2>2. (imm \div 4) = 16 * (imm \div 64) + p2
    OBVIOUS
  <2>3. (imm \div 64) = 4 * (imm \div 256) + p6
    OBVIOUS
  <2>4. (imm \div 256) \in Int /\ (imm \div 256) = 0
    OBVIOUS
  <2>5. (imm \div 64) \in Int /\ (imm \div 256) \in Int
    OBVIOUS
  <2> HIDE DEF p6, p2
  <2> QED BY <1>1, <2>1, <2>2, <2>3, <2>4, <2>5
<1> HIDE DEF p6, p2
<1>4. Parts(w, q, s, r, h, f)
  <2>1. s \in Int /\ 0 <= s /\ s <= 31 /\ r \in Int /\ 0 <= r /\ r <= 31 /\ h \in Int /\ 0 <= h /\ h <= 1
    BY <1>1
  <2>2. w = q + 4 * s + 128 * r + 4096 * h + 8192 * f
    BY <1>1, <1>2
  <2>3. w \in Int
    <3> HIDE DEF s, r, h
    <3> QED BY <2>1, <2>2
  <2> HIDE DEF s, r, h
  <2> QED BY <2>1, <2>2, <2>3 DEF Parts
<1> HIDE DEF s, r, h
<1>5. Gather(w, StoreSpLayout) = 4 * p2 + 64 * p6
  <2>1. Field(w, 7, 2) = p6
    <3>1. r % 4 = p6
      BY <1>1 DEF s, r, h
    <3> QED BY <3>1, <1>4, PartFields
  <2>2. Field(w, 9, 4) = p2
    <3>1. (r \div 4) + 8 * h = p2
      BY <1>1 DEF s, r, h
    <3> QED BY <3>1, <1>4, PartFields
  <2>w. w \in Int
    BY <1>4 DEF Parts
  <2> QED BY <1>1, <2>w, <2>1, <2>2, GatherLayouts
<1>6. w \in Parcel /\ Quadrant(w) = q /\ Funct3(w) = f
  BY <1>4, PartFields DEF Funct3
<1>7. Rs2Of(w) = rs2
  <2>1. s = rs2
    BY <1>1 DEF s, r
  <2> QED BY <2>1, <1>4, PartFields DEF Rs2Of
<1> QED BY <1>3, <1>5, <1>6, <1>7

(***************************************************************************)
(* The compressed instructions make the round trip.                        *)
(***************************************************************************)
\* The instruction of a parcel on a hart with all extensions.
Decoded(w) == Decode16(w, TRUE, TRUE)

\* A compressed word of these operands is a parcel that its decoder reads as
\* the instruction of the type with these operands.
ParcelTrip(t, d, w) ==
  /\ w \in Parcel
  /\ Decoded(w) = Instr(Canonical(t), d.rd, d.rs1, d.rs2, d.imm, w)

\* The registers of the compressed formats.
CRegister(r) == r \in Int /\ 8 <= r /\ r <= 15
\* The registers of the other formats.
Register(r) == r \in Int /\ 0 <= r /\ r <= 31

\* The fields of drawn operands.
LEMMA DrawnFields ==
  ASSUME NEW t, NEW rds, NEW rs1s, NEW rs2s, NEW imms, NEW d \in Drawn(t, rds, rs1s, rs2s, imms)
  PROVE  d.type = t /\ d.rd \in rds /\ d.rs1 \in rs1s /\ d.rs2 \in rs2s /\ d.imm \in imms
BY DEF Drawn

\* The ranges of the drawn registers.
LEMMA RegisterRanges ==
  /\ \A i \in Regs : Register(i)
  /\ \A i \in CRegs : CRegister(i)
BY DrawAssumption DEF Register, CRegister

\* The ranges of the compressed immediates.
LEMMA ParcelRanges ==
  /\ \A i \in {4 * v : v \in UnsignedProbes(5)} : Between(i, 0, 127) /\ i % 4 = 0
  /\ \A i \in {4 * v : v \in UnsignedProbes(6)} : Between(i, 0, 255) /\ i % 4 = 0
  /\ \A i \in {4 * v : v \in UnsignedProbes(8) \ {0}} : Between(i, 0, 1023) /\ i % 4 = 0 /\ i # 0
  /\ \A i \in {16 * v : v \in Probes(6) \ {0}} : Between(i, -512, 511) /\ i % 16 = 0 /\ i # 0
  /\ \A i \in {4096 * v : v \in Probes(6) \ {0}} :
       i = 4096 * (i \div 4096) /\ Between(i \div 4096, -32, 31) /\ i \div 4096 # 0
<1>1. \A v : Between(v, 0, 31) => Between(4 * v, 0, 127) /\ (4 * v) % 4 = 0
  BY DEF Between
<1>2. \A v : Between(v, 0, 63) => Between(4 * v, 0, 255) /\ (4 * v) % 4 = 0
  BY DEF Between
<1>3. \A v : Between(v, 0, 255) /\ v # 0 => Between(4 * v, 0, 1023) /\ (4 * v) % 4 = 0 /\ 4 * v # 0
  BY DEF Between
<1>4. \A v : Between(v, -32, 31) /\ v # 0 => Between(16 * v, -512, 511) /\ (16 * v) % 16 = 0 /\ 16 * v # 0
  BY DEF Between
<1>5. \A v : Between(v, -32, 31) /\ v # 0 => (4096 * v) \div 4096 = v
  BY DEF Between
<1> QED BY <1>1, <1>2, <1>3, <1>4, <1>5, ProbeRanges

\* C.ADDI4SPN.
LEMMA AddSpnTrips ==
  ASSUME NEW t \in {"C_ADDI4SPN"},
         NEW d, d.type = t, CRegister(d.rd), d.rs1 = 2, d.rs2 = 0, Between(d.imm, 0, 1023), d.imm % 4 = 0, d.imm # 0
  PROVE  ParcelTrip(t, d, Encode16(d))
<1> DEFINE w == Encode16(d)
<1>1. w = Skeleton(t) + (Low(d.rd) + Scatter(d.imm, ScatterAddSpn))
  BY DEF Encode16
<1>2. Skeleton(t) = 0
  BY DEF Skeleton
<1>3. Low(d.rd) = 4 * (d.rd - 8)
  BY DEF Low, CRegister, Register
<1> HIDE DEF w
<1>5. AddSpnWord(w, 0, 0, d.rd - 8, d.imm)
  <2>1. Scatter(d.imm, ScatterAddSpn) \in Int
    BY ScatterTypes DEF Between
  <2> QED BY <1>1, <1>2, <1>3, <2>1 DEF AddSpnWord, CRegister, Register, Between
<1>6. /\ w \in Parcel /\ Quadrant(w) = 0 /\ Funct3(w) = 0 /\ CregLow(w) = d.rd /\ Gather(w, AddSpnLayout) = d.imm
  BY <1>5, AddSpnFormat DEF CRegister, Between
<1>7. Decoded(w) = Instr("C_ADDI4SPN", d.rd, 2, 0, d.imm, w)
  BY <1>6 DEF Decoded, Decode16, IsCompressedFloat, CDecode, Quadrant0
<1>8. Canonical(t) = "C_ADDI4SPN"
  BY DEF Canonical
<1>9. Instr("C_ADDI4SPN", d.rd, 2, 0, d.imm, w) = Instr(Canonical(t), d.rd, d.rs1, d.rs2, d.imm, w)
  BY <1>8
<1>10. w \in Parcel
  BY <1>6
<1>11. ParcelTrip(t, d, w)
  BY <1>7, <1>9, <1>10 DEF ParcelTrip
<1> QED BY <1>11 DEF w

\* C.LW and C.FLW.
LEMMA LoadTrips ==
  ASSUME NEW t \in {"C_LW", "C_FLW"},
         NEW d, d.type = t, CRegister(d.rd), CRegister(d.rs1), d.rs2 = 0, Between(d.imm, 0, 127), d.imm % 4 = 0
  PROVE  ParcelTrip(t, d, Encode16(d))
<1> DEFINE w == Encode16(d)
           f == IF t = "C_LW" THEN 2 ELSE 3
<1>1. w = Skeleton(t) + (Low(d.rd) + High(d.rs1) + Scatter(d.imm, ScatterWord))
  BY DEF Encode16
<1>2. Skeleton(t) = 8192 * f
  BY DEF Skeleton
<1>3. Low(d.rd) = 4 * (d.rd - 8) /\ High(d.rs1) = 128 * (d.rs1 - 8)
  BY DEF Low, High, CRegister, Register
<1> HIDE DEF w
<1>4. f \in Int /\ 0 <= f /\ f <= 7
  OBVIOUS
<1>5. WordWord(w, 0, f, d.rd - 8, d.rs1 - 8, d.imm)
  <2>1. Scatter(d.imm, ScatterWord) \in Int
    BY ScatterTypes DEF Between
  <2> HIDE DEF f
  <2> QED BY <1>1, <1>2, <1>3, <1>4, <2>1 DEF WordWord, CRegister, Register, Between
<1>6. /\ w \in Parcel /\ Quadrant(w) = 0 /\ Funct3(w) = f /\ CregLow(w) = d.rd /\ CregHigh(w) = d.rs1
      /\ Gather(w, WordLayout) = d.imm
  <2> HIDE DEF f
  <2> QED BY <1>4, <1>5, WordFormat DEF CRegister, Between
<1>7. Decoded(w) = Instr(t, d.rd, d.rs1, 0, d.imm, w)
  BY <1>6 DEF Decoded, Decode16, IsCompressedFloat, CDecode, Quadrant0, FcDecode
<1>8. Canonical(t) = t
  BY DEF Canonical
<1>9. Instr(t, d.rd, d.rs1, 0, d.imm, w) = Instr(Canonical(t), d.rd, d.rs1, d.rs2, d.imm, w)
  BY <1>8
<1>10. w \in Parcel
  BY <1>6
<1>11. ParcelTrip(t, d, w)
  BY <1>7, <1>9, <1>10 DEF ParcelTrip
<1> QED BY <1>11 DEF w

\* C.SW and C.FSW.
LEMMA StoreTrips ==
  ASSUME NEW t \in {"C_SW", "C_FSW"},
         NEW d, d.type = t, d.rd = 0, CRegister(d.rs1), CRegister(d.rs2), Between(d.imm, 0, 127), d.imm % 4 = 0
  PROVE  ParcelTrip(t, d, Encode16(d))
<1> DEFINE w == Encode16(d)
           f == IF t = "C_SW" THEN 6 ELSE 7
<1>1. w = Skeleton(t) + (Low(d.rs2) + High(d.rs1) + Scatter(d.imm, ScatterWord))
  BY DEF Encode16
<1>2. Skeleton(t) = 8192 * f
  BY DEF Skeleton
<1>3. Low(d.rs2) = 4 * (d.rs2 - 8) /\ High(d.rs1) = 128 * (d.rs1 - 8)
  BY DEF Low, High, CRegister, Register
<1> HIDE DEF w
<1>4. f \in Int /\ 0 <= f /\ f <= 7
  OBVIOUS
<1>5. WordWord(w, 0, f, d.rs2 - 8, d.rs1 - 8, d.imm)
  <2>1. Scatter(d.imm, ScatterWord) \in Int
    BY ScatterTypes DEF Between
  <2> HIDE DEF f
  <2> QED BY <1>1, <1>2, <1>3, <1>4, <2>1 DEF WordWord, CRegister, Register, Between
<1>6. /\ w \in Parcel /\ Quadrant(w) = 0 /\ Funct3(w) = f /\ CregLow(w) = d.rs2 /\ CregHigh(w) = d.rs1
      /\ Gather(w, WordLayout) = d.imm
  <2> HIDE DEF f
  <2> QED BY <1>4, <1>5, WordFormat DEF CRegister, Between
<1>7. Decoded(w) = Instr(t, 0, d.rs1, d.rs2, d.imm, w)
  BY <1>6 DEF Decoded, Decode16, IsCompressedFloat, CDecode, Quadrant0, FcDecode
<1>8. Canonical(t) = t
  BY DEF Canonical
<1>9. Instr(t, 0, d.rs1, d.rs2, d.imm, w) = Instr(Canonical(t), d.rd, d.rs1, d.rs2, d.imm, w)
  BY <1>8
<1>10. w \in Parcel
  BY <1>6
<1>11. ParcelTrip(t, d, w)
  BY <1>7, <1>9, <1>10 DEF ParcelTrip
<1> QED BY <1>11 DEF w

\* C.ADDI and its hint.
LEMMA AddiTrips ==
  ASSUME NEW t \in {"C_ADDI", "C_ADDI_X0"},
         NEW d, d.type = t, Register(d.rd), d.rs1 = d.rd, d.rs2 = 0, Between(d.imm, -32, 31), t = "C_ADDI_X0" <=> d.rd = 0
  PROVE  ParcelTrip(t, d, Encode16(d))
<1> DEFINE w == Encode16(d)
<1>1. w = Skeleton(t) + (At7(d.rd) + Scatter(d.imm, ScatterImm))
  BY DEF Encode16
<1>2. Skeleton(t) = 1
  BY DEF Skeleton
<1>3. At7(d.rd) = 128 * d.rd
  BY DEF At7, CRegister, Register
<1> HIDE DEF w
<1>5. ImmWord(w, 1, 0, d.rd, d.imm)
  <2>1. Scatter(d.imm, ScatterImm) \in Int
    BY ScatterTypes DEF Between
  <2> QED BY <1>1, <1>2, <1>3, <2>1 DEF ImmWord, CRegister, Register, Between
<1>6. /\ w \in Parcel /\ Quadrant(w) = 1 /\ Funct3(w) = 0 /\ RdOf(w) = d.rd /\ Imm6(w) = d.imm
  BY <1>5, ImmFormat DEF CRegister, Between, Imm6
<1>7. Decoded(w) = Instr(Canonical(t), d.rd, d.rd, 0, d.imm, w)
  BY <1>6 DEF Decoded, Decode16, IsCompressedFloat, CDecode, Quadrant1, Canonical
<1>9. Instr(Canonical(t), d.rd, d.rd, 0, d.imm, w) = Instr(Canonical(t), d.rd, d.rs1, d.rs2, d.imm, w)
  OBVIOUS
<1>10. w \in Parcel
  BY <1>6
<1>11. ParcelTrip(t, d, w)
  BY <1>7, <1>9, <1>10 DEF ParcelTrip
<1> QED BY <1>11 DEF w

\* C.LI and its hint.
LEMMA LiTrips ==
  ASSUME NEW t \in {"C_LI", "C_LI_X0"},
         NEW d, d.type = t, Register(d.rd), d.rs1 = 0, d.rs2 = 0, Between(d.imm, -32, 31)
  PROVE  ParcelTrip(t, d, Encode16(d))
<1> DEFINE w == Encode16(d)
<1>1. w = Skeleton(t) + (At7(d.rd) + Scatter(d.imm, ScatterImm))
  BY DEF Encode16
<1>2. Skeleton(t) = 2 * 8192 + 1
  BY DEF Skeleton
<1>3. At7(d.rd) = 128 * d.rd
  BY DEF At7, CRegister, Register
<1> HIDE DEF w
<1>5. ImmWord(w, 1, 2, d.rd, d.imm)
  <2>1. Scatter(d.imm, ScatterImm) \in Int
    BY ScatterTypes DEF Between
  <2> QED BY <1>1, <1>2, <1>3, <2>1 DEF ImmWord, CRegister, Register, Between
<1>6. /\ w \in Parcel /\ Quadrant(w) = 1 /\ Funct3(w) = 2 /\ RdOf(w) = d.rd /\ Imm6(w) = d.imm
  BY <1>5, ImmFormat DEF CRegister, Between, Imm6
<1>7. Decoded(w) = Instr("C_LI", d.rd, 0, 0, d.imm, w)
  BY <1>6 DEF Decoded, Decode16, IsCompressedFloat, CDecode, Quadrant1
<1>8. Canonical(t) = "C_LI"
  BY DEF Canonical
<1>9. Instr("C_LI", d.rd, 0, 0, d.imm, w) = Instr(Canonical(t), d.rd, d.rs1, d.rs2, d.imm, w)
  BY <1>8
<1>10. w \in Parcel
  BY <1>6
<1>11. ParcelTrip(t, d, w)
  BY <1>7, <1>9, <1>10 DEF ParcelTrip
<1> QED BY <1>11 DEF w

\* C.SLLI and its hints.
LEMMA SlliTrips ==
  ASSUME NEW t \in {"C_SLLI", "C_SLLI_X0", "C_SLLI64"},
         NEW d, d.type = t, Register(d.rd), d.rs1 = d.rd, d.rs2 = 0, Between(d.imm, 0, 31)
  PROVE  ParcelTrip(t, d, Encode16(d))
<1> DEFINE w == Encode16(d)
<1>1. w = Skeleton(t) + (At7(d.rd) + Scatter(d.imm, ScatterImm))
  BY DEF Encode16
<1>2. Skeleton(t) = 2
  BY DEF Skeleton
<1>3. At7(d.rd) = 128 * d.rd
  BY DEF At7, CRegister, Register
<1> HIDE DEF w
<1>5. ImmWord(w, 2, 0, d.rd, d.imm)
  <2>1. Scatter(d.imm, ScatterImm) \in Int
    BY ScatterTypes DEF Between
  <2> QED BY <1>1, <1>2, <1>3, <2>1 DEF ImmWord, CRegister, Register, Between
<1>6. /\ w \in Parcel /\ Quadrant(w) = 2 /\ Funct3(w) = 0 /\ RdOf(w) = d.rd /\ Rs2Of(w) = d.imm /\ Field(w, 12, 1) = 0
  BY <1>5, ImmFormat DEF CRegister, Between
<1>7. Decoded(w) = Instr("C_SLLI", d.rd, d.rd, 0, d.imm, w)
  BY <1>6 DEF Decoded, Decode16, IsCompressedFloat, CDecode, Quadrant2
<1>8. Canonical(t) = "C_SLLI"
  BY DEF Canonical
<1>9. Instr("C_SLLI", d.rd, d.rd, 0, d.imm, w) = Instr(Canonical(t), d.rd, d.rs1, d.rs2, d.imm, w)
  BY <1>8
<1>10. w \in Parcel
  BY <1>6
<1>11. ParcelTrip(t, d, w)
  BY <1>7, <1>9, <1>10 DEF ParcelTrip
<1> QED BY <1>11 DEF w

\* C.LUI and its hint.
LEMMA LuiTrips ==
  ASSUME NEW t \in {"C_LUI", "C_LUI_X0"},
         NEW v, Between(v, -32, 31), NEW d, d.type = t, Register(d.rd), d.rd # 2, d.rs1 = 0, d.rs2 = 0, v # 0, d.imm = v * 4096
  PROVE  ParcelTrip(t, d, Encode16(d))
<1> DEFINE w == Encode16(d)
<1>0. d.imm \div 4096 = v
  BY DEF Between
<1>1. w = Skeleton(t) + (At7(d.rd) + Scatter(v, ScatterImm))
  BY <1>0 DEF Encode16
<1>2. Skeleton(t) = 3 * 8192 + 1
  BY DEF Skeleton
<1>3. At7(d.rd) = 128 * d.rd
  BY DEF At7, CRegister, Register
<1> HIDE DEF w
<1>5. ImmWord(w, 1, 3, d.rd, v)
  <2>1. Scatter(v, ScatterImm) \in Int
    BY ScatterTypes DEF Between
  <2> QED BY <1>1, <1>2, <1>3, <2>1 DEF ImmWord, CRegister, Register, Between
<1>6. /\ w \in Parcel /\ Quadrant(w) = 1 /\ Funct3(w) = 3 /\ RdOf(w) = d.rd /\ Imm6(w) = v
      /\ Gather(w, ImmLayout) # 0
  BY <1>5, ImmFormat DEF CRegister, Between, Imm6
<1>7. Decoded(w) = Instr("C_LUI", d.rd, 0, 0, d.imm, w)
  BY <1>6 DEF Decoded, Decode16, IsCompressedFloat, CDecode, Quadrant1, UpperGroup
<1>8. Canonical(t) = "C_LUI"
  BY DEF Canonical
<1>9. Instr("C_LUI", d.rd, 0, 0, d.imm, w) = Instr(Canonical(t), d.rd, d.rs1, d.rs2, d.imm, w)
  BY <1>8
<1>10. w \in Parcel
  BY <1>6
<1>11. ParcelTrip(t, d, w)
  BY <1>7, <1>9, <1>10 DEF ParcelTrip
<1> QED BY <1>11 DEF w

\* C.ADDI16SP.
LEMMA AddSpTrips ==
  ASSUME NEW t \in {"C_ADDI16SP"},
         NEW d, d.type = t, d.rd = 2, d.rs1 = 2, d.rs2 = 0, Between(d.imm, -512, 511), d.imm % 16 = 0, d.imm # 0
  PROVE  ParcelTrip(t, d, Encode16(d))
<1> DEFINE w == Encode16(d)
<1>1. w = Skeleton(t) + (At7(2) + Scatter(d.imm, ScatterAddSp))
  BY DEF Encode16
<1>2. Skeleton(t) = 3 * 8192 + 1
  BY DEF Skeleton
<1>3. At7(2) = 256
  BY DEF At7, CRegister, Register
<1> HIDE DEF w
<1>5. AddSpWord(w, 1, 3, 2, d.imm)
  <2>1. Scatter(d.imm, ScatterAddSp) \in Int
    BY ScatterTypes DEF Between
  <2> QED BY <1>1, <1>2, <1>3, <2>1 DEF AddSpWord, CRegister, Register, Between
<1>6. /\ w \in Parcel /\ Quadrant(w) = 1 /\ Funct3(w) = 3 /\ RdOf(w) = 2 /\ Gather(w, AddSpLayout) # 0
      /\ Negative(Gather(w, AddSpLayout), 10) = d.imm
  BY <1>5, AddSpFormat DEF CRegister, Between
<1>7. Decoded(w) = Instr("C_ADDI16SP", 2, 2, 0, d.imm, w)
  BY <1>6 DEF Decoded, Decode16, IsCompressedFloat, CDecode, Quadrant1, UpperGroup
<1>8. Canonical(t) = "C_ADDI16SP"
  BY DEF Canonical
<1>9. Instr("C_ADDI16SP", 2, 2, 0, d.imm, w) = Instr(Canonical(t), d.rd, d.rs1, d.rs2, d.imm, w)
  BY <1>8
<1>10. w \in Parcel
  BY <1>6
<1>11. ParcelTrip(t, d, w)
  BY <1>7, <1>9, <1>10 DEF ParcelTrip
<1> QED BY <1>11 DEF w

\* The shifts to the right and C.ANDI, and the hints of the shifts.
LEMMA ShiftTrips ==
  ASSUME NEW t \in {"C_SRLI", "C_SRAI", "C_ANDI", "C_SRLI64", "C_SRAI64"},
         NEW d, d.type = t, CRegister(d.rd), d.rs1 = d.rd, d.rs2 = 0, Between(d.imm, -32, 31), t # "C_ANDI" => 0 <= d.imm
  PROVE  ParcelTrip(t, d, Encode16(d))
<1> DEFINE w == Encode16(d)
           f == CASE t \in {"C_SRLI", "C_SRLI64"} -> 0 [] t \in {"C_SRAI", "C_SRAI64"} -> 1 [] t = "C_ANDI" -> 2
<1>1. w = Skeleton(t) + (High(d.rd) + Scatter(d.imm, ScatterImm))
  BY DEF Encode16
<1>2. Skeleton(t) = 4 * 8192 + 1024 * f + 1
  BY DEF Skeleton
<1>3. High(d.rd) = 128 * (d.rd - 8)
  BY DEF High, CRegister, Register
<1> HIDE DEF w
<1>4. f \in Int /\ 0 <= f /\ f <= 7 /\ f <= 2
  OBVIOUS
<1>5. ImmWord(w, 1, 4, 8 * f + (d.rd - 8), d.imm)
  <2>1. Scatter(d.imm, ScatterImm) \in Int
    BY ScatterTypes DEF Between
  <2> HIDE DEF f
  <2> QED BY <1>1, <1>2, <1>3, <1>4, <2>1 DEF ImmWord, CRegister, Register, Between
<1>6. /\ w \in Parcel /\ Quadrant(w) = 1 /\ Funct3(w) = 4 /\ CregHigh(w) = d.rd /\ Imm6(w) = d.imm /\ Field(w, 10, 2) = f
      /\ (t # "C_ANDI" => Field(w, 12, 1) = 0 /\ Rs2Of(w) = d.imm)
  <2> HIDE DEF f
  <2> QED BY <1>4, <1>5, ImmFormat DEF CRegister, Between, Imm6
<1>7. Decoded(w) = Instr(Canonical(t), d.rd, d.rd, 0, d.imm, w)
  BY <1>6 DEF Decoded, Decode16, IsCompressedFloat, CDecode, Quadrant1, AluGroup, Canonical
<1>9. Instr(Canonical(t), d.rd, d.rd, 0, d.imm, w) = Instr(Canonical(t), d.rd, d.rs1, d.rs2, d.imm, w)
  OBVIOUS
<1>10. w \in Parcel
  BY <1>6
<1>11. ParcelTrip(t, d, w)
  BY <1>7, <1>9, <1>10 DEF ParcelTrip
<1> QED BY <1>11 DEF w

\* C.J and C.JAL.
LEMMA JumpTrips ==
  ASSUME NEW t \in {"C_J", "C_JAL"},
         NEW d, d.type = t, t = "C_JAL" => d.rd = 1, t = "C_J" => d.rd = 0, d.rs1 = 0, d.rs2 = 0, Between(d.imm, -2048, 2047), d.imm % 2 = 0
  PROVE  ParcelTrip(t, d, Encode16(d))
<1> DEFINE w == Encode16(d)
           f == IF t = "C_JAL" THEN 1 ELSE 5
<1>1. w = Skeleton(t) + (Scatter(d.imm, ScatterJump))
  BY DEF Encode16
<1>2. Skeleton(t) = 8192 * f + 1
  BY DEF Skeleton
<1> HIDE DEF w
<1>4. f \in Int /\ 0 <= f /\ f <= 7
  OBVIOUS
<1>5. JumpWord(w, 1, f, d.imm)
  <2>1. Scatter(d.imm, ScatterJump) \in Int
    BY ScatterTypes DEF Between
  <2> DEFINE s == Scatter(d.imm, ScatterJump)
  <2> HIDE DEF f, s
  <2>2. w = 1 + 8192 * f + s
    BY <1>1, <1>2, <1>4, <2>1 DEF s
  <2>3. d.imm \in Int /\ -2048 <= d.imm /\ d.imm <= 2047 /\ d.imm % 2 = 0
    BY DEF Between
  <2> QED BY <1>4, <2>2, <2>3 DEF JumpWord, s
<1>6. /\ w \in Parcel /\ Quadrant(w) = 1 /\ Funct3(w) = f /\ JumpOffset(w) = d.imm
  <2> HIDE DEF f
  <2> QED BY <1>4, <1>5, JumpFormat DEF CRegister, Between, JumpOffset
<1>7. Decoded(w) = Instr(t, d.rd, 0, 0, d.imm, w)
  BY <1>6 DEF Decoded, Decode16, IsCompressedFloat, CDecode, Quadrant1
<1>8. Canonical(t) = t
  BY DEF Canonical
<1>9. Instr(t, d.rd, 0, 0, d.imm, w) = Instr(Canonical(t), d.rd, d.rs1, d.rs2, d.imm, w)
  BY <1>8
<1>10. w \in Parcel
  BY <1>6
<1>11. ParcelTrip(t, d, w)
  BY <1>7, <1>9, <1>10 DEF ParcelTrip
<1> QED BY <1>11 DEF w

\* C.BEQZ and C.BNEZ.
LEMMA BranchTrips ==
  ASSUME NEW t \in {"C_BEQZ", "C_BNEZ"},
         NEW d, d.type = t, d.rd = 0, CRegister(d.rs1), d.rs2 = 0, Between(d.imm, -256, 255), d.imm % 2 = 0
  PROVE  ParcelTrip(t, d, Encode16(d))
<1> DEFINE w == Encode16(d)
           f == IF t = "C_BEQZ" THEN 6 ELSE 7
<1>1. w = Skeleton(t) + (High(d.rs1) + Scatter(d.imm, ScatterBranch))
  BY DEF Encode16
<1>2. Skeleton(t) = 8192 * f + 1
  BY DEF Skeleton
<1>3. High(d.rs1) = 128 * (d.rs1 - 8)
  BY DEF High, CRegister, Register
<1> HIDE DEF w
<1>4. f \in Int /\ 0 <= f /\ f <= 7
  OBVIOUS
<1>5. BranchWord(w, 1, f, d.rs1 - 8, d.imm)
  <2>1. Scatter(d.imm, ScatterBranch) \in Int
    BY ScatterTypes DEF Between
  <2> HIDE DEF f
  <2> QED BY <1>1, <1>2, <1>3, <1>4, <2>1 DEF BranchWord, CRegister, Register, Between
<1>6. /\ w \in Parcel /\ Quadrant(w) = 1 /\ Funct3(w) = f /\ CregHigh(w) = d.rs1 /\ BranchOffset(w) = d.imm
  <2> HIDE DEF f
  <2> QED BY <1>4, <1>5, BranchFormat DEF CRegister, Between, BranchOffset
<1>7. Decoded(w) = Instr(t, 0, d.rs1, 0, d.imm, w)
  BY <1>6 DEF Decoded, Decode16, IsCompressedFloat, CDecode, Quadrant1
<1>8. Canonical(t) = t
  BY DEF Canonical
<1>9. Instr(t, 0, d.rs1, 0, d.imm, w) = Instr(Canonical(t), d.rd, d.rs1, d.rs2, d.imm, w)
  BY <1>8
<1>10. w \in Parcel
  BY <1>6
<1>11. ParcelTrip(t, d, w)
  BY <1>7, <1>9, <1>10 DEF ParcelTrip
<1> QED BY <1>11 DEF w

\* C.LWSP and C.FLWSP; only the second may load register 0.
LEMMA LoadSpTrips ==
  ASSUME NEW t \in {"C_LWSP", "C_FLWSP"},
         NEW d, d.type = t, Register(d.rd), t = "C_LWSP" => d.rd # 0, d.rs1 = 2, d.rs2 = 0, Between(d.imm, 0, 255), d.imm % 4 = 0
  PROVE  ParcelTrip(t, d, Encode16(d))
<1> DEFINE w == Encode16(d)
           f == IF t = "C_LWSP" THEN 2 ELSE 3
<1>1. w = Skeleton(t) + (At7(d.rd) + Scatter(d.imm, ScatterLoadSp))
  BY DEF Encode16
<1>2. Skeleton(t) = 8192 * f + 2
  BY DEF Skeleton
<1>3. At7(d.rd) = 128 * d.rd
  BY DEF At7, CRegister, Register
<1> HIDE DEF w
<1>4. f \in Int /\ 0 <= f /\ f <= 7
  OBVIOUS
<1>5. LoadSpWord(w, 2, f, d.rd, d.imm)
  <2>1. Scatter(d.imm, ScatterLoadSp) \in Int
    BY ScatterTypes DEF Between
  <2> HIDE DEF f
  <2> QED BY <1>1, <1>2, <1>3, <1>4, <2>1 DEF LoadSpWord, CRegister, Register, Between
<1>6. /\ w \in Parcel /\ Quadrant(w) = 2 /\ Funct3(w) = f /\ RdOf(w) = d.rd /\ Gather(w, LoadSpLayout) = d.imm
  <2> HIDE DEF f
  <2> QED BY <1>4, <1>5, LoadSpFormat DEF CRegister, Between
<1>7. Decoded(w) = Instr(t, d.rd, 2, 0, d.imm, w)
  BY <1>6 DEF Decoded, Decode16, IsCompressedFloat, CDecode, Quadrant2, FcDecode
<1>8. Canonical(t) = t
  BY DEF Canonical
<1>9. Instr(t, d.rd, 2, 0, d.imm, w) = Instr(Canonical(t), d.rd, d.rs1, d.rs2, d.imm, w)
  BY <1>8
<1>10. w \in Parcel
  BY <1>6
<1>11. ParcelTrip(t, d, w)
  BY <1>7, <1>9, <1>10 DEF ParcelTrip
<1> QED BY <1>11 DEF w

\* C.SWSP and C.FSWSP.
LEMMA StoreSpTrips ==
  ASSUME NEW t \in {"C_SWSP", "C_FSWSP"},
         NEW d, d.type = t, d.rd = 0, d.rs1 = 2, Register(d.rs2), Between(d.imm, 0, 255), d.imm % 4 = 0
  PROVE  ParcelTrip(t, d, Encode16(d))
<1> DEFINE w == Encode16(d)
           f == IF t = "C_SWSP" THEN 6 ELSE 7
<1>1. w = Skeleton(t) + (At2(d.rs2) + Scatter(d.imm, ScatterStoreSp))
  BY DEF Encode16
<1>2. Skeleton(t) = 8192 * f + 2
  BY DEF Skeleton
<1>3. At2(d.rs2) = 4 * d.rs2
  BY DEF At2, CRegister, Register
<1> HIDE DEF w
<1>4. f \in Int /\ 0 <= f /\ f <= 7
  OBVIOUS
<1>5. StoreSpWord(w, 2, f, d.rs2, d.imm)
  <2>1. Scatter(d.imm, ScatterStoreSp) \in Int
    BY ScatterTypes DEF Between
  <2> HIDE DEF f
  <2> QED BY <1>1, <1>2, <1>3, <1>4, <2>1 DEF StoreSpWord, CRegister, Register, Between
<1>6. /\ w \in Parcel /\ Quadrant(w) = 2 /\ Funct3(w) = f /\ Rs2Of(w) = d.rs2 /\ Gather(w, StoreSpLayout) = d.imm
  <2> HIDE DEF f
  <2> QED BY <1>4, <1>5, StoreSpFormat DEF CRegister, Between
<1>7. Decoded(w) = Instr(t, 0, 2, d.rs2, d.imm, w)
  BY <1>6 DEF Decoded, Decode16, IsCompressedFloat, CDecode, Quadrant2, FcDecode
<1>8. Canonical(t) = t
  BY DEF Canonical
<1>9. Instr(t, 0, 2, d.rs2, d.imm, w) = Instr(Canonical(t), d.rd, d.rs1, d.rs2, d.imm, w)
  BY <1>8
<1>10. w \in Parcel
  BY <1>6
<1>11. ParcelTrip(t, d, w)
  BY <1>7, <1>9, <1>10 DEF ParcelTrip
<1> QED BY <1>11 DEF w

\* C.SUB, C.XOR, C.OR and C.AND.
LEMMA AluTrips ==
  ASSUME NEW t \in {"C_SUB", "C_XOR", "C_OR", "C_AND"},
         NEW d, d.type = t, CRegister(d.rd), d.rs1 = d.rd, CRegister(d.rs2), d.imm = 0
  PROVE  ParcelTrip(t, d, Encode16(d))
<1> DEFINE w == Encode16(d)
           g == CASE t = "C_SUB" -> 0 [] t = "C_XOR" -> 1 [] t = "C_OR" -> 2 [] t = "C_AND" -> 3
           s == 8 * g + (d.rs2 - 8)
           r == 24 + (d.rd - 8)
<1>1. w = Skeleton(t) + (High(d.rd) + Low(d.rs2))
  BY DEF Encode16
<1>2. Skeleton(t) = 4 * 8192 + 3072 + 32 * g + 1
  BY DEF Skeleton
<1>3. High(d.rd) = 128 * (d.rd - 8) /\ Low(d.rs2) = 4 * (d.rs2 - 8)
  BY DEF High, Low, CRegister
<1>4. g \in Int /\ 0 <= g /\ g <= 3
  OBVIOUS
<1>5. <<"C_SUB", "C_XOR", "C_OR", "C_AND">>[g + 1] = t
  OBVIOUS
<1> HIDE DEF w, g
<1>6. Parts(w, 1, s, r, 0, 4)
  <2>1. s \in Int /\ 0 <= s /\ s <= 31 /\ r \in Int /\ 0 <= r /\ r <= 31
    BY <1>4 DEF CRegister
  <2>2. w = 1 + 4 * s + 128 * r + 4096 * 0 + 8192 * 4
    BY <1>1, <1>2, <1>3, <1>4 DEF CRegister
  <2>3. w \in Int
    <3> HIDE DEF s, r
    <3> QED BY <2>1, <2>2
  <2> HIDE DEF s, r
  <2> QED BY <2>1, <2>2, <2>3 DEF Parts
<1>7. r \div 8 = 3 /\ r % 8 = d.rd - 8 /\ s \div 8 = g /\ s % 8 = d.rs2 - 8
  BY <1>4 DEF CRegister
<1> HIDE DEF s, r
<1>8. /\ w \in Parcel /\ Quadrant(w) = 1 /\ Funct3(w) = 4 /\ CregHigh(w) = 8 + (d.rd - 8)
      /\ CregLow(w) = 8 + (d.rs2 - 8) /\ Field(w, 10, 2) = 3 /\ Field(w, 12, 1) = 0 /\ Field(w, 5, 2) = g
  BY <1>6, <1>7, PartFields DEF Funct3, CregHigh, CregLow
<1>9. CregHigh(w) = d.rd /\ CregLow(w) = d.rs2
  BY <1>8 DEF CRegister
<1>10. Decoded(w) = Instr(t, d.rd, d.rd, d.rs2, 0, w)
  BY <1>5, <1>8, <1>9 DEF Decoded, Decode16, IsCompressedFloat, CDecode, Quadrant1, AluGroup
<1>11. Canonical(t) = t
  BY DEF Canonical
<1>12. ParcelTrip(t, d, w)
  BY <1>8, <1>10, <1>11 DEF ParcelTrip
<1> QED BY <1>12 DEF w

\* C.NOP.
LEMMA NopTrip ==
  ASSUME NEW d, d.type = "C_NOP", d.rd = 0, d.rs1 = 0, d.rs2 = 0, d.imm = 0
  PROVE  ParcelTrip("C_NOP", d, Encode16(d))
<1> DEFINE w == Encode16(d)
<1>1. w = 1
  BY DEF Encode16, Skeleton
<1> HIDE DEF w
<1>2. Parts(w, 1, 0, 0, 0, 0)
  BY <1>1 DEF Parts
<1>3. /\ w \in Parcel /\ Quadrant(w) = 1 /\ Funct3(w) = 0 /\ RdOf(w) = 0
      /\ Field(w, 2, 5) = 0 /\ Field(w, 12, 1) = 0 /\ w \in Int
  <2>1. w \in Int
    BY <1>1
  <2>2. /\ w \in Parcel /\ Quadrant(w) = 1 /\ Field(w, 13, 3) = 0 /\ Field(w, 7, 5) = 0
        /\ Field(w, 2, 5) = 0 /\ Field(w, 12, 1) = 0
    BY <1>2, PartFields
  <2> QED BY <2>1, <2>2 DEF Funct3, RdOf
<1>4. Gather(w, ImmLayout) = 0
  BY <1>3, GatherLayouts
<1>5. Imm6(w) = 0
  BY <1>4, Powers DEF Imm6, Negative
<1>6. Decoded(w) = Instr("C_NOP", 0, 0, 0, 0, w)
  BY <1>3, <1>5 DEF Decoded, Decode16, IsCompressedFloat, CDecode, Quadrant1
<1>7. Canonical("C_NOP") = "C_NOP"
  BY DEF Canonical
<1>8. ParcelTrip("C_NOP", d, w)
  BY <1>3, <1>6, <1>7 DEF ParcelTrip
<1> QED BY <1>8 DEF w

\* The instructions of quadrant 2 that have two registers and no immediate.
LEMMA MoveTrips ==
  ASSUME NEW t \in {"C_JR", "C_MV", "C_MV_X0", "C_EBREAK", "C_JALR", "C_ADD", "C_ADD_X0"},
         NEW d, d.type = t, Register(d.rd), Register(d.rs1), Register(d.rs2), d.imm = 0,
         t \in {"C_JR", "C_JALR"} => d.rs2 = 0 /\ d.rs1 # 0,
         t = "C_JR" => d.rd = 0, t = "C_JALR" => d.rd = 1,
         t \in {"C_MV", "C_MV_X0"} => d.rs2 # 0 /\ d.rs1 = 0,
         t \in {"C_ADD", "C_ADD_X0"} => d.rs2 # 0 /\ d.rs1 = d.rd,
         t = "C_EBREAK" => d.rd = 0 /\ d.rs1 = 0 /\ d.rs2 = 0
  PROVE  ParcelTrip(t, d, Encode16(d))
<1> DEFINE w == Encode16(d)
           h == IF t \in {"C_JR", "C_MV", "C_MV_X0"} THEN 0 ELSE 1
           r == IF t \in {"C_JR", "C_JALR"} THEN d.rs1 ELSE d.rd
<1>1. w = Skeleton(t) + (128 * r + 4 * d.rs2)
  BY DEF Encode16, At7, At2, Register
<1>2. Skeleton(t) = 4 * 8192 + 4096 * h + 2
  BY DEF Skeleton
<1>3. h \in Int /\ 0 <= h /\ h <= 1 /\ Register(r)
  OBVIOUS
<1> HIDE DEF w
<1>4. Parts(w, 2, d.rs2, r, h, 4)
  <2> HIDE DEF h, r
  <2> QED BY <1>1, <1>2, <1>3 DEF Parts, Register
<1>5. /\ w \in Parcel /\ Quadrant(w) = 2 /\ Funct3(w) = 4 /\ RdOf(w) = r /\ Rs2Of(w) = d.rs2
      /\ Field(w, 12, 1) = h
  <2> HIDE DEF h, r
  <2> QED BY <1>4, PartFields DEF Funct3, RdOf, Rs2Of
<1>6. Decoded(w) = IF h = 0 THEN JumpMoveGroup(w) ELSE JumpAddGroup(w)
  BY <1>5 DEF Decoded, Decode16, IsCompressedFloat, CDecode, Quadrant2
<1>7. Decoded(w) = Instr(Canonical(t), d.rd, d.rs1, d.rs2, d.imm, w)
  BY <1>5, <1>6 DEF JumpMoveGroup, JumpAddGroup, Canonical
<1>8. ParcelTrip(t, d, w)
  BY <1>5, <1>7 DEF ParcelTrip
<1> QED BY <1>8 DEF w

\* Operands drawn with the same register read and written.
LEMMA SameDrawn ==
  ASSUME NEW t, NEW rds, NEW rs1s, NEW rs2s, NEW imms, NEW d \in Same(Drawn(t, rds, rs1s, rs2s, imms))
  PROVE  d \in Drawn(t, rds, rs1s, rs2s, imms) /\ d.rs1 = d.rd
BY DEF Same

\* Drawn registers other than x0, and drawn shift amounts.
LEMMA NarrowRanges ==
  /\ \A i \in NonZero : Register(i) /\ i # 0
  /\ \A i \in NonZero \ {2} : Register(i) /\ i # 0 /\ i # 2
  /\ \A i \in Shamts : Between(i, 0, 31) /\ Between(i, -32, 31)
  /\ \A i \in CShamts : Between(i, 0, 31) /\ Between(i, -32, 31)
  /\ \A i \in Probes(6) \ {0} : Between(i, -32, 31) /\ i # 0
  /\ Register(0) /\ Register(1) /\ Register(2) /\ Between(0, 0, 31) /\ Between(0, -32, 31)
<1>1. \A i : Between(i, 0, 31) => Between(i, -32, 31)
  BY DEF Between
<1>2. Register(0) /\ Register(1) /\ Register(2) /\ Between(0, 0, 31) /\ Between(0, -32, 31)
  BY DEF Register, Between
<1> QED BY <1>1, <1>2, RegisterRanges, ProbeRanges DEF NonZero, CShamts

\* The words of the compressed generator.
LEMMA CTrips ==
  ASSUME NEW t \in CTypes, NEW d \in COperands(t)
  PROVE  ParcelTrip(t, d, Encode16(d))
<1>1. CASE t = "C_ADDI4SPN"
  <2>1. d \in Drawn("C_ADDI4SPN", CRegs, {2}, {0}, {4 * v : v \in UnsignedProbes(8) \ {0}})
    BY <1>1 DEF COperands
  <2>2. d.type = t /\ d.rd \in CRegs /\ d.rs1 \in {2} /\ d.rs2 \in {0} /\ d.imm \in {4 * v : v \in UnsignedProbes(8) \ {0}}
    BY <1>1, <2>1, DrawnFields
  <2> QED BY <1>1, <2>2, RegisterRanges, NarrowRanges, ParcelRanges, AddSpnTrips
<1>2. CASE t = "C_LW"
  <2>1. d \in Drawn("C_LW", CRegs, CRegs, {0}, {4 * v : v \in UnsignedProbes(5)})
    BY <1>2 DEF COperands
  <2>2. d.type = t /\ d.rd \in CRegs /\ d.rs1 \in CRegs /\ d.rs2 \in {0} /\ d.imm \in {4 * v : v \in UnsignedProbes(5)}
    BY <1>2, <2>1, DrawnFields
  <2> QED BY <1>2, <2>2, RegisterRanges, NarrowRanges, ParcelRanges, LoadTrips
<1>3. CASE t = "C_SW"
  <2>1. d \in Drawn("C_SW", {0}, CRegs, CRegs, {4 * v : v \in UnsignedProbes(5)})
    BY <1>3 DEF COperands
  <2>2. d.type = t /\ d.rd \in {0} /\ d.rs1 \in CRegs /\ d.rs2 \in CRegs /\ d.imm \in {4 * v : v \in UnsignedProbes(5)}
    BY <1>3, <2>1, DrawnFields
  <2> QED BY <1>3, <2>2, RegisterRanges, NarrowRanges, ParcelRanges, StoreTrips
<1>4. CASE t = "C_NOP"
  <2>1. d \in Drawn("C_NOP", {0}, {0}, {0}, {0})
    BY <1>4 DEF COperands
  <2>2. d.type = t /\ d.rd \in {0} /\ d.rs1 \in {0} /\ d.rs2 \in {0} /\ d.imm \in {0}
    BY <1>4, <2>1, DrawnFields
  <2> QED BY <1>4, <2>2, RegisterRanges, NarrowRanges, NopTrip
<1>5. CASE t = "C_ADDI"
  <2>1. d \in Same(Drawn("C_ADDI", NonZero, NonZero, {0}, Probes(6) \ {0}))
    BY <1>5 DEF COperands
  <2>2. d.type = t /\ d.rd \in NonZero /\ d.rs1 \in NonZero /\ d.rs2 \in {0} /\ d.imm \in Probes(6) \ {0} /\ d.rs1 = d.rd
    BY <1>5, <2>1, DrawnFields, SameDrawn
  <2> QED BY <1>5, <2>2, RegisterRanges, NarrowRanges, ProbeRanges, AddiTrips
<1>6. CASE t = "C_JAL"
  <2>1. d \in Drawn("C_JAL", {1}, {0}, {0}, EvenProbes(12))
    BY <1>6 DEF COperands
  <2>2. d.type = t /\ d.rd \in {1} /\ d.rs1 \in {0} /\ d.rs2 \in {0} /\ d.imm \in EvenProbes(12)
    BY <1>6, <2>1, DrawnFields
  <2> QED BY <1>6, <2>2, RegisterRanges, NarrowRanges, ProbeRanges, JumpTrips
<1>7. CASE t = "C_LI"
  <2>1. d \in Drawn("C_LI", NonZero, {0}, {0}, Probes(6))
    BY <1>7 DEF COperands
  <2>2. d.type = t /\ d.rd \in NonZero /\ d.rs1 \in {0} /\ d.rs2 \in {0} /\ d.imm \in Probes(6)
    BY <1>7, <2>1, DrawnFields
  <2> QED BY <1>7, <2>2, RegisterRanges, NarrowRanges, ProbeRanges, LiTrips
<1>8. CASE t = "C_ADDI16SP"
  <2>1. d \in Drawn("C_ADDI16SP", {2}, {2}, {0}, {16 * v : v \in Probes(6) \ {0}})
    BY <1>8 DEF COperands
  <2>2. d.type = t /\ d.rd \in {2} /\ d.rs1 \in {2} /\ d.rs2 \in {0} /\ d.imm \in {16 * v : v \in Probes(6) \ {0}}
    BY <1>8, <2>1, DrawnFields
  <2> QED BY <1>8, <2>2, RegisterRanges, NarrowRanges, ParcelRanges, AddSpTrips
<1>9. CASE t = "C_LUI"
  <2>1. d \in Drawn("C_LUI", NonZero \ {2}, {0}, {0}, {4096 * v : v \in Probes(6) \ {0}})
    BY <1>9 DEF COperands
  <2>2. d.type = t /\ d.rd \in NonZero \ {2} /\ d.rs1 \in {0} /\ d.rs2 \in {0} /\ d.imm \in {4096 * v : v \in Probes(6) \ {0}}
    BY <1>9, <2>1, DrawnFields
  <2>3. PICK v \in Probes(6) \ {0} : d.imm = 4096 * v
    BY <2>2
  <2>4. Between(v, -32, 31) /\ v # 0 /\ d.imm = v * 4096
    BY <2>3, NarrowRanges DEF Between
  <2> QED BY <1>9, <2>2, <2>4, RegisterRanges, NarrowRanges, LuiTrips
<1>10. CASE t = "C_SRLI"
  <2>1. d \in Same(Drawn("C_SRLI", CRegs, CRegs, {0}, CShamts))
    BY <1>10 DEF COperands
  <2>2. d.type = t /\ d.rd \in CRegs /\ d.rs1 \in CRegs /\ d.rs2 \in {0} /\ d.imm \in CShamts /\ d.rs1 = d.rd
    BY <1>10, <2>1, DrawnFields, SameDrawn
  <2> QED BY <1>10, <2>2, RegisterRanges, NarrowRanges, ShiftTrips DEF Between
<1>11. CASE t = "C_SRAI"
  <2>1. d \in Same(Drawn("C_SRAI", CRegs, CRegs, {0}, CShamts))
    BY <1>11 DEF COperands
  <2>2. d.type = t /\ d.rd \in CRegs /\ d.rs1 \in CRegs /\ d.rs2 \in {0} /\ d.imm \in CShamts /\ d.rs1 = d.rd
    BY <1>11, <2>1, DrawnFields, SameDrawn
  <2> QED BY <1>11, <2>2, RegisterRanges, NarrowRanges, ShiftTrips DEF Between
<1>12. CASE t = "C_ANDI"
  <2>1. d \in Same(Drawn("C_ANDI", CRegs, CRegs, {0}, Probes(6)))
    BY <1>12 DEF COperands
  <2>2. d.type = t /\ d.rd \in CRegs /\ d.rs1 \in CRegs /\ d.rs2 \in {0} /\ d.imm \in Probes(6) /\ d.rs1 = d.rd
    BY <1>12, <2>1, DrawnFields, SameDrawn
  <2> QED BY <1>12, <2>2, RegisterRanges, NarrowRanges, ProbeRanges, ShiftTrips DEF Between
<1>13. CASE t = "C_SUB"
  <2>1. d \in Same(Drawn("C_SUB", CRegs, CRegs, CRegs, {0}))
    BY <1>13 DEF COperands
  <2>2. d.type = t /\ d.rd \in CRegs /\ d.rs1 \in CRegs /\ d.rs2 \in CRegs /\ d.imm \in {0} /\ d.rs1 = d.rd
    BY <1>13, <2>1, DrawnFields, SameDrawn
  <2> QED BY <1>13, <2>2, RegisterRanges, NarrowRanges, AluTrips
<1>14. CASE t = "C_XOR"
  <2>1. d \in Same(Drawn("C_XOR", CRegs, CRegs, CRegs, {0}))
    BY <1>14 DEF COperands
  <2>2. d.type = t /\ d.rd \in CRegs /\ d.rs1 \in CRegs /\ d.rs2 \in CRegs /\ d.imm \in {0} /\ d.rs1 = d.rd
    BY <1>14, <2>1, DrawnFields, SameDrawn
  <2> QED BY <1>14, <2>2, RegisterRanges, NarrowRanges, AluTrips
<1>15. CASE t = "C_OR"
  <2>1. d \in Same(Drawn("C_OR", CRegs, CRegs, CRegs, {0}))
    BY <1>15 DEF COperands
  <2>2. d.type = t /\ d.rd \in CRegs /\ d.rs1 \in CRegs /\ d.rs2 \in CRegs /\ d.imm \in {0} /\ d.rs1 = d.rd
    BY <1>15, <2>1, DrawnFields, SameDrawn
  <2> QED BY <1>15, <2>2, RegisterRanges, NarrowRanges, AluTrips
<1>16. CASE t = "C_AND"
  <2>1. d \in Same(Drawn("C_AND", CRegs, CRegs, CRegs, {0}))
    BY <1>16 DEF COperands
  <2>2. d.type = t /\ d.rd \in CRegs /\ d.rs1 \in CRegs /\ d.rs2 \in CRegs /\ d.imm \in {0} /\ d.rs1 = d.rd
    BY <1>16, <2>1, DrawnFields, SameDrawn
  <2> QED BY <1>16, <2>2, RegisterRanges, NarrowRanges, AluTrips
<1>17. CASE t = "C_J"
  <2>1. d \in Drawn("C_J", {0}, {0}, {0}, EvenProbes(12))
    BY <1>17 DEF COperands
  <2>2. d.type = t /\ d.rd \in {0} /\ d.rs1 \in {0} /\ d.rs2 \in {0} /\ d.imm \in EvenProbes(12)
    BY <1>17, <2>1, DrawnFields
  <2> QED BY <1>17, <2>2, RegisterRanges, NarrowRanges, ProbeRanges, JumpTrips
<1>18. CASE t = "C_BEQZ"
  <2>1. d \in Drawn("C_BEQZ", {0}, CRegs, {0}, EvenProbes(9))
    BY <1>18 DEF COperands
  <2>2. d.type = t /\ d.rd \in {0} /\ d.rs1 \in CRegs /\ d.rs2 \in {0} /\ d.imm \in EvenProbes(9)
    BY <1>18, <2>1, DrawnFields
  <2> QED BY <1>18, <2>2, RegisterRanges, NarrowRanges, ProbeRanges, BranchTrips
<1>19. CASE t = "C_BNEZ"
  <2>1. d \in Drawn("C_BNEZ", {0}, CRegs, {0}, EvenProbes(9))
    BY <1>19 DEF COperands
  <2>2. d.type = t /\ d.rd \in {0} /\ d.rs1 \in CRegs /\ d.rs2 \in {0} /\ d.imm \in EvenProbes(9)
    BY <1>19, <2>1, DrawnFields
  <2> QED BY <1>19, <2>2, RegisterRanges, NarrowRanges, ProbeRanges, BranchTrips
<1>20. CASE t = "C_SLLI"
  <2>1. d \in Same(Drawn("C_SLLI", NonZero, NonZero, {0}, CShamts))
    BY <1>20 DEF COperands
  <2>2. d.type = t /\ d.rd \in NonZero /\ d.rs1 \in NonZero /\ d.rs2 \in {0} /\ d.imm \in CShamts /\ d.rs1 = d.rd
    BY <1>20, <2>1, DrawnFields, SameDrawn
  <2> QED BY <1>20, <2>2, RegisterRanges, NarrowRanges, SlliTrips
<1>21. CASE t = "C_LWSP"
  <2>1. d \in Drawn("C_LWSP", NonZero, {2}, {0}, {4 * v : v \in UnsignedProbes(6)})
    BY <1>21 DEF COperands
  <2>2. d.type = t /\ d.rd \in NonZero /\ d.rs1 \in {2} /\ d.rs2 \in {0} /\ d.imm \in {4 * v : v \in UnsignedProbes(6)}
    BY <1>21, <2>1, DrawnFields
  <2> QED BY <1>21, <2>2, RegisterRanges, NarrowRanges, ParcelRanges, LoadSpTrips
<1>22. CASE t = "C_JR"
  <2>1. d \in Drawn("C_JR", {0}, NonZero, {0}, {0})
    BY <1>22 DEF COperands
  <2>2. d.type = t /\ d.rd \in {0} /\ d.rs1 \in NonZero /\ d.rs2 \in {0} /\ d.imm \in {0}
    BY <1>22, <2>1, DrawnFields
  <2> QED BY <1>22, <2>2, RegisterRanges, NarrowRanges, MoveTrips
<1>23. CASE t = "C_MV"
  <2>1. d \in Drawn("C_MV", NonZero, {0}, NonZero, {0})
    BY <1>23 DEF COperands
  <2>2. d.type = t /\ d.rd \in NonZero /\ d.rs1 \in {0} /\ d.rs2 \in NonZero /\ d.imm \in {0}
    BY <1>23, <2>1, DrawnFields
  <2> QED BY <1>23, <2>2, RegisterRanges, NarrowRanges, MoveTrips
<1>24. CASE t = "C_EBREAK"
  <2>1. d \in Drawn("C_EBREAK", {0}, {0}, {0}, {0})
    BY <1>24 DEF COperands
  <2>2. d.type = t /\ d.rd \in {0} /\ d.rs1 \in {0} /\ d.rs2 \in {0} /\ d.imm \in {0}
    BY <1>24, <2>1, DrawnFields
  <2> QED BY <1>24, <2>2, RegisterRanges, NarrowRanges, MoveTrips
<1>25. CASE t = "C_JALR"
  <2>1. d \in Drawn("C_JALR", {1}, NonZero, {0}, {0})
    BY <1>25 DEF COperands
  <2>2. d.type = t /\ d.rd \in {1} /\ d.rs1 \in NonZero /\ d.rs2 \in {0} /\ d.imm \in {0}
    BY <1>25, <2>1, DrawnFields
  <2> QED BY <1>25, <2>2, RegisterRanges, NarrowRanges, MoveTrips
<1>26. CASE t = "C_ADD"
  <2>1. d \in Same(Drawn("C_ADD", NonZero, NonZero, NonZero, {0}))
    BY <1>26 DEF COperands
  <2>2. d.type = t /\ d.rd \in NonZero /\ d.rs1 \in NonZero /\ d.rs2 \in NonZero /\ d.imm \in {0} /\ d.rs1 = d.rd
    BY <1>26, <2>1, DrawnFields, SameDrawn
  <2> QED BY <1>26, <2>2, RegisterRanges, NarrowRanges, MoveTrips
<1>27. CASE t = "C_SWSP"
  <2>1. d \in Drawn("C_SWSP", {0}, {2}, Regs, {4 * v : v \in UnsignedProbes(6)})
    BY <1>27 DEF COperands
  <2>2. d.type = t /\ d.rd \in {0} /\ d.rs1 \in {2} /\ d.rs2 \in Regs /\ d.imm \in {4 * v : v \in UnsignedProbes(6)}
    BY <1>27, <2>1, DrawnFields
  <2> QED BY <1>27, <2>2, RegisterRanges, NarrowRanges, ParcelRanges, StoreSpTrips
<1> QED BY <1>1, <1>2, <1>3, <1>4, <1>5, <1>6, <1>7, <1>8, <1>9, <1>10, <1>11, <1>12, <1>13, <1>14, <1>15, <1>16, <1>17, <1>18, <1>19, <1>20, <1>21, <1>22, <1>23, <1>24, <1>25, <1>26, <1>27 DEF CTypes

\* Its hints.
LEMMA HintTrips ==
  ASSUME NEW t \in HintTypes, NEW d \in HintOperands(t)
  PROVE  ParcelTrip(t, d, Encode16(d))
<1>1. CASE t = "C_ADDI_X0"
  <2>1. d \in Drawn("C_ADDI_X0", {0}, {0}, {0}, Probes(6) \ {0})
    BY <1>1 DEF HintOperands
  <2>2. d.type = t /\ d.rd \in {0} /\ d.rs1 \in {0} /\ d.rs2 \in {0} /\ d.imm \in Probes(6) \ {0}
    BY <1>1, <2>1, DrawnFields
  <2> QED BY <1>1, <2>2, RegisterRanges, NarrowRanges, ProbeRanges, AddiTrips
<1>2. CASE t = "C_LI_X0"
  <2>1. d \in Drawn("C_LI_X0", {0}, {0}, {0}, Probes(6))
    BY <1>2 DEF HintOperands
  <2>2. d.type = t /\ d.rd \in {0} /\ d.rs1 \in {0} /\ d.rs2 \in {0} /\ d.imm \in Probes(6)
    BY <1>2, <2>1, DrawnFields
  <2> QED BY <1>2, <2>2, RegisterRanges, NarrowRanges, ProbeRanges, LiTrips
<1>3. CASE t = "C_LUI_X0"
  <2>1. d \in Drawn("C_LUI_X0", {0}, {0}, {0}, {4096 * v : v \in Probes(6) \ {0}})
    BY <1>3 DEF HintOperands
  <2>2. d.type = t /\ d.rd \in {0} /\ d.rs1 \in {0} /\ d.rs2 \in {0} /\ d.imm \in {4096 * v : v \in Probes(6) \ {0}}
    BY <1>3, <2>1, DrawnFields
  <2>3. PICK v \in Probes(6) \ {0} : d.imm = 4096 * v
    BY <2>2
  <2>4. Between(v, -32, 31) /\ v # 0 /\ d.imm = v * 4096
    BY <2>3, NarrowRanges DEF Between
  <2> QED BY <1>3, <2>2, <2>4, RegisterRanges, NarrowRanges, LuiTrips
<1>4. CASE t = "C_MV_X0"
  <2>1. d \in Drawn("C_MV_X0", {0}, {0}, NonZero, {0})
    BY <1>4 DEF HintOperands
  <2>2. d.type = t /\ d.rd \in {0} /\ d.rs1 \in {0} /\ d.rs2 \in NonZero /\ d.imm \in {0}
    BY <1>4, <2>1, DrawnFields
  <2> QED BY <1>4, <2>2, RegisterRanges, NarrowRanges, MoveTrips
<1>5. CASE t = "C_ADD_X0"
  <2>1. d \in Drawn("C_ADD_X0", {0}, {0}, NonZero, {0})
    BY <1>5 DEF HintOperands
  <2>2. d.type = t /\ d.rd \in {0} /\ d.rs1 \in {0} /\ d.rs2 \in NonZero /\ d.imm \in {0}
    BY <1>5, <2>1, DrawnFields
  <2> QED BY <1>5, <2>2, RegisterRanges, NarrowRanges, MoveTrips
<1>6. CASE t = "C_SLLI_X0"
  <2>1. d \in Drawn("C_SLLI_X0", {0}, {0}, {0}, Shamts)
    BY <1>6 DEF HintOperands
  <2>2. d.type = t /\ d.rd \in {0} /\ d.rs1 \in {0} /\ d.rs2 \in {0} /\ d.imm \in Shamts
    BY <1>6, <2>1, DrawnFields
  <2> QED BY <1>6, <2>2, RegisterRanges, NarrowRanges, SlliTrips
<1>7. CASE t = "C_SLLI64"
  <2>1. d \in Same(Drawn("C_SLLI64", NonZero, NonZero, {0}, {0}))
    BY <1>7 DEF HintOperands
  <2>2. d.type = t /\ d.rd \in NonZero /\ d.rs1 \in NonZero /\ d.rs2 \in {0} /\ d.imm \in {0} /\ d.rs1 = d.rd
    BY <1>7, <2>1, DrawnFields, SameDrawn
  <2> QED BY <1>7, <2>2, RegisterRanges, NarrowRanges, SlliTrips
<1>8. CASE t = "C_SRLI64"
  <2>1. d \in Same(Drawn("C_SRLI64", CRegs, CRegs, {0}, {0}))
    BY <1>8 DEF HintOperands
  <2>2. d.type = t /\ d.rd \in CRegs /\ d.rs1 \in CRegs /\ d.rs2 \in {0} /\ d.imm \in {0} /\ d.rs1 = d.rd
    BY <1>8, <2>1, DrawnFields, SameDrawn
  <2> QED BY <1>8, <2>2, RegisterRanges, NarrowRanges, ShiftTrips DEF Between
<1>9. CASE t = "C_SRAI64"
  <2>1. d \in Same(Drawn("C_SRAI64", CRegs, CRegs, {0}, {0}))
    BY <1>9 DEF HintOperands
  <2>2. d.type = t /\ d.rd \in CRegs /\ d.rs1 \in CRegs /\ d.rs2 \in {0} /\ d.imm \in {0} /\ d.rs1 = d.rd
    BY <1>9, <2>1, DrawnFields, SameDrawn
  <2> QED BY <1>9, <2>2, RegisterRanges, NarrowRanges, ShiftTrips DEF Between
<1> QED BY <1>1, <1>2, <1>3, <1>4, <1>5, <1>6, <1>7, <1>8, <1>9 DEF HintTypes

\* The words of the generator of the compressed FP subset.
LEMMA FcTrips ==
  ASSUME NEW t \in FcTypes, NEW d \in FcOperands(t)
  PROVE  ParcelTrip(t, d, Encode16(d))
<1>1. CASE t = "C_FLW"
  <2>1. d \in Drawn("C_FLW", CRegs, CRegs, {0}, {4 * v : v \in UnsignedProbes(5)})
    BY <1>1 DEF FcOperands
  <2>2. d.type = t /\ d.rd \in CRegs /\ d.rs1 \in CRegs /\ d.rs2 \in {0} /\ d.imm \in {4 * v : v \in UnsignedProbes(5)}
    BY <1>1, <2>1, DrawnFields
  <2> QED BY <1>1, <2>2, RegisterRanges, NarrowRanges, ParcelRanges, LoadTrips
<1>2. CASE t = "C_FSW"
  <2>1. d \in Drawn("C_FSW", {0}, CRegs, CRegs, {4 * v : v \in UnsignedProbes(5)})
    BY <1>2 DEF FcOperands
  <2>2. d.type = t /\ d.rd \in {0} /\ d.rs1 \in CRegs /\ d.rs2 \in CRegs /\ d.imm \in {4 * v : v \in UnsignedProbes(5)}
    BY <1>2, <2>1, DrawnFields
  <2> QED BY <1>2, <2>2, RegisterRanges, NarrowRanges, ParcelRanges, StoreTrips
<1>3. CASE t = "C_FLWSP"
  <2>1. d \in Drawn("C_FLWSP", Regs, {2}, {0}, {4 * v : v \in UnsignedProbes(6)})
    BY <1>3 DEF FcOperands
  <2>2. d.type = t /\ d.rd \in Regs /\ d.rs1 \in {2} /\ d.rs2 \in {0} /\ d.imm \in {4 * v : v \in UnsignedProbes(6)}
    BY <1>3, <2>1, DrawnFields
  <2> QED BY <1>3, <2>2, RegisterRanges, NarrowRanges, ParcelRanges, LoadSpTrips
<1>4. CASE t = "C_FSWSP"
  <2>1. d \in Drawn("C_FSWSP", {0}, {2}, Regs, {4 * v : v \in UnsignedProbes(6)})
    BY <1>4 DEF FcOperands
  <2>2. d.type = t /\ d.rd \in {0} /\ d.rs1 \in {2} /\ d.rs2 \in Regs /\ d.imm \in {4 * v : v \in UnsignedProbes(6)}
    BY <1>4, <2>1, DrawnFields
  <2> QED BY <1>4, <2>2, RegisterRanges, NarrowRanges, ParcelRanges, StoreSpTrips
<1> QED BY <1>1, <1>2, <1>3, <1>4 DEF FcTypes

(***************************************************************************)
(* The reserved compressed encodings.                                      *)
(***************************************************************************)
\* No decoder of compressed words reads w.
Unreadable(w) == w \in Parcel /\ ~IsCompressedFloat(w) /\ CDecode(w) = Reserved(w)

\* A hart with C, and with or without F, traps on such a word.
LEMMA UnreadableTraps ==
  ASSUME NEW w, Unreadable(w), NEW hasF \in BOOLEAN
  PROVE  Decode16(w, TRUE, hasF).type = Illegal
<1>1. Decode16(w, TRUE, hasF) = Reserved(w)
  BY DEF Decode16, Unreadable
<1>2. Reserved(w).type = Illegal
  BY DEF Reserved, Instr, Illegal
<1> QED BY <1>1, <1>2, Zenon

\* Words without operands in the open fields of c_quad0 and c_quad2.
LEMMA OpenBits ==
  \A v \in Open : Between(v, 0, 8188) /\ v % 4 = 0
BY Powers DEF Open, Between

\* The fields of a word that is nothing but open bits, quadrant and funct3.
LEMMA OpenWords ==
  ASSUME NEW v \in Open, NEW q \in Int, 0 <= q, q <= 3, NEW f \in Int, 0 <= f, f <= 7,
         NEW w, w = f * 8192 + v + q
  PROVE  w \in Parcel /\ Quadrant(w) = q /\ Funct3(w) = f
<1>1. v \in Int /\ 0 <= v /\ v <= 8188 /\ v % 4 = 0
  BY OpenBits DEF Between
<1>2. w \in Int /\ 0 <= w /\ w <= 65535
  BY <1>1
<1>3. w % 4 = q /\ (w \div 8192) % 8 = f
  BY <1>1
<1>4. w \in Parcel
  BY <1>2, ParcelRange
<1> QED BY <1>3, <1>4, Powers DEF Quadrant, Funct3, Field

\* Reserved words of quadrants 0 and 2.
LEMMA OpenClasses ==
  /\ BadCQuad0 # {} /\ \A w \in BadCQuad0 : Unreadable(w)
  /\ BadCQuad2 # {} /\ \A w \in BadCQuad2 : Unreadable(w)
<1>1. ASSUME NEW w \in BadCQuad0 PROVE Unreadable(w)
  <2>1. PICK f \in {1, 4, 5}, v \in Open : w = f * 8192 + v
    BY <1>1 DEF BadCQuad0
  <2>2. f \in Int /\ 0 <= f /\ f <= 7 /\ v \in Int
    BY OpenBits DEF Between
  <2>3. w = f * 8192 + v + 0
    BY <2>1, <2>2
  <2>4. w \in Parcel /\ Quadrant(w) = 0 /\ Funct3(w) = f
    BY <2>2, <2>3, OpenWords
  <2> QED BY <2>4 DEF Unreadable, IsCompressedFloat, CDecode, Quadrant0
<1>2. ASSUME NEW w \in BadCQuad2 PROVE Unreadable(w)
  <2>1. PICK f \in {1, 5}, v \in Open : w = f * 8192 + v + 2
    BY <1>2 DEF BadCQuad2
  <2>2. f \in Int /\ 0 <= f /\ f <= 7 /\ v \in Int
    BY OpenBits DEF Between
  <2>3. w \in Parcel /\ Quadrant(w) = 2 /\ Funct3(w) = f
    BY <2>1, <2>2, OpenWords
  <2> QED BY <2>3 DEF Unreadable, IsCompressedFloat, CDecode, Quadrant2
<1>3. 0 \in Open
  BY DEF Open
<1>4. BadCQuad0 # {} /\ BadCQuad2 # {}
  BY <1>3 DEF BadCQuad0, BadCQuad2
<1> QED BY <1>1, <1>2, <1>4

\* The groups of a word decide whether it is one of the other classes.
LEMMA PartsUnreadable ==
  ASSUME NEW w, NEW q, NEW s, NEW r, NEW h, NEW f, Parts(w, q, s, r, h, f),
         \/ q = 0 /\ f = 0 /\ s <= 7 /\ r = 0 /\ h = 0
         \/ q = 2 /\ f = 2 /\ r = 0
         \/ q = 2 /\ f = 4 /\ s = 0 /\ r = 0 /\ h = 0
         \/ q = 1 /\ f = 4 /\ h = 1 /\ (r <= 15 \/ r >= 24)
         \/ q = 2 /\ f = 0 /\ h = 1
         \/ q = 1 /\ f = 3 /\ s = 0 /\ h = 0
  PROVE  Unreadable(w)
<1>1. /\ w \in Parcel /\ Quadrant(w) = q /\ Funct3(w) = f /\ RdOf(w) = r /\ Rs2Of(w) = s
      /\ Field(w, 12, 1) = h /\ Field(w, 10, 2) = r \div 8
  BY PartFields DEF Funct3, RdOf, Rs2Of
<1>2. w \in Int
  BY DEF Parts
<1>3. CASE q = 0 /\ f = 0 /\ s <= 7 /\ r = 0 /\ h = 0
  <2>1. Field(w, 5, 1) = (s \div 8) % 2 /\ Field(w, 6, 1) = s \div 16 /\ Field(w, 7, 4) = r % 16
        /\ Field(w, 11, 2) = (r \div 16) + 2 * h
    BY PartFields
  <2>2. (s \div 8) % 2 = 0 /\ s \div 16 = 0 /\ r % 16 = 0 /\ (r \div 16) + 2 * h = 0
    BY <1>3 DEF Parts
  <2>3. Gather(w, AddSpnLayout) = 0
    BY <1>2, <2>1, <2>2, GatherLayouts
  <2> QED BY <1>1, <1>3, <2>3 DEF Unreadable, IsCompressedFloat, CDecode, Quadrant0
<1>4. CASE q = 2 /\ f = 2 /\ r = 0
  BY <1>1, <1>4 DEF Unreadable, IsCompressedFloat, CDecode, Quadrant2
<1>5. CASE q = 2 /\ f = 4 /\ s = 0 /\ r = 0 /\ h = 0
  BY <1>1, <1>5 DEF Unreadable, IsCompressedFloat, CDecode, Quadrant2, JumpMoveGroup
<1>6. CASE q = 1 /\ f = 4 /\ h = 1 /\ (r <= 15 \/ r >= 24)
  <2>1. r \div 8 \in Int /\ r \div 8 # 2
    BY <1>6 DEF Parts
  <2>2. Field(w, 10, 2) # 2
    BY <1>1, <2>1
  <2> QED BY <1>1, <1>6, <2>2 DEF Unreadable, IsCompressedFloat, CDecode, Quadrant1, AluGroup
<1>7. CASE q = 2 /\ f = 0 /\ h = 1
  BY <1>1, <1>7 DEF Unreadable, IsCompressedFloat, CDecode, Quadrant2
<1>8. CASE q = 1 /\ f = 3 /\ s = 0 /\ h = 0
  <2>1. Field(w, 2, 5) = s /\ Field(w, 12, 1) = h
    BY PartFields
  <2>2. Gather(w, ImmLayout) = 0
    BY <1>2, <1>8, <2>1, GatherLayouts
  <2>3. Field(w, 2, 1) = s % 2 /\ Field(w, 3, 2) = (s \div 2) % 4 /\ Field(w, 5, 1) = (s \div 8) % 2
        /\ Field(w, 6, 1) = s \div 16
    BY PartFields
  <2>4. s % 2 = 0 /\ (s \div 2) % 4 = 0 /\ (s \div 8) % 2 = 0 /\ s \div 16 = 0
    BY <1>8
  <2>5. Gather(w, AddSpLayout) = 0
    BY <1>2, <1>8, <2>1, <2>3, <2>4, GatherLayouts
  <2> QED BY <1>1, <1>8, <2>2, <2>5 DEF Unreadable, IsCompressedFloat, CDecode, Quadrant1, UpperGroup
<1> QED BY <1>3, <1>4, <1>5, <1>6, <1>7, <1>8

\* Every class of reserved compressed encodings has words, and none is read.
LEMMA ParcelClasses ==
  ASSUME NEW c \in DOMAIN Classes16
  PROVE  Classes16[c] # {} /\ \A w \in Classes16[c] : Unreadable(w)
<1>1. {0} # {} /\ \A w \in {0} : Unreadable(w)
  <2>1. Parts(0, 0, 0, 0, 0, 0)
    BY DEF Parts
  <2> QED BY <2>1, PartsUnreadable
<1>2. BadCAddi4spn # {} /\ \A w \in BadCAddi4spn : Unreadable(w)
  <2>1. ASSUME NEW r \in 0 .. 7 PROVE Parts(r * 4, 0, r, 0, 0, 0) /\ r <= 7
    BY DEF Parts
  <2>2. 0 \in 0 .. 7
    OBVIOUS
  <2> QED BY <2>1, <2>2, PartsUnreadable DEF BadCAddi4spn
<1>3. BadCLwsp # {} /\ \A w \in BadCLwsp : Unreadable(w)
  <2>1. ASSUME NEW b \in {0, 1}, NEW r \in 0 .. 31
        PROVE  Parts(2 * 8192 + b * 4096 + r * 4 + 2, 2, r, 0, b, 2)
    BY DEF Parts
  <2>2. 0 \in 0 .. 31
    OBVIOUS
  <2> QED BY <2>1, <2>2, PartsUnreadable DEF BadCLwsp
<1>4. BadCJr # {} /\ \A w \in BadCJr : Unreadable(w)
  <2>1. Parts(32770, 2, 0, 0, 0, 4)
    BY DEF Parts
  <2> QED BY <2>1, PartsUnreadable DEF BadCJr
<1>5. BadCShift # {} /\ \A w \in BadCShift : Unreadable(w)
  <2>1. ASSUME NEW g \in {0, 1}, NEW r \in 0 .. 7, NEW s, Register(s)
        PROVE  Parts(4 * 8192 + 4096 + g * 1024 + r * 128 + s * 4 + 1, 1, s, 8 * g + r, 1, 4) /\ 8 * g + r <= 15
    <3>1. s \in 0 .. 31
      BY <2>1 DEF Register
    <3> QED BY <3>1 DEF Parts
  <2>2. ASSUME NEW r \in 0 .. 31, NEW s, Register(s)
        PROVE  Parts(4096 + r * 128 + s * 4 + 2, 2, s, r, 1, 0)
    <3>1. s \in 0 .. 31
      BY <2>2 DEF Register
    <3> QED BY <3>1 DEF Parts
  <2>3. \A s \in Regs : Register(s)
    BY RegisterRanges
  <2>4. PICK s \in Regs : TRUE
    BY DrawAssumption
  <2>5. 0 \in 0 .. 31
    OBVIOUS
  <2> QED BY <2>1, <2>2, <2>3, <2>4, <2>5, PartsUnreadable DEF BadCShift
<1>6. BadCAlu # {} /\ \A w \in BadCAlu : Unreadable(w)
  <2>1. ASSUME NEW r \in 0 .. 7, NEW g \in 0 .. 3, NEW s \in 0 .. 7
        PROVE  /\ Parts(4 * 8192 + 4096 + 3072 + r * 128 + g * 32 + s * 4 + 1, 1, 8 * g + s, 24 + r, 1, 4)
               /\ 24 + r >= 24
    BY DEF Parts
  <2>2. 0 \in 0 .. 7 /\ 0 \in 0 .. 3
    OBVIOUS
  <2> QED BY <2>1, <2>2, PartsUnreadable DEF BadCAlu
<1>7. BadCLui # {} /\ \A w \in BadCLui : Unreadable(w)
  <2>1. ASSUME NEW r \in 0 .. 31 PROVE Parts(3 * 8192 + r * 128 + 1, 1, 0, r, 0, 3)
    BY DEF Parts
  <2>2. 1 \in (0 .. 31) \ {0, 2}
    OBVIOUS
  <2> QED BY <2>1, <2>2, PartsUnreadable DEF BadCLui
<1>8. BadCAddi16sp # {} /\ \A w \in BadCAddi16sp : Unreadable(w)
  <2>1. Parts(24833, 1, 0, 2, 0, 3)
    BY DEF Parts
  <2> QED BY <2>1, PartsUnreadable DEF BadCAddi16sp
<1> QED BY <1>1, <1>2, <1>3, <1>4, <1>5, <1>6, <1>7, <1>8, OpenClasses DEF Classes16

(***************************************************************************)
(* What compressed instructions do.                                        *)
(***************************************************************************)
\* The fields of a compressed word are numbers.
LEMMA FieldTypes ==
  ASSUME NEW w \in Int
  PROVE  /\ Field(w, 2, 1) \in Int /\ Field(w, 2, 2) \in Int /\ Field(w, 2, 5) \in Int
         /\ Field(w, 3, 2) \in Int /\ Field(w, 3, 3) \in Int /\ Field(w, 4, 3) \in Int
         /\ Field(w, 5, 1) \in Int /\ Field(w, 5, 2) \in Int /\ Field(w, 6, 1) \in Int
         /\ Field(w, 7, 1) \in Int /\ Field(w, 7, 2) \in Int /\ Field(w, 7, 4) \in Int
         /\ Field(w, 8, 1) \in Int /\ Field(w, 9, 2) \in Int /\ Field(w, 9, 4) \in Int
         /\ Field(w, 10, 2) \in Int /\ Field(w, 10, 3) \in Int /\ Field(w, 11, 1) \in Int
         /\ Field(w, 11, 2) \in Int /\ Field(w, 12, 1) \in Int
BY Powers DEF Field

\* Gathered immediates are numbers, and so are the signed ones.
LEMMA GatherTypes ==
  ASSUME NEW w \in Int
  PROVE  /\ Gather(w, AddSpnLayout) \in Int
         /\ Gather(w, WordLayout) \in Int
         /\ Gather(w, ImmLayout) \in Int
         /\ Gather(w, AddSpLayout) \in Int
         /\ Gather(w, LoadSpLayout) \in Int
         /\ Gather(w, StoreSpLayout) \in Int
         /\ Gather(w, BranchLayout) \in Int
         /\ Gather(w, JumpLayout) \in Int
<1>1. Gather(w, AddSpnLayout) \in Int
  <2> DEFINE a == Field(w, 5, 1)
             b == Field(w, 6, 1)
             c == Field(w, 7, 4)
             d == Field(w, 11, 2)
  <2>1. Gather(w, AddSpnLayout) = a * 8 + b * 4 + c * 64 + d * 16
    BY GatherLayouts
  <2>2. a \in Int /\ b \in Int /\ c \in Int /\ d \in Int
    BY FieldTypes
  <2> HIDE DEF a, b, c, d
  <2> QED BY <2>1, <2>2
<1>2. Gather(w, WordLayout) \in Int
  <2> DEFINE a == Field(w, 5, 1)
             b == Field(w, 6, 1)
             c == Field(w, 10, 3)
  <2>1. Gather(w, WordLayout) = a * 64 + b * 4 + c * 8
    BY GatherLayouts
  <2>2. a \in Int /\ b \in Int /\ c \in Int
    BY FieldTypes
  <2> HIDE DEF a, b, c
  <2> QED BY <2>1, <2>2
<1>3. Gather(w, ImmLayout) \in Int
  <2> DEFINE a == Field(w, 2, 5)
             b == Field(w, 12, 1)
  <2>1. Gather(w, ImmLayout) = a + b * 32
    BY GatherLayouts
  <2>2. a \in Int /\ b \in Int
    BY FieldTypes
  <2> HIDE DEF a, b
  <2> QED BY <2>1, <2>2
<1>4. Gather(w, AddSpLayout) \in Int
  <2> DEFINE a == Field(w, 2, 1)
             b == Field(w, 3, 2)
             c == Field(w, 5, 1)
             d == Field(w, 6, 1)
             e == Field(w, 12, 1)
  <2>1. Gather(w, AddSpLayout) = a * 32 + b * 128 + c * 64 + d * 16 + e * 512
    BY GatherLayouts
  <2>2. a \in Int /\ b \in Int /\ c \in Int /\ d \in Int /\ e \in Int
    BY FieldTypes
  <2> HIDE DEF a, b, c, d, e
  <2> QED BY <2>1, <2>2
<1>5. Gather(w, LoadSpLayout) \in Int
  <2> DEFINE a == Field(w, 2, 2)
             b == Field(w, 4, 3)
             c == Field(w, 12, 1)
  <2>1. Gather(w, LoadSpLayout) = a * 64 + b * 4 + c * 32
    BY GatherLayouts
  <2>2. a \in Int /\ b \in Int /\ c \in Int
    BY FieldTypes
  <2> HIDE DEF a, b, c
  <2> QED BY <2>1, <2>2
<1>6. Gather(w, StoreSpLayout) \in Int
  <2> DEFINE a == Field(w, 7, 2)
             b == Field(w, 9, 4)
  <2>1. Gather(w, StoreSpLayout) = a * 64 + b * 4
    BY GatherLayouts
  <2>2. a \in Int /\ b \in Int
    BY FieldTypes
  <2> HIDE DEF a, b
  <2> QED BY <2>1, <2>2
<1>7. Gather(w, BranchLayout) \in Int
  <2> DEFINE a == Field(w, 2, 1)
             b == Field(w, 3, 2)
             c == Field(w, 5, 2)
             d == Field(w, 10, 2)
             e == Field(w, 12, 1)
  <2>1. Gather(w, BranchLayout) = a * 32 + b * 2 + c * 64 + d * 8 + e * 256
    BY GatherLayouts
  <2>2. a \in Int /\ b \in Int /\ c \in Int /\ d \in Int /\ e \in Int
    BY FieldTypes
  <2> HIDE DEF a, b, c, d, e
  <2> QED BY <2>1, <2>2
<1>8. Gather(w, JumpLayout) \in Int
  <2> DEFINE a == Field(w, 2, 1)
             b == Field(w, 3, 3)
             c == Field(w, 6, 1)
             d == Field(w, 7, 1)
             e == Field(w, 8, 1)
             f == Field(w, 9, 2)
             g == Field(w, 11, 1)
             h == Field(w, 12, 1)
  <2>1. Gather(w, JumpLayout) = a * 32 + b * 2 + c * 128 + d * 64 + e * 1024 + f * 256 + g * 16 + h * 2048
    BY GatherLayouts
  <2>2. a \in Int /\ b \in Int /\ c \in Int /\ d \in Int /\ e \in Int /\ f \in Int /\ g \in Int /\ h \in Int
    BY FieldTypes
  <2> HIDE DEF a, b, c, d, e, f, g, h
  <2> QED BY <2>1, <2>2
<1> QED BY <1>1, <1>2, <1>3, <1>4, <1>5, <1>6, <1>7, <1>8

\* The signed immediates and the offsets are numbers.
LEMMA OffsetTypes ==
  ASSUME NEW w \in Int
  PROVE  /\ Imm6(w) \in Int /\ Imm6(w) * 4096 \in Int
         /\ JumpOffset(w) \in Int /\ BranchOffset(w) \in Int
         /\ Negative(Gather(w, AddSpLayout), 10) \in Int
<1>1. ASSUME NEW imm \in Int
      PROVE  /\ Negative(imm, 6) \in Int /\ Negative(imm, 9) \in Int
             /\ Negative(imm, 10) \in Int /\ Negative(imm, 12) \in Int
  BY Powers DEF Negative
<1>2. Imm6(w) \in Int
  BY <1>1, GatherTypes DEF Imm6
<1>3. JumpOffset(w) \in Int /\ BranchOffset(w) \in Int
  BY <1>1, GatherTypes DEF JumpOffset, BranchOffset
<1>4. Negative(Gather(w, AddSpLayout), 10) \in Int
  BY <1>1, GatherTypes
<1> QED BY <1>2, <1>3, <1>4

\* The registers of a compressed word.
LEMMA ParcelRegisters ==
  ASSUME NEW w \in Int
  PROVE  Register(RdOf(w)) /\ Register(Rs2Of(w)) /\ Register(CregHigh(w)) /\ Register(CregLow(w))
<1>1. Register(RdOf(w)) /\ Register(Rs2Of(w))
  BY Powers DEF Register, RdOf, Rs2Of, Field
<1>2. Register(CregHigh(w)) /\ Register(CregLow(w))
  BY Powers DEF Register, CregHigh, CregLow, Field
<1> QED BY <1>1, <1>2

\* The operands the decoder leaves to an instruction of each type: those its
\* base instruction has not are x0, and those its format implies are x1 and x2.
Implied(t, rd, rs1, rs2, imm) ==
  /\ Register(rd) /\ Register(rs1) /\ Register(rs2) /\ imm \in Int
  /\ t \in CTypes
  /\ t \in {"C_ADDI4SPN", "C_LWSP", "C_SWSP", "C_ADDI16SP"} => rs1 = 2
  /\ t = "C_ADDI16SP" => rd = 2
  /\ t \in {"C_LI", "C_MV"} => rs1 = 0
  /\ t \in {"C_NOP", "C_J", "C_JR"} => rd = 0
  /\ t \in {"C_JAL", "C_JALR"} => rd = 1
  /\ t \in {"C_BEQZ", "C_BNEZ"} => rs2 = 0
  /\ t \in {"C_JR", "C_JALR"} => imm = 0

\* What rv32c::Decoder returns: a reserved encoding, or an instruction.
Shaped(w, d) ==
  \/ d = Reserved(w)
  \/ \E t, rd, rs1, rs2, imm :
       d = Instr(t, rd, rs1, rs2, imm, w) /\ Implied(t, rd, rs1, rs2, imm)

\* What the groups of quadrants 1 and 2 decode has the shape of its type.
LEMMA GroupShapes ==
  ASSUME NEW w \in Int
  PROVE  /\ Shaped(w, AluGroup(w)) /\ Shaped(w, UpperGroup(w))
         /\ Shaped(w, JumpMoveGroup(w)) /\ Shaped(w, JumpAddGroup(w))
<1>1. Register(0) /\ Register(1) /\ Register(2)
  BY DEF Register
<1>2. Shaped(w, AluGroup(w))
  <2>1. ASSUME NEW t \in {"C_SRLI", "C_SRAI", "C_ANDI"}, NEW imm \in Int
        PROVE  Shaped(w, Instr(t, CregHigh(w), CregHigh(w), 0, imm, w))
    BY <1>1, ParcelRegisters DEF Shaped, Implied, CTypes
  <2>2. ASSUME NEW t \in {"C_SUB", "C_XOR", "C_OR", "C_AND"}
        PROVE  Shaped(w, Instr(t, CregHigh(w), CregHigh(w), CregLow(w), 0, w))
    BY <1>1, ParcelRegisters DEF Shaped, Implied, CTypes
  <2>3. Rs2Of(w) \in Int /\ Imm6(w) \in Int
    BY ParcelRegisters, OffsetTypes DEF Register
  <2>4. <<"C_SUB", "C_XOR", "C_OR", "C_AND">>[Field(w, 5, 2) + 1] \in {"C_SUB", "C_XOR", "C_OR", "C_AND"}
    <3>1. Field(w, 5, 2) \in {0, 1, 2, 3}
      BY Powers DEF Field
    <3> QED BY <3>1
  <2>5. Shaped(w, Reserved(w))
    BY DEF Shaped
  <2> DEFINE op == <<"C_SUB", "C_XOR", "C_OR", "C_AND">>[Field(w, 5, 2) + 1]
  <2>6. op \in {"C_SUB", "C_XOR", "C_OR", "C_AND"}
    BY <2>4
  <2>7. AluGroup(w) =
          CASE Field(w, 10, 2) = 0 /\ Field(w, 12, 1) = 0 ->
                 Instr("C_SRLI", CregHigh(w), CregHigh(w), 0, Rs2Of(w), w)
            [] Field(w, 10, 2) = 1 /\ Field(w, 12, 1) = 0 ->
                 Instr("C_SRAI", CregHigh(w), CregHigh(w), 0, Rs2Of(w), w)
            [] Field(w, 10, 2) = 2 -> Instr("C_ANDI", CregHigh(w), CregHigh(w), 0, Imm6(w), w)
            [] Field(w, 10, 2) = 3 /\ Field(w, 12, 1) = 0 ->
                 Instr(op, CregHigh(w), CregHigh(w), CregLow(w), 0, w)
            [] OTHER -> Reserved(w)
    BY DEF AluGroup
  <2> HIDE DEF op
  <2> QED BY <2>1, <2>2, <2>3, <2>5, <2>6, <2>7
<1>3. Shaped(w, UpperGroup(w))
  <2>1. Shaped(w, Reserved(w))
    BY DEF Shaped
  <2>2. Shaped(w, Instr("C_ADDI16SP", 2, 2, 0, Negative(Gather(w, AddSpLayout), 10), w))
    BY <1>1, OffsetTypes DEF Shaped, Implied, CTypes
  <2>3. Shaped(w, Instr("C_LUI", RdOf(w), 0, 0, Imm6(w) * 4096, w))
    BY <1>1, ParcelRegisters, OffsetTypes DEF Shaped, Implied, CTypes
  <2> QED BY <2>1, <2>2, <2>3 DEF UpperGroup
<1>4. Shaped(w, JumpMoveGroup(w))
  <2>1. Shaped(w, Reserved(w))
    BY DEF Shaped
  <2>2. Shaped(w, Instr("C_MV", RdOf(w), 0, Rs2Of(w), 0, w))
    BY <1>1, ParcelRegisters DEF Shaped, Implied, CTypes
  <2>3. Shaped(w, Instr("C_JR", 0, RdOf(w), 0, 0, w))
    BY <1>1, ParcelRegisters DEF Shaped, Implied, CTypes
  <2> QED BY <2>1, <2>2, <2>3 DEF JumpMoveGroup
<1>5. Shaped(w, JumpAddGroup(w))
  <2>1. Shaped(w, Instr("C_EBREAK", 0, 0, 0, 0, w))
    BY <1>1 DEF Shaped, Implied, CTypes
  <2>2. Shaped(w, Instr("C_ADD", RdOf(w), RdOf(w), Rs2Of(w), 0, w))
    BY <1>1, ParcelRegisters DEF Shaped, Implied, CTypes
  <2>3. Shaped(w, Instr("C_JALR", 1, RdOf(w), 0, 0, w))
    BY <1>1, ParcelRegisters DEF Shaped, Implied, CTypes
  <2> QED BY <2>1, <2>2, <2>3 DEF JumpAddGroup
<1> QED BY <1>2, <1>3, <1>4, <1>5

\* What any parcel decodes to has the shape of its type.
LEMMA CompressedShape ==
  ASSUME NEW w \in Int
  PROVE  Shaped(w, CDecode(w))
<1>1. Register(0) /\ Register(1) /\ Register(2)
  BY DEF Register
<1>2. Shaped(w, Reserved(w))
  BY DEF Shaped
<1>3. Shaped(w, Quadrant0(w))
  <2>1. Shaped(w, Instr("C_ADDI4SPN", CregLow(w), 2, 0, Gather(w, AddSpnLayout), w))
    <3>1. ASSUME NEW imm \in Int PROVE Shaped(w, Instr("C_ADDI4SPN", CregLow(w), 2, 0, imm, w))
      BY <1>1, ParcelRegisters DEF Shaped, Implied, CTypes
    <3> QED BY <3>1, GatherTypes
  <2>2. Shaped(w, Instr("C_LW", CregLow(w), CregHigh(w), 0, Gather(w, WordLayout), w))
    <3>1. ASSUME NEW imm \in Int PROVE Shaped(w, Instr("C_LW", CregLow(w), CregHigh(w), 0, imm, w))
      BY <1>1, ParcelRegisters DEF Shaped, Implied, CTypes
    <3> QED BY <3>1, GatherTypes
  <2>3. Shaped(w, Instr("C_SW", 0, CregHigh(w), CregLow(w), Gather(w, WordLayout), w))
    <3>1. ASSUME NEW imm \in Int PROVE Shaped(w, Instr("C_SW", 0, CregHigh(w), CregLow(w), imm, w))
      BY <1>1, ParcelRegisters DEF Shaped, Implied, CTypes
    <3> QED BY <3>1, GatherTypes
  <2> QED BY <1>2, <2>1, <2>2, <2>3 DEF Quadrant0
<1>4. Shaped(w, Quadrant1(w))
  <2>0. Funct3(w) \in {0, 1, 2, 3, 4, 5, 6, 7}
    BY Powers DEF Funct3, Field
  <2>1. Shaped(w, Instr(IF RdOf(w) = 0 THEN "C_NOP" ELSE "C_ADDI", RdOf(w), RdOf(w), 0, Imm6(w), w))
    <3>1. CASE RdOf(w) = 0
      <4>1. Shaped(w, Instr("C_NOP", RdOf(w), RdOf(w), 0, Imm6(w), w))
        BY <1>1, <3>1, ParcelRegisters, OffsetTypes DEF Shaped, Implied, CTypes
      <4> QED BY <3>1, <4>1
    <3>2. CASE RdOf(w) # 0
      <4>1. Shaped(w, Instr("C_ADDI", RdOf(w), RdOf(w), 0, Imm6(w), w))
        BY <1>1, ParcelRegisters, OffsetTypes DEF Shaped, Implied, CTypes
      <4> QED BY <3>2, <4>1
    <3> QED BY <3>1, <3>2
  <2>2. Shaped(w, Instr("C_JAL", 1, 0, 0, JumpOffset(w), w))
    BY <1>1, OffsetTypes DEF Shaped, Implied, CTypes
  <2>3. Shaped(w, Instr("C_LI", RdOf(w), 0, 0, Imm6(w), w))
    BY <1>1, ParcelRegisters, OffsetTypes DEF Shaped, Implied, CTypes
  <2>4. Shaped(w, Instr("C_J", 0, 0, 0, JumpOffset(w), w))
    BY <1>1, OffsetTypes DEF Shaped, Implied, CTypes
  <2>5. /\ Shaped(w, Instr("C_BEQZ", 0, CregHigh(w), 0, BranchOffset(w), w))
        /\ Shaped(w, Instr("C_BNEZ", 0, CregHigh(w), 0, BranchOffset(w), w))
    BY <1>1, ParcelRegisters, OffsetTypes DEF Shaped, Implied, CTypes
  <2> QED BY <2>0, <2>1, <2>2, <2>3, <2>4, <2>5, GroupShapes DEF Quadrant1
<1>5. Shaped(w, Quadrant2(w))
  <2>1. Shaped(w, Instr("C_SLLI", RdOf(w), RdOf(w), 0, Rs2Of(w), w))
    <3>1. Rs2Of(w) \in Int
      BY ParcelRegisters DEF Register
    <3> QED BY <1>1, <3>1, ParcelRegisters DEF Shaped, Implied, CTypes
  <2>2. Shaped(w, Instr("C_LWSP", RdOf(w), 2, 0, Gather(w, LoadSpLayout), w))
    <3>1. ASSUME NEW imm \in Int PROVE Shaped(w, Instr("C_LWSP", RdOf(w), 2, 0, imm, w))
      BY <1>1, ParcelRegisters DEF Shaped, Implied, CTypes
    <3> QED BY <3>1, GatherTypes
  <2>3. Shaped(w, Instr("C_SWSP", 0, 2, Rs2Of(w), Gather(w, StoreSpLayout), w))
    <3>1. ASSUME NEW imm \in Int PROVE Shaped(w, Instr("C_SWSP", 0, 2, Rs2Of(w), imm, w))
      BY <1>1, ParcelRegisters DEF Shaped, Implied, CTypes
    <3> QED BY <3>1, GatherTypes
  <2> QED BY <1>2, <2>1, <2>2, <2>3, GroupShapes DEF Quadrant2
<1> QED BY <1>2, <1>3, <1>4, <1>5 DEF CDecode

\* The effect of a base instruction two bytes long on a hart with C.
Base2(d, x, pc) == BaseEffect(d, x, pc, 2, TRUE, 3)

\* With C no target is misaligned.
LEMMA CompressedTargets ==
  ASSUME NEW after, NEW target
  PROVE  /\ \A rd : Jump(TRUE, after, rd, target) = Writes(target, rd, after)
         /\ TakeBranch(TRUE, after, target) = Nothing(target)
BY Zenon DEF Jump, TakeBranch, TargetMisaligned

\* The effects of the base instructions that are abbreviated.
LEMMA BaseArms ==
  ASSUME NEW d, NEW x, NEW pc
  PROVE  /\ d.type = "LUI" => Base2(d, x, pc) = Writes(Trunc(pc + 2), d.rd, Trunc(d.imm))
         /\ d.type = "JAL" => Base2(d, x, pc) = Writes(Trunc(pc + d.imm), d.rd, Trunc(pc + 2))
         /\ d.type = "JALR" =>
              LET at == Trunc(x[d.rs1] + d.imm)
              IN  Base2(d, x, pc) = Writes(at - (at % 2), d.rd, Trunc(pc + 2))
         /\ d.type \in {"BEQ", "BNE"} =>
              Base2(d, x, pc) = Nothing(IF BranchTaken(d.type, x[d.rs1], x[d.rs2])
                                        THEN Trunc(pc + d.imm) ELSE Trunc(pc + 2))
         /\ d.type = "LW" => Base2(d, x, pc) = Loads(Trunc(pc + 2), "LW", d.rd, Trunc(x[d.rs1] + d.imm))
         /\ d.type = "SW" => Base2(d, x, pc) = Stores(Trunc(pc + 2), "SW", Trunc(x[d.rs1] + d.imm), x[d.rs2])
         /\ d.type \in ImmTypes \union RegTypes =>
              Base2(d, x, pc) = Writes(Trunc(pc + 2), d.rd, Compute(d.type, x[d.rs1], x[d.rs2], d.imm))
         /\ d.type = "EBREAK" => Base2(d, x, pc) = Traps(Trunc(pc + 2), 3, pc)
<1> DEFINE a == x[d.rs1]
           b == x[d.rs2]
           after == Trunc(pc + 2)
           at == Trunc(a + d.imm)
           to == Trunc(pc + d.imm)
           E == BaseEffect(d, x, pc, 2, TRUE, 3)
<1>1. d.type = "LUI" => E = Writes(after, d.rd, Trunc(d.imm))
  BY DEF BaseEffect, ImmTypes, RegTypes, LoadTypes, StoreTypes, BranchTypes
<1>2. d.type = "JAL" => E = Jump(TRUE, after, d.rd, to)
  BY DEF BaseEffect, ImmTypes, RegTypes, LoadTypes, StoreTypes, BranchTypes
<1>3. d.type = "JALR" => E = Jump(TRUE, after, d.rd, at - (at % 2))
  BY DEF BaseEffect, ImmTypes, RegTypes, LoadTypes, StoreTypes, BranchTypes
<1>4. d.type \in {"BEQ", "BNE"} =>
        E = IF BranchTaken(d.type, a, b) THEN TakeBranch(TRUE, after, to) ELSE Nothing(after)
  BY DEF BaseEffect, ImmTypes, RegTypes, LoadTypes, StoreTypes, BranchTypes
<1>5. d.type = "LW" => E = Loads(after, "LW", d.rd, at)
  BY DEF BaseEffect, ImmTypes, RegTypes, LoadTypes, StoreTypes, BranchTypes
<1>6. d.type = "SW" => E = Stores(after, "SW", at, b)
  BY DEF BaseEffect, ImmTypes, RegTypes, LoadTypes, StoreTypes, BranchTypes
<1>7. d.type \in ImmTypes \union RegTypes =>
        E = Writes(after, d.rd, Compute(d.type, a, b, d.imm))
  BY DEF BaseEffect, ImmTypes, RegTypes, LoadTypes, StoreTypes, BranchTypes
<1>8. d.type = "EBREAK" => E = Traps(after, 3, pc)
  BY DEF BaseEffect, ImmTypes, RegTypes, LoadTypes, StoreTypes, BranchTypes
<1>9. Base2(d, x, pc) = E
  BY Zenon DEF Base2
<1> HIDE DEF E
<1>10. d.type = "JAL" => E = Writes(to, d.rd, after)
  BY <1>2, CompressedTargets, Zenon
<1>11. d.type = "JALR" => E = Writes(at - (at % 2), d.rd, after)
  BY <1>3, CompressedTargets, Zenon
<1>12. d.type \in {"BEQ", "BNE"} => E = Nothing(IF BranchTaken(d.type, a, b) THEN to ELSE after)
  BY <1>4, CompressedTargets, Zenon
<1> QED BY <1>1, <1>5, <1>6, <1>7, <1>8, <1>9, <1>10, <1>11, <1>12

\* What the base instructions that are abbreviated compute.
LEMMA ComputeArms ==
  ASSUME NEW a, NEW b, NEW imm
  PROVE  /\ Compute("ADDI", a, b, imm) = Trunc(a + imm)
         /\ Compute("ANDI", a, b, imm) = And(a, Trunc(imm))
         /\ Compute("SLLI", a, b, imm) = Shl(a, Shamt(imm))
         /\ Compute("SRLI", a, b, imm) = Shr(a, Shamt(imm))
         /\ Compute("SRAI", a, b, imm) = Sar(a, Shamt(imm))
         /\ Compute("ADD", a, b, imm) = Trunc(a + b)
         /\ Compute("SUB", a, b, imm) = Trunc(a - b)
         /\ Compute("XOR", a, b, imm) = Xor(a, b)
         /\ Compute("OR", a, b, imm) = Or(a, b)
         /\ Compute("AND", a, b, imm) = And(a, b)
<1>1. Compute("ADDI", a, b, imm) = Trunc(a + imm)
  BY DEF Compute, BaseImm, ImmTypes, RegTypes, MTypes, ZbbTypes, ZbaTypes,
         ZbsTypes, ZbsRegTypes, ZicondTypes
<1>2. Compute("ANDI", a, b, imm) = And(a, Trunc(imm))
  BY DEF Compute, BaseImm, ImmTypes, RegTypes, MTypes, ZbbTypes, ZbaTypes,
         ZbsTypes, ZbsRegTypes, ZicondTypes
<1>3. Compute("SLLI", a, b, imm) = Shl(a, Shamt(imm))
  BY DEF Compute, BaseImm, ImmTypes, RegTypes, MTypes, ZbbTypes, ZbaTypes,
         ZbsTypes, ZbsRegTypes, ZicondTypes
<1>4. Compute("SRLI", a, b, imm) = Shr(a, Shamt(imm))
  BY DEF Compute, BaseImm, ImmTypes, RegTypes, MTypes, ZbbTypes, ZbaTypes,
         ZbsTypes, ZbsRegTypes, ZicondTypes
<1>5. Compute("SRAI", a, b, imm) = Sar(a, Shamt(imm))
  BY DEF Compute, BaseImm, ImmTypes, RegTypes, MTypes, ZbbTypes, ZbaTypes,
         ZbsTypes, ZbsRegTypes, ZicondTypes
<1>6. Compute("ADD", a, b, imm) = Trunc(a + b)
  BY DEF Compute, BaseReg, ImmTypes, RegTypes, MTypes, ZbbTypes, ZbaTypes,
         ZbsTypes, ZbsRegTypes, ZicondTypes
<1>7. Compute("SUB", a, b, imm) = Trunc(a - b)
  BY DEF Compute, BaseReg, ImmTypes, RegTypes, MTypes, ZbbTypes, ZbaTypes,
         ZbsTypes, ZbsRegTypes, ZicondTypes
<1>8. Compute("XOR", a, b, imm) = Xor(a, b)
  BY DEF Compute, BaseReg, ImmTypes, RegTypes, MTypes, ZbbTypes, ZbaTypes,
         ZbsTypes, ZbsRegTypes, ZicondTypes
<1>9. Compute("OR", a, b, imm) = Or(a, b)
  BY DEF Compute, BaseReg, ImmTypes, RegTypes, MTypes, ZbbTypes, ZbaTypes,
         ZbsTypes, ZbsRegTypes, ZicondTypes
<1>10. Compute("AND", a, b, imm) = And(a, b)
  BY DEF Compute, BaseReg, ImmTypes, RegTypes, MTypes, ZbbTypes, ZbaTypes,
         ZbsTypes, ZbsRegTypes, ZicondTypes
<1> QED BY <1>1, <1>2, <1>3, <1>4, <1>5, <1>6, <1>7, <1>8, <1>9, <1>10

\* Words are numbers that a conversion to uint32_t leaves alone.
LEMMA WordFacts ==
  ASSUME NEW a \in Word
  PROVE  a \in Nat /\ Trunc(a) = a
<1> DEFINE m == 2^XLEN
<1>1. m \in Nat \ {0} /\ a \in 0 .. m - 1
  BY WordAssumption, PowerType DEF Word
<1> HIDE DEF m
<1>2. a \in Nat /\ a % m = a
  BY <1>1
<1> QED BY <1>2 DEF Trunc, m

\* A write to x0 is none.
LEMMA WriteToZero ==
  ASSUME NEW after, NEW v
  PROVE  Visible(Writes(after, 0, v)) = Visible(Nothing(after))
<1>1. Writes(after, 0, v) = [Nothing(after) EXCEPT !.value = v]
  <2>1. [Nothing(after) EXCEPT !.rd = 0] = Nothing(after)
    BY DEF Nothing
  <2>2. Writes(after, 0, v) = [[Nothing(after) EXCEPT !.rd = 0] EXCEPT !.value = v]
    BY DEF Writes
  <2> QED BY <2>1, <2>2
<1>2. Nothing(after).rd = 0 /\ Writes(after, 0, v).rd = 0
  BY DEF Writes, Nothing
<1>3. [[Nothing(after) EXCEPT !.value = v] EXCEPT !.value = 0] = [Nothing(after) EXCEPT !.value = 0]
  BY DEF Nothing
<1> QED BY <1>1, <1>2, <1>3 DEF Visible

\* A compressed instruction in terms of its operands, beside the base
\* instruction in terms of the same operands.
LEMMA SameEffect ==
  ASSUME NEW w, NEW t, NEW rd, NEW rs1, NEW rs2, NEW imm, Implied(t, rd, rs1, rs2, imm),
         NEW x \in [0 .. 31 -> Word], x[0] = 0, NEW pc
  PROVE  LET d == Instr(t, rd, rs1, rs2, imm, w)
         IN  Visible(CompressedEffect(d, x, x, pc)) = Visible(Base2(Expansion(d), x, pc))
<1> DEFINE d == Instr(t, rd, rs1, rs2, imm, w)
           u == BaseName[t]
           e == Instr(u, rd, rs1, rs2, imm, w)
           a == x[rs1]
           b == x[rs2]
           after == Trunc(pc + 2)
           target == Trunc(pc + imm)
           C == CompressedEffect(d, x, x, pc)
           B == Base2(e, x, pc)
<1>1. Expansion(d) = e
  BY DEF Expansion, Instr
<1>2. /\ d.type = t /\ d.rd = rd /\ d.rs1 = rs1 /\ d.rs2 = rs2 /\ d.imm = imm
      /\ e.type = u /\ e.rd = rd /\ e.rs1 = rs1 /\ e.rs2 = rs2 /\ e.imm = imm
  BY DEF Instr
<1>3. a \in Word /\ b \in Word /\ imm \in Int
  BY DEF Implied, Register
<1>4. a \in Int /\ b \in Int /\ Trunc(a) = a /\ Trunc(b) = b
  BY <1>3, WordFacts
<1> SUFFICES Visible(C) = Visible(B)
  BY <1>1
<1> HIDE DEF d, e

<1>5. CASE t = "C_ADDI4SPN"
  <2>1. u = "ADDI"
    BY <1>5 DEF BaseName
  <2>2. C = Writes(after, rd, Trunc(x[2] + imm))
    BY <1>2, <1>5 DEF CompressedEffect
  <2>3. B = Writes(after, rd, Compute("ADDI", a, b, imm))
    BY <1>2, <2>1, BaseArms DEF ImmTypes, RegTypes
  <2>4. B = Writes(after, rd, Trunc(a + imm))
    BY <2>3, ComputeArms
  <2>5. rs1 = 2
    BY <1>5 DEF Implied
  <2> QED BY <2>2, <2>4, <2>5
<1>6. CASE t = "C_LW"
  <2>1. u = "LW"
    BY <1>6 DEF BaseName
  <2>2. C = Loads(after, "LW", rd, Trunc(a + imm))
    BY <1>2, <1>6 DEF CompressedEffect
  <2>4. B = Loads(after, "LW", rd, Trunc(a + imm))
    BY <1>2, <2>1, BaseArms
  <2> QED BY <2>2, <2>4
<1>7. CASE t = "C_SW"
  <2>1. u = "SW"
    BY <1>7 DEF BaseName
  <2>2. C = Stores(after, "SW", Trunc(a + imm), b)
    BY <1>2, <1>7 DEF CompressedEffect
  <2>4. B = Stores(after, "SW", Trunc(a + imm), b)
    BY <1>2, <2>1, BaseArms
  <2> QED BY <2>2, <2>4
<1>8. CASE t = "C_NOP"
  <2>1. u = "ADDI"
    BY <1>8 DEF BaseName
  <2>2. C = Nothing(after)
    BY <1>2, <1>8 DEF CompressedEffect
  <2>3. B = Writes(after, rd, Compute("ADDI", a, b, imm))
    BY <1>2, <2>1, BaseArms DEF ImmTypes, RegTypes
  <2>4. B = Writes(after, rd, Trunc(a + imm))
    BY <2>3, ComputeArms
  <2>5. rd = 0
    BY <1>8 DEF Implied
  <2> QED BY <2>2, <2>4, <2>5, WriteToZero
<1>9. CASE t = "C_ADDI"
  <2>1. u = "ADDI"
    BY <1>9 DEF BaseName
  <2>2. C = Writes(after, rd, Trunc(a + imm))
    BY <1>2, <1>9 DEF CompressedEffect
  <2>3. B = Writes(after, rd, Compute("ADDI", a, b, imm))
    BY <1>2, <2>1, BaseArms DEF ImmTypes, RegTypes
  <2>4. B = Writes(after, rd, Trunc(a + imm))
    BY <2>3, ComputeArms
  <2> QED BY <2>2, <2>4
<1>10. CASE t = "C_JAL"
  <2>1. u = "JAL"
    BY <1>10 DEF BaseName
  <2>2. C = Writes(target, 1, after)
    BY <1>2, <1>10 DEF CompressedEffect
  <2>4. B = Writes(target, rd, after)
    BY <1>2, <2>1, BaseArms
  <2>5. rd = 1
    BY <1>10 DEF Implied
  <2> QED BY <2>2, <2>4, <2>5
<1>11. CASE t = "C_LI"
  <2>1. u = "ADDI"
    BY <1>11 DEF BaseName
  <2>2. C = Writes(after, rd, Trunc(imm))
    BY <1>2, <1>11 DEF CompressedEffect
  <2>3. B = Writes(after, rd, Compute("ADDI", a, b, imm))
    BY <1>2, <2>1, BaseArms DEF ImmTypes, RegTypes
  <2>4. B = Writes(after, rd, Trunc(a + imm))
    BY <2>3, ComputeArms
  <2>5. a = 0 /\ a + imm = imm
    BY <1>3, <1>11 DEF Implied
  <2> QED BY <2>2, <2>4, <2>5
<1>12. CASE t = "C_ADDI16SP"
  <2>1. u = "ADDI"
    BY <1>12 DEF BaseName
  <2>2. C = Writes(after, 2, Trunc(x[2] + imm))
    BY <1>2, <1>12 DEF CompressedEffect
  <2>3. B = Writes(after, rd, Compute("ADDI", a, b, imm))
    BY <1>2, <2>1, BaseArms DEF ImmTypes, RegTypes
  <2>4. B = Writes(after, rd, Trunc(a + imm))
    BY <2>3, ComputeArms
  <2>5. rs1 = 2 /\ rd = 2
    BY <1>12 DEF Implied
  <2> QED BY <2>2, <2>4, <2>5
<1>13. CASE t = "C_LUI"
  <2>1. u = "LUI"
    BY <1>13 DEF BaseName
  <2>2. C = Writes(after, rd, Trunc(imm))
    BY <1>2, <1>13 DEF CompressedEffect
  <2>4. B = Writes(after, rd, Trunc(imm))
    BY <1>2, <2>1, BaseArms
  <2> QED BY <2>2, <2>4
<1>14. CASE t = "C_SRLI"
  <2>1. u = "SRLI"
    BY <1>14 DEF BaseName
  <2>2. C = Writes(after, rd, Shr(a, Shamt(imm)))
    BY <1>2, <1>14 DEF CompressedEffect
  <2>3. B = Writes(after, rd, Compute("SRLI", a, b, imm))
    BY <1>2, <2>1, BaseArms DEF ImmTypes, RegTypes
  <2>4. B = Writes(after, rd, Shr(a, Shamt(imm)))
    BY <2>3, ComputeArms
  <2> QED BY <2>2, <2>4
<1>15. CASE t = "C_SRAI"
  <2>1. u = "SRAI"
    BY <1>15 DEF BaseName
  <2>2. C = Writes(after, rd, Sar(a, Shamt(imm)))
    BY <1>2, <1>15 DEF CompressedEffect
  <2>3. B = Writes(after, rd, Compute("SRAI", a, b, imm))
    BY <1>2, <2>1, BaseArms DEF ImmTypes, RegTypes
  <2>4. B = Writes(after, rd, Sar(a, Shamt(imm)))
    BY <2>3, ComputeArms
  <2> QED BY <2>2, <2>4
<1>16. CASE t = "C_ANDI"
  <2>1. u = "ANDI"
    BY <1>16 DEF BaseName
  <2>2. C = Writes(after, rd, And(a, Trunc(imm)))
    BY <1>2, <1>16 DEF CompressedEffect
  <2>3. B = Writes(after, rd, Compute("ANDI", a, b, imm))
    BY <1>2, <2>1, BaseArms DEF ImmTypes, RegTypes
  <2>4. B = Writes(after, rd, And(a, Trunc(imm)))
    BY <2>3, ComputeArms
  <2> QED BY <2>2, <2>4
<1>17. CASE t = "C_SUB"
  <2>1. u = "SUB"
    BY <1>17 DEF BaseName
  <2>2. C = Writes(after, rd, Trunc(a - b))
    BY <1>2, <1>17 DEF CompressedEffect
  <2>3. B = Writes(after, rd, Compute("SUB", a, b, imm))
    BY <1>2, <2>1, BaseArms DEF ImmTypes, RegTypes
  <2>4. B = Writes(after, rd, Trunc(a - b))
    BY <2>3, ComputeArms
  <2> QED BY <2>2, <2>4
<1>18. CASE t = "C_XOR"
  <2>1. u = "XOR"
    BY <1>18 DEF BaseName
  <2>2. C = Writes(after, rd, Xor(a, b))
    BY <1>2, <1>18 DEF CompressedEffect
  <2>3. B = Writes(after, rd, Compute("XOR", a, b, imm))
    BY <1>2, <2>1, BaseArms DEF ImmTypes, RegTypes
  <2>4. B = Writes(after, rd, Xor(a, b))
    BY <2>3, ComputeArms
  <2> QED BY <2>2, <2>4
<1>19. CASE t = "C_OR"
  <2>1. u = "OR"
    BY <1>19 DEF BaseName
  <2>2. C = Writes(after, rd, Or(a, b))
    BY <1>2, <1>19 DEF CompressedEffect
  <2>3. B = Writes(after, rd, Compute("OR", a, b, imm))
    BY <1>2, <2>1, BaseArms DEF ImmTypes, RegTypes
  <2>4. B = Writes(after, rd, Or(a, b))
    BY <2>3, ComputeArms
  <2> QED BY <2>2, <2>4
<1>20. CASE t = "C_AND"
  <2>1. u = "AND"
    BY <1>20 DEF BaseName
  <2>2. C = Writes(after, rd, And(a, b))
    BY <1>2, <1>20 DEF CompressedEffect
  <2>3. B = Writes(after, rd, Compute("AND", a, b, imm))
    BY <1>2, <2>1, BaseArms DEF ImmTypes, RegTypes
  <2>4. B = Writes(after, rd, And(a, b))
    BY <2>3, ComputeArms
  <2> QED BY <2>2, <2>4
<1>21. CASE t = "C_J"
  <2>1. u = "JAL"
    BY <1>21 DEF BaseName
  <2>2. C = Nothing(target)
    BY <1>2, <1>21 DEF CompressedEffect
  <2>4. B = Writes(target, rd, after)
    BY <1>2, <2>1, BaseArms
  <2>5. rd = 0
    BY <1>21 DEF Implied
  <2> QED BY <2>2, <2>4, <2>5, WriteToZero
<1>22. CASE t = "C_BEQZ"
  <2>1. u = "BEQ"
    BY <1>22 DEF BaseName
  <2>2. C = Nothing(IF a = 0 THEN target ELSE after)
    BY <1>2, <1>22 DEF CompressedEffect
  <2>3. B = Nothing(IF BranchTaken("BEQ", a, b) THEN target ELSE after)
    BY <1>2, <2>1, BaseArms
  <2>4. B = Nothing(IF a = b THEN target ELSE after)
    BY <2>3 DEF BranchTaken
  <2>5. b = 0
    BY <1>22 DEF Implied
  <2> QED BY <2>2, <2>4, <2>5
<1>23. CASE t = "C_BNEZ"
  <2>1. u = "BNE"
    BY <1>23 DEF BaseName
  <2>2. C = Nothing(IF a # 0 THEN target ELSE after)
    BY <1>2, <1>23 DEF CompressedEffect
  <2>3. B = Nothing(IF BranchTaken("BNE", a, b) THEN target ELSE after)
    BY <1>2, <2>1, BaseArms
  <2>4. B = Nothing(IF a # b THEN target ELSE after)
    BY <2>3 DEF BranchTaken
  <2>5. b = 0
    BY <1>23 DEF Implied
  <2> QED BY <2>2, <2>4, <2>5
<1>24. CASE t = "C_SLLI"
  <2>1. u = "SLLI"
    BY <1>24 DEF BaseName
  <2>2. C = Writes(after, rd, Shl(a, Shamt(imm)))
    BY <1>2, <1>24 DEF CompressedEffect
  <2>3. B = Writes(after, rd, Compute("SLLI", a, b, imm))
    BY <1>2, <2>1, BaseArms DEF ImmTypes, RegTypes
  <2>4. B = Writes(after, rd, Shl(a, Shamt(imm)))
    BY <2>3, ComputeArms
  <2> QED BY <2>2, <2>4
<1>25. CASE t = "C_LWSP"
  <2>1. u = "LW"
    BY <1>25 DEF BaseName
  <2>2. C = Loads(after, "LW", rd, Trunc(x[2] + imm))
    BY <1>2, <1>25 DEF CompressedEffect
  <2>4. B = Loads(after, "LW", rd, Trunc(a + imm))
    BY <1>2, <2>1, BaseArms
  <2>5. rs1 = 2
    BY <1>25 DEF Implied
  <2> QED BY <2>2, <2>4, <2>5
<1>26. CASE t = "C_JR"
  <2>1. u = "JALR"
    BY <1>26 DEF BaseName
  <2>2. C = Nothing(a - (a % 2))
    BY <1>2, <1>26 DEF CompressedEffect
  <2>3. B = Writes(Trunc(a + imm) - (Trunc(a + imm) % 2), rd, after)
    BY <1>2, <2>1, BaseArms
  <2>4. B = Writes(a - (a % 2), rd, after)
    <3>1. a + imm = a
      BY <1>4, <1>26 DEF Implied
    <3> QED BY <1>4, <2>3, <3>1
  <2>5. rd = 0
    BY <1>26 DEF Implied
  <2> QED BY <2>2, <2>4, <2>5, WriteToZero
<1>27. CASE t = "C_MV"
  <2>1. u = "ADD"
    BY <1>27 DEF BaseName
  <2>2. C = Writes(after, rd, b)
    BY <1>2, <1>27 DEF CompressedEffect
  <2>3. B = Writes(after, rd, Compute("ADD", a, b, imm))
    BY <1>2, <2>1, BaseArms DEF ImmTypes, RegTypes
  <2>4. B = Writes(after, rd, Trunc(a + b))
    BY <2>3, ComputeArms
  <2>5. a = 0 /\ a + b = b
    BY <1>4, <1>27 DEF Implied
  <2> QED BY <1>4, <2>2, <2>4, <2>5
<1>28. CASE t = "C_EBREAK"
  <2>1. u = "EBREAK"
    BY <1>28 DEF BaseName
  <2>2. C = Traps(after, 3, pc)
    BY <1>2, <1>28 DEF CompressedEffect
  <2>4. B = Traps(after, 3, pc)
    BY <1>2, <2>1, BaseArms
  <2> QED BY <2>2, <2>4
<1>29. CASE t = "C_JALR"
  <2>1. u = "JALR"
    BY <1>29 DEF BaseName
  <2>2. C = Writes(a - (a % 2), 1, after)
    BY <1>2, <1>29 DEF CompressedEffect, LinkJump
  <2>3. B = Writes(Trunc(a + imm) - (Trunc(a + imm) % 2), rd, after)
    BY <1>2, <2>1, BaseArms
  <2>4. B = Writes(a - (a % 2), rd, after)
    <3>1. a + imm = a
      BY <1>4, <1>29 DEF Implied
    <3> QED BY <1>4, <2>3, <3>1
  <2>5. rd = 1
    BY <1>29 DEF Implied
  <2> QED BY <2>2, <2>4, <2>5
<1>30. CASE t = "C_ADD"
  <2>1. u = "ADD"
    BY <1>30 DEF BaseName
  <2>2. C = Writes(after, rd, Trunc(a + b))
    BY <1>2, <1>30 DEF CompressedEffect
  <2>3. B = Writes(after, rd, Compute("ADD", a, b, imm))
    BY <1>2, <2>1, BaseArms DEF ImmTypes, RegTypes
  <2>4. B = Writes(after, rd, Trunc(a + b))
    BY <2>3, ComputeArms
  <2> QED BY <2>2, <2>4
<1>31. CASE t = "C_SWSP"
  <2>1. u = "SW"
    BY <1>31 DEF BaseName
  <2>2. C = Stores(after, "SW", Trunc(x[2] + imm), b)
    BY <1>2, <1>31 DEF CompressedEffect
  <2>4. B = Stores(after, "SW", Trunc(a + imm), b)
    BY <1>2, <2>1, BaseArms
  <2>5. rs1 = 2
    BY <1>31 DEF Implied
  <2> QED BY <2>2, <2>4, <2>5
<1>32. t \in CTypes
  BY DEF Implied
<1> HIDE DEF C, B
<1> QED BY <1>5, <1>6, <1>7, <1>8, <1>9, <1>10, <1>11, <1>12, <1>13, <1>14, <1>15, <1>16, <1>17, <1>18, <1>19, <1>20, <1>21, <1>22, <1>23, <1>24, <1>25, <1>26, <1>27, <1>28, <1>29, <1>30, <1>31, <1>32 DEF CTypes

\* A compressed instruction is an integer.
LEMMA ParcelInt ==
  ASSUME NEW w \in Parcel
  PROVE  w \in Int
BY DEF Parcel

\* A word that is decoded at all does what its expansion does.
LEMMA ExpansionExact ==
  ASSUME NEW w \in Parcel, CDecode(w).type # Illegal,
         NEW x \in [0 .. 31 -> Word], x[0] = 0, NEW pc
  PROVE  Visible(CompressedEffect(CDecode(w), x, x, pc))
           = Visible(BaseEffect(Expansion(CDecode(w)), x, pc, 2, TRUE, 3))
<1>1. w \in Int
  BY ParcelInt
<1>2. CDecode(w) # Reserved(w)
  BY DEF Reserved, Instr, Illegal
<1>3. PICK t, rd, rs1, rs2, imm :
        CDecode(w) = Instr(t, rd, rs1, rs2, imm, w) /\ Implied(t, rd, rs1, rs2, imm)
  BY <1>1, <1>2, CompressedShape DEF Shaped
<1>4. Visible(CompressedEffect(CDecode(w), x, x, pc)) = Visible(Base2(Expansion(CDecode(w)), x, pc))
  BY <1>3, SameEffect
<1>5. Base2(Expansion(CDecode(w)), x, pc) = BaseEffect(Expansion(CDecode(w)), x, pc, 2, TRUE, 3)
  BY Zenon DEF Base2
<1> QED BY <1>4, <1>5, Zenon

\* Shifts by zero leave a word as it is.
LEMMA ShiftsByZero ==
  ASSUME NEW a \in Word
  PROVE  Shl(a, Shamt(0)) = a /\ Shr(a, Shamt(0)) = a /\ Sar(a, Shamt(0)) = a
<1>1. Shamt(0) = 0
  <2> DEFINE m == 2^ShamtBits
  <2>1. m \in Nat \ {0}
    BY WordAssumption, PowerType
  <2>2. 0 % m = 0
    <3> HIDE DEF m
    <3> QED BY <2>1
  <2> QED BY <2>2 DEF Shamt
<1>2. Shl(a, 0) = a
  <2>1. {i + 0 : i \in Ones(a)} = Ones(a)
    <3>1. \A i \in Ones(a) : i + 0 = i
      BY DEF Ones, Positions
    <3> HIDE DEF Ones
    <3> QED BY <3>1
  <2> QED BY <2>1, OnesOfWord DEF Shl
<1>3. ~(0 >= XLEN) /\ 2^0 = 1
  BY WordAssumption
<1>4. a \in Nat /\ a % 2^XLEN = a
  BY WordFacts DEF Trunc
<1>5. Shr(a, 0) = a
  <2>1. a \div 1 = a
    BY <1>4
  <2> QED BY <1>3, <2>1 DEF Shr
<1>6. Sar(a, 0) = a
  <2> DEFINE m == 2^XLEN
             h == 2^(XLEN - 1)
  <2>1. m \in Nat \ {0} /\ h \in Nat
    BY WordAssumption, PowerType
  <2> HIDE DEF m, h
  <2>2. a \in Nat /\ a % m = a
    BY <1>4 DEF m
  <2>3. (a - m) % m = a
    BY <2>1, <2>2
  <2>4. Signed(a) = IF a >= h THEN a - m ELSE a
    BY DEF Signed, m, h
  <2>5. Signed(a) \div 1 = Signed(a)
    BY <2>1, <2>2, <2>4
  <2>6. Signed(a) % m = a
    BY <2>2, <2>3, <2>4
  <2>7. Sar(a, 0) = Trunc(Signed(a) \div 1)
    BY <1>3 DEF Sar
  <2> QED BY <2>5, <2>6, <2>7 DEF Trunc, m
<1> QED BY <1>1, <1>2, <1>5, <1>6

\* An effect without what a hart does not see of it: a write to x0, or of the
\* value a register holds.
Unchanged(e, x) ==
  [e EXCEPT !.value = IF e.rd = 0 \/ e.value = x[e.rd] THEN 0 ELSE e.value, !.rd = 0]

\* A write to x0, or of the value a register holds, is none.
LEMMA NoWrite ==
  ASSUME NEW x, NEW after, NEW rd, NEW v, rd = 0 \/ v = x[rd]
  PROVE  Unchanged(Writes(after, rd, v), x) = Nothing(after)
<1> DEFINE e == Writes(after, rd, v)
<1>1. e.rd = rd /\ e.value = v
  BY DEF Writes, Nothing
<1>2. Unchanged(e, x) = [e EXCEPT !.value = 0, !.rd = 0]
  <2> HIDE DEF e
  <2> QED BY <1>1 DEF Unchanged
<1>3. [e EXCEPT !.value = 0, !.rd = 0] = Nothing(after)
  <2> DEFINE n == Nothing(after)
  <2>1. n = [next |-> n.next, trap |-> n.trap, tval |-> n.tval, rd |-> 0, value |-> 0,
             access |-> n.access, request |-> n.request]
    BY DEF Nothing
  <2>2. e = [n EXCEPT !.rd = rd, !.value = v]
    BY DEF Writes
  <2> HIDE DEF n, e
  <2>3. e = [[n EXCEPT !.rd = rd] EXCEPT !.value = v]
    BY <2>2
  <2>4. [e EXCEPT !.value = 0, !.rd = 0] = [[e EXCEPT !.value = 0] EXCEPT !.rd = 0]
    OBVIOUS
  <2>5. [[[[n EXCEPT !.rd = rd] EXCEPT !.value = v] EXCEPT !.value = 0] EXCEPT !.rd = 0]
          = [[n EXCEPT !.value = 0] EXCEPT !.rd = 0]
    BY <2>1
  <2>6. [n EXCEPT !.value = 0] = n /\ [n EXCEPT !.rd = 0] = n
    BY <2>1
  <2> QED BY <2>3, <2>4, <2>5, <2>6 DEF n
<1> QED BY <1>2, <1>3

\* The hints are no-ops.
LEMMA HintEffects ==
  ASSUME NEW t \in HintTypes, NEW o \in HintOperands(t),
         NEW x \in [0 .. 31 -> Word], x[0] = 0, NEW pc
  PROVE  Unchanged(CompressedEffect(Decoded(Encode16(o)), x, x, pc), x) = Nothing(Trunc(pc + 2))
<1> DEFINE w == Encode16(o)
           after == Trunc(pc + 2)
           d == Instr(Canonical(t), o.rd, o.rs1, o.rs2, o.imm, w)
           E == CompressedEffect(d, x, x, pc)
<1>1. Decoded(w) = d
  BY HintTrips DEF ParcelTrip
<1>2. SUFFICES Unchanged(E, x) = Nothing(after)
  BY <1>1
<1>3. /\ d.type = Canonical(t) /\ d.rd = o.rd /\ d.rs1 = o.rs1 /\ d.rs2 = o.rs2 /\ d.imm = o.imm
  BY DEF Instr
<1> HIDE DEF d
<1>4. CASE t = "C_ADDI_X0"
  <2>1. d.type = "C_NOP"
    BY <1>3, <1>4 DEF Canonical
  <2>2. E = Nothing(after)
    BY <2>1 DEF CompressedEffect
  <2>3. Unchanged(Nothing(after), x) = [Nothing(after) EXCEPT !.value = 0, !.rd = 0]
    BY DEF Unchanged, Nothing
  <2>4. /\ [Nothing(after) EXCEPT !.value = 0] = Nothing(after)
        /\ [Nothing(after) EXCEPT !.rd = 0] = Nothing(after)
    BY DEF Nothing
  <2>5. [Nothing(after) EXCEPT !.value = 0, !.rd = 0]
          = [[Nothing(after) EXCEPT !.value = 0] EXCEPT !.rd = 0]
    OBVIOUS
  <2> QED BY <2>2, <2>3, <2>4, <2>5
<1>5. CASE t \in {"C_LI_X0", "C_LUI_X0", "C_MV_X0", "C_ADD_X0", "C_SLLI_X0"}
  <2>1. o.rd = 0
    BY <1>5 DEF HintOperands, Drawn
  <2>2. d.type \in {"C_LI", "C_LUI", "C_MV", "C_ADD", "C_SLLI"}
    BY <1>3, <1>5 DEF Canonical
  <2>3. \E v : E = Writes(after, 0, v)
    <3>1. CASE d.type = "C_LI"
      BY <1>3, <2>1, <3>1 DEF CompressedEffect
    <3>2. CASE d.type = "C_LUI"
      BY <1>3, <2>1, <3>2 DEF CompressedEffect
    <3>3. CASE d.type = "C_MV"
      BY <1>3, <2>1, <3>3 DEF CompressedEffect
    <3>4. CASE d.type = "C_ADD"
      BY <1>3, <2>1, <3>4 DEF CompressedEffect
    <3>5. CASE d.type = "C_SLLI"
      BY <1>3, <2>1, <3>5 DEF CompressedEffect
    <3> QED BY <2>2, <3>1, <3>2, <3>3, <3>4, <3>5
  <2> HIDE DEF E
  <2> QED BY <2>3, NoWrite
<1>6. CASE t \in {"C_SLLI64", "C_SRLI64", "C_SRAI64"}
  <2>1. o.rd = o.rs1 /\ o.imm = 0 /\ Register(o.rd)
    <3>1. CASE t = "C_SLLI64"
      BY <3>1, RegisterRanges DEF HintOperands, Drawn, Same, NonZero
    <3>2. CASE t \in {"C_SRLI64", "C_SRAI64"}
      BY <3>2, RegisterRanges DEF HintOperands, Drawn, Same, CRegister, Register
    <3> QED BY <1>6, <3>1, <3>2
  <2>2. d.type \in {"C_SLLI", "C_SRLI", "C_SRAI"}
    BY <1>3, <1>6 DEF Canonical
  <2> DEFINE a == x[o.rd]
  <2>3. a \in Word
    BY <2>1 DEF Register
  <2>4. E = Writes(after, o.rd, a)
    <3>1. CASE d.type = "C_SLLI"
      <4>1. E = Writes(after, o.rd, Shl(a, Shamt(0)))
        BY <1>3, <2>1, <3>1 DEF CompressedEffect
      <4> QED BY <2>3, <4>1, ShiftsByZero
    <3>2. CASE d.type = "C_SRLI"
      <4>1. E = Writes(after, o.rd, Shr(a, Shamt(0)))
        BY <1>3, <2>1, <3>2 DEF CompressedEffect
      <4> QED BY <2>3, <4>1, ShiftsByZero
    <3>3. CASE d.type = "C_SRAI"
      <4>1. E = Writes(after, o.rd, Sar(a, Shamt(0)))
        BY <1>3, <2>1, <3>3 DEF CompressedEffect
      <4> QED BY <2>3, <4>1, ShiftsByZero
    <3> QED BY <2>2, <3>1, <3>2, <3>3
  <2> QED BY <2>4, NoWrite
<1> QED BY <1>4, <1>5, <1>6 DEF HintTypes

(***************************************************************************)
(* There is always something to draw.                                      *)
(***************************************************************************)
\* There are operands if there is something to draw for each.
LEMMA DrawnSome ==
  ASSUME NEW t, NEW rds, NEW rs1s, NEW rs2s, NEW imms,
         rds # {}, rs1s # {}, rs2s # {}, imms # {}
  PROVE  Drawn(t, rds, rs1s, rs2s, imms) # {}
<1>1. PICK rd \in rds, rs1 \in rs1s, rs2 \in rs2s, imm \in imms : TRUE
  OBVIOUS
<1>2. [type |-> t, rd |-> rd, rs1 |-> rs1, rs2 |-> rs2, imm |-> imm]
        \in Drawn(t, rds, rs1s, rs2s, imms)
  BY DEF Drawn
<1> QED BY <1>2

\* The same of operands whose destination is their first source.
LEMMA SameSome ==
  ASSUME NEW t, NEW rds, NEW rs2s, NEW imms, rds # {}, rs2s # {}, imms # {}
  PROVE  Same(Drawn(t, rds, rds, rs2s, imms)) # {}
<1>1. PICK rd \in rds, rs2 \in rs2s, imm \in imms : TRUE
  OBVIOUS
<1>2. [type |-> t, rd |-> rd, rs1 |-> rd, rs2 |-> rs2, imm |-> imm]
        \in Same(Drawn(t, rds, rds, rs2s, imms))
  BY DEF Drawn, Same
<1> QED BY <1>2

\* Nothing that is drawn from is empty.
LEMMA SomeProbes ==
  /\ Regs # {} /\ CRegs # {} /\ NonZero # {} /\ NonZero \ {2} # {}
  /\ FpRms # {} /\ AmoBits # {} /\ Shamts # {} /\ CShamts # {}
  /\ Probes(6) # {} /\ Probes(6) \ {0} # {} /\ Probes(12) # {}
  /\ UnsignedProbes(5) # {} /\ UnsignedProbes(6) # {} /\ UnsignedProbes(8) \ {0} # {}
  /\ UnsignedProbes(8) # {} /\ UnsignedProbes(20) # {}
  /\ EvenProbes(9) # {} /\ EvenProbes(12) # {} /\ EvenProbes(13) # {} /\ EvenProbes(21) # {}
<1>1. \A n : -1 \in Probes(n) \ {0}
  BY DEF Probes
<1>2. ASSUME NEW n \in Nat \ {0} PROVE 1 \in UnsignedProbes(n) \ {0}
  <2>1. 0 \in 0 .. n - 1 /\ 2^0 = 1
    OBVIOUS
  <2>2. 2^0 \in {2^k : k \in 0 .. n - 1}
    BY <2>1
  <2>3. 1 \in {2^k : k \in 0 .. n - 1}
    BY <2>1, <2>2
  <2> QED BY <2>3 DEF UnsignedProbes
<1>3. \A n : EvenProbes(n) # {}
  BY <1>1 DEF EvenProbes
<1>4. CShamts # {} /\ Shamts # {}
  BY <1>2 DEF CShamts, Shamts
<1>5. /\ UnsignedProbes(5) # {} /\ UnsignedProbes(6) # {} /\ UnsignedProbes(8) \ {0} # {}
      /\ UnsignedProbes(8) # {} /\ UnsignedProbes(20) # {}
  BY <1>2
<1>6. Probes(6) # {} /\ Probes(6) \ {0} # {} /\ Probes(12) # {}
  BY <1>1
<1>7. /\ Regs # {} /\ CRegs # {} /\ NonZero # {} /\ NonZero \ {2} # {}
      /\ FpRms # {} /\ AmoBits # {}
  BY DrawAssumption DEF NonZero
<1> QED BY <1>3, <1>4, <1>5, <1>6, <1>7

\* There are operands for every row of a table.
LEMMA RowDraws ==
  ASSUME NEW r, NEW t, RowShape(r)
  PROVE  Operands(r, t) # {}
<1>1. CASE r.format = "U"
  <2> DEFINE imms == UnsignedProbes(20)
  <2>1. imms # {}
    BY SomeProbes
  <2>2. Regs # {} /\ {0} # {} /\ {0} # {}
    BY SomeProbes
  <2>3. Operands(r, t) = Drawn(t, Regs, {0}, {0}, imms)
    BY <1>1 DEF Operands
  <2> HIDE DEF imms
  <2> QED BY <2>1, <2>2, <2>3, DrawnSome
<1>2. CASE r.format = "J"
  <2> DEFINE imms == EvenProbes(21)
  <2>1. imms # {}
    BY SomeProbes
  <2>2. Regs # {} /\ {0} # {} /\ {0} # {}
    BY SomeProbes
  <2>3. Operands(r, t) = Drawn(t, Regs, {0}, {0}, imms)
    BY <1>2 DEF Operands
  <2> HIDE DEF imms
  <2> QED BY <2>1, <2>2, <2>3, DrawnSome
<1>3. CASE r.format = "I"
  <2> DEFINE imms == Probes(12)
  <2>1. imms # {}
    BY SomeProbes
  <2>2. Regs # {} /\ Regs # {} /\ {0} # {}
    BY SomeProbes
  <2>3. Operands(r, t) = Drawn(t, Regs, Regs, {0}, imms)
    BY <1>3 DEF Operands
  <2> HIDE DEF imms
  <2> QED BY <2>1, <2>2, <2>3, DrawnSome
<1>4. CASE r.format = "B"
  <2> DEFINE imms == EvenProbes(13)
  <2>1. imms # {}
    BY SomeProbes
  <2>2. {0} # {} /\ Regs # {} /\ Regs # {}
    BY SomeProbes
  <2>3. Operands(r, t) = Drawn(t, {0}, Regs, Regs, imms)
    BY <1>4 DEF Operands
  <2> HIDE DEF imms
  <2> QED BY <2>1, <2>2, <2>3, DrawnSome
<1>5. CASE r.format = "S"
  <2> DEFINE imms == Probes(12)
  <2>1. imms # {}
    BY SomeProbes
  <2>2. {0} # {} /\ Regs # {} /\ Regs # {}
    BY SomeProbes
  <2>3. Operands(r, t) = Drawn(t, {0}, Regs, Regs, imms)
    BY <1>5 DEF Operands
  <2> HIDE DEF imms
  <2> QED BY <2>1, <2>2, <2>3, DrawnSome
<1>6. CASE r.format = "shift"
  <2> DEFINE imms == {r.f7 * 32 + s : s \in Shamts}
  <2>1. imms # {}
    BY SomeProbes
  <2>2. Regs # {} /\ Regs # {} /\ {0} # {}
    BY SomeProbes
  <2>3. Operands(r, t) = Drawn(t, Regs, Regs, {0}, imms)
    BY <1>6 DEF Operands
  <2> HIDE DEF imms
  <2> QED BY <2>1, <2>2, <2>3, DrawnSome
<1>7. CASE r.format = "unary"
  <2> DEFINE imms == {r.f7}
  <2>1. imms # {}
    BY SomeProbes
  <2>2. Regs # {} /\ Regs # {} /\ {0} # {}
    BY SomeProbes
  <2>3. Operands(r, t) = Drawn(t, Regs, Regs, {0}, imms)
    BY <1>7 DEF Operands
  <2> HIDE DEF imms
  <2> QED BY <2>1, <2>2, <2>3, DrawnSome
<1>8. CASE r.format = "R"
  <2> DEFINE imms == {0}
  <2>1. imms # {}
    BY SomeProbes
  <2>2. Regs # {} /\ Regs # {} /\ (IF t = "ZEXT_H" THEN {0} ELSE Regs) # {}
    BY SomeProbes
  <2>3. Operands(r, t) = Drawn(t, Regs, Regs, (IF t = "ZEXT_H" THEN {0} ELSE Regs), imms)
    BY <1>8 DEF Operands
  <2> HIDE DEF imms
  <2> QED BY <2>1, <2>2, <2>3, DrawnSome
<1>9. CASE r.format = "fence"
  <2> DEFINE imms == {p - 2048 * tso : tso \in {0, 1}, p \in UnsignedProbes(8)}
  <2>1. imms # {}
    <3>1. PICK p \in UnsignedProbes(8) : TRUE
      BY SomeProbes
    <3>2. p - 2048 * 0 \in imms
      OBVIOUS
    <3> QED BY <3>2
  <2>2. {0} # {} /\ {0} # {} /\ {0} # {}
    BY SomeProbes
  <2>3. Operands(r, t) = Drawn(t, {0}, {0}, {0}, imms)
    BY <1>9 DEF Operands
  <2> HIDE DEF imms
  <2> QED BY <2>1, <2>2, <2>3, DrawnSome
<1>10. CASE r.format = "fixed"
  <2> DEFINE imms == {r.f7}
  <2>1. imms # {}
    BY SomeProbes
  <2>2. {0} # {} /\ {0} # {} /\ {0} # {}
    BY SomeProbes
  <2>3. Operands(r, t) = Drawn(t, {0}, {0}, {0}, imms)
    BY <1>10 DEF Operands
  <2> HIDE DEF imms
  <2> QED BY <2>1, <2>2, <2>3, DrawnSome
<1>11. CASE r.format = "AMO"
  <2> DEFINE imms == AmoBits
  <2>1. imms # {}
    BY SomeProbes
  <2>2. Regs # {} /\ Regs # {} /\ (IF t = "LR_W" THEN {0} ELSE Regs) # {}
    BY SomeProbes
  <2>3. Operands(r, t) = Drawn(t, Regs, Regs, (IF t = "LR_W" THEN {0} ELSE Regs), imms)
    BY <1>11 DEF Operands
  <2> HIDE DEF imms
  <2> QED BY <2>1, <2>2, <2>3, DrawnSome
<1>12. CASE r.format = "FR"
  <2> DEFINE imms == (IF r.f3 = 8 THEN FpRms ELSE {r.f3})
  <2>1. imms # {}
    BY SomeProbes
  <2>2. Regs # {} /\ Regs # {} /\ Regs # {}
    BY SomeProbes
  <2>3. Operands(r, t) = Drawn(t, Regs, Regs, Regs, imms)
    BY <1>12 DEF Operands
  <2> HIDE DEF imms
  <2> QED BY <2>1, <2>2, <2>3, DrawnSome
<1>13. CASE r.format = "F1"
  <2> DEFINE imms == (IF r.f3 = 8 THEN FpRms ELSE {r.f3})
  <2>1. imms # {}
    BY SomeProbes
  <2>2. Regs # {} /\ Regs # {} /\ {r.rs2} # {}
    BY SomeProbes
  <2>3. Operands(r, t) = Drawn(t, Regs, Regs, {r.rs2}, imms)
    BY <1>13 DEF Operands
  <2> HIDE DEF imms
  <2> QED BY <2>1, <2>2, <2>3, DrawnSome
<1>14. CASE r.format = "R4"
  <2> DEFINE imms == {rs3 * 8 + rm : rs3 \in Regs, rm \in FpRms}
  <2>1. imms # {}
    <3>1. PICK rs3 \in Regs, rm \in FpRms : TRUE
      BY SomeProbes
    <3>2. rs3 * 8 + rm \in imms
      OBVIOUS
    <3> QED BY <3>2
  <2>2. Regs # {} /\ Regs # {} /\ Regs # {}
    BY SomeProbes
  <2>3. Operands(r, t) = Drawn(t, Regs, Regs, Regs, imms)
    BY <1>14 DEF Operands
  <2> HIDE DEF imms
  <2> QED BY <2>1, <2>2, <2>3, DrawnSome
<1> QED BY <1>1, <1>2, <1>3, <1>4, <1>5, <1>6, <1>7, <1>8, <1>9, <1>10, <1>11, <1>12, <1>13, <1>14 DEF RowShape

\* And for every type of the tables.
LEMMA TableDraws ==
  ASSUME NEW g \in TableGens, NEW t \in DOMAIN Table(g)
  PROVE  Operands(Table(g)[t], t) # {}
<1>1. g \in {"I", "M", "A", "F", "Zba", "Zbb", "Zbs", "Zicond"}
  BY DEF TableGens
<1>2. RowShape(Table(g)[t])
  <2>1. CASE g = "I"
    BY <2>1, BaseRows DEF Table
  <2>2. CASE g = "M"
    BY <2>2, MRows DEF Table
  <2>3. CASE g = "A"
    BY <2>3, ARows DEF Table
  <2>4. CASE g = "F"
    BY <2>4, FRows DEF Table
  <2>5. CASE g = "Zba"
    BY <2>5, ZbaRows DEF Table
  <2>6. CASE g = "Zbb"
    BY <2>6, ZbbRows DEF Table
  <2>7. CASE g = "Zbs"
    BY <2>7, ZbsRows DEF Table
  <2>8. CASE g = "Zicond"
    BY <2>8, ZicondRows DEF Table
  <2> QED BY <1>1, <2>1, <2>2, <2>3, <2>4, <2>5, <2>6, <2>7, <2>8
<1> QED BY <1>2, RowDraws

\* And for every compressed instruction and hint.
LEMMA CompressedDraws ==
  /\ \A t \in CTypes : COperands(t) # {}
  /\ \A t \in HintTypes : HintOperands(t) # {}
  /\ \A t \in FcTypes : FcOperands(t) # {}
<1>0. /\ {4 * v : v \in UnsignedProbes(8) \ {0}} # {}
      /\ {4 * v : v \in UnsignedProbes(5)} # {}
      /\ {4 * v : v \in UnsignedProbes(6)} # {}
      /\ {16 * v : v \in Probes(6) \ {0}} # {}
      /\ {4096 * v : v \in Probes(6) \ {0}} # {}
  BY SomeProbes
<1>1. ASSUME NEW t \in CTypes PROVE COperands(t) # {}
  <2>1. CASE t \in {"C_ADDI4SPN", "C_LW", "C_SW", "C_NOP", "C_JAL", "C_LI", "C_ADDI16SP", "C_LUI"}
    BY <1>0, <2>1, SomeProbes, DrawnSome DEF COperands
  <2>2. CASE t \in {"C_J", "C_BEQZ", "C_BNEZ", "C_LWSP", "C_JR", "C_MV", "C_EBREAK", "C_JALR", "C_SWSP"}
    BY <1>0, <2>2, SomeProbes, DrawnSome DEF COperands
  <2>3. CASE t \in {"C_ADDI", "C_SRLI", "C_SRAI", "C_ANDI", "C_SUB", "C_XOR", "C_OR", "C_AND", "C_SLLI", "C_ADD"}
    <3>1. CASE t = "C_ADDI"
      BY <3>1, SomeProbes, SameSome DEF COperands
    <3>2. CASE t \in {"C_SRLI", "C_SRAI"}
      BY <3>2, SomeProbes, SameSome DEF COperands
    <3>3. CASE t = "C_ANDI"
      BY <3>3, SomeProbes, SameSome DEF COperands
    <3>4. CASE t \in {"C_SUB", "C_XOR", "C_OR", "C_AND"}
      BY <3>4, SomeProbes, SameSome DEF COperands
    <3>5. CASE t = "C_SLLI"
      BY <3>5, SomeProbes, SameSome DEF COperands
    <3>6. CASE t = "C_ADD"
      BY <3>6, SomeProbes, SameSome DEF COperands
    <3> QED BY <2>3, <3>1, <3>2, <3>3, <3>4, <3>5, <3>6
  <2> QED BY <2>1, <2>2, <2>3 DEF CTypes
<1>2. ASSUME NEW t \in HintTypes PROVE HintOperands(t) # {}
  <2>1. CASE t \in {"C_ADDI_X0", "C_LI_X0", "C_LUI_X0", "C_MV_X0", "C_ADD_X0", "C_SLLI_X0"}
    BY <1>0, <2>1, SomeProbes, DrawnSome DEF HintOperands
  <2>2. CASE t = "C_SLLI64"
    BY <2>2, SomeProbes, SameSome DEF HintOperands
  <2>3. CASE t \in {"C_SRLI64", "C_SRAI64"}
    BY <2>3, SomeProbes, SameSome DEF HintOperands
  <2> QED BY <2>1, <2>2, <2>3 DEF HintTypes
<1>3. ASSUME NEW t \in FcTypes PROVE FcOperands(t) # {}
  BY <1>0, SomeProbes, DrawnSome DEF FcOperands, FcTypes
<1> QED BY <1>1, <1>2, <1>3

\* And for the CSR instructions and FENCE.I, with any options.
LEMMA OptionDraws ==
  /\ \A t, s, u : CsrOperands(t, s, u) # {}
  /\ \A standardOnly : FenceIOperands(standardOnly) # {}
<1>1. ASSUME NEW t, NEW s, NEW u PROVE CsrOperands(t, s, u) # {}
  <2>1. WritableCsrs(s, u) # {}
    BY DEF WritableCsrs
  <2>2. Drawn(t, Regs, Regs, {0}, WritableCsrs(s, u)) # {}
    BY <2>1, SomeProbes, DrawnSome
  <2> QED BY <2>2 DEF CsrOperands
<1>2. ASSUME NEW standardOnly PROVE FenceIOperands(standardOnly) # {}
  BY SomeProbes, DrawnSome DEF FenceIOperands
<1> QED BY <1>1, <1>2

(***************************************************************************)
(* What a generator returns.                                               *)
(***************************************************************************)
\* Type names of the legal generators are not those of the illegal classes.
LEMMA TypeNames ==
  ASSUME NEW g \in TableGens, NEW t \in DOMAIN Table(g)
  PROVE  t \notin DOMAIN Classes32 \union {"word"} /\ t \notin HintTypes /\ t # Illegal
<1>1. g \in {"I", "M", "A", "F", "Zba", "Zbb", "Zbs", "Zicond"}
  BY DEF TableGens
<1> DEFINE Fits(T) ==
             \A s \in T : s \notin DOMAIN Classes32 \union {"word"} /\ s \notin HintTypes /\ s # Illegal
<1>2. Fits(DOMAIN BaseTable)
  BY DEF BaseTable, Classes32, HintTypes, Illegal
<1>3. Fits(DOMAIN MTable)
  BY DEF MTable, Classes32, HintTypes, Illegal
<1>4. Fits(DOMAIN ATable)
  BY DEF ATable, Classes32, HintTypes, Illegal
<1>5. Fits(DOMAIN FTable)
  BY DEF FTable, Classes32, HintTypes, Illegal
<1>6. Fits(DOMAIN ZbaTable)
  BY DEF ZbaTable, Classes32, HintTypes, Illegal
<1>7. Fits(DOMAIN ZbbTable)
  BY DEF ZbbTable, Classes32, HintTypes, Illegal
<1>8. Fits(DOMAIN ZbsTable)
  BY DEF ZbsTable, Classes32, HintTypes, Illegal
<1>9. Fits(DOMAIN ZicondTable)
  BY DEF ZicondTable, Classes32, HintTypes, Illegal
<1> QED BY <1>1, <1>2, <1>3, <1>4, <1>5, <1>6, <1>7, <1>8, <1>9 DEF Table

\* What each generator draws and makes of it.
LEMMA TableTypes ==
  ASSUME NEW g \in TableGens
  PROVE  Types(g) = DOMAIN Table(g) /\ Hints(g) = {}
BY DEF Types, Hints, TableGens

\* What a generator with a table draws and makes of it.
LEMMA TableMade ==
  ASSUME NEW g \in TableGens, NEW t \in DOMAIN Table(g), NEW d
  PROVE  /\ Draws(g, t) = Operands(Table(g)[t], t)
         /\ Made(g, t, d) = Out32(t, Encode32(Table(g)[t], d), d)
<1>1. t \notin DOMAIN Classes32 \union {"word"}
  BY TypeNames
<1> HIDE DEF Classes32, Classes16
<1>3. Draws(g, t) = Operands(Table(g)[t], t)
  BY DEF Draws, TableGens
<1>4. Made(g, t, d) = Out32(t, Encode32(Table(g)[t], d), d)
  BY <1>1 DEF Made, TableGens
<1> QED BY <1>3, <1>4

\* The types of the compressed generators, and what they draw and make of it.
LEMMA ParcelMade ==
  /\ Types("C") = CTypes /\ Hints("C") = HintTypes /\ Types("FC") = FcTypes /\ Hints("FC") = {}
  /\ \A t : Draws("C", t) = IF t \in HintTypes THEN HintOperands(t) ELSE COperands(t)
  /\ \A t : Draws("FC", t) = FcOperands(t)
  /\ \A t, d : t \in CTypes \union HintTypes => Made("C", t, d) = Out16(t, Encode16(d), d)
  /\ \A t, d : t \in FcTypes => Made("FC", t, d) = Out16(t, Encode16(d), d)
<1>1. "C" \notin TableGens /\ "FC" \notin TableGens
  BY DEF TableGens
<1>2. \A t \in CTypes \union HintTypes \union FcTypes : t \notin DOMAIN Classes32 \union {"word"}
  BY DEF CTypes, HintTypes, FcTypes, Classes32
<1>3. /\ Types("C") = CTypes /\ Hints("C") = HintTypes
      /\ Types("FC") = FcTypes /\ Hints("FC") = {}
  BY <1>1 DEF Types, Hints
<1>4. \A t : Draws("C", t) = IF t \in HintTypes THEN HintOperands(t) ELSE COperands(t)
  BY <1>1, Zenon DEF Draws
<1>5. \A t : Draws("FC", t) = FcOperands(t)
  BY <1>1 DEF Draws
<1>6. \A t, d : t \in CTypes \union HintTypes => Made("C", t, d) = Out16(t, Encode16(d), d)
  BY <1>1, <1>2 DEF Made
<1>7. \A t, d : t \in FcTypes => Made("FC", t, d) = Out16(t, Encode16(d), d)
  BY <1>1, <1>2 DEF Made
<1> QED BY <1>3, <1>4, <1>5, <1>6, <1>7

\* The same of the generators of CSR instructions and of FENCE.I.
LEMMA SystemMade ==
  /\ Types("Zicsr") = CsrTypes /\ Hints("Zicsr") = {}
  /\ Types("Zifencei") = {"FENCE_I"} /\ Hints("Zifencei") = {}
  /\ \A t : Draws("Zicsr", t) = CsrOperands(t, "s" \in options, "u" \in options)
  /\ \A t : Draws("Zifencei", t) = FenceIOperands("ignored" \notin options)
  /\ \A t, d : t \in CsrTypes => Made("Zicsr", t, d) = Out32(t, EncodeCsr(d), d)
  /\ \A d : Made("Zifencei", "FENCE_I", d) = Out32("FENCE_I", EncodeFenceI(d), d)
<1>1. "Zicsr" \notin TableGens /\ "Zifencei" \notin TableGens
  BY DEF TableGens
<1>2. \A t \in CsrTypes \union {"FENCE_I"} : t \notin DOMAIN Classes32 \union {"word"}
  BY DEF CsrTypes, Classes32
<1>3. /\ Types("Zicsr") = CsrTypes /\ Hints("Zicsr") = {}
      /\ Types("Zifencei") = {"FENCE_I"} /\ Hints("Zifencei") = {}
  BY <1>1 DEF Types, Hints
<1>4. \A t : Draws("Zicsr", t) = CsrOperands(t, "s" \in options, "u" \in options)
  BY <1>1, Zenon DEF Draws
<1>5. \A t : Draws("Zifencei", t) = FenceIOperands("ignored" \notin options)
  BY <1>1, Zenon DEF Draws
<1>6. \A t, d : t \in CsrTypes => Made("Zicsr", t, d) = Out32(t, EncodeCsr(d), d)
  BY <1>1, <1>2 DEF Made
<1>7. \A d : Made("Zifencei", "FENCE_I", d) = Out32("FENCE_I", EncodeFenceI(d), d)
  BY <1>1, <1>2 DEF Made
<1> QED BY <1>3, <1>4, <1>5, <1>6, <1>7

\* The same of the generator of illegal words, and of any words.
LEMMA WordMade ==
  /\ Types("Illegal") = DOMAIN Classes32 \union DOMAIN Classes16 /\ Hints("Illegal") = {}
  /\ Types("Any") = {"parcel", "word"} /\ Hints("Any") = {}
  /\ DOMAIN Classes32 \intersect (DOMAIN Classes16 \union {"parcel"}) = {}
  /\ \A t \in DOMAIN Classes32 :
       Draws("Illegal", t) = Classes32[t] /\ \A w : Made("Illegal", t, w) = Out32(t, w, NoOperands)
  /\ \A t \in DOMAIN Classes16 :
       Draws("Illegal", t) = Classes16[t] /\ \A w : Made("Illegal", t, w) = Out16(t, w, NoOperands)
  /\ Draws("Any", "word") = AnyWords /\ \A w : Made("Any", "word", w) = Out32("word", w, NoOperands)
  /\ Draws("Any", "parcel") = AnyParcels
  /\ \A w : Made("Any", "parcel", w) = Out16("parcel", w, NoOperands)
<1>1. "Illegal" \notin TableGens /\ "Any" \notin TableGens
  BY DEF TableGens
<1>2. /\ \A t \in DOMAIN Classes16 \union {"parcel"} : t \notin DOMAIN Classes32 \union {"word"}
      /\ "word" \in DOMAIN Classes32 \union {"word"}
  BY DEF Classes16, Classes32
<1> DEFINE D32 == DOMAIN Classes32
           D16 == DOMAIN Classes16
<1>3. /\ Types("Illegal") = D32 \union D16 /\ Hints("Illegal") = {}
      /\ Types("Any") = {"parcel", "word"} /\ Hints("Any") = {}
  BY <1>1, Zenon DEF Types, Hints
<1>4. \A t : Draws("Illegal", t) = IF t \in D32 THEN Classes32[t] ELSE Classes16[t]
  BY <1>1 DEF Draws
<1>5. \A t : Draws("Any", t) = IF t = "word" THEN AnyWords ELSE AnyParcels
  BY <1>1 DEF Draws
<1>6. \A g \in {"Illegal", "Any"} : \A t, w :
        Made(g, t, w) = IF t \in D32 \union {"word"} THEN Out32(t, w, NoOperands)
                        ELSE Out16(t, w, NoOperands)
  BY <1>1 DEF Made
<1> QED BY <1>2, <1>3, <1>4, <1>5, <1>6

\* The same round trip for an atomic whose bits aq and rl are overwritten.
LEMMA OrderedRoundTrip ==
  ASSUME NEW t \in DOMAIN ATable, NEW d \in Operands(ATable[t], t), NEW b \in 0 .. 3
  PROVE  LET e == [d EXCEPT !.imm = b] IN RoundTrip("A", t, Encode32(ATable[t], e), e)
<1> DEFINE r == ATable[t]
           e == [d EXCEPT !.imm = b]
           w == Encode32(r, e)
<1>1. /\ RowShape(r) /\ r.format = "AMO" /\ t # "ZEXT_H"
      /\ \A v \in Word32 : OfRow(v, r, t) => AType(v) = t
  BY ARows
<1>2. r.op = "AMO" /\ r.f7 \in 0 .. 31
  BY <1>1 DEF RowShape
<1> HIDE DEF r
<1>3. /\ d.rd \in 0 .. 31 /\ d.rs1 \in 0 .. 31 /\ d.rs2 \in 0 .. 31
      /\ t = "LR_W" => d.rs2 = 0
  BY <1>1, AmoDrawn DEF r
<1>4. d = [type |-> d.type, rd |-> d.rd, rs1 |-> d.rs1, rs2 |-> d.rs2, imm |-> d.imm]
  BY <1>1 DEF r, Operands, Drawn
<1>5. e.rd = d.rd /\ e.rs1 = d.rs1 /\ e.rs2 = d.rs2 /\ e.imm = b
  BY <1>4
<1> HIDE DEF e
<1>6. /\ w \in Word32 /\ w.op = r.op /\ w.f3 = 2 /\ Funct5(w) = r.f7 /\ w.rs2 = e.rs2
      /\ Read(w) = Meant(e)
  BY <1>1, <1>2, <1>3, <1>5, AmoFields
<1>7. OfRow(w, r, t)
  BY <1>1, <1>3, <1>5, <1>6 DEF OfRow
<1>8. TypeBy("A", w, TRUE) = t
  BY <1>1, <1>6, <1>7 DEF TypeBy
<1> QED BY <1>6, <1>8 DEF RoundTrip, e, r

\* What may be encoded for a type: what is drawn, or, of an atomic, that with
\* its bits aq and rl overwritten.
Given(g, t, d) ==
  \/ d \in Draws(g, t)
  \/ g = "A" /\ \E e \in Draws(g, t), b \in 0 .. 3 : d = [e EXCEPT !.imm = b]

\* What holds of a word that generator g returns under the options os: it is
\* read back as it was drawn, or refused if it is to be refused.
Sound(g, os, o) ==
  /\ o.type \in Types(g) \union Hints(g)
  /\ o.type # Illegal
  /\ o.parcel \in Parcel /\ o.word \in Word32
  /\ o.type \in HintTypes => o.bits = 16 /\ \E d \in HintOperands(o.type) : o.parcel = Encode16(d)
  /\ \/ /\ g \in Decoders /\ o.bits = 32
        /\ RoundTrip(g, o.type, o.word, o.drawn)
        /\ g = "Zicsr" => o.drawn \in CsrOperands(o.type, "s" \in os, "u" \in os)
     \/ g \in {"C", "FC"} /\ o.bits = 16 /\ ParcelTrip(o.type, o.drawn, o.parcel)
     \/ g = "Illegal" /\ o.bits = 32 /\ Refused(o.type, o.word)
     \/ g = "Illegal" /\ o.bits = 16 /\ Unreadable(o.parcel)
     \/ g = "Any" /\ o.bits \in {16, 32}

\* The parts of a record Out32 or Out16.
LEMMA OutParts ==
  ASSUME NEW t, NEW w, NEW d
  PROVE  /\ Out32(t, w, d).type = t /\ Out32(t, w, d).bits = 32 /\ Out32(t, w, d).parcel \in Parcel
         /\ Out32(t, w, d).word = w /\ Out32(t, w, d).drawn = d
         /\ Out16(t, w, d).type = t /\ Out16(t, w, d).bits = 16 /\ Out16(t, w, d).parcel = w
         /\ Out16(t, w, d).word \in Word32 /\ Out16(t, w, d).drawn = d
<1>1. 0 \in Parcel
  BY DEF Parcel
<1>2. NoWord \in Word32
  BY DEF NoWord, EncodeR, Word32, MajorOps
<1> QED BY <1>1, <1>2 DEF Out32, Out16

\* The generators with a table.
LEMMA TableSound ==
  ASSUME NEW g \in TableGens, NEW t \in Types(g) \union Hints(g), NEW d, Given(g, t, d)
  PROVE  Sound(g, options, Made(g, t, d))
<1>1. /\ t \in DOMAIN Table(g) /\ Draws(g, t) = Operands(Table(g)[t], t)
      /\ Made(g, t, d) = Out32(t, Encode32(Table(g)[t], d), d)
  BY TableTypes, TableMade
<1> DEFINE w == Encode32(Table(g)[t], d)
<1>2. RoundTrip(g, t, w, d)
  <2>1. CASE d \in Draws(g, t)
    BY <1>1, <2>1, TableRoundTrip
  <2>2. CASE d \notin Draws(g, t)
    <3>1. g = "A" /\ \E e \in Draws(g, t), b \in 0 .. 3 : d = [e EXCEPT !.imm = b]
      BY <2>2 DEF Given
    <3>2. PICK e \in Draws(g, t), b \in 0 .. 3 : d = [e EXCEPT !.imm = b]
      BY <3>1
    <3>3. Table(g) = ATable
      BY <3>1 DEF Table
    <3>4. t \in DOMAIN ATable /\ e \in Operands(ATable[t], t)
      BY <1>1, <3>3
    <3>5. RoundTrip("A", t, Encode32(ATable[t], d), d)
      BY <3>2, <3>4, OrderedRoundTrip
    <3> QED BY <3>1, <3>3, <3>5
  <2> QED BY <2>1, <2>2
<1>3. t \notin HintTypes /\ t # Illegal
  BY <1>1, TypeNames
<1>4. g \in Decoders /\ g # "Zicsr"
  BY Names DEF TableGens
<1> HIDE DEF w
<1>5. w \in Word32
  BY <1>2 DEF RoundTrip
<1>6. Made(g, t, d) = Out32(t, w, d)
  BY <1>1 DEF w
<1> QED BY <1>2, <1>3, <1>4, <1>5, <1>6, OutParts DEF Sound

\* The compressed generators.
LEMMA ParcelSound ==
  ASSUME NEW g \in {"C", "FC"}, NEW t \in Types(g) \union Hints(g), NEW d, Given(g, t, d)
  PROVE  Sound(g, options, Made(g, t, d))
<1>1. d \in Draws(g, t)
  BY DEF Given
<1>2. /\ \A s \in CTypes \union FcTypes : s \notin HintTypes
      /\ \A s \in CTypes \union FcTypes \union HintTypes : s # Illegal
  BY DEF CTypes, FcTypes, HintTypes, Illegal
<1> DEFINE w == Encode16(d)
<1>3. Made(g, t, d) = Out16(t, w, d)
  BY ParcelMade
<1>4. ParcelTrip(t, d, w)
  <2>1. CASE g = "C" /\ t \in CTypes
    <3>1. d \in COperands(t)
      BY <1>1, <1>2, <2>1, ParcelMade
    <3> QED BY <2>1, <3>1, CTrips
  <2>2. CASE g = "C" /\ t \in HintTypes
    <3>1. d \in HintOperands(t)
      BY <1>1, <2>2, ParcelMade
    <3> QED BY <2>2, <3>1, HintTrips
  <2>3. CASE g = "FC"
    <3>1. t \in FcTypes /\ d \in FcOperands(t)
      BY <1>1, <2>3, ParcelMade
    <3> QED BY <3>1, FcTrips
  <2> QED BY <2>1, <2>2, <2>3, ParcelMade
<1>5. t \in HintTypes => d \in HintOperands(t)
  BY <1>1, <1>2, ParcelMade
<1>6. w = Encode16(d)
  OBVIOUS
<1>8. t # Illegal
  BY <1>2, ParcelMade
<1> HIDE DEF w
<1>7. w \in Parcel
  BY <1>4 DEF ParcelTrip
<1> QED BY <1>3, <1>4, <1>5, <1>6, <1>7, <1>8, OutParts DEF Sound

\* The generators of CSR instructions and of FENCE.I.
LEMMA SystemSound ==
  ASSUME NEW g \in {"Zicsr", "Zifencei"}, NEW t \in Types(g) \union Hints(g), NEW d, Given(g, t, d)
  PROVE  Sound(g, options, Made(g, t, d))
<1>1. d \in Draws(g, t)
  BY DEF Given
<1>2. \A s \in CsrTypes \union {"FENCE_I"} : s \notin HintTypes /\ s # Illegal
  BY DEF CsrTypes, HintTypes, Illegal
<1>3. g \in Decoders
  BY Names
<1>4. CASE g = "Zicsr"
  <2>1. /\ t \in CsrTypes /\ d \in CsrOperands(t, "s" \in options, "u" \in options)
        /\ Made(g, t, d) = Out32(t, EncodeCsr(d), d)
    BY <1>1, <1>4, SystemMade
  <2>2. RoundTrip(g, t, EncodeCsr(d), d)
    BY <1>4, <2>1, CsrRoundTrip
  <2>3. EncodeCsr(d) \in Word32
    BY <2>2 DEF RoundTrip
  <2> DEFINE w == EncodeCsr(d)
             S(x) == x \in CsrOperands(t, "s" \in options, "u" \in options)
  <2>4. S(d)
    BY <2>1
  <2>5. /\ Made(g, t, d).drawn = d /\ Made(g, t, d).type = t /\ Made(g, t, d).bits = 32
        /\ Made(g, t, d).word = w /\ Made(g, t, d).parcel \in Parcel
    BY <2>1, OutParts
  <2> HIDE DEF w
  <2>6. RoundTrip(g, t, w, d) /\ w \in Word32
    BY <2>2, <2>3 DEF w
  <2>7. t \in Types(g) \union Hints(g) /\ t \notin HintTypes /\ t # Illegal
    BY <1>2, <2>1
  <2> QED BY <1>3, <2>4, <2>5, <2>6, <2>7, Zenon DEF Sound
<1>5. CASE g = "Zifencei"
  <2>1. /\ t = "FENCE_I" /\ d \in FenceIOperands("ignored" \notin options)
        /\ Made(g, t, d) = Out32(t, EncodeFenceI(d), d)
    BY <1>1, <1>5, SystemMade
  <2>2. RoundTrip(g, t, EncodeFenceI(d), d)
    BY <1>5, <2>1, FenceIRoundTrip
  <2>3. EncodeFenceI(d) \in Word32
    BY <2>2 DEF RoundTrip
  <2> QED BY <1>2, <1>3, <1>5, <2>1, <2>2, <2>3, OutParts DEF Sound
<1> QED BY <1>4, <1>5

\* The generator of illegal words, and any words.
LEMMA WordSound ==
  ASSUME NEW g \in {"Illegal", "Any"}, NEW t \in Types(g) \union Hints(g), NEW d, Given(g, t, d)
  PROVE  Sound(g, options, Made(g, t, d))
<1>1. d \in Draws(g, t)
  BY DEF Given
<1>2. \A s \in DOMAIN Classes32 \union DOMAIN Classes16 \union {"word", "parcel"} :
        s \notin HintTypes /\ s # Illegal
  BY DEF Classes32, Classes16, HintTypes, Illegal
<1> DEFINE D32 == DOMAIN Classes32
           D16 == DOMAIN Classes16
<1>3. CASE g = "Illegal" /\ t \in D32
  <2>1. d \in Classes32[t] /\ Made(g, t, d) = Out32(t, d, NoOperands)
    BY <1>1, <1>3, WordMade
  <2>2. Refused(t, d)
    BY <1>3, <2>1, WordClasses
  <2>3. d \in Word32
    BY <2>2 DEF Refused, Unread
  <2>4. t \notin HintTypes /\ t # Illegal
    BY <1>2, <1>3
  <2> HIDE DEF D32, D16
  <2> QED BY <1>3, <2>1, <2>2, <2>3, <2>4, OutParts DEF Sound
<1>4. CASE g = "Illegal" /\ t \notin D32
  <2>1. t \in D16
    BY <1>4, WordMade
  <2>2. d \in Classes16[t] /\ Made(g, t, d) = Out16(t, d, NoOperands)
    BY <1>1, <1>4, <2>1, WordMade
  <2>3. Unreadable(d)
    BY <2>1, <2>2, ParcelClasses
  <2>4. d \in Parcel
    BY <2>3 DEF Unreadable
  <2>5. t \notin HintTypes /\ t # Illegal
    BY <1>2, <2>1
  <2> HIDE DEF D32, D16
  <2> QED BY <1>4, <2>2, <2>3, <2>4, <2>5, OutParts DEF Sound
<1>5. CASE g = "Any" /\ t = "word"
  <2>1. d \in AnyWords /\ Made(g, t, d) = Out32(t, d, NoOperands)
    BY <1>1, <1>5, WordMade
  <2>2. d \in Word32 /\ t \notin HintTypes /\ t # Illegal
    BY <1>2, <1>5, <2>1, GeneratorAssumption
  <2> QED BY <1>5, <2>1, <2>2, OutParts DEF Sound
<1>6. CASE g = "Any" /\ t = "parcel"
  <2>1. d \in AnyParcels /\ Made(g, t, d) = Out16(t, d, NoOperands)
    BY <1>1, <1>6, WordMade
  <2>2. d \in Parcel /\ t \notin HintTypes /\ t # Illegal
    BY <1>2, <1>6, <2>1, GeneratorAssumption
  <2> QED BY <1>6, <2>1, <2>2, OutParts DEF Sound
<1> QED BY <1>3, <1>4, <1>5, <1>6, WordMade

\* The generators, by kind.
LEMMA Kinds ==
  ASSUME NEW g \in Gens
  PROVE  g \in TableGens \/ g \in {"C", "FC"} \/ g \in {"Zicsr", "Zifencei"} \/ g \in {"Illegal", "Any"}
BY GeneratorAssumption DEF TableGens

\* What any generator makes of what it may encode is sound.
LEMMA MadeSound ==
  ASSUME NEW g \in Gens, NEW t \in Types(g) \union Hints(g), NEW d, Given(g, t, d)
  PROVE  Sound(g, options, Made(g, t, d)) /\ Made(g, t, d).type = t
<1>1. Made(g, t, d).type = t
  <2>1. Made(g, t, d) \in {Out32(t, Encode32(Table(g)[t], d), d), Out16(t, Encode16(d), d),
                           Out32(t, EncodeCsr(d), d), Out32(t, EncodeFenceI(d), d),
                           Out32(t, d, NoOperands), Out16(t, d, NoOperands)}
    BY Kinds DEF Made
  <2> QED BY <2>1, OutParts
<1>2. Sound(g, options, Made(g, t, d))
  BY Kinds, TableSound, ParcelSound, SystemSound, WordSound
<1> QED BY <1>1, <1>2

\* A sound word of a generator is read by its decoder alone, as it was drawn.
LEMMA SoundDecodes ==
  ASSUME gen \in Gens, Sound(gen, options, out)
  PROVE  GeneratedDecodes
<1> SUFFICES ASSUME gen \notin {"Illegal", "Any"} PROVE GeneratedDecodes
  BY DEF GeneratedDecodes, Generated
<1>1. CASE gen \in Decoders
  <2>1. out.bits = 32 /\ out.word \in Word32 /\ out.type # Illegal
    BY <1>1, Names DEF Sound
  <2>2. TypeBy(gen, out.word, TRUE) = out.type /\ Read(out.word) = Meant(out.drawn)
    BY <1>1, Names DEF Sound, RoundTrip
  <2>3. Classes(out.word, TRUE) = {gen}
    BY <1>1, <2>1, <2>2, ReadAlone
  <2> QED BY <2>1, <2>2, <2>3 DEF GeneratedDecodes, Meant
<1>2. CASE gen \notin Decoders
  <2>1. out.bits = 16 /\ ParcelTrip(out.type, out.drawn, out.parcel)
    BY <1>2 DEF Sound
  <2> DEFINE d == out.drawn
             p == Decoded(out.parcel)
  <2>2. p = Instr(Canonical(out.type), d.rd, d.rs1, d.rs2, d.imm, out.parcel)
    BY <2>1 DEF ParcelTrip
  <2>3. /\ p.type = Canonical(out.type) /\ p.rd = d.rd /\ p.rs1 = d.rs1 /\ p.rs2 = d.rs2
        /\ p.imm = d.imm
    BY <2>2 DEF Instr
  <2>4. /\ p.type = Canonical(out.type)
        /\ [rd |-> p.rd, rs1 |-> p.rs1, rs2 |-> p.rs2, imm |-> p.imm]
             = [rd |-> d.rd, rs1 |-> d.rs1, rs2 |-> d.rs2, imm |-> d.imm]
    BY <2>3
  <2> HIDE DEF d
  <2>5. 16 # 32
    OBVIOUS
  <2> QED BY <2>1, <2>4, <2>5, Zenon DEF GeneratedDecodes, Decoded, d
<1> QED BY <1>1, <1>2

\* A sound illegal word traps.
LEMMA SoundRejected ==
  ASSUME Sound(gen, options, out)
  PROVE  IllegalRejected
<1> SUFFICES ASSUME gen = "Illegal" PROVE IllegalRejected
  BY DEF IllegalRejected
<1>0. gen \notin Decoders /\ gen \notin {"C", "FC", "Any"}
  BY Names
<1>1. CASE out.bits = 32
  <2>1. Refused(out.type, out.word)
    BY <1>0, <1>1 DEF Sound
  <2>2. \A e \in Harts : e \in SUBSET Extensions
    BY DEF Harts
  <2>3. CASE Unread(out.word)
    <3>1. \A e \in Harts, s \in BOOLEAN : Dispatch(out.word, e, s) = Illegal
      BY <2>2, <2>3, UnreadTraps
    <3> QED BY <1>1, <3>1 DEF IllegalRejected
  <2>4. CASE /\ out.type = "csr_addr"
             /\ \A hasF, s, u \in BOOLEAN : ~CsrExists(Csr(out.word), hasF, s, u)
    BY <1>1, <2>4 DEF IllegalRejected
  <2> QED BY <2>1, <2>3, <2>4 DEF Refused
<1>2. CASE out.bits = 16
  <2>1. Unreadable(out.parcel)
    BY <1>0, <1>2 DEF Sound
  <2>2. \A hasF \in BOOLEAN : Decode16(out.parcel, TRUE, hasF).type = Illegal
    BY <2>1, UnreadableTraps
  <2> QED BY <1>2, <2>2, Zenon DEF IllegalRejected
<1>3. out.bits \in {16, 32}
  BY <1>0 DEF Sound
<1> QED BY <1>1, <1>2, <1>3

\* Every word of thirty-two bits has one decoder.
LEMMA SoundDispatch ==
  ASSUME Sound(gen, options, out)
  PROVE  DispatchExact
<1>1. out.word \in Word32
  BY DEF Sound
<1>2. \A e \in Harts : e \in SUBSET Extensions
  BY DEF Harts
<1> QED BY <1>1, <1>2, DecodersAreExact, DispatchIsExact DEF DispatchExact

\* A compressed word means its expansion, and a hint nothing.
LEMMA SoundCompressed ==
  ASSUME Sound(gen, options, out)
  PROVE  CompressedExact
<1>1. out.parcel \in Parcel
  BY DEF Sound
<1>2. \A x \in RegisterFiles : x \in [0 .. 31 -> Word] /\ x[0] = 0
  BY GeneratorAssumption
<1>3. CompressedAsExpansion
  BY <1>1, <1>2, ExpansionExact DEF CompressedAsExpansion
<1>4. HintsExecuteAsNops
  <2> SUFFICES ASSUME out.type \in HintTypes PROVE HintsExecuteAsNops
    BY DEF HintsExecuteAsNops
  <2>1. PICK o \in HintOperands(out.type) : out.parcel = Encode16(o)
    BY DEF Sound
  <2>2. \A x \in RegisterFiles, pc \in Pcs :
          Unchanged(CompressedEffect(Decoded(out.parcel), x, x, pc), x) = Nothing(Trunc(pc + 2))
    BY <1>2, <2>1, HintEffects
  <2> QED BY <2>2, Zenon DEF HintsExecuteAsNops, Unchanged, Decoded
<1> QED BY <1>3, <1>4 DEF CompressedExact

\* The addresses the CSR generator may write, and those it may only read.
LEMMA WritableExist ==
  ASSUME NEW s \in BOOLEAN, NEW u \in BOOLEAN
  PROVE  /\ \A a \in WritableCsrs(s, u) : CsrExists(a, TRUE, s, u) /\ ~ReadOnlyAddress(a)
         /\ \A a \in ReadOnlyCsrs : CsrExists(a, TRUE, s, u)
<1>1. ASSUME NEW a \in WritableCsrs(s, u) PROVE CsrExists(a, TRUE, s, u) /\ ~ReadOnlyAddress(a)
  BY DEF WritableCsrs, CsrExists, SupervisorAddresses, ReadOnlyAddress
<1>2. ASSUME NEW a \in ReadOnlyCsrs PROVE CsrExists(a, TRUE, s, u)
  BY DEF ReadOnlyCsrs, CsrExists, SupervisorAddresses
<1> QED BY <1>1, <1>2

\* A generated CSR instruction names a CSR that exists and may be accessed so.
LEMMA SoundCsr ==
  ASSUME Sound(gen, options, out)
  PROVE  CsrStimulusTrapFree
<1> SUFFICES ASSUME gen = "Zicsr" PROVE CsrStimulusTrapFree
  BY DEF CsrStimulusTrapFree
<1> DEFINE s == "s" \in options
           u == "u" \in options
<1>1. out.drawn \in CsrOperands(out.type, s, u)
  BY DEF Sound
<1>2. s \in BOOLEAN /\ u \in BOOLEAN
  OBVIOUS
<1> HIDE DEF s, u
<1>3. /\ out.drawn.imm \in WritableCsrs(s, u) \union ReadOnlyCsrs
      /\ \/ out.drawn.imm \in WritableCsrs(s, u)
         \/ out.type \notin {"CSRRW", "CSRRWI"} /\ out.drawn.rs1 = 0
  BY <1>1 DEF CsrOperands, Drawn
<1>4. /\ CsrExists(out.drawn.imm, TRUE, s, u)
      /\ out.drawn.imm \in WritableCsrs(s, u) => ~ReadOnlyAddress(out.drawn.imm)
  BY <1>2, <1>3, WritableExist
<1> QED BY <1>3, <1>4, Zenon DEF CsrStimulusTrapFree, s, u

(***************************************************************************)
(* The requests.                                                           *)
(***************************************************************************)
\* A list of types of T.
Lists(s, T) == DOMAIN s \subseteq Nat /\ Range(s) \subseteq T

\* The lists a host asks from are lists of types of the generator.
LEMMA BaseAsks == \A l \in BaseLists \union {<<"JAL", "JALR">>} : Lists(l, DOMAIN BaseTable)
BY DEF BaseLists, Lists, Range, BaseTable

\* The lists of the extensions.
LEMMA OtherAsks ==
  /\ \A l \in MLists : Lists(l, DOMAIN MTable)
  /\ \A l \in ALists : Lists(l, DOMAIN ATable)
  /\ \A l \in FLists \union {<<"FLW", "FSW">>} : Lists(l, DOMAIN FTable)
  /\ \A l \in ZbbCategories : Lists(l, DOMAIN ZbbTable)
  /\ \A l \in ZbsCategories : Lists(l, DOMAIN ZbsTable)
<1>1. \A l \in MLists : Lists(l, DOMAIN MTable)
  BY DEF MLists, Lists, Range, MTable
<1>2. \A l \in ALists : Lists(l, DOMAIN ATable)
  BY DEF ALists, Lists, Range, ATable
<1>3. \A l \in FLists \union {<<"FLW", "FSW">>} : Lists(l, DOMAIN FTable)
  BY DEF FLists, Lists, Range, FTable
<1>4. \A l \in ZbbCategories : Lists(l, DOMAIN ZbbTable)
  BY DEF ZbbCategories, Lists, Range, ZbbTable
<1>5. \A l \in ZbsCategories : Lists(l, DOMAIN ZbsTable)
  BY DEF ZbsCategories, Lists, Range, ZbsTable
<1> QED BY <1>1, <1>2, <1>3, <1>4, <1>5

\* The lists of the compressed generators.
LEMMA CompressedAsks ==
  /\ \A l \in CLists : Lists(l, CTypes)
  /\ \A l \in FcPairs : Lists(l, FcTypes)
<1>1. \A l \in CLists : Lists(l, CTypes)
  BY DEF CLists, Lists, Range, CTypes
<1>2. \A l \in FcPairs : Lists(l, FcTypes)
  BY DEF FcPairs, Lists, Range, FcTypes
<1> QED BY <1>1, <1>2

\* What a request asks of a generator.
Proper(r, g) ==
  /\ r.kind \in {"random", "list", "pair", "category", "ordered", "hint", "mixed"}
  /\ r.kind \in {"list", "pair", "category"} => Lists(r.from, Types(g))
  /\ r.kind = "ordered" => g = "A" /\ r.from[1] \in 0 .. 3
  /\ r.kind \in {"hint", "mixed"} => g = "C"

\* A request from a list of types is proper.
LEMMA EachProper ==
  ASSUME NEW kind \in {"list", "pair", "category"}, NEW ls, NEW g,
         \A l \in ls : Lists(l, Types(g)), NEW r \in Each(kind, ls)
  PROVE  Proper(r, g)
<1>1. PICK l \in ls : r = [kind |-> kind, from |-> l]
  BY DEF Each, Request
<1>2. r.kind = kind /\ r.from = l
  BY <1>1
<1> QED BY <1>2 DEF Proper

\* Every request a host makes of a generator is proper.
LEMMA AsksProper ==
  ASSUME NEW g \in Gens, NEW r \in Asks(g)
  PROVE  Proper(r, g)
<1>1. CASE r = Request("random", <<>>)
  BY <1>1 DEF Request, Proper
<1>2. CASE g = "I" /\ r # Request("random", <<>>)
  <2>1. Types(g) = DOMAIN BaseTable
    BY <1>2, TableTypes DEF TableGens, Table
  <2>2. r \in Each("list", BaseLists) \/ r = Request("pair", <<"JAL", "JALR">>)
    BY <1>2 DEF Asks
  <2>3. r = Request("pair", <<"JAL", "JALR">>) => r \in Each("pair", {<<"JAL", "JALR">>})
    BY DEF Each
  <2> QED BY <2>1, <2>2, <2>3, BaseAsks, EachProper
<1>3. CASE g = "M" /\ r # Request("random", <<>>)
  <2>1. Types(g) = DOMAIN MTable
    BY <1>3, TableTypes DEF TableGens, Table
  <2> QED BY <1>3, <2>1, OtherAsks, EachProper DEF Asks
<1>4. CASE g = "A" /\ r # Request("random", <<>>)
  <2>1. Types(g) = DOMAIN ATable
    BY <1>4, TableTypes DEF TableGens, Table
  <2>2. r \in Each("list", ALists) \/ \E b \in {1, 2, 3} : r = Request("ordered", <<b>>)
    BY <1>4 DEF Asks
  <2>3. ASSUME NEW b \in {1, 2, 3}, r = Request("ordered", <<b>>) PROVE Proper(r, g)
    BY <1>4, <2>3 DEF Request, Proper
  <2> QED BY <2>1, <2>2, <2>3, OtherAsks, EachProper
<1>5. CASE g = "F" /\ r # Request("random", <<>>)
  <2>1. Types(g) = DOMAIN FTable
    BY <1>5, TableTypes DEF TableGens, Table
  <2>2. r \in Each("list", FLists) \/ r = Request("pair", <<"FLW", "FSW">>)
    BY <1>5 DEF Asks
  <2>3. r = Request("pair", <<"FLW", "FSW">>) => r \in Each("pair", {<<"FLW", "FSW">>})
    BY DEF Each
  <2> QED BY <2>1, <2>2, <2>3, OtherAsks, EachProper
<1>6. CASE g = "C" /\ r # Request("random", <<>>)
  <2>1. Types(g) = CTypes
    BY <1>6, ParcelMade
  <2>2. r \in Each("list", CLists) \/ r \in {Request("hint", <<>>), Request("mixed", <<>>)}
    BY <1>6 DEF Asks
  <2>3. CASE r \in {Request("hint", <<>>), Request("mixed", <<>>)}
    BY <1>6, <2>3 DEF Request, Proper
  <2> QED BY <2>1, <2>2, <2>3, CompressedAsks, EachProper
<1>7. CASE g = "FC" /\ r # Request("random", <<>>)
  <2>1. Types(g) = FcTypes
    BY <1>7, ParcelMade
  <2> QED BY <1>7, <2>1, CompressedAsks, EachProper DEF Asks
<1>8. CASE g = "Zbb" /\ r # Request("random", <<>>)
  <2>1. Types(g) = DOMAIN ZbbTable
    BY <1>8, TableTypes DEF TableGens, Table
  <2> QED BY <1>8, <2>1, OtherAsks, EachProper DEF Asks
<1>9. CASE g = "Zbs" /\ r # Request("random", <<>>)
  <2>1. Types(g) = DOMAIN ZbsTable
    BY <1>9, TableTypes DEF TableGens, Table
  <2> QED BY <1>9, <2>1, OtherAsks, EachProper DEF Asks
<1>10. g \notin {"I", "M", "A", "F", "C", "FC", "Zbb", "Zbs"} => r = Request("random", <<>>)
  BY DEF Asks
<1> QED BY <1>1, <1>2, <1>3, <1>4, <1>5, <1>6, <1>7, <1>8, <1>9, <1>10

(***************************************************************************)
(* The inductive invariant: a word that is returned is sound, and a call   *)
(* that still draws wanted nothing that is enabled.                        *)
(***************************************************************************)
\* Every type has something to draw.
LEMMA DrawsSome ==
  ASSUME NEW g \in Gens, NEW t \in Types(g) \union Hints(g)
  PROVE  Draws(g, t) # {}
<1>1. CASE g \in TableGens
  BY <1>1, TableTypes, TableMade, TableDraws
<1>2. CASE g = "C"
  BY <1>2, ParcelMade, CompressedDraws
<1>3. CASE g = "FC"
  BY <1>3, ParcelMade, CompressedDraws
<1>4. CASE g \in {"Zicsr", "Zifencei"}
  BY <1>4, SystemMade, OptionDraws
<1>5. CASE g = "Illegal"
  <2>1. CASE t \in DOMAIN Classes32
    BY <1>5, <2>1, WordMade, WordClasses
  <2>2. CASE t \in DOMAIN Classes16
    BY <1>5, <2>2, WordMade, ParcelClasses
  <2> QED BY <1>5, <2>1, <2>2, WordMade
<1>6. CASE g = "Any"
  BY <1>6, WordMade, GeneratorAssumption
<1> QED BY <1>1, <1>2, <1>3, <1>4, <1>5, <1>6, Kinds

\* What Answer and WithOrdering encode.
LEMMA AnyGiven ==
  ASSUME gen \in Gens, NEW t \in Types(gen) \union Hints(gen)
  PROVE  /\ Given(gen, t, AnyDraw(t))
         /\ gen = "A" => \A b \in 0 .. 3 : Given(gen, t, [AnyDraw(t) EXCEPT !.imm = b])
<1>1. AnyDraw(t) \in Draws(gen, t)
  BY DrawsSome DEF AnyDraw
<1> QED BY <1>1 DEF Given

\* Types and settings, the part of TypeOK that is about the variables alone.
Settings ==
  /\ gen \in Gens
  /\ mask \subseteq All(gen)
  /\ options \subseteq Options(gen)
  /\ calls \in 0 .. MaxCalls
  /\ stage \in {"idle", "picking", "drawing", "hinting", "answered"}
  /\ tries \in 0 .. PickTries
  /\ stream \in {0, 1}
  /\ stage # "picking" => tries = 0

\* There is a word when a call has been answered, and it is sound.
Answering == IF stage = "answered" THEN Sound(gen, options, out) ELSE out = NoOut

\* A call still draws for a request of this generator, and for one that
\* wanted certain types only if none of them is enabled.
Asking ==
  /\ stage \in {"picking", "drawing", "hinting"} => asked \in Asks(gen)
  /\ stage = "picking" => asked.kind = "list"
  /\ stage = "drawing" =>
       /\ asked.kind \in {"list", "pair"} => Range(asked.from) \intersect mask = {}
       /\ asked.kind = "hint" => EligibleHints = {}
  /\ stage = "hinting" => asked.kind \in {"hint", "mixed"}

\* The inductive invariant.
IInv == Settings /\ Answering /\ Asking /\ AnswerEnabled

\* What a call that answers leaves behind.
LEMMA AnsweredStep ==
  ASSUME Settings, NEW t \in Types(gen) \union Hints(gen), NEW d, Given(gen, t, d),
         Answered(Made(gen, t, d)), UNCHANGED <<gen, mask, options, calls>>
  PROVE  Settings' /\ Answering' /\ Asking' /\ stage' = "answered" /\ out'.type = t
<1>1. /\ stage' = "answered" /\ out' = Made(gen, t, d) /\ tries' = 0 /\ stream' = 0
  BY DEF Answered
<1>2. gen \in Gens
  BY DEF Settings
<1>3. Sound(gen, options, Made(gen, t, d)) /\ Made(gen, t, d).type = t
  BY <1>2, MadeSound
<1>4. Settings'
  <2>1. 0 \in 0 .. PickTries
    BY DEF PickTries
  <2> QED BY <1>1, <2>1 DEF Settings, All, Options
<1>5. Answering'
  <2>1. Sound(gen, options, out')
    BY <1>1, <1>3
  <2>2. gen' = gen /\ options' = options
    OBVIOUS
  <2>3. Sound(gen', options', out')
    BY <2>1, <2>2
  <2> QED BY <1>1, <2>3 DEF Answering
<1>6. Asking'
  BY <1>1 DEF Asking
<1> QED BY <1>1, <1>3, <1>4, <1>5, <1>6

\* The same of Answer.
LEMMA AnswerStep ==
  ASSUME Settings, NEW t \in Types(gen) \union Hints(gen),
         Answer(t), UNCHANGED <<gen, mask, options, calls>>
  PROVE  Settings' /\ Answering' /\ Asking' /\ stage' = "answered" /\ out'.type = t
<1>1. Given(gen, t, AnyDraw(t))
  BY AnyGiven DEF Settings
<1> QED BY <1>1, AnsweredStep DEF Answer

\* What a call that does not answer leaves behind.
LEMMA UnansweredStep ==
  ASSUME stage' # "answered", out' = NoOut
  PROVE  Answering' /\ AnswerEnabled'
BY DEF Answering, AnswerEnabled

\* The ordered scan finds an enabled type of the list, if there is one.
LEMMA FirstFound ==
  ASSUME NEW s, DOMAIN s \subseteq Nat
  PROVE  /\ FirstEnabled(s) # <<>> => FirstEnabled(s)[1] \in Range(s) \intersect mask
         /\ FirstEnabled(s) = <<>> => Range(s) \intersect mask = {}
<1> DEFINE on == {i \in DOMAIN s : s[i] \in mask}
           k == CHOOSE i \in on : \A j \in on : i <= j
<1>1. CASE on = {}
  <2>1. FirstEnabled(s) = <<>>
    BY <1>1 DEF FirstEnabled
  <2>2. Range(s) \intersect mask = {}
    BY <1>1 DEF Range
  <2> QED BY <2>1, <2>2
<1>2. CASE on # {}
  <2>1. FirstEnabled(s) = <<s[k]>>
    BY <1>2 DEF FirstEnabled
  <2>2. \E i \in on : \A j \in on : i <= j
    BY <1>2, LeastElement
  <2>3. k \in on
    BY <2>2
  <2>4. s[k] \in Range(s) \intersect mask
    BY <2>3 DEF Range
  <2> HIDE DEF k
  <2>5. <<s[k]>> # <<>> /\ <<s[k]>>[1] = s[k]
    OBVIOUS
  <2> QED BY <2>1, <2>4, <2>5
<1> QED BY <1>1, <1>2

\* What is eligible.
LEMMA EligibleTypes ==
  /\ Eligible(gen) \subseteq Types(gen)
  /\ mask \intersect Types(gen) # {} => Eligible(gen) \subseteq mask
BY DEF Eligible

\* A draw that is enabled answers with it.
LEMMA HitStep ==
  ASSUME IInv, Hit
  PROVE  IInv'
<1>1. /\ stage = "drawing" /\ UNCHANGED <<gen, mask, options, calls, asked>>
      /\ \E t \in Eligible(gen) :
           IF asked.kind = "ordered" THEN WithOrdering(t, asked.from[1]) ELSE Answer(t)
  BY DEF Hit
<1>2. gen \in Gens /\ asked \in Asks(gen)
  BY <1>1 DEF IInv, Settings, Asking
<1>3. Proper(asked, gen)
  BY <1>2, AsksProper
<1>4. PICK t \in Eligible(gen) :
        IF asked.kind = "ordered" THEN WithOrdering(t, asked.from[1]) ELSE Answer(t)
  BY <1>1
<1>5. t \in Types(gen)
  BY EligibleTypes
<1>6. Settings' /\ Answering' /\ Asking' /\ stage' = "answered" /\ out'.type = t
  <2>1. CASE asked.kind = "ordered"
    <3> DEFINE d == [AnyDraw(t) EXCEPT !.imm = asked.from[1]]
    <3>1. Given(gen, t, d)
      BY <1>2, <1>3, <1>5, <2>1, AnyGiven DEF Proper
    <3>2. Answered(Made(gen, t, d))
      BY <1>4, <2>1 DEF WithOrdering
    <3> HIDE DEF d
    <3> QED BY <1>1, <1>5, <3>1, <3>2, AnsweredStep DEF IInv
  <2>2. CASE asked.kind # "ordered"
    BY <1>1, <1>4, <1>5, <2>2, AnswerStep DEF IInv
  <2> QED BY <2>1, <2>2
<1>7. AnswerEnabled'
  <2>1. /\ asked.kind \in {"list", "pair"} => Range(asked.from) \intersect mask = {}
        /\ asked.kind = "hint" => mask \intersect HintTypes = {}
    BY <1>1 DEF IInv, Asking, EligibleHints
  <2>2. mask \intersect Types(gen) # {} => t \in mask
    BY <1>4, EligibleTypes
  <2>3. asked.kind = "mixed" => t \notin HintTypes
    <3>1. \A s \in CTypes : s \notin HintTypes
      BY DEF CTypes, HintTypes
    <3> QED BY <1>3, <1>5, <3>1, ParcelMade DEF Proper
  <2>4. Types(gen)' = Types(gen)
    BY <1>1 DEF Types
  <2>5. t \in Types(gen)
    BY <1>5
  <2>6. asked' = asked /\ mask' = mask /\ gen' = gen
    BY <1>1
  <2> QED BY <1>6, <2>1, <2>2, <2>3, <2>4, <2>5, <2>6 DEF AnswerEnabled
<1> QED BY <1>6, <1>7 DEF IInv

\* So does a draw of an enabled hint.
LEMMA HintHitStep ==
  ASSUME IInv, HintHit
  PROVE  IInv'
<1>1. /\ stage = "hinting" /\ UNCHANGED <<gen, mask, options, calls, asked>>
      /\ \E t \in EligibleHints : Answer(t)
  BY DEF HintHit
<1>2. gen \in Gens /\ asked \in Asks(gen) /\ asked.kind \in {"hint", "mixed"}
  BY <1>1 DEF IInv, Settings, Asking
<1>3. gen = "C"
  BY <1>2, AsksProper DEF Proper
<1>4. PICK t \in EligibleHints : Answer(t)
  BY <1>1
<1>5. t \in HintTypes /\ t \in Hints(gen) /\ (mask # {} => t \in mask)
  BY <1>3, ParcelMade DEF EligibleHints
<1>6. Settings' /\ Answering' /\ Asking' /\ stage' = "answered" /\ out'.type = t
  BY <1>1, <1>4, <1>5, AnswerStep DEF IInv
<1>7. AnswerEnabled'
  <2>1. asked' = asked /\ mask' = mask
    BY <1>1
  <2> QED BY <1>2, <1>5, <1>6, <2>1 DEF AnswerEnabled
<1> QED BY <1>6, <1>7 DEF IInv

\* A pick answers from the list, or goes on when none of the list is enabled.
LEMMA PickStep ==
  ASSUME IInv, Pick
  PROVE  IInv'
<1>1. stage = "picking" /\ UNCHANGED <<gen, mask, options, calls, asked>>
  BY DEF Pick
<1>2. gen \in Gens /\ asked \in Asks(gen) /\ asked.kind = "list"
  BY <1>1 DEF IInv, Settings, Asking
<1>3. DOMAIN asked.from \subseteq Nat /\ Range(asked.from) \subseteq Types(gen)
  BY <1>2, AsksProper DEF Proper, Lists
<1>4. ASSUME NEW t \in Range(asked.from) \intersect mask, Answer(t) PROVE IInv'
  <2>1. Settings' /\ Answering' /\ Asking' /\ stage' = "answered" /\ out'.type = t
    BY <1>1, <1>3, <1>4, AnswerStep DEF IInv
  <2>2. asked' = asked /\ mask' = mask
    BY <1>1
  <2>3. AnswerEnabled'
    BY <1>2, <2>1, <2>2 DEF AnswerEnabled
  <2> QED BY <2>1, <2>3 DEF IInv
<1>5. CASE tries < PickTries /\ tries' = tries + 1 /\ UNCHANGED <<stage, stream, out>>
  <2>1. stage' = stage /\ out' = out /\ stream' = stream
    BY <1>5
  <2>2. Settings'
    BY <1>1, <1>5, <2>1 DEF IInv, Settings, All, Options, PickTries
  <2>3. out = NoOut
    BY <1>1 DEF IInv, Answering
  <2>4. Answering' /\ AnswerEnabled'
    BY <1>1, <2>1, <2>3, UnansweredStep
  <2>5. Asking'
    BY <1>1, <1>2, <2>1 DEF Asking, Asks
  <2> QED BY <2>2, <2>4, <2>5 DEF IInv
<1>6. CASE FirstEnabled(asked.from) = <<>> /\ stage' = "drawing" /\ tries' = 0 /\ UNCHANGED <<stream, out>>
  <2>1. stage' = "drawing" /\ out' = out /\ stream' = stream /\ tries' = 0
    BY <1>6
  <2>2. Settings'
    BY <1>1, <2>1 DEF IInv, Settings, All, Options, PickTries
  <2>3. out = NoOut
    BY <1>1 DEF IInv, Answering
  <2>4. Answering' /\ AnswerEnabled'
    BY <2>1, <2>3, UnansweredStep
  <2>5. Range(asked.from) \intersect mask = {}
    BY <1>3, <1>6, FirstFound
  <2>6. Asking'
    BY <1>1, <1>2, <2>1, <2>5 DEF Asking, Asks
  <2> QED BY <2>2, <2>4, <2>6 DEF IInv
<1>7. \/ \E t \in Range(asked.from) \intersect mask : Answer(t)
      \/ tries < PickTries /\ tries' = tries + 1 /\ UNCHANGED <<stage, stream, out>>
      \/ FirstEnabled(asked.from) # <<>> /\ Answer(FirstEnabled(asked.from)[1])
      \/ FirstEnabled(asked.from) = <<>> /\ stage' = "drawing" /\ tries' = 0 /\ UNCHANGED <<stream, out>>
  BY Zenon DEF Pick
<1>8. FirstEnabled(asked.from) # <<>> => FirstEnabled(asked.from)[1] \in Range(asked.from) \intersect mask
  BY <1>3, FirstFound
<1> QED BY <1>4, <1>5, <1>6, <1>7, <1>8

\* A draw that is not enabled changes the random stream only.
LEMMA MissStep ==
  ASSUME IInv, Miss
  PROVE  IInv'
<1>1. /\ stream' = 1 - stream /\ stage \in {"drawing", "hinting"}
      /\ UNCHANGED <<gen, mask, options, calls, stage, asked, tries, out>>
  BY DEF Miss
<1>2. Settings'
  BY <1>1 DEF IInv, Settings, All, Options
<1>3. out = NoOut
  BY <1>1 DEF IInv, Answering
<1>4. Answering' /\ AnswerEnabled'
  BY <1>1, <1>3, UnansweredStep
<1>5. Asking'
  BY <1>1 DEF IInv, Asking, Asks, EligibleHints
<1> QED BY <1>2, <1>4, <1>5 DEF IInv

\* What a call that starts to draw leaves behind.
LEMMA StartStep ==
  ASSUME IInv, NEW s \in {"picking", "drawing", "hinting"}, NEW r \in Asks(gen), Starts(s),
         asked' = r, UNCHANGED <<gen, mask, options, calls>>,
         s = "picking" => r.kind = "list",
         s = "drawing" => /\ r.kind \in {"list", "pair"} => Range(r.from) \intersect mask = {}
                          /\ r.kind = "hint" => EligibleHints = {},
         s = "hinting" => r.kind \in {"hint", "mixed"}
  PROVE  IInv'
<1>1. stage' = s /\ tries' = 0 /\ stream' = 0 /\ out' = NoOut
  BY DEF Starts
<1>2. Settings'
  BY <1>1 DEF IInv, Settings, All, Options, PickTries
<1>3. Answering' /\ AnswerEnabled'
  BY <1>1, UnansweredStep
<1>4. Asking'
  BY <1>1 DEF Asking, Asks, EligibleHints
<1> QED BY <1>2, <1>3, <1>4 DEF IInv

\* A request draws, or is answered at once.
LEMMA AskStep ==
  ASSUME IInv, NEW r \in Asks(gen), Ask(r)
  PROVE  IInv'
<1>1. gen \in Gens
  BY DEF IInv, Settings
<1>2. Proper(r, gen)
  BY <1>1, AsksProper
<1>3. asked' = r /\ UNCHANGED <<gen, mask, options, calls>>
  BY DEF Ask
<1>4. CASE r.kind \in {"random", "ordered"}
  <2>1. Starts("drawing")
    BY <1>4 DEF Ask
  <2> QED BY <1>3, <1>4, <2>1, StartStep
<1>5. CASE r.kind = "list"
  <2>1. Starts("picking")
    BY <1>5 DEF Ask
  <2> QED BY <1>3, <1>5, <2>1, StartStep
<1>6. CASE r.kind \in {"hint", "mixed"}
  <2>1. CASE r.kind = "hint"
    <3>1. Starts(HintStage)
      BY <2>1 DEF Ask
    <3>2. HintStage \in {"drawing", "hinting"} /\ (HintStage = "drawing" => EligibleHints = {})
      BY DEF HintStage
    <3> QED BY <1>3, <2>1, <3>1, <3>2, StartStep
  <2>2. CASE r.kind = "mixed"
    <3>1. Starts("drawing") \/ Starts(HintStage)
      BY <2>2 DEF Ask
    <3>2. HintStage \in {"drawing", "hinting"}
      BY DEF HintStage
    <3> QED BY <1>3, <2>2, <3>1, <3>2, StartStep
  <2> QED BY <1>6, <2>1, <2>2
<1>7. CASE r.kind = "category"
  <2>1. PICK t \in Range(r.from) : Answer(t)
    BY <1>7 DEF Ask
  <2>2. t \in Types(gen)
    BY <1>2, <1>7 DEF Proper, Lists
  <2>3. Settings' /\ Answering' /\ Asking' /\ stage' = "answered" /\ out'.type = t
    BY <1>3, <2>1, <2>2, AnswerStep DEF IInv
  <2>4. AnswerEnabled'
    BY <1>3, <1>7 DEF AnswerEnabled
  <2> QED BY <2>3, <2>4 DEF IInv
<1>8. CASE r.kind = "pair"
  <2> DEFINE on == Range(r.from) \intersect mask
  <2>1. IF on = {} THEN Starts("drawing") ELSE \E t \in on : Answer(t)
    BY <1>8 DEF Ask
  <2>2. CASE on = {}
    BY <1>3, <1>8, <2>1, <2>2, StartStep
  <2>3. CASE on # {}
    <3>1. PICK t \in on : Answer(t)
      BY <2>1, <2>3
    <3>2. t \in Types(gen)
      BY <1>2, <1>8 DEF Proper, Lists
    <3>3. Settings' /\ Answering' /\ Asking' /\ stage' = "answered" /\ out'.type = t
      BY <1>3, <3>1, <3>2, AnswerStep DEF IInv
    <3>4. AnswerEnabled'
      BY <1>3, <1>8, <3>1, <3>3 DEF AnswerEnabled
    <3> QED BY <3>3, <3>4 DEF IInv
  <2> QED BY <2>2, <2>3
<1> QED BY <1>2, <1>4, <1>5, <1>6, <1>7, <1>8 DEF Proper

\* A word of a type asked for by name.
LEMMA GenerateStep ==
  ASSUME IInv, NEW t \in Types(gen) \union Hints(gen), Generate(t)
  PROVE  IInv'
<1>1. /\ asked' = Request("type", <<t>>) /\ UNCHANGED <<gen, mask, options, calls>>
      /\ \E d \in Draws(gen, t) : Answered(Made(gen, t, d))
  BY DEF Generate
<1>2. PICK d \in Draws(gen, t) : Answered(Made(gen, t, d))
  BY <1>1
<1>3. Given(gen, t, d)
  BY DEF Given
<1>4. Settings' /\ Answering' /\ Asking' /\ stage' = "answered" /\ out'.type = t
  BY <1>1, <1>2, <1>3, AnsweredStep DEF IInv
<1>5. AnswerEnabled'
  BY <1>1 DEF AnswerEnabled, Request
<1> QED BY <1>4, <1>5 DEF IInv

\* The steps after which a generator waits for a call.
LEMMA QuietStep ==
  ASSUME IInv, Quiet, gen' = gen, mask' \subseteq All(gen), options' \subseteq Options(gen),
         calls' \in 0 .. MaxCalls
  PROVE  IInv'
<1>1. stage' = "idle" /\ tries' = 0 /\ stream' = 0 /\ out' = NoOut
  BY DEF Quiet
<1>2. Settings'
  BY <1>1 DEF IInv, Settings, All, Options, PickTries
<1>3. Answering' /\ AnswerEnabled'
  BY <1>1, UnansweredStep
<1>4. Asking'
  BY <1>1 DEF Asking
<1> QED BY <1>2, <1>3, <1>4 DEF IInv

\* A group is of types of the generator.
LEMMA GroupTypes ==
  ASSUME NEW g \in Gens, NEW group \in Groups(g)
  PROVE  group \subseteq All(g)
<1>1. CASE group = All(g)
  BY <1>1
<1>2. CASE g = "I" /\ group # All(g)
  <2>1. Types(g) = DOMAIN BaseTable
    BY <1>2, TableTypes DEF TableGens, Table
  <2> QED BY <1>2, <2>1 DEF Groups, All, BaseTable
<1>3. CASE g = "M" /\ group # All(g)
  <2>1. Types(g) = DOMAIN MTable
    BY <1>3, TableTypes DEF TableGens, Table
  <2> QED BY <1>3, <2>1 DEF Groups, All, MTable
<1>4. CASE g = "A" /\ group # All(g)
  <2>1. Types(g) = DOMAIN ATable /\ Types("A") = Types(g)
    BY <1>4, TableTypes DEF TableGens, Table
  <2> QED BY <1>4, <2>1 DEF Groups, All, ATable
<1>5. CASE g = "F" /\ group # All(g)
  <2>1. Types(g) = DOMAIN FTable
    BY <1>5, TableTypes DEF TableGens, Table
  <2> QED BY <1>5, <2>1 DEF Groups, All, FTable
<1>6. CASE g = "C" /\ group # All(g)
  <2>1. Types(g) = CTypes /\ Hints(g) = HintTypes
    BY <1>6, ParcelMade
  <2> QED BY <1>6, <2>1 DEF Groups, All, CTypes
<1>7. CASE g = "FC" /\ group # All(g)
  <2>1. Types(g) = FcTypes
    BY <1>7, ParcelMade
  <2> QED BY <1>7, <2>1 DEF Groups, All, FcTypes
<1>8. CASE g = "Zba" /\ group # All(g)
  <2>1. Types(g) = DOMAIN ZbaTable
    BY <1>8, TableTypes DEF TableGens, Table
  <2> QED BY <1>8, <2>1 DEF Groups, All, ZbaTable
<1>9. CASE g = "Zbb" /\ group # All(g)
  <2>1. Types(g) = DOMAIN ZbbTable
    BY <1>9, TableTypes DEF TableGens, Table
  <2> QED BY <1>9, <2>1 DEF Groups, All, ZbbTable
<1>10. CASE g = "Zbs" /\ group # All(g)
  <2>1. Types(g) = DOMAIN ZbsTable
    BY <1>10, TableTypes DEF TableGens, Table
  <2> QED BY <1>10, <2>1 DEF Groups, All, ZbsTable
<1>11. CASE g = "Zicond" /\ group # All(g)
  <2>1. Types(g) = DOMAIN ZicondTable
    BY <1>11, TableTypes DEF TableGens, Table
  <2> QED BY <1>11, <2>1 DEF Groups, All, ZicondTable
<1>12. CASE g = "Zicsr" /\ group # All(g)
  <2>1. Types(g) = CsrTypes
    BY <1>12, SystemMade
  <2> QED BY <1>12, <2>1 DEF Groups, All, CsrTypes
<1>13. CASE g = "Illegal" /\ group # All(g)
  <2>1. Types(g) = DOMAIN Classes32 \union DOMAIN Classes16
    BY <1>13, WordMade
  <2> QED BY <1>13, <2>1 DEF Groups, All
<1>14. CASE g \in {"Zifencei", "Any"}
  BY <1>14 DEF Groups
<1> QED BY <1>1, <1>2, <1>3, <1>4, <1>5, <1>6, <1>7, <1>8, <1>9, <1>10, <1>11, <1>12, <1>13, <1>14,
           Kinds DEF TableGens

(***************************************************************************)
(* The theorems.                                                           *)
(***************************************************************************)
\* A generator starts quiet with every type enabled.
LEMMA InitIInv == Init => IInv
<1> SUFFICES ASSUME Init PROVE IInv
  OBVIOUS
<1>1. Settings
  BY GeneratorAssumption DEF Init, Settings, PickTries
<1>2. Answering /\ Asking /\ AnswerEnabled
  BY DEF Init, Answering, Asking, AnswerEnabled
<1> QED BY <1>1, <1>2 DEF IInv

\* Every step keeps the invariant.
LEMMA NextIInv == IInv /\ [Next]_vars => IInv'
<1> SUFFICES ASSUME IInv, [Next]_vars PROVE IInv'
  OBVIOUS
<1>0. Settings
  BY DEF IInv
<1>1. ASSUME NEW r \in Asks(gen), Ask(r) PROVE IInv'
  BY <1>1, AskStep
<1>2. ASSUME NEW t \in Types(gen) \union Hints(gen), Generate(t) PROVE IInv'
  BY <1>2, GenerateStep
<1>3. ASSUME NEW group \in Groups(gen), NEW on \in BOOLEAN, EnableGroup(group, on) PROVE IInv'
  <2>1. /\ Quiet /\ gen' = gen /\ options' = options /\ calls < MaxCalls /\ calls' = calls + 1
        /\ mask' = IF on THEN mask \union group ELSE mask \ group
    BY <1>3 DEF EnableGroup
  <2>2. group \subseteq All(gen)
    BY <1>0, GroupTypes DEF Settings
  <2>3. mask' \subseteq All(gen) /\ calls' \in 0 .. MaxCalls
    BY <1>0, <2>1, <2>2, GeneratorAssumption DEF Settings
  <2> QED BY <1>0, <2>1, <2>3, QuietStep DEF Settings
<1>4. ASSUME NEW o \in Options(gen), NEW on \in BOOLEAN, SetOption(o, on) PROVE IInv'
  <2>1. /\ Quiet /\ UNCHANGED <<gen, mask, calls>>
        /\ options' = IF on THEN options \union {o} ELSE options \ {o}
    BY <1>4 DEF SetOption
  <2>2. options' \subseteq Options(gen)
    BY <1>0, <2>1 DEF Settings
  <2> QED BY <1>0, <2>1, <2>2, QuietStep DEF Settings
<1>5. CASE Take
  BY <1>0, <1>5, QuietStep DEF Take, Settings
<1>6. CASE UNCHANGED vars
  BY <1>6 DEF vars, IInv, Settings, All, Options, Answering, Asking, Asks, EligibleHints, AnswerEnabled, Types
<1> QED BY <1>1, <1>2, <1>3, <1>4, <1>5, <1>6, PickStep, HitStep, HintHitStep, MissStep DEF Next

\* The inductive invariant holds.
THEOREM Inductive == Spec => []IInv
BY InitIInv, NextIInv, PTL DEF Spec

\* A word that is returned is sound, and there is none before.
LEMMA OutSound ==
  ASSUME IInv
  PROVE  /\ gen \in Gens
         /\ IF stage = "answered" THEN Sound(gen, options, out) ELSE out = NoOut
BY DEF IInv, Settings, Answering

\* Nothing is claimed before there is a word.
LEMMA NothingOut ==
  ASSUME out = NoOut
  PROVE  GeneratedDecodes /\ IllegalRejected /\ DispatchExact /\ CompressedExact /\ CsrStimulusTrapFree
<1>1. out.bits = 0 /\ out.type = "none" /\ "none" \notin HintTypes
  BY DEF NoOut, HintTypes
<1>2. GeneratedDecodes /\ IllegalRejected /\ DispatchExact /\ CsrStimulusTrapFree
  BY <1>1 DEF GeneratedDecodes, Generated, IllegalRejected, DispatchExact, CsrStimulusTrapFree
<1>3. CompressedExact
  <2>1. out.bits # 16 /\ out.type \notin HintTypes
    BY <1>1
  <2>2. CompressedAsExpansion
    BY <2>1, Zenon DEF CompressedAsExpansion
  <2>3. HintsExecuteAsNops
    BY <2>1, Zenon DEF HintsExecuteAsNops
  <2> QED BY <2>2, <2>3 DEF CompressedExact
<1> QED BY <1>2, <1>3

\* The invariant gives the types of the variables.
LEMMA IInvTypes == IInv => TypeOK
<1> SUFFICES ASSUME IInv PROVE TypeOK
  OBVIOUS
<1>1. CASE stage = "answered"
  <2>1. Sound(gen, options, out)
    BY <1>1, OutSound
  <2>2. out.bits \in {16, 32} /\ out.parcel \in Parcel /\ out.word \in Word32
    BY <2>1 DEF Sound
  <2>3. out # NoOut
    BY <2>2 DEF NoOut
  <2> QED BY <1>1, <2>2, <2>3 DEF IInv, Settings, TypeOK
<1>2. CASE stage # "answered"
  <2>1. out = NoOut
    BY <1>2, OutSound
  <2>2. NoOut.bits = 0 /\ NoOut.parcel \in Parcel /\ NoOut.word \in Word32
    BY DEF NoOut, Parcel, NoWord, EncodeR, Word32, MajorOps
  <2> QED BY <1>2, <2>1, <2>2 DEF IInv, Settings, TypeOK
<1> QED BY <1>1, <1>2

\* Every variable keeps its type, and a word is there exactly while it is
\* answered.
THEOREM TypeCorrect == Spec => []TypeOK
BY Inductive, IInvTypes, PTL

\* A generated word is read by its own decoder, and by no other, as the type
\* asked for with the operands drawn: for every set of registers, rounding
\* modes and orderings that a generator draws from.
THEOREM GeneratorsDecode == Spec => []GeneratedDecodes
<1>1. IInv => GeneratedDecodes
  BY OutSound, NothingOut, SoundDecodes
<1> QED BY <1>1, Inductive, PTL

\* A word of an illegal class traps on a hart with any extensions and modes.
THEOREM IllegalWordsTrap == Spec => []IllegalRejected
<1>1. IInv => IllegalRejected
  BY OutSound, NothingOut, SoundRejected
<1> QED BY <1>1, Inductive, PTL

\* A word that is returned has one decoder, and the hart dispatches to it.
THEOREM ReturnedWordsDispatch == Spec => []DispatchExact
<1>1. IInv => DispatchExact
  BY OutSound, NothingOut, SoundDispatch
<1> QED BY <1>1, Inductive, PTL

\* A compressed word means what the base instruction it abbreviates means,
\* and a hint changes nothing but the pc: for every parcel, register file,
\* pc and width of the registers.
THEOREM CompressedMeansExpansion == Spec => []CompressedExact
<1>1. IInv => CompressedExact
  BY OutSound, NothingOut, SoundCompressed
<1> QED BY <1>1, Inductive, PTL

\* A generated CSR instruction does not trap in M-mode.
THEOREM CsrStimulusSafe == Spec => []CsrStimulusTrapFree
<1>1. IInv => CsrStimulusTrapFree
  BY OutSound, NothingOut, SoundCsr
<1> QED BY <1>1, Inductive, PTL

\* The answer is of an enabled type if there is one.
THEOREM AnswersAreEnabled == Spec => []AnswerEnabled
<1>1. IInv => AnswerEnabled
  BY DEF IInv
<1> QED BY <1>1, Inductive, PTL
=============================================================================
