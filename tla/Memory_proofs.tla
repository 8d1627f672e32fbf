--------------------------- MODULE Memory_proofs ---------------------------
(***************************************************************************)
(* Proofs about the memory, for every size and place of the array, in an   *)
(* address space of any size, and for every value of a byte.               *)
(***************************************************************************)
EXTENDS Memory, TLAPS

\* A byte of a value is a byte.
LEMMA ByteOfType ==
  ASSUME NEW v \in Nat, NEW i \in Nat
  PROVE  ByteOf(v, i) \in 0 .. Byte - 1
<1>1. Byte \in Nat /\ Byte > 0
  BY BusAssumption
<1>2. Byte * Byte \in Nat /\ Byte * Byte > 0
  BY <1>1
<1>3. Byte * Byte * Byte \in Nat /\ Byte * Byte * Byte > 0
  BY <1>1, <1>2
<1> DEFINE unit == CASE i = 0 -> 1 [] i = 1 -> Byte
                     [] i = 2 -> Byte * Byte [] OTHER -> Byte * Byte * Byte
<1>4. unit \in Nat /\ unit > 0
  BY <1>1, <1>2, <1>3
<1>5. ByteOf(v, i) = (v \div unit) % Byte
  BY DEF ByteOf
<1> HIDE DEF unit
<1>6. v \div unit \in Nat
  BY <1>4
<1> QED BY <1>1, <1>5, <1>6

\* A read returns a natural number.
LEMMA ReadType ==
  ASSUME mem \in Memories, NEW a \in Addr, NEW n \in Widths
  PROVE  Read(mem, a, n) \in Nat
<1> DEFINE at(i) == IF a - Base + i \in Offsets THEN mem[a - Base + i] ELSE 0
<1>1. Byte \in Nat /\ a \in Int /\ Base \in Int
  BY BusAssumption DEF Addr
<1>2. \A i \in 0 .. 3 : at(i) \in Nat
  BY <1>1 DEF Memories, Offsets
<1>3. Read(mem, a, n) = CASE n = 1 -> at(0)
                          [] n = 2 -> at(0) + Byte * at(1)
                          [] n = 4 -> at(0) + Byte * (at(1) + Byte * (at(2) + Byte * at(3)))
  BY DEF Read
<1> HIDE DEF at
<1>4. at(0) \in Nat /\ at(1) \in Nat /\ at(2) \in Nat /\ at(3) \in Nat
  BY <1>2
<1>5. \A x \in Nat, y \in Nat : Byte * x + y \in Nat /\ y + Byte * x \in Nat
  BY <1>1
<1>6. at(2) + Byte * at(3) \in Nat
  BY <1>4, <1>5
<1>7. at(1) + Byte * (at(2) + Byte * at(3)) \in Nat
  BY <1>4, <1>5, <1>6
<1>8. at(0) + Byte * (at(1) + Byte * (at(2) + Byte * at(3))) \in Nat
  BY <1>4, <1>5, <1>7
<1>9. at(0) + Byte * at(1) \in Nat
  BY <1>4, <1>5
<1> QED BY <1>3, <1>4, <1>8, <1>9 DEF Widths

\* A write leaves an array of bytes.
LEMMA WriteType ==
  ASSUME mem \in Memories, NEW a \in Addr, NEW n \in Widths, NEW v \in Nat
  PROVE  Write(mem, a, n, v) \in Memories
<1> SUFFICES ASSUME NEW o \in Offsets
             PROVE  (IF o \in Indices(a, n) THEN ByteOf(v, o - (a - Base)) ELSE mem[o])
                       \in 0 .. Byte - 1
  BY DEF Write, Memories
<1>1. CASE o \in Indices(a, n)
  <2>1. o - (a - Base) \in Nat
    BY <1>1, BusAssumption DEF Indices, Offsets, Addr, Widths
  <2> QED BY <1>1, <2>1, ByteOfType
<1>2. CASE o \notin Indices(a, n)
  BY <1>2 DEF Memories
<1> QED BY <1>1, <1>2

\* The next parcel is at an address, and is followed by one more byte.
LEMMA ParcelAddr ==
  ASSUME NEW a \in Addr, a % 2 = 0
  PROVE  /\ NextParcel(a) \in Addr
         /\ (a + 1) % AddrSpace = a + 1
         /\ (a + 2) % AddrSpace = NextParcel(a)
         /\ (a + 3) % AddrSpace = NextParcel(a) + 1
<1>1. AddrSpace \in Nat /\ AddrSpace > 0 /\ AddrSpace % 4 = 0
  BY BusAssumption
<1>2. a \in Nat /\ a <= AddrSpace - 2
  BY <1>1 DEF Addr
<1>3. CASE a = AddrSpace - 2
  BY <1>1, <1>2, <1>3 DEF NextParcel, Addr
<1>4. CASE a < AddrSpace - 2
  <2>1. a <= AddrSpace - 4
    BY <1>1, <1>2, <1>4
  <2> QED BY <1>1, <1>2, <2>1 DEF NextParcel, Addr
<1> QED BY <1>1, <1>2, <1>3, <1>4

(***************************************************************************)
(* The type invariant.                                                     *)
(***************************************************************************)
\* An outcome built from typed parts is an outcome.
LEMMA OutcomeType ==
  ASSUME NEW kind \in Kinds, NEW a \in Addr, NEW n \in Nat,
         NEW cause \in {1, 4, 5, 6, 7, NoFault}, NEW tval \in Addr, NEW value \in Nat
  PROVE  Outcome(kind, a, n, cause, tval, value) \in Outcomes
BY DEF Outcome, Outcomes

\* Address 0 exists, and a program is loaded at addresses.
LEMMA AddrFacts ==
  /\ 0 \in Addr
  /\ \A a \in Addr, i \in Nat : WordAt(a, i) \in Addr
<1>1. AddrSpace \in Nat /\ AddrSpace > 0
  BY BusAssumption
<1>2. \A x \in Nat : x % AddrSpace \in 0 .. AddrSpace - 1
  BY <1>1
<1> QED BY <1>1, <1>2 DEF Addr, WordAt

\* Every access keeps the types.
LEMMA TypeStep == TypeOK /\ [Next]_mvars => TypeOK'
<1> SUFFICES ASSUME TypeOK, [Next]_mvars PROVE TypeOK'
  OBVIOUS
<1> USE AddrFacts, OutcomeType DEF Kinds, NoFault
<1>0. mem \in Memories /\ last \in Outcomes
  BY DEF TypeOK
<1>v. \A v \in Values : v \in Nat
  BY MemoryAssumption, BusAssumption DEF Word
<1>1. ASSUME NEW lax \in Lax, NEW a \in Addr, NEW n \in Widths, Load(lax, a, n)
      PROVE  TypeOK'
  <2>1. Read(mem, a, n) \in Nat
    BY <1>0, ReadType
  <2>2. n \in Nat
    BY DEF Widths
  <2>3. /\ Outcome("load", a, n, 4, a, 0) \in Outcomes
        /\ Outcome("load", a, n, 5, a, 0) \in Outcomes
        /\ Outcome("load", a, n, NoFault, 0, Read(mem, a, n)) \in Outcomes
    BY <2>1, <2>2
  <2>4. last' \in Outcomes /\ mem' = mem
    BY <1>1, <2>3 DEF Load
  <2> QED BY <1>0, <2>4 DEF TypeOK
<1>2. ASSUME NEW lax \in Lax, NEW a \in Addr, NEW n \in Widths, NEW v \in Values,
             Store(lax, a, n, v)
      PROVE  TypeOK'
  <2>1. Write(mem, a, n, v) \in Memories
    BY <1>0, <1>v, WriteType
  <2>2. n \in Nat /\ v \in Nat
    BY <1>v DEF Widths
  <2>3. /\ Outcome("store", a, n, 6, a, 0) \in Outcomes
        /\ Outcome("store", a, n, 7, a, 0) \in Outcomes
        /\ Outcome("store", a, n, NoFault, 0, v) \in Outcomes
    BY <2>2
  <2>4. last' \in Outcomes /\ (mem' = mem \/ mem' = Write(mem, a, n, v))
    BY <1>2, <2>3 DEF Store
  <2> QED BY <1>0, <2>1, <2>4 DEF TypeOK
<1>3. ASSUME NEW a \in Addr, a % 2 = 0, Fetch(a) PROVE TypeOK'
  <2>1. NextParcel(a) \in Addr
    BY <1>3, ParcelAddr
  <2>2. last' \in Outcomes
    <3>1. Outcome("fetch", a, 2, 1, a, 0) \in Outcomes
      OBVIOUS
    <3>2. Outcome("fetch", a, 2, NoFault, 0, 0) \in Outcomes
      OBVIOUS
    <3>3. Outcome("fetch", a, 4, 1, NextParcel(a), 0) \in Outcomes
      BY <2>1
    <3>4. Outcome("fetch", a, 4, NoFault, 0, 0) \in Outcomes
      OBVIOUS
    <3> QED BY <1>3, <3>1, <3>2, <3>3, <3>4 DEF Fetch
  <2> QED BY <1>0, <1>3, <2>2 DEF Fetch, TypeOK
<1>4. ASSUME NEW a \in Addr, NEW len \in 0 .. 4 * MaxWords, NEW v \in Values,
             LoadImage(a, len, v)
      PROVE  TypeOK'
  <2>1. len \in Nat
    BY MemoryAssumption
  <2>2. ASSUME NEW o \in Offsets, o \in Indices(a, len)
        PROVE  ByteOf(v, (o + Base - a) % 4) \in 0 .. Byte - 1
    <3>1. (o + Base - a) % 4 \in Nat
      BY <2>2, BusAssumption DEF Indices, Offsets, Addr
    <3> QED BY <1>v, <3>1, ByteOfType
  <2>3. mem' \in Memories
    BY <1>0, <1>4, <2>2 DEF LoadImage, Memories
  <2>4. last' \in Outcomes
    <3>1. /\ Outcome("image", a, len, 7, a, 0) \in Outcomes
          /\ Outcome("image", a, len, NoFault, 0, v) \in Outcomes
      BY <1>v, <2>1
    <3> QED BY <1>4, <3>1 DEF LoadImage
  <2> QED BY <2>3, <2>4 DEF TypeOK
<1>5. ASSUME NEW a \in Addr, NEW count \in 0 .. MaxWords, NEW v \in Values,
             LoadWords(a, count, v)
      PROVE  TypeOK'
  <2>1. 4 * count \in Nat
    BY MemoryAssumption
  <2>2. ASSUME NEW o \in Offsets PROVE ByteOf(v, (o + Base - a) % 4) \in 0 .. Byte - 1
    <3>1. (o + Base - a) % 4 \in Nat
      BY BusAssumption DEF Offsets, Addr
    <3> QED BY <1>v, <3>1, ByteOfType
  <2>3. mem' \in Memories
    BY <1>0, <1>5, <2>2 DEF LoadWords, Memories
  <2>4. PICK first \in 0 .. count :
          \/ last' = Outcome("words", a, 4 * count, NoFault, 0, v)
          \/ last' = Outcome("words", a, 4 * count, 7, WordAt(a, first), v)
    BY <1>5 DEF LoadWords
  <2>5. WordAt(a, first) \in Addr
    BY MemoryAssumption
  <2>6. last' \in Outcomes
    <3>1. Outcome("words", a, 4 * count, NoFault, 0, v) \in Outcomes
      BY <1>v, <2>1
    <3>2. Outcome("words", a, 4 * count, 7, WordAt(a, first), v) \in Outcomes
      BY <1>v, <2>1, <2>5
    <3> QED BY <2>4, <3>1, <3>2
  <2> QED BY <2>3, <2>6 DEF TypeOK
<1>6. ASSUME Clear PROVE TypeOK'
  <2>1. Byte \in Nat /\ Byte > 0
    BY BusAssumption
  <2>2. mem' \in Memories
    BY <1>6, <2>1 DEF Clear, Memories
  <2> QED BY <1>6, <2>2 DEF Clear, TypeOK
<1>7. ASSUME UNCHANGED mvars PROVE TypeOK'
  BY <1>0, <1>7 DEF mvars, TypeOK
<1> QED BY <1>1, <1>2, <1>3, <1>4, <1>5, <1>6, <1>7 DEF Next

\* The memory stays an array of bytes and every outcome is one the CPU can
\* report: in particular every fault address is an address.
THEOREM MemoryTyped == Spec => []TypeOK
<1>1. Init => TypeOK
  <2> SUFFICES ASSUME Init PROVE TypeOK
    OBVIOUS
  <2>1. Byte \in Nat /\ Byte > 0
    BY BusAssumption
  <2>2. mem \in Memories
    BY <2>1 DEF Init, Memories
  <2>3. last \in Outcomes
    BY AddrFacts, OutcomeType DEF Init, Kinds, NoFault
  <2> QED BY <2>2, <2>3 DEF TypeOK
<1> QED BY <1>1, TypeStep, PTL DEF Spec

(***************************************************************************)
(* Faults.                                                                 *)
(***************************************************************************)
\* check_addr, which adds in 64 bits, accepts exactly the accesses whose
\* bytes are all in the array.
LEMMA CheckAddrExact ==
  ASSUME NEW a \in Addr, NEW n \in Nat \ {0}
  PROVE  CheckAddr(a, n) <=> (\A i \in 0 .. n - 1 : a + i \in Region)
<1>1. a \in Nat /\ Base \in Nat /\ Size \in Nat
  BY BusAssumption DEF Addr
<1>2. ASSUME CheckAddr(a, n), NEW i \in 0 .. n - 1 PROVE a + i \in Region
  BY <1>1, <1>2 DEF CheckAddr, Region
<1>3. ASSUME \A i \in 0 .. n - 1 : a + i \in Region PROVE CheckAddr(a, n)
  <2>1. a + 0 \in Region /\ a + (n - 1) \in Region
    BY <1>3
  <2>2. HasBuffer
    BY <1>1, <2>1, BusAssumption DEF Region
  <2> QED BY <1>1, <2>1, <2>2 DEF CheckAddr, Region
<1> QED BY <1>2, <1>3

\* The fields of an outcome.
LEMMA OutcomeFields ==
  \A kind, a, n, cause, tval, value :
    LET r == Outcome(kind, a, n, cause, tval, value)
    IN  /\ r.kind = kind /\ r.at = a /\ r.bytes = n
        /\ r.cause = cause /\ r.tval = tval /\ r.value = value
BY DEF Outcome

\* Every step records an exact outcome.
LEMMA FaultStep == FaultsExact /\ [Next]_mvars => FaultsExact'
<1> SUFFICES ASSUME FaultsExact, [Next]_mvars PROVE FaultsExact'
  OBVIOUS
<1> USE OutcomeFields DEF NoFault
<1>1. ASSUME NEW lax \in Lax, NEW a \in Addr, NEW n \in Widths, Load(lax, a, n)
      PROVE  FaultsExact'
  <2>1. /\ last'.kind = "load" /\ last'.at = a /\ last'.bytes = n
        /\ last'.tval = a \/ last'.cause = NoFault
        /\ last'.cause \in {4, 5, NoFault}
        /\ last'.cause = 4 => a % n # 0
        /\ last'.cause = 5 => ~CheckAddr(a, n)
        /\ last'.cause = NoFault => CheckAddr(a, n)
    BY <1>1 DEF Load, Misaligned, Readable
  <2>2. CheckAddr(a, n) <=> (\A i \in 0 .. n - 1 : a + i \in Region)
    BY CheckAddrExact DEF Widths
  <2>3. Reached' = {a + i : i \in 0 .. n - 1}
    BY <2>1 DEF Reached
  <2> QED BY <2>1, <2>2, <2>3 DEF FaultsExact
<1>2. ASSUME NEW lax \in Lax, NEW a \in Addr, NEW n \in Widths, NEW v \in Values,
             Store(lax, a, n, v)
      PROVE  FaultsExact'
  <2>1. /\ last'.kind = "store" /\ last'.at = a /\ last'.bytes = n
        /\ last'.tval = a \/ last'.cause = NoFault
        /\ last'.cause \in {6, 7, NoFault}
        /\ last'.cause = 6 => a % n # 0
        /\ last'.cause = 7 => ~Writable(a, n)
        /\ last'.cause = NoFault => Writable(a, n)
    BY <1>2 DEF Store, Misaligned
  <2>2. CheckAddr(a, n) <=> (\A i \in 0 .. n - 1 : a + i \in Region)
    BY CheckAddrExact DEF Widths
  <2>3. Reached' = {a + i : i \in 0 .. n - 1}
    BY <2>1 DEF Reached
  <2>4. a \in Int /\ n \in Int
    BY BusAssumption DEF Addr, Widths
  <2>5. \A x \in a .. a + n - 1 : x \in Reached'
    BY <2>3, <2>4
  <2>6. Writable(a, n) => Reached' \subseteq Region
    BY <2>2, <2>3 DEF Writable
  <2>7. ~Writable(a, n) => ~(Reached' \subseteq Region \ ReadOnly)
    <3>1. ASSUME ~CheckAddr(a, n) PROVE ~(Reached' \subseteq Region)
      BY <2>2, <2>3, <3>1
    <3>2. ASSUME (a .. a + n - 1) \intersect ReadOnly # {}
          PROVE  ~(Reached' \subseteq Region \ ReadOnly)
      BY <2>5, <3>2
    <3> QED BY <3>1, <3>2 DEF Writable
  <2> QED BY <2>1, <2>6, <2>7 DEF FaultsExact
<1>3. ASSUME NEW a \in Addr, a % 2 = 0, Fetch(a) PROVE FaultsExact'
  <2> DEFINE b == NextParcel(a)
  <2>1. b \in Addr /\ (a + 1) % AddrSpace = a + 1
        /\ (a + 2) % AddrSpace = b /\ (a + 3) % AddrSpace = b + 1
    BY <1>3, ParcelAddr
  <2>2. (a + 0) % AddrSpace = a
    BY BusAssumption DEF Addr
  <2>3. /\ CheckAddr(a, 2) <=> a \in Region /\ a + 1 \in Region
        /\ CheckAddr(b, 2) <=> b \in Region /\ b + 1 \in Region
    BY <2>1, BusAssumption DEF CheckAddr, Region, Addr
  <2>4. /\ last'.kind = "fetch" /\ last'.at = a
        /\ \/ last'.bytes = 2 /\ last'.cause = 1 /\ last'.tval = a /\ ~CheckAddr(a, 2)
           \/ last'.bytes = 2 /\ last'.cause = NoFault /\ CheckAddr(a, 2)
           \/ /\ last'.bytes = 4 /\ last'.cause = 1 /\ last'.tval = b
              /\ CheckAddr(a, 2) /\ ~CheckAddr(b, 2)
           \/ /\ last'.bytes = 4 /\ last'.cause = NoFault
              /\ CheckAddr(a, 2) /\ CheckAddr(b, 2)
    BY <1>3 DEF Fetch, Readable
  <2> HIDE DEF b
  <2>5. Reached' = {(a + i) % AddrSpace : i \in 0 .. last'.bytes - 1}
    BY <2>4 DEF Reached
  <2>6. CASE last'.bytes = 2 /\ last'.cause = NoFault
    <3>1. \A i \in 0 .. 1 : (a + i) % AddrSpace \in Region
      BY <2>1, <2>2, <2>3, <2>4, <2>6
    <3>2. Reached' \subseteq Region
      BY <2>5, <2>6, <3>1
    <3> QED BY <2>6, <3>2 DEF FaultsExact
  <2>7. CASE last'.bytes = 4 /\ last'.cause = NoFault
    <3>1. \A i \in 0 .. 3 : (a + i) % AddrSpace \in Region
      <4>1. \A i \in 0 .. 3 : i \in {0, 1, 2, 3}
        OBVIOUS
      <4> QED BY <2>1, <2>2, <2>3, <2>4, <2>7, <4>1
    <3>2. Reached' \subseteq Region
      BY <2>5, <2>7, <3>1
    <3> QED BY <2>7, <3>2 DEF FaultsExact
  <2>8. CASE last'.cause = 1
    BY <2>3, <2>4, <2>8 DEF FaultsExact
  <2> QED BY <2>4, <2>6, <2>7, <2>8
<1>4. ASSUME NEW a \in Addr, NEW len \in 0 .. 4 * MaxWords, NEW v \in Values,
             LoadImage(a, len, v)
      PROVE  FaultsExact'
  BY <1>4 DEF LoadImage, FaultsExact
<1>5. ASSUME NEW a \in Addr, NEW count \in 0 .. MaxWords, NEW v \in Values,
             LoadWords(a, count, v)
      PROVE  FaultsExact'
  BY <1>5 DEF LoadWords, FaultsExact
<1>6. ASSUME Clear PROVE FaultsExact'
  BY <1>6 DEF Clear, FaultsExact
<1>7. ASSUME UNCHANGED mvars PROVE FaultsExact'
  BY <1>7 DEF mvars, FaultsExact, Reached
<1> QED BY <1>1, <1>2, <1>3, <1>4, <1>5, <1>6, <1>7 DEF Next

\* Wherever the array lies, and however close to the end of the address
\* space, an access that succeeds is inside it and one that faults is not,
\* and a fault reports the address that is missing.
THEOREM AlwaysExact == Spec => []FaultsExact
<1>1. Init => FaultsExact
  BY OutcomeFields DEF Init, FaultsExact
<1> QED BY <1>1, FaultStep, PTL DEF Spec

(***************************************************************************)
(* Stores.                                                                 *)
(***************************************************************************)
\* Quotient and remainder are the only ones.
LEMMA DivMod ==
  ASSUME NEW b \in Nat \ {0}, NEW q \in Nat, NEW r \in 0 .. b - 1
  PROVE  (b * q + r) \div b = q /\ (b * q + r) % b = r
<1>1. b * q \in Nat
  OBVIOUS
<1> QED
  BY <1>1

\* A value is what its quotient and remainder join to.
LEMMA Divided ==
  ASSUME NEW v \in Nat, NEW b \in Nat \ {0}
  PROVE  v \div b \in Nat /\ v % b \in 0 .. b - 1 /\ v = b * (v \div b) + (v % b)
OBVIOUS

\* The low digit of a numeral in base b, and the m values of the rest of it.
Digits(v, b, m, c) ==
  v % c = (v % b) + b * ((v \div b) % m) /\ v \div c = (v \div b) \div m

LEMMA DigitsOf ==
  ASSUME NEW v \in Nat, NEW b \in Nat \ {0}, NEW m \in Nat \ {0},
         NEW c, c = b * m
  PROVE  Digits(v, b, m, c)
<1> DEFINE q == v \div b
           r == v % b
           s == q \div m
           t == q % m
<1>1. q \in Nat /\ r \in 0 .. b - 1 /\ v = b * q + r
  BY Divided
<1> HIDE DEF q, r
<1>2. s \in Nat /\ t \in 0 .. m - 1 /\ q = m * s + t
  BY <1>1, Divided
<1> HIDE DEF s, t
<1>3. c \in Nat \ {0}
  OBVIOUS
<1>4. v = c * s + (b * t + r)
  <2>1. b * (m * s + t) = (b * m) * s + b * t
    BY <1>2
  <2>2. (b * m) * s \in Int /\ b * t \in Int
    BY <1>2
  <2> QED
    BY <1>1, <1>2, <2>1, <2>2
<1>5. b * t + r \in 0 .. c - 1
  <2>1. b * t >= 0 /\ b * t \in Int
    BY <1>2
  <2>2. b * t <= b * (m - 1)
    BY <1>2
  <2>3. b * (m - 1) = b * m - b
    OBVIOUS
  <2> QED
    BY <1>1, <1>3, <2>1, <2>2, <2>3
<1>6. v % c = b * t + r /\ v \div c = s
  <2> DEFINE d == b * t + r
  <2>1. d \in 0 .. c - 1 /\ v = c * s + d
    BY <1>4, <1>5
  <2> HIDE DEF d
  <2>2. v \div c = s /\ v % c = d
    BY <1>2, <1>3, <2>1, DivMod
  <2> QED
    BY <2>2 DEF d
<1>7. b * t + r = r + b * t
  BY <1>1, <1>2
<1> QED
  BY <1>6, <1>7 DEF q, r, s, t, Digits

\* The bytes of a value, joined as a read joins them, are the value cut to
\* their number.
LEMMA BytesJoin ==
  ASSUME NEW v \in Nat
  PROVE  /\ ByteOf(v, 0) = v % Weight(1)
         /\ ByteOf(v, 0) + Byte * ByteOf(v, 1) = v % Weight(2)
         /\ ByteOf(v, 0) + Byte * (ByteOf(v, 1) + Byte * (ByteOf(v, 2) + Byte * ByteOf(v, 3)))
              = v % Weight(4)
<1> DEFINE B == Byte
           BB == Byte * Byte
           BBB == Byte * Byte * Byte
           w == v \div B
           u == w \div B
<1>1. B \in Nat \ {0} /\ BB \in Nat \ {0} /\ BBB \in Nat \ {0}
  BY BusAssumption
<1>2. w \in Nat
  BY <1>1, Divided
<1>3. u \in Nat
  BY <1>1, <1>2, Divided
<1>4. /\ ByteOf(v, 0) = v % B
      /\ ByteOf(v, 1) = w % B
      /\ ByteOf(v, 2) = (v \div BB) % B
      /\ ByteOf(v, 3) = (v \div BBB) % B
  <2>1. v \div 1 = v
    OBVIOUS
  <2> QED
    BY <2>1 DEF ByteOf
<1>5. Weight(1) = B /\ Weight(2) = BB /\ Weight(4) = B * BBB
  <2>1. Weight(1) = Byte /\ Weight(2) = Byte * Byte /\ Weight(4) = Byte * Byte * Byte * Byte
    BY DEF Weight
  <2>2. Byte * Byte * Byte * Byte = Byte * (Byte * Byte * Byte)
    BY BusAssumption
  <2> QED
    BY <2>1, <2>2
<1>6. BB = B * B /\ BBB = B * BB
  BY <1>1
<1> DEFINE L == B * BBB
<1>l. L = B * BBB
  OBVIOUS
<1> HIDE DEF L, BB, BBB
<1>w. w = v \div B /\ u = w \div B
  OBVIOUS
<1> HIDE DEF w, u
<1>10. Byte = B
  OBVIOUS
<1> HIDE DEF B
<1>d. /\ Digits(v, B, B, BB) /\ Digits(v, B, BB, BBB) /\ Digits(v, B, BBB, L)
      /\ Digits(w, B, B, BB) /\ Digits(w, B, BB, BBB)
      /\ Digits(u, B, B, BB)
  BY <1>1, <1>2, <1>3, <1>6, <1>l, DigitsOf
<1>7. v \div BB = u /\ v % BB = (v % B) + B * (w % B)
  BY <1>d, <1>w DEF Digits
<1>8. v \div BBB = u \div B
  BY <1>d, <1>w DEF Digits
<1>9. v % L = (v % B) + B * ((w % B) + B * ((u % B) + B * ((u \div B) % B)))
  BY <1>d, <1>w DEF Digits
<1> QED
  BY <1>4, <1>5, <1>l, <1>7, <1>8, <1>9, <1>10

\* A read of a memory just written joins the bytes of the value.
LEMMA ReadWritten ==
  ASSUME NEW m, NEW a \in Addr, NEW n \in Widths, NEW v \in Nat, CheckAddr(a, n)
  PROVE  /\ Read(Write(m, a, n, v), a, n) = v % Weight(n)
         /\ \A i \in 0 .. n - 1 :
              Read(Write(m, a, n, v), a + i, 1) = (v \div Weight(i)) % Byte
<1> DEFINE w == Write(m, a, n, v)
           d == a - Base
<1>1. a \in Int /\ Base \in Int /\ Size \in Nat /\ n \in {1, 2, 4} /\ d \in Nat /\ d + n <= Size
  BY BusAssumption DEF CheckAddr, Addr, Widths
<1>2. ASSUME NEW i \in 0 .. n - 1 PROVE d + i \in Offsets /\ w[d + i] = ByteOf(v, i)
  <2>1. i \in Int /\ d + i \in Offsets /\ d + i \in Indices(a, n)
    BY <1>1 DEF Offsets, Indices
  <2>2. (d + i) - d = i
    BY <1>1, <2>1
  <2>3. w[d + i] = ByteOf(v, (d + i) - (a - Base))
    BY <2>1 DEF Write
  <2> QED
    BY <2>1, <2>2, <2>3
<1> HIDE DEF w
<1>3. Read(w, a, n) = v % Weight(n)
  <2>1. CASE n = 1
    <3>1. Read(w, a, n) = ByteOf(v, 0)
      BY <1>1, <1>2, <2>1 DEF Read
    <3> QED
      BY <2>1, <3>1, BytesJoin
  <2>2. CASE n = 2
    <3>1. Read(w, a, n) = ByteOf(v, 0) + Byte * ByteOf(v, 1)
      BY <1>1, <1>2, <2>2 DEF Read
    <3> QED
      BY <2>2, <3>1, BytesJoin
  <2>3. CASE n = 4
    <3>1. Read(w, a, n) =
            ByteOf(v, 0) + Byte * (ByteOf(v, 1) + Byte * (ByteOf(v, 2) + Byte * ByteOf(v, 3)))
      BY <1>1, <1>2, <2>3 DEF Read
    <3> QED
      BY <2>3, <3>1, BytesJoin
  <2> QED
    BY <1>1, <2>1, <2>2, <2>3
<1>4. ASSUME NEW i \in 0 .. n - 1
      PROVE  Read(w, a + i, 1) = (v \div Weight(i)) % Byte
  <2>1. (a + i) - Base + 0 = d + i
    BY <1>1
  <2>2. Read(w, a + i, 1) = w[d + i]
    BY <1>2, <2>1 DEF Read
  <2>3. i \in {0, 1, 2, 3}
    BY <1>1
  <2>4. ByteOf(v, i) = (v \div Weight(i)) % Byte
    BY <2>3 DEF ByteOf, Weight
  <2> QED
    BY <1>2, <2>2, <2>4
<1> QED
  BY <1>3, <1>4 DEF w

\* Only a store can record one.
LEMMA StoreStep == StoreIsRead /\ [Next]_mvars => StoreIsRead'
<1> SUFFICES ASSUME StoreIsRead, [Next]_mvars PROVE StoreIsRead'
  OBVIOUS
<1>1. ASSUME NEW lax \in Lax, NEW a \in Addr, NEW n \in Widths, NEW v \in Values,
             Store(lax, a, n, v)
      PROVE  StoreIsRead'
  <2>1. CASE Misaligned(lax, a, n) \/ ~Writable(a, n)
    BY <1>1, <2>1, OutcomeFields DEF Store, StoreIsRead, NoFault
  <2>2. CASE ~(Misaligned(lax, a, n) \/ ~Writable(a, n))
    <3>1. /\ CheckAddr(a, n) /\ mem' = Write(mem, a, n, v)
          /\ last'.at = a /\ last'.bytes = n /\ last'.value = v
      BY <1>1, <2>2, OutcomeFields DEF Store, Writable
    <3>2. v \in Nat
      <4>1. Byte \in Nat
        BY BusAssumption
      <4>2. Byte * Byte * Byte * Byte \in Int
        BY <4>1
      <4> QED
        BY <4>2, MemoryAssumption DEF Word
    <3>3. /\ Read(mem', a, n) = v % Weight(n)
          /\ \A i \in 0 .. n - 1 : Read(mem', a + i, 1) = (v \div Weight(i)) % Byte
      BY <3>1, <3>2, ReadWritten
    <3> QED
      BY <3>1, <3>3 DEF StoreIsRead
  <2> QED
    BY <2>1, <2>2
<1>2. CASE last'.kind # "store"
  BY <1>2 DEF StoreIsRead
<1>3. CASE UNCHANGED mvars
  <2>1. mem' = mem /\ last' = last
    BY <1>3 DEF mvars
  <2> QED
    BY <2>1 DEF StoreIsRead
<1>4. last'.kind # "store" \/ UNCHANGED mvars
      \/ \E lax \in Lax, a \in Addr, n \in Widths, v \in Values : Store(lax, a, n, v)
  <2>1. CASE \/ \E lax \in Lax, a \in Addr, n \in Widths : Load(lax, a, n)
             \/ \E a \in Addr : Fetch(a)
    BY <2>1, OutcomeFields DEF Load, Fetch
  <2>2. CASE \/ \E a \in Addr, len \in 0 .. 4 * MaxWords, v \in Values : LoadImage(a, len, v)
             \/ Clear
    BY <2>2, OutcomeFields DEF LoadImage, Clear
  <2>3. CASE \E a \in Addr, count \in 0 .. MaxWords, v \in Values : LoadWords(a, count, v)
    BY <2>3, OutcomeFields DEF LoadWords
  <2> QED
    BY <2>1, <2>2, <2>3 DEF Next
<1> QED
  BY <1>1, <1>2, <1>3, <1>4

\* What a store has written is what the next load of its width returns, and
\* its bytes lie in order, least significant first, for bytes of any size.
THEOREM StoresAreRead == Spec => []StoreIsRead
<1>1. Init => StoreIsRead
  BY OutcomeFields DEF Init, StoreIsRead
<1> QED
  BY <1>1, StoreStep, PTL DEF Spec

(***************************************************************************)
(* What an access may change.                                              *)
(***************************************************************************)
\* Going on from an address that has been wrapped comes to the same address.
LEMMA WrapOn ==
  ASSUME NEW x \in Nat, NEW k \in Nat
  PROVE  ((x % AddrSpace) + k) % AddrSpace = (x + k) % AddrSpace
<1> DEFINE m == AddrSpace
           q == x \div m
           r == x % m
           p == (r + k) \div m
           s == (r + k) % m
<1>1. m \in Nat \ {0}
  BY BusAssumption
<1>2. q \in Nat /\ r \in 0 .. m - 1 /\ x = m * q + r
  BY <1>1, Divided
<1> HIDE DEF m, q, r
<1>3. p \in Nat /\ s \in 0 .. m - 1 /\ r + k = m * p + s
  <2> DEFINE y == r + k
  <2>1. y \in Nat
    BY <1>1, <1>2
  <2> HIDE DEF y
  <2>2. y \div m \in Nat /\ y % m \in 0 .. m - 1 /\ y = m * (y \div m) + (y % m)
    BY <1>1, <2>1, Divided
  <2> QED
    BY <2>2 DEF y
<1> HIDE DEF p, s
<1>4. x + k = m * (q + p) + s
  <2>1. m * (q + p) = m * q + m * p /\ m * q \in Int /\ m * p \in Int
    BY <1>1, <1>2, <1>3
  <2> QED
    BY <1>2, <1>3, <2>1
<1>5. (x + k) % m = s
  <2> DEFINE y == x + k
             g == q + p
  <2>1. y = m * g + s /\ g \in Nat
    BY <1>2, <1>3, <1>4
  <2> HIDE DEF y, g
  <2>2. y % m = s
    BY <1>1, <1>3, <2>1, DivMod
  <2> QED
    BY <2>2 DEF y
<1> QED
  BY <1>5 DEF m, r, s

\* Byte k of word i of a program is byte 4 * i + k of the program.
LEMMA ByteOfWord ==
  ASSUME NEW a \in Addr, NEW i \in Nat, NEW o \in Offsets, o \in Indices(WordAt(a, i), 4)
  PROVE  \E k \in 0 .. 3 : (a + (4 * i + k)) % AddrSpace = (Base + o) % AddrSpace
<1> DEFINE w == WordAt(a, i)
           k == o - (w - Base)
<1>1. w \in Addr /\ a \in Nat /\ Base \in Nat /\ o \in Int /\ w \in Nat
  BY AddrFacts, BusAssumption DEF Addr, Offsets
<1>2. k \in 0 .. 3 /\ Base + o = w + k
  <2> HIDE DEF w
  <2> QED
    BY <1>1 DEF Indices, w
<1>3. (w + k) % AddrSpace = ((a + 4 * i) + k) % AddrSpace
  <2>1. a + 4 * i \in Nat /\ k \in Nat
    BY <1>1, <1>2
  <2> HIDE DEF k
  <2> QED
    BY <2>1, WrapOn DEF WordAt
<1>4. (a + 4 * i) + k = a + (4 * i + k)
  BY <1>1, <1>2
<1> QED
  BY <1>2, <1>3, <1>4

\* An array index among those of an access is that of one of its bytes.
LEMMA ByteOfAccess ==
  ASSUME NEW a \in Addr, NEW n \in Nat, NEW o \in Offsets, o \in Indices(a, n)
  PROVE  \E i \in 0 .. n - 1 : (a + i) % AddrSpace = (Base + o) % AddrSpace
<1>1. a \in Int /\ Base \in Int /\ o \in Int
  BY BusAssumption DEF Addr, Offsets
<1>2. o - (a - Base) \in 0 .. n - 1 /\ a + (o - (a - Base)) = Base + o
  BY <1>1 DEF Indices
<1> QED
  BY <1>2

\* Loads and fetches change no memory.
LEMMA ReadersChangeNothing ==
  ASSUME [Next]_mvars
  PROVE  \/ mem' = mem
         \/ \E lax \in Lax, a \in Addr, n \in Widths, v \in Values : Store(lax, a, n, v)
         \/ \E a \in Addr, len \in 0 .. 4 * MaxWords, v \in Values : LoadImage(a, len, v)
         \/ \E a \in Addr, count \in 0 .. MaxWords, v \in Values : LoadWords(a, count, v)
         \/ Clear
BY DEF Next, Load, Fetch, mvars

\* Every change is of a byte the access addresses, whatever the bases, sizes
\* and wraps, and an access that faults changes nothing.
THEOREM OnlyAddressedChange == Spec => ChangesAreAddressed
<1> DEFINE Ok == last'.kind # "none" =>
       /\ \A o \in Offsets :
            mem'[o] # mem[o] => \E i \in 0 .. last'.bytes - 1 :
                                  (last'.at + i) % AddrSpace = (Base + o) % AddrSpace
       /\ last'.cause # NoFault /\ last'.kind # "words" => mem' = mem
<1>1. ASSUME [Next]_mvars PROVE [Ok]_mvars
  <2>1. CASE mem' = mem
    BY <2>1
  <2>2. ASSUME NEW lax \in Lax, NEW a \in Addr, NEW n \in Widths, NEW v \in Values,
               Store(lax, a, n, v), mem' # mem
        PROVE  Ok
    <3>1. /\ mem' = Write(mem, a, n, v) /\ n \in Nat
          /\ last'.at = a /\ last'.bytes = n /\ last'.cause = NoFault
      BY <2>2, OutcomeFields DEF Store, Widths
    <3>2. ASSUME NEW o \in Offsets, mem'[o] # mem[o] PROVE o \in Indices(a, n)
      BY <3>1, <3>2 DEF Write
    <3> QED
      BY <3>1, <3>2, ByteOfAccess
  <2>3. ASSUME NEW a \in Addr, NEW len \in 0 .. 4 * MaxWords, NEW v \in Values,
               LoadImage(a, len, v), mem' # mem
        PROVE  Ok
    <3>1. /\ len \in Nat /\ last'.at = a /\ last'.bytes = len /\ last'.cause = NoFault
          /\ \A o \in Offsets : mem'[o] # mem[o] => o \in Indices(a, len)
      BY <2>3, OutcomeFields, MemoryAssumption DEF LoadImage
    <3> QED
      BY <3>1, ByteOfAccess
  <2>4. ASSUME NEW a \in Addr, NEW count \in 0 .. MaxWords, NEW v \in Values,
               LoadWords(a, count, v)
        PROVE  Ok
    <3>1. /\ count \in Nat /\ last'.kind = "words" /\ last'.at = a /\ last'.bytes = 4 * count
          /\ \A o \in Offsets : mem'[o] # mem[o] =>
               \E i \in 0 .. count - 1 : o \in Indices(WordAt(a, i), 4)
      BY <2>4, OutcomeFields, MemoryAssumption DEF LoadWords, StoredWords
    <3>2. ASSUME NEW o \in Offsets, mem'[o] # mem[o]
          PROVE  \E i \in 0 .. last'.bytes - 1 :
                   (last'.at + i) % AddrSpace = (Base + o) % AddrSpace
      <4>1. PICK i \in 0 .. count - 1 : o \in Indices(WordAt(a, i), 4)
        BY <3>1, <3>2
      <4>2. PICK k \in 0 .. 3 : (a + (4 * i + k)) % AddrSpace = (Base + o) % AddrSpace
        BY <3>1, <4>1, ByteOfWord
      <4>3. 4 * i + k \in 0 .. 4 * count - 1
        BY <3>1
      <4> QED
        BY <3>1, <4>2, <4>3
    <3> QED
      BY <3>1, <3>2
  <2>5. CASE Clear
    BY <2>5, OutcomeFields DEF Clear
  <2> QED
    BY <1>1, <2>1, <2>2, <2>3, <2>4, <2>5, ReadersChangeNothing
<1> QED
  BY <1>1, PTL DEF Spec, ChangesAreAddressed

\* Words of a program are whole words apart, also beyond the end of the address
\* space: byte k of one comes from byte k of the program's word.
LEMMA WordsApart ==
  ASSUME NEW a \in Addr, NEW i \in Nat
  PROVE  \A k \in 0 .. 3 : (WordAt(a, i) + k - a) % 4 = k
<1> DEFINE x == a + 4 * i
           q == x \div AddrSpace
           p == AddrSpace \div 4
           w == WordAt(a, i)
           t == p * q
           z == i - t
<1>1. AddrSpace \in Nat \ {0} /\ a \in Nat /\ x \in Nat /\ p \in Nat /\ AddrSpace = 4 * p
  BY BusAssumption DEF Addr
<1>2. q \in Nat /\ w \in Nat /\ x = AddrSpace * q + w
  <2> HIDE DEF x
  <2>1. x \div AddrSpace \in Nat /\ x % AddrSpace \in 0 .. AddrSpace - 1
        /\ x = AddrSpace * (x \div AddrSpace) + (x % AddrSpace)
    BY <1>1, Divided
  <2> QED BY <1>1, <2>1 DEF WordAt, x
<1> HIDE DEF q, p, w
<1>3. t \in Nat /\ AddrSpace * q = 4 * t
  BY <1>1, <1>2
<1> HIDE DEF t
<1>4. z \in Int /\ w - a = 4 * z
  BY <1>1, <1>2, <1>3
<1> HIDE DEF z
<1>5. ASSUME NEW k \in 0 .. 3 PROVE (w + k - a) % 4 = k
  <2>1. w + k - a = 4 * z + k
    BY <1>1, <1>2, <1>4
  <2> QED BY <1>4, <2>1
<1> QED BY <1>5 DEF w

\* A word is inside the array when all its bytes are.
LEMMA WordInside ==
  ASSUME NEW a \in Addr
  PROVE  CheckAddr(a, 4) <=> a .. a + 3 \subseteq Region
<1>1. a \in Int
  BY BusAssumption DEF Addr
<1>2. ASSUME CheckAddr(a, 4) PROVE a .. a + 3 \subseteq Region
  BY <1>1, <1>2, BusAssumption DEF CheckAddr, Region
<1>3. ASSUME a .. a + 3 \subseteq Region PROVE CheckAddr(a, 4)
  <2>1. \A k \in 0 .. 3 : a + k \in a .. a + 3
    BY <1>1
  <2> QED BY <1>3, <2>1, CheckAddrExact
<1> QED BY <1>2, <1>3

\* A read of a word whose bytes are those of a value is the value.
LEMMA ReadWord ==
  ASSUME NEW m, NEW a \in Addr, NEW v \in Word, CheckAddr(a, 4),
         \A k \in 0 .. 3 : m[(a - Base) + k] = ByteOf(v, k)
  PROVE  Read(m, a, 4) = v
<1> DEFINE d == a - Base
<1>1. d \in Nat /\ d + 4 <= Size /\ Size \in Nat
  BY BusAssumption DEF CheckAddr, Addr
<1>2. d + 0 \in Offsets /\ d + 1 \in Offsets /\ d + 2 \in Offsets /\ d + 3 \in Offsets
  BY <1>1 DEF Offsets
<1>3. /\ m[d + 0] = ByteOf(v, 0) /\ m[d + 1] = ByteOf(v, 1)
      /\ m[d + 2] = ByteOf(v, 2) /\ m[d + 3] = ByteOf(v, 3)
  OBVIOUS
<1>4. Read(m, a, 4) =
        ByteOf(v, 0) + Byte * (ByteOf(v, 1) + Byte * (ByteOf(v, 2) + Byte * ByteOf(v, 3)))
  BY <1>2, <1>3 DEF Read
<1>5. Weight(4) \in Nat \ {0} /\ v \in 0 .. Weight(4) - 1
  <2>1. Weight(4) = Byte * Byte * Byte * Byte
    BY DEF Weight
  <2>2. Byte * Byte * Byte * Byte \in Int
    BY BusAssumption
  <2> QED BY <2>1, <2>2 DEF Word
<1>6. v \in Nat /\ v % Weight(4) = v
  BY <1>5
<1> QED BY <1>4, <1>6, BytesJoin

\* A word of a program that was stored reads as the program has it.
LEMMA StoredIsRead ==
  ASSUME NEW a \in Addr, NEW count \in Nat, NEW v \in Word, NEW i \in StoredWords(a, count),
         mem' = [o \in Offsets |->
                   IF \E j \in StoredWords(a, count) : o \in Indices(WordAt(a, j), 4)
                     THEN ByteOf(v, (o + Base - a) % 4)
                     ELSE mem[o]]
  PROVE  Read(mem', WordAt(a, i), 4) = v
<1> DEFINE w == WordAt(a, i)
<1>1. i \in Nat /\ w \in Addr /\ CheckAddr(w, 4)
  BY AddrFacts DEF StoredWords
<1>2. \A k \in 0 .. 3 : (w + k - a) % 4 = k
  BY <1>1, WordsApart
<1>3. \A o \in Indices(w, 4) : \E j \in StoredWords(a, count) : o \in Indices(WordAt(a, j), 4)
  OBVIOUS
<1> HIDE DEF w
<1>4. ASSUME NEW k \in 0 .. 3 PROVE mem'[(w - Base) + k] = ByteOf(v, k)
  <2> DEFINE o == (w - Base) + k
  <2>1. w \in Int /\ Base \in Int /\ a \in Int /\ Size \in Int
    BY <1>1, BusAssumption DEF Addr
  <2>2. o \in Indices(w, 4) /\ o \in Offsets /\ o + Base - a = w + k - a
    BY <1>1, <2>1 DEF CheckAddr, Indices, Offsets
  <2> HIDE DEF o
  <2>3. mem'[o] = ByteOf(v, (o + Base - a) % 4)
    BY <1>3, <2>2
  <2>4. (o + Base - a) % 4 = k
    BY <1>2, <2>2
  <2> QED BY <2>3, <2>4 DEF o
<1>5. Read(mem', w, 4) = v
  BY <1>1, <1>4, ReadWord
<1> QED BY <1>5 DEF w

\* A program load that throws has stored the words before the one it reports,
\* and nothing else, for arrays and programs of any size.
THEOREM PrefixIsLoaded == Spec => ProgramPrefix
<1> DEFINE word(i) == (last'.at + 4 * i) % AddrSpace
           inside(i) == word(i) .. word(i) + 3 \subseteq Region
           loaded(n) == \A i \in 0 .. n - 1 : inside(i) /\ Read(mem', word(i), 4) = last'.value
           within(n) == \A o \in Offsets : mem'[o] # mem[o] =>
                          \E j \in 0 .. 4 * n - 1 :
                            (last'.at + j) % AddrSpace = (Base + o) % AddrSpace
           Ok == last'.kind = "words" /\ last'.cause # NoFault =>
                   \E n \in 0 .. MaxWords - 1 :
                     /\ word(n) = last'.tval /\ ~inside(n)
                     /\ loaded(n)
                     /\ within(n)
<1>1. ASSUME [Next]_mvars PROVE [Ok]_mvars
  <2>1. CASE last'.kind # "words"
    BY <2>1
  <2>2. ASSUME NEW a \in Addr, NEW count \in 0 .. MaxWords, NEW v \in Values,
               LoadWords(a, count, v), last'.cause # NoFault
        PROVE  Ok
    <3> DEFINE stored == StoredWords(a, count)
    <3>1. PICK first \in 0 .. count :
            /\ \A i \in 0 .. first - 1 : CheckAddr(WordAt(a, i), 4)
            /\ IF first = count
                 THEN last' = Outcome("words", a, 4 * count, NoFault, 0, v)
                 ELSE /\ ~CheckAddr(WordAt(a, first), 4)
                      /\ last' = Outcome("words", a, 4 * count, 7, WordAt(a, first), v)
      BY <2>2 DEF LoadWords
    <3>2. /\ count \in Nat /\ count <= MaxWords /\ MaxWords \in Nat /\ first \in Nat
          /\ first < count /\ ~CheckAddr(WordAt(a, first), 4)
          /\ last'.at = a /\ last'.tval = WordAt(a, first) /\ last'.value = v
      BY <2>2, <3>1, OutcomeFields, MemoryAssumption
    <3>3. \A i \in Nat : /\ word(i) = WordAt(a, i) /\ WordAt(a, i) \in Addr
                         /\ inside(i) <=> CheckAddr(WordAt(a, i), 4)
      BY <3>2, AddrFacts, WordInside DEF WordAt
    <3>4. word(first) = last'.tval /\ ~inside(first)
      BY <3>2, <3>3
    <3>5. loaded(first)
      <4>1. SUFFICES ASSUME NEW i \in 0 .. first - 1
                     PROVE  inside(i) /\ Read(mem', word(i), 4) = last'.value
        OBVIOUS
      <4>2. i \in Nat /\ i \in 0 .. count - 1 /\ \A j \in 0 .. i : j \in 0 .. first - 1
        BY <3>2
      <4>3. i \in stored /\ CheckAddr(WordAt(a, i), 4)
        BY <3>1, <4>2 DEF StoredWords
      <4>4. Read(mem', WordAt(a, i), 4) = v
        BY <2>2, <3>2, <4>3, StoredIsRead, MemoryAssumption DEF LoadWords
      <4> QED BY <3>2, <3>3, <4>2, <4>3, <4>4
    <3>6. within(first)
      <4>1. SUFFICES ASSUME NEW o \in Offsets, mem'[o] # mem[o]
                     PROVE  \E j \in 0 .. 4 * first - 1 :
                              (a + j) % AddrSpace = (Base + o) % AddrSpace
        BY <3>2
      <4>2. PICK i \in stored : o \in Indices(WordAt(a, i), 4)
        BY <2>2, <4>1 DEF LoadWords
      <4>3. i \in 0 .. count - 1 /\ \A j \in 0 .. i : CheckAddr(WordAt(a, j), 4)
        BY DEF StoredWords
      <4>4. i < first
        <5>1. SUFFICES ASSUME first <= i PROVE FALSE
          BY <3>2, <4>3
        <5>2. first \in 0 .. i
          BY <3>2, <4>3, <5>1
        <5> QED BY <3>2, <4>3, <5>2
      <4>5. PICK k \in 0 .. 3 : (a + (4 * i + k)) % AddrSpace = (Base + o) % AddrSpace
        BY <4>2, <4>3, ByteOfWord
      <4>6. 4 * i + k \in 0 .. 4 * first - 1
        BY <3>2, <4>3, <4>4
      <4> QED BY <4>5, <4>6
    <3>7. first \in 0 .. MaxWords - 1
      BY <3>2
    <3> HIDE DEF word, inside, loaded, within
    <3> QED BY <3>4, <3>5, <3>6, <3>7
  <2>3. \/ UNCHANGED mvars \/ last'.kind # "words"
        \/ \E a \in Addr, count \in 0 .. MaxWords, v \in Values : LoadWords(a, count, v)
    BY <1>1, OutcomeFields DEF Next, Load, Store, Fetch, LoadImage, Clear
  <2> QED
    BY <2>1, <2>2, <2>3
<1> QED
  BY <1>1, PTL DEF Spec, ProgramPrefix
=============================================================================
