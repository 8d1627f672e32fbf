-------------------------------- MODULE Bus --------------------------------
(***************************************************************************)
(* Memory as the executors see it: a Bus that answers or throws.  The      *)
(* operators here are SimpleMemory (riscv_common.hpp), a byte array mapped *)
(* at Base, and the bus a user writes: one that also refuses to write some *)
(* of its addresses.  Addresses are 32-bit, so the end of the array may be *)
(* the end of the address space, where unsigned arithmetic wraps.          *)
(***************************************************************************)
EXTENDS Integers

CONSTANTS
  AddrSpace,   \* number of addresses; 2^32 in the code
  HasBuffer,   \* SimpleMemory::mem is not null
  Base,        \* SimpleMemory::base_addr
  Size,        \* SimpleMemory::mem_size
  Byte,        \* number of values of a byte; 256 in the code
  ReadOnly     \* addresses whose writes a user's Bus throws on

ASSUME BusAssumption ==
  /\ AddrSpace \in Nat \ {0} /\ AddrSpace % 4 = 0
  /\ Base \in 0 .. AddrSpace - 1
  /\ Size \in Nat
  /\ HasBuffer \in BOOLEAN /\ (Size > 0 => HasBuffer)
  /\ Byte \in Nat \ {0} /\ Byte % 4 = 0
  /\ ReadOnly \subseteq 0 .. AddrSpace - 1

Addr == 0 .. AddrSpace - 1
Word == 0 .. (Byte * Byte * Byte * Byte) - 1
Widths == {1, 2, 4}
Offsets == 0 .. Size - 1
Memories == [Offsets -> 0 .. Byte - 1]

\* Variants named ...Bug are mutants: plausible mistakes in the definition
\* that follows them, which a property must expose.
\* The sum is computed in 32 bits and wraps.
CheckAddrBug(a, n) == HasBuffer /\ a >= Base /\ ((a - Base) + n) % AddrSpace <= Size

\* check_addr does not throw.  A memory that was moved from has neither buffer
\* nor bytes; it refuses even an access to no byte.
CheckAddr(a, n) == HasBuffer /\ a >= Base /\ (a - Base) + n <= Size

\* One byte too many.
IndicesBug(a, n) == (a - Base) .. (a - Base) + n

\* The array indices of the n bytes at a.
Indices(a, n) == (a - Base) .. (a - Base) + n - 1

\* read8, read16, read32: little-endian.  An index outside the array would
\* read whatever is there; CheckAddr excludes it.
Read(mem, a, n) ==
  LET at(i) == IF a - Base + i \in Offsets THEN mem[a - Base + i] ELSE 0
  IN  CASE n = 1 -> at(0)
        [] n = 2 -> at(0) + Byte * at(1)
        [] n = 4 -> at(0) + Byte * (at(1) + Byte * (at(2) + Byte * at(3)))

\* Byte i of a value, 0 the least significant.
ByteOf(v, i) ==
  (v \div (CASE i = 0 -> 1 [] i = 1 -> Byte
             [] i = 2 -> Byte * Byte [] OTHER -> Byte * Byte * Byte)) % Byte

\* The most significant byte goes first.
WriteBug(mem, a, n, v) ==
  [o \in Offsets |-> IF o \in Indices(a, n)
                       THEN ByteOf(v, n - 1 - (o - (a - Base)))
                       ELSE mem[o]]

\* write8, write16, write32.
Write(mem, a, n, v) ==
  [o \in Offsets |-> IF o \in Indices(a, n)
                       THEN ByteOf(v, o - (a - Base))
                       ELSE mem[o]]

Readable(a, n) == CheckAddr(a, n)
Writable(a, n) == CheckAddr(a, n) /\ (a .. a + n - 1) \intersect ReadOnly = {}
=============================================================================
