------------------------------- MODULE Memory -------------------------------
(***************************************************************************)
(* The data and instruction accesses of the hart to a SimpleMemory, with   *)
(* the natural-alignment check and the translation of bus errors of        *)
(* mem_access (riscv_common.hpp), the two-parcel fetch of CPU::step, and   *)
(* the host's ways to load a program.  What the loaded values are used for *)
(* is left out; who faults, with which address, and what a failing access  *)
(* has already done, is not.                                               *)
(***************************************************************************)
EXTENDS Bus

CONSTANTS
  Lax,         \* settings of CPUConfig::allow_misaligned_data between steps
  Values,      \* values the program stores
  MaxWords     \* bound: length of a program image, in words

ASSUME MemoryAssumption ==
  /\ Lax \subseteq BOOLEAN
  /\ Values \subseteq Word
  /\ MaxWords \in Nat

VARIABLES
  mem,    \* SimpleMemory::mem
  last    \* the last access: its kind, first byte, width and outcome

mvars == <<mem, last>>

NoFault == 99
Kinds == {"none", "load", "store", "fetch", "image", "words"}
Outcomes == [kind : Kinds, at : Addr, bytes : Nat, cause : {1, 4, 5, 6, 7, NoFault},
             tval : Addr, value : Nat]

Outcome(kind, a, n, cause, tval, value) ==
  [kind |-> kind, at |-> a, bytes |-> n, cause |-> cause, tval |-> tval, value |-> value]

Misaligned(lax, a, n) == ~lax /\ n > 1 /\ a % n # 0

\* mem_access::load
Load(lax, a, n) ==
  /\ last' = IF Misaligned(lax, a, n) THEN Outcome("load", a, n, 4, a, 0)
             ELSE IF ~Readable(a, n) THEN Outcome("load", a, n, 5, a, 0)
             ELSE Outcome("load", a, n, NoFault, 0, Read(mem, a, n))
  /\ UNCHANGED mem

\* mem_access::store; v is truncated to the width by the bytes written.
Store(lax, a, n, v) ==
  IF Misaligned(lax, a, n) \/ ~Writable(a, n)
    THEN /\ last' = Outcome("store", a, n, IF Misaligned(lax, a, n) THEN 6 ELSE 7, a, 0)
         /\ UNCHANGED mem
    ELSE /\ last' = Outcome("store", a, n, NoFault, 0, v)
         /\ mem' = Write(mem, a, n, v)

\* Whether a parcel begins a 32-bit instruction.
Wide(parcel) == parcel % 4 = 3

\* The fault reports the pc.
NextParcelBug(a) == a

\* The second parcel's address does not wrap.
NextParcelWideBug(a) == a + 2

NextParcel(a) == (a + 2) % AddrSpace

\* The fetch of CPU::step: the second parcel is read only if there is one,
\* and its fault reports its own address.
Fetch(a) ==
  /\ last' =
       IF ~Readable(a, 2) THEN Outcome("fetch", a, 2, 1, a, 0)
       ELSE IF ~Wide(Read(mem, a, 2)) THEN Outcome("fetch", a, 2, NoFault, 0, 0)
       ELSE IF ~Readable(NextParcel(a), 2) THEN Outcome("fetch", a, 4, 1, NextParcel(a), 0)
       ELSE Outcome("fetch", a, 4, NoFault, 0, 0)
  /\ UNCHANGED mem

\* SimpleMemory::load of a byte image: checked as a whole, then copied.  The
\* image repeats the word v.  Cause 7 stands for the BusFault the host gets.
LoadImage(a, len, v) ==
  IF ~CheckAddr(a, len)
    THEN /\ last' = Outcome("image", a, len, 7, a, 0)
         /\ UNCHANGED mem
    ELSE /\ last' = Outcome("image", a, len, NoFault, 0, v)
         /\ mem' = [o \in Offsets |->
                      IF o \in Indices(a, len)
                        THEN ByteOf(v, (o + Base - a) % 4)
                        ELSE mem[o]]

WordAt(a, i) == (a + 4 * i) % AddrSpace

\* The loop goes on after a word that throws.
StoredWordsBug(a, count) == {i \in 0 .. count - 1 : CheckAddr(WordAt(a, i), 4)}

\* Nothing is written unless every word can be, as for a byte image.
StoredWordsNoneBug(a, count) ==
  {i \in 0 .. count - 1 : \A j \in 0 .. count - 1 : CheckAddr(WordAt(a, j), 4)}

\* The words before the one that throws; all of them if none does.
StoredWords(a, count) ==
  {i \in 0 .. count - 1 : \A j \in 0 .. i : CheckAddr(WordAt(a, j), 4)}

\* System::load_program of an array of instructions: one write32 per word,
\* so that an exception leaves the words before it written.
LoadWords(a, count, v) ==
  /\ \E first \in 0 .. count :
       /\ \A i \in 0 .. first - 1 : CheckAddr(WordAt(a, i), 4)
       /\ IF first = count
            THEN last' = Outcome("words", a, 4 * count, NoFault, 0, v)
            ELSE /\ ~CheckAddr(WordAt(a, first), 4)
                 /\ last' = Outcome("words", a, 4 * count, 7, WordAt(a, first), v)
  /\ mem' = [o \in Offsets |->
               IF \E i \in StoredWords(a, count) : o \in Indices(WordAt(a, i), 4)
                 THEN ByteOf(v, (o + Base - a) % 4)
                 ELSE mem[o]]

\* SimpleMemory::clear, of System::reset.
Clear ==
  /\ mem' = [o \in Offsets |-> 0]
  /\ last' = Outcome("none", 0, 0, NoFault, 0, 0)

Init ==
  /\ mem = [o \in Offsets |-> 0]
  /\ last = Outcome("none", 0, 0, NoFault, 0, 0)

Next ==
  \/ \E lax \in Lax, a \in Addr, n \in Widths : Load(lax, a, n)
  \/ \E lax \in Lax, a \in Addr, n \in Widths, v \in Values : Store(lax, a, n, v)
  \/ \E a \in Addr : a % 2 = 0 /\ Fetch(a)
  \/ \E a \in Addr, len \in 0 .. 4 * MaxWords, v \in Values : LoadImage(a, len, v)
  \/ \E a \in Addr, count \in 0 .. MaxWords, v \in Values : LoadWords(a, count, v)
  \/ Clear

Spec == Init /\ [][Next]_mvars

(***************************************************************************)
(* Properties.                                                             *)
(***************************************************************************)
\* The variables have their types.
TypeOK == mem \in Memories /\ last \in Outcomes

\* The addresses the memory answers at.  They are not wrapped: an array that
\* reached beyond the address space would be addressed only from below.
Region == Base .. Base + Size - 1

\* The bytes the last access needed: a fetch goes round the end of the
\* address space between its parcels, a data access does not.
Reached ==
  {IF last.kind = "fetch" THEN (last.at + i) % AddrSpace ELSE last.at + i :
     i \in 0 .. last.bytes - 1}

\* An access of the hart that succeeds stays inside the array, to the last
\* byte and at the top of the address space too; one that faults has a byte
\* the bus does not answer at, and reports where: at its own address, or for
\* a fetch at the parcel that is missing, all before it being there.
FaultsExact ==
  last.kind \in {"load", "store", "fetch"} =>
    /\ last.cause = NoFault => Reached \subseteq Region
    /\ last.cause = 1 => /\ ~({last.tval, last.tval + 1} \subseteq Region)
                         /\ last.tval # last.at => {last.at, last.at + 1} \subseteq Region
    /\ last.cause = 5 => last.tval = last.at /\ ~(Reached \subseteq Region)
    /\ last.cause = 7 => last.tval = last.at /\ ~(Reached \subseteq Region \ ReadOnly)
    /\ last.cause \in {4, 6} => last.tval = last.at /\ last.at % last.bytes # 0

\* What byte i counts for, and the number of values of i bytes.
Weight(i) == CASE i = 0 -> 1 [] i = 1 -> Byte [] i = 2 -> Byte * Byte
               [] i = 3 -> Byte * Byte * Byte [] OTHER -> Byte * Byte * Byte * Byte

\* A store is what the next load of its width returns, truncated to it, and
\* each of its bytes is where a byte load finds it, least significant first.
StoreIsRead ==
  last.kind = "store" /\ last.cause = NoFault =>
    /\ Read(mem, last.at, last.bytes) = last.value % Weight(last.bytes)
    /\ \A i \in 0 .. last.bytes - 1 :
         Read(mem, last.at + i, 1) = (last.value \div Weight(i)) % Byte

\* Nothing changes a byte outside the range it addresses, and a faulting
\* access, or byte image, changes nothing at all.  (Clear is not an access.)
ChangesAreAddressed ==
  [][last'.kind # "none" =>
       /\ \A o \in Offsets :
            mem'[o] # mem[o] => \E i \in 0 .. last'.bytes - 1 :
                                  (last'.at + i) % AddrSpace = (Base + o) % AddrSpace
       /\ last'.cause # NoFault /\ last'.kind # "words" => mem' = mem]_mvars

\* A program load by words that throws has written every word before the one
\* at the address it reports, as a load of it returns; that word is the first
\* that is not all in memory; and no byte beyond the words before it changes.
ProgramPrefix ==
  [][last'.kind = "words" /\ last'.cause # NoFault =>
       LET word(i) == (last'.at + 4 * i) % AddrSpace
           inside(i) == word(i) .. word(i) + 3 \subseteq Region
       IN  \E n \in 0 .. MaxWords - 1 :
             /\ word(n) = last'.tval /\ ~inside(n)
             /\ \A i \in 0 .. n - 1 : inside(i) /\ Read(mem', word(i), 4) = last'.value
             /\ \A o \in Offsets : mem'[o] # mem[o] =>
                  \E j \in 0 .. 4 * n - 1 :
                    (last'.at + j) % AddrSpace = (Base + o) % AddrSpace]_mvars
=============================================================================
