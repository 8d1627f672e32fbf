---------------------------- MODULE AtomicCells ----------------------------
(***************************************************************************)
(* What the A extension promises the tasks of a guest: words of memory     *)
(* that are only ever changed by whole read-modify-write operations.  How  *)
(* the operations are made, by an LR/SC loop or by an AMO, and which task  *)
(* makes them, cannot be seen.                                             *)
(***************************************************************************)
EXTENDS Integers

CONSTANTS
  Bits,        \* width of a word; 32 in the code
  Words,       \* the aligned word addresses that answer
  ReadOnly     \* those whose writes throw

VARIABLES
  cell,
  done      \* the operation just made, with the word it found

lvars == <<cell, done>>

Word == 0 .. 2 ^ Bits - 1

Signed(w) == IF w < 2 ^ (Bits - 1) THEN w ELSE w - 2 ^ Bits

BitsOf(w) == {i \in 0 .. Bits - 1 : (w \div 2 ^ i) % 2 = 1}

WordOf(s) == CHOOSE w \in Word : BitsOf(w) = s

\* Variants named ...Bug are mutants, here and in Atomics: plausible mistakes
\* in the definition that follows them, which a property must expose.
\* The sum does not wrap.
SumBug(x, y) == x + y

Sum(x, y) == (x + y) % 2 ^ Bits

\* What each AMO leaves in memory, from the word there and rs2.
Ops == {"swap", "add", "xor", "and", "or", "min", "max", "minu", "maxu"}

Combine(op, old, x) ==
  CASE op = "swap" -> x
    [] op = "add"  -> Sum(old, x)
    [] op = "xor"  -> WordOf((BitsOf(old) \ BitsOf(x)) \union (BitsOf(x) \ BitsOf(old)))
    [] op = "and"  -> WordOf(BitsOf(old) \intersect BitsOf(x))
    [] op = "or"   -> WordOf(BitsOf(old) \union BitsOf(x))
    [] op = "min"  -> IF Signed(old) < Signed(x) THEN old ELSE x
    [] op = "max"  -> IF Signed(old) > Signed(x) THEN old ELSE x
    [] op = "minu" -> IF old < x THEN old ELSE x
    [] op = "maxu" -> IF old > x THEN old ELSE x

Operation(op, a, x, old) == [op |-> op, at |-> a, x |-> x, old |-> old]
NoOperation == Operation("none", 0, 0, 0)

Init == cell \in [Words -> Word] /\ done = NoOperation

Modify(op, a, x) ==
  /\ done' = Operation(op, a, x, cell[a])
  /\ cell' = [cell EXCEPT ![a] = Combine(op, @, x)]

Next ==
  \/ \E op \in Ops, a \in Words \ ReadOnly, x \in Word : Modify(op, a, x)
  \/ done' = NoOperation /\ UNCHANGED cell

Spec == Init /\ [][Next]_lvars
=============================================================================
