------------------------------ MODULE Counters ------------------------------
(***************************************************************************)
(* mcycle/mcycleh and minstret/minstreth: how CPU::bump_cycle and          *)
(* CPU::bump_instret carry between the halves, which steps of the hart     *)
(* call them, and how a program that reads through the shadows cycle(h),   *)
(* time(h) and instret(h) puts a value together.  The program reads the    *)
(* high half, the low half and the high half again, as the ISA manual      *)
(* says; traps whose handlers run any instructions may come between.       *)
(***************************************************************************)
EXTENDS Integers

CONSTANT W       \* number of values of a register; 2^32 in the code

ASSUME CountersAssumption == W \in Nat \ {0, 1}

VARIABLES
  half,      \* the CSRs: the lo and hi parts of each counter
  retired,   \* what the result of the step says: no trap and no interrupt
  reader     \* the program's reading: its progress and what it has read

cvars == <<half, retired, reader>>

Names == {"cycle", "instret"}
Parts == {"lo", "hi"}
Half == 0 .. W - 1

\* The shadows, and the counter whose half each is an alias of.
Shadows == {"cycle", "time", "instret"}

\* Variants named ...Bug are mutants: plausible mistakes in the definition
\* that follows them, which a property must expose.
\* timeh is an alias of the wrong high half.
BackingBug(s, part) ==
  IF s = "instret" \/ (s = "time" /\ part = "hi") THEN "instret" ELSE "cycle"

Backing(s, part) == IF s = "instret" THEN "instret" ELSE "cycle"

\* What a program reading a shadow means to read.
Meant(s) == IF s = "instret" THEN "instret" ELSE "cycle"

Value(h) == W * h.hi + h.lo

\* The halves are counted without a carry.
SplitBug(n) == [lo |-> n % W, hi |-> 0]

Split(n) == [lo |-> n % W, hi |-> n \div W]

\* bump_cycle, bump_instret: the halves are joined, counted and split.
Bump(h) == Split((Value(h) + 1) % (W * W))

\* A trapped step counts as retired.
BumpedByTrapBug == Names

\* finish_step of a step that traps, and begin_step of one that only
\* delivers an interrupt.
BumpedByTrap == {"cycle"}

Bumped(h, names) == [c \in Names |-> IF c \in names THEN Bump(h[c]) ELSE h[c]]

\* finish_step of an instruction that has left the counters h.
Finish(h) == half' = Bumped(h, Names) /\ retired' = TRUE

\* Steps since the first read of the high half.  The program is not held
\* up in its reading for so long that the high half comes round again.
LongestReading == W * W - W

Reading == reader.phase \in {"lo", "again"}

Aged == [reader EXCEPT !.age = IF Reading THEN @ + 1 ELSE 0]

InTime == Reading => reader.age < LongestReading

\* An instruction that touches no counter, of the program or of a handler.
Plain ==
  /\ InTime
  /\ Finish(half)
  /\ reader' = Aged

\* A trapped instruction, or the delivery of an interrupt.
Trap ==
  /\ InTime
  /\ half' = Bumped(half, BumpedByTrap)
  /\ retired' = FALSE
  /\ reader' = Aged

\* CSRRW of one half, with the counting of the same step after it.  Nobody
\* assigns the counter while the program reads it.
Assign(c, part, v) ==
  /\ ~Reading
  /\ Finish([half EXCEPT ![c] = IF part = "lo" THEN [@ EXCEPT !.lo = v]
                                               ELSE [@ EXCEPT !.hi = v]])
  /\ reader' = Aged

\* The three reads.
ReadHigh(s) ==
  /\ ~Reading
  /\ reader' = [phase |-> "lo", shadow |-> s, hi |-> half[Backing(s, "hi")].hi,
                lo |-> 0, same |-> FALSE, at |-> 0, age |-> 1]
  /\ Finish(half)

\* The value of the counter at this read is what the program means to get.
ReadLow ==
  /\ reader.phase = "lo" /\ InTime
  /\ reader' = [Aged EXCEPT !.phase = "again",
                            !.lo = half[Backing(reader.shadow, "lo")].lo,
                            !.at = Value(half[Meant(reader.shadow)])]
  /\ Finish(half)

ReadAgain ==
  /\ reader.phase = "again"
  /\ reader' = [Aged EXCEPT !.phase = "done", !.age = 0,
                            !.same = half[Backing(reader.shadow, "hi")].hi = reader.hi]
  /\ Finish(half)

\* CPU::reset.
Zero == [c \in Names |-> [lo |-> 0, hi |-> 0]]
Idle == [phase |-> "idle", shadow |-> "cycle", hi |-> 0, lo |-> 0,
         same |-> FALSE, at |-> 0, age |-> 0]

Reset == half' = Zero /\ retired' = FALSE /\ reader' = Idle

Init == half = Zero /\ retired = FALSE /\ reader = Idle

Next ==
  \/ Plain \/ Trap \/ ReadLow \/ ReadAgain \/ Reset
  \/ \E s \in Shadows : ReadHigh(s)
  \/ \E c \in Names, part \in Parts, v \in Half : Assign(c, part, v)

Spec == Init /\ [][Next]_cvars

(***************************************************************************)
(* Properties.                                                             *)
(***************************************************************************)
\* The variables have their types.
TypeOK ==
  /\ half \in [Names -> [lo : Half, hi : Half]]
  /\ retired \in BOOLEAN
  /\ reader \in [phase : {"idle", "lo", "again", "done"}, shadow : Shadows,
                 hi : Half, lo : Half, same : BOOLEAN,
                 at : 0 .. W * W - 1, age : 0 .. LongestReading]

\* The two halves are one counter of twice the width: a carry is never lost
\* or made twice, whichever half a program assigns and whatever it held;
\* mcycle counts every step of the hart, minstret those that do not trap.
Wide == INSTANCE WideCounters WITH count <- [c \in Names |-> Value(half[c])]
ImplementsWideCounters == Wide!Spec

\* A program that finds the high half unchanged has read the value the
\* counter had at its second read, through a carry and any traps between
\* the reads.
ReadingExact ==
  reader.phase = "done" /\ reader.same => W * reader.hi + reader.lo = reader.at
=============================================================================
