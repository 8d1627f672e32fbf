------------------------------ MODULE Atomics ------------------------------
(***************************************************************************)
(* RV32A as tasks of a guest use it: rv32a::Executor, its ReservationSet,  *)
(* and the trap entries of the CPU, which clear the reservation.  A task   *)
(* increments words with LR.W, SC.W, or changes them with one AMO; a trap  *)
(* may come between any two instructions and make another task run.        *)
(*                                                                         *)
(* The guest keeps two rules of the ISA manual: the SC of a task stores    *)
(* the successor of what its LR loaded, and a handler returns with no      *)
(* reservation of its own open, for xRET does not close it.                *)
(***************************************************************************)
EXTENDS Integers

CONSTANTS
  Tasks,       \* the tasks and handlers of the guest
  AddrSpace,   \* number of addresses
  Bits, Words, ReadOnly,
  Operands     \* values of rs2 of an AMO

ASSUME AtomicsAssumption ==
  /\ AddrSpace \in Nat
  /\ Bits \in Nat
  /\ \A a \in Words : a \in 0 .. AddrSpace - 1 /\ a % 4 = 0
  /\ ReadOnly \subseteq Words

VARIABLES
  cell,          \* memory, by aligned words
  task,          \* each task's registers: the word loaded, and whether its SC is next
  running,       \* the task whose instructions are executed
  reservation,   \* ReservationSet
  trap,          \* the cause the last instruction trapped with, or NoTrap
  done           \* the change of memory the last instruction reports to its task

avars == <<cell, task, running, reservation, trap, done>>

Cells == INSTANCE AtomicCells

Addr == 0 .. AddrSpace - 1
Word == Cells!Word
Ops == Cells!Ops
NoTrap == 99

\* Zero and one are words: there is at least one bit.
ASSUME OperandsAssumption == {0, 1} \union Operands \subseteq Word

Readable(a) == a \in Words
Writable(a) == a \in Words \ ReadOnly

Fresh == [rd |-> 0, loaded |-> FALSE]
NoReservation == [valid |-> FALSE, addr |-> 0]

\* ReservationSet::check, without the address.
CheckBug(a) == reservation.valid

Check(a) == reservation.valid /\ a - (a % 4) = reservation.addr

\* A trap that keeps the reservation.
AfterTrapBug == reservation

\* The reservation enter_m_trap and enter_s_trap leave.
AfterTrap == [reservation EXCEPT !.valid = FALSE]

\* A trap is taken; whichever task its handler belongs to runs next.
TakeTrap(cause) ==
  /\ trap' = cause
  /\ done' = Cells!NoOperation
  /\ reservation' = AfterTrap
  /\ running' \in Tasks

Trapped(cause) == TakeTrap(cause) /\ UNCHANGED <<cell, task>>

Completed(rd, loaded) ==
  /\ task' = [task EXCEPT ![running] = [rd |-> rd, loaded |-> loaded]]
  /\ trap' = NoTrap
  /\ UNCHANGED running

LoadReserved(a) ==
  /\ ~task[running].loaded
  /\ IF a % 4 # 0 THEN Trapped(4)
     ELSE IF ~Readable(a) THEN Trapped(5)
     ELSE /\ Completed(cell[a], TRUE)
          /\ reservation' = [valid |-> TRUE, addr |-> a]
          /\ done' = Cells!NoOperation
          /\ UNCHANGED cell

\* A store that throws leaves the reservation to the trap; an SC that fails
\* does not try to store.
StoreConditional(a) ==
  /\ task[running].loaded
  /\ IF a % 4 # 0 THEN Trapped(6)
     ELSE IF Check(a) /\ ~Writable(a) THEN Trapped(7)
     ELSE /\ cell' = IF Check(a)
                       THEN [cell EXCEPT ![a] = Cells!Combine("add", task[running].rd, 1)]
                       ELSE cell
          /\ Completed(IF Check(a) THEN 0 ELSE 1, FALSE)
          /\ done' = IF Check(a) THEN Cells!Operation("add", a, 1, task[running].rd)
                                 ELSE Cells!NoOperation
          /\ reservation' = [reservation EXCEPT !.valid = FALSE]

\* rd is written before the store.
LoadsBug(a) == Readable(a)

\* rd is written after the store: only if neither access threw.
Loads(a) == Writable(a)

\* An AMO reads, stores, then writes rd; an error of the read is reported
\* as one of the store.
Amo(op, a, x) ==
  /\ ~task[running].loaded
  /\ IF a % 4 # 0 THEN Trapped(6)
     ELSE /\ task' = IF Loads(a) THEN [task EXCEPT ![running].rd = cell[a]] ELSE task
          /\ IF ~Writable(a)
               THEN TakeTrap(7) /\ UNCHANGED cell
               ELSE /\ cell' = [cell EXCEPT ![a] = Cells!Combine(op, @, x)]
                    /\ done' = Cells!Operation(op, a, x, cell[a])
                    /\ trap' = NoTrap
                    /\ UNCHANGED <<running, reservation>>

\* A branch out of the loop between LR and SC, as a compare-and-swap does.
Abandon ==
  /\ task[running].loaded
  /\ Completed(task[running].rd, FALSE)
  /\ done' = Cells!NoOperation
  /\ UNCHANGED <<cell, reservation>>

\* An interrupt, or an exception of another instruction.
Interrupted == Trapped(NoTrap)

\* MRET or SRET of a handler that has closed its reservation.
Return(t) ==
  /\ ~reservation.valid
  /\ running' = t
  /\ trap' = NoTrap
  /\ done' = Cells!NoOperation
  /\ UNCHANGED <<cell, task, reservation>>

\* CPU::reset: the guest starts again, memory keeps its words.
Reset ==
  /\ task' = [t \in Tasks |-> Fresh]
  /\ running' \in Tasks
  /\ reservation' = [reservation EXCEPT !.valid = FALSE]
  /\ trap' = NoTrap
  /\ done' = Cells!NoOperation
  /\ UNCHANGED cell

Init ==
  /\ cell = [a \in Words |-> 0]
  /\ task = [t \in Tasks |-> Fresh]
  /\ running \in Tasks
  /\ reservation = NoReservation
  /\ trap = NoTrap
  /\ done = Cells!NoOperation

Next ==
  \/ \E a \in Addr : LoadReserved(a)
  \/ \E a \in Addr : StoreConditional(a)
  \/ \E op \in Ops, a \in Addr, x \in Operands : Amo(op, a, x)
  \/ Abandon
  \/ Interrupted
  \/ \E t \in Tasks : Return(t)
  \/ Reset

Spec == Init /\ [][Next]_avars

(***************************************************************************)
(* Properties.                                                             *)
(***************************************************************************)
\* The variables have their types.
TypeOK ==
  /\ cell \in [Words -> Word]
  /\ task \in [Tasks -> [rd : Word, loaded : BOOLEAN]]
  /\ running \in Tasks
  /\ reservation \in [valid : BOOLEAN, addr : {0} \union Words]
  /\ trap \in {4, 5, 6, 7, NoTrap}
  /\ done \in [op : Ops \union {"none"}, at : {0} \union Words, x : Word, old : Word]

\* While a task is between LR and SC with the reservation valid, the word
\* it loaded is still the word in memory: whatever could have changed it, a
\* trap and the tasks run since included, has closed the reservation.
ReservationFresh ==
  reservation.valid /\ task[running].loaded =>
    /\ reservation.addr \in Words
    /\ task[running].rd = cell[reservation.addr]

\* No update is lost: the guest's words change only by whole read-modify-
\* write operations, and exactly as the tasks are told.  An LR/SC loop whose
\* SC reports success is an addition of one that found the word its LR
\* loaded; one whose SC fails has changed nothing.
ImplementsAtomicCells == Cells!Spec

\* An atomic that traps has done nothing, though its read may have
\* succeeded before its write failed: it can be executed again.  No
\* reservation outlives it.
PreciseTrap ==
  [][trap' # NoTrap => /\ UNCHANGED <<cell, task>>
                       /\ ~reservation'.valid]_avars
=============================================================================
