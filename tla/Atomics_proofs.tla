--------------------------- MODULE Atomics_proofs ---------------------------
(***************************************************************************)
(* No update of a guest's word is lost: an SC that succeeds stores the     *)
(* successor of the word in memory, for any number of tasks, words and     *)
(* widths.  The argument is ReservationFresh, which every step that runs   *)
(* another task keeps by leaving no valid reservation.                     *)
(***************************************************************************)
EXTENDS Atomics, Numbers_proofs

\* A step that changes no word, and reports none changed.
NoChange == cell' = cell /\ done' = Cells!NoOperation

\* What the fields of the variables are; the widths of words are not needed.
Shape ==
  /\ DOMAIN cell = Words /\ cell = [a \in Words |-> cell[a]]
  /\ task \in [Tasks -> [rd : {task[t].rd : t \in Tasks}, loaded : BOOLEAN]]
  /\ running \in Tasks
  /\ reservation.valid \in BOOLEAN
  /\ reservation = [valid |-> reservation.valid, addr |-> reservation.addr]

\* The inductive invariant.
IInv == Shape /\ ReservationFresh

\* A completed instruction changes the registers of the running task only.
LEMMA CompletedTask ==
  ASSUME Shape, NEW rd, NEW loaded \in BOOLEAN, Completed(rd, loaded)
  PROVE  /\ task' \in [Tasks -> [rd : {task'[t].rd : t \in Tasks}, loaded : BOOLEAN]]
         /\ task'[running].rd = rd
         /\ task'[running].loaded = loaded
         /\ running' = running
BY DEF Shape, Completed

\* A trap leaves no valid reservation.
LEMMA TrapClears ==
  ASSUME Shape, NEW cause, TakeTrap(cause)
  PROVE  /\ reservation' = [valid |-> FALSE, addr |-> reservation.addr]
         /\ running' \in Tasks
BY DEF Shape, TakeTrap, AfterTrap

\* A trapping instruction, or an interrupt, keeps the invariant.
LEMMA TrappedStep ==
  ASSUME IInv, NEW cause, Trapped(cause)
  PROVE  IInv' /\ NoChange
<1>1. TakeTrap(cause) /\ UNCHANGED <<cell, task>>
  BY DEF Trapped
<1>2. reservation' = [valid |-> FALSE, addr |-> reservation.addr] /\ running' \in Tasks
  BY <1>1, TrapClears DEF IInv
<1> QED
  BY <1>1, <1>2 DEF IInv, Shape, ReservationFresh, NoChange, TakeTrap

\* LR makes the word loaded the word in memory.
LEMMA LoadReservedStep ==
  ASSUME IInv, NEW a \in Addr, LoadReserved(a)
  PROVE  IInv' /\ NoChange
<1>1. CASE \E cause : Trapped(cause)
  BY <1>1, TrappedStep
<1>2. CASE /\ a \in Words
           /\ Completed(cell[a], TRUE)
           /\ reservation' = [valid |-> TRUE, addr |-> a]
           /\ done' = Cells!NoOperation
           /\ UNCHANGED cell
  <2>1. /\ task' \in [Tasks -> [rd : {task'[t].rd : t \in Tasks}, loaded : BOOLEAN]]
        /\ task'[running].rd = cell[a]
        /\ running' = running
    BY <1>2, CompletedTask DEF IInv
  <2> QED
    BY <1>2, <2>1 DEF IInv, Shape, ReservationFresh, NoChange
<1> QED
  BY <1>1, <1>2 DEF LoadReserved, Readable

\* An SC that stores adds one to the word in memory.
LEMMA StoreConditionalStep ==
  ASSUME IInv, NEW a \in Addr, StoreConditional(a)
  PROVE  /\ IInv'
         /\ \/ NoChange
            \/ a \in Words \ ReadOnly /\ Cells!Modify("add", a, 1)
<1>1. CASE \E cause : Trapped(cause)
  BY <1>1, TrappedStep
<1>2. CASE /\ a % 4 = 0
           /\ ~(Check(a) /\ ~Writable(a))
           /\ cell' = IF Check(a)
                        THEN [cell EXCEPT ![a] = Cells!Combine("add", task[running].rd, 1)]
                        ELSE cell
           /\ Completed(IF Check(a) THEN 0 ELSE 1, FALSE)
           /\ done' = IF Check(a) THEN Cells!Operation("add", a, 1, task[running].rd)
                                  ELSE Cells!NoOperation
           /\ reservation' = [reservation EXCEPT !.valid = FALSE]
  <2>1. /\ task' \in [Tasks -> [rd : {task'[t].rd : t \in Tasks}, loaded : BOOLEAN]]
        /\ running' = running
    <3> DEFINE rd == IF Check(a) THEN 0 ELSE 1
    <3>1. Completed(rd, FALSE)
      BY <1>2
    <3> HIDE DEF rd
    <3> QED
      BY <3>1, CompletedTask DEF IInv
  <2>2. reservation' = [valid |-> FALSE, addr |-> reservation.addr]
    BY <1>2 DEF IInv, Shape
  <2>3. IInv'
    BY <1>2, <2>1, <2>2 DEF IInv, Shape, ReservationFresh
  <2>4. CASE Check(a)
    <3>1. reservation.addr = a
      <4>1. a \in Int /\ a - (a % 4) = reservation.addr
        BY <2>4, AtomicsAssumption DEF Check, Addr
      <4>2. a % 4 = 0
        BY <1>2
      <4> HIDE DEF Addr
      <4> QED
        BY <4>1, <4>2
    <3>2. task[running].rd = cell[a]
      BY <2>4, <3>1 DEF IInv, ReservationFresh, Check, StoreConditional
    <3>3. a \in Words \ ReadOnly
      BY <1>2, <2>4 DEF Writable
    <3> QED
      BY <1>2, <2>3, <2>4, <3>2, <3>3 DEF Cells!Modify, Shape, IInv
  <2> QED
    BY <1>2, <2>3, <2>4 DEF NoChange
<1> QED
  BY <1>1, <1>2 DEF StoreConditional

\* An AMO is one such operation, or has no effect on memory.
LEMMA AmoStep ==
  ASSUME IInv, NEW op \in Ops, NEW a \in Addr, NEW x \in Operands, Amo(op, a, x)
  PROVE  /\ IInv'
         /\ \/ NoChange
            \/ a \in Words \ ReadOnly /\ Cells!Modify(op, a, x)
<1>1. CASE \E cause : Trapped(cause)
  BY <1>1, TrappedStep
<1>2. CASE TakeTrap(7) /\ UNCHANGED <<cell, task>>
  BY <1>2, TrappedStep DEF Trapped
<1>3. CASE /\ Writable(a)
           /\ task' = [task EXCEPT ![running].rd = cell[a]]
           /\ cell' = [cell EXCEPT ![a] = Cells!Combine(op, @, x)]
           /\ done' = Cells!Operation(op, a, x, cell[a])
           /\ UNCHANGED <<running, reservation>>
  <2>1. /\ task' \in [Tasks -> [rd : {task'[t].rd : t \in Tasks}, loaded : BOOLEAN]]
        /\ task'[running].loaded = task[running].loaded
    BY <1>3 DEF IInv, Shape
  <2>2. ~task[running].loaded
    BY DEF Amo
  <2>3. IInv'
    BY <1>3, <2>1, <2>2 DEF IInv, Shape, ReservationFresh
  <2> QED
    BY <1>3, <2>3 DEF Writable, Cells!Modify
<1> QED
  BY <1>1, <1>2, <1>3 DEF Amo, Loads

\* A task that leaves its loop, a return that finds no reservation, a reset.
LEMMA OtherStep ==
  ASSUME IInv,
         \/ Abandon \/ Interrupted \/ Reset
         \/ \E t \in Tasks : Return(t)
  PROVE  IInv' /\ NoChange
<1>1. CASE Abandon
  <2>1. Completed(task[running].rd, FALSE) /\ UNCHANGED <<cell, reservation>>
    BY <1>1 DEF Abandon
  <2>2. /\ task' \in [Tasks -> [rd : {task'[t].rd : t \in Tasks}, loaded : BOOLEAN]]
        /\ ~task'[running].loaded
        /\ running' = running
    BY <2>1, CompletedTask DEF IInv
  <2> QED
    BY <1>1, <2>1, <2>2 DEF IInv, Shape, ReservationFresh, NoChange, Abandon
<1>2. CASE Interrupted
  BY <1>2, TrappedStep DEF Interrupted
<1>3. CASE Reset
  BY <1>3 DEF Reset, Fresh, IInv, Shape, ReservationFresh, NoChange
<1>4. CASE \E t \in Tasks : Return(t)
  BY <1>4 DEF Return, IInv, Shape, ReservationFresh, NoChange
<1> QED
  BY <1>1, <1>2, <1>3, <1>4

\* The invariant holds at first: no reservation is valid.
LEMMA InvInit == Init => IInv
BY DEF Init, IInv, Shape, ReservationFresh, Fresh, NoReservation

\* The invariant is inductive, and every step is one of the abstract
\* specification or leaves its memory alone.
LEMMA InvStep ==
  ASSUME IInv, [Next]_avars
  PROVE  IInv' /\ [Cells!Next]_(Cells!lvars)
<1>1. CASE \E a \in Addr : LoadReserved(a)
  BY <1>1, LoadReservedStep DEF NoChange, Cells!Next, Cells!lvars
<1>2. CASE \E a \in Addr : StoreConditional(a)
  <2>1. "add" \in Cells!Ops /\ 1 \in Cells!Word
    BY OperandsAssumption DEF Cells!Ops, Word
  <2> QED
    BY <1>2, <2>1, StoreConditionalStep DEF Cells!Next, NoChange, Cells!lvars
<1>3. CASE \E op \in Ops, a \in Addr, x \in Operands : Amo(op, a, x)
  <2>1. \A x \in Operands : x \in Cells!Word
    BY OperandsAssumption DEF Word
  <2> QED
    BY <1>3, <2>1, AmoStep DEF Cells!Next, Ops, NoChange, Cells!lvars
<1>4. CASE Abandon \/ Interrupted \/ Reset \/ \E t \in Tasks : Return(t)
  BY <1>4, OtherStep DEF NoChange, Cells!Next, Cells!lvars
<1>5. CASE UNCHANGED avars
  BY <1>5 DEF avars, Cells!lvars, IInv, Shape, ReservationFresh
<1> QED
  BY <1>1, <1>2, <1>3, <1>4, <1>5 DEF Next

\* Whatever a task has loaded and still has reserved is still in memory.
THEOREM AlwaysFresh == Spec => []ReservationFresh
<1>1. Init => IInv
  BY InvInit
<1>2. IInv /\ [Next]_avars => IInv'
  BY InvStep
<1>3. IInv => ReservationFresh
  BY DEF IInv
<1> QED
  BY <1>1, <1>2, <1>3, PTL DEF Spec

\* LR/SC loops and AMOs, with traps between their instructions, implement
\* atomic operations on memory.
THEOREM NothingLost == Spec => ImplementsAtomicCells
<1>1. Init => IInv /\ Cells!Init
  BY InvInit, OperandsAssumption DEF Init, Cells!Init, Word
<1>2. IInv /\ [Next]_avars => IInv' /\ [Cells!Next]_(Cells!lvars)
  BY InvStep
<1> QED
  BY <1>1, <1>2, PTL DEF Spec, Cells!Spec, ImplementsAtomicCells

\* An atomic that traps has done nothing and leaves no reservation.
THEOREM TrapsArePrecise == Spec => PreciseTrap
<1>1. IInv /\ [Next]_avars =>
        [trap' # NoTrap => UNCHANGED <<cell, task>> /\ ~reservation'.valid]_avars
  <2> SUFFICES ASSUME IInv, Next, trap' # NoTrap
               PROVE  UNCHANGED <<cell, task>> /\ ~reservation'.valid
    BY DEF avars
  <2>1. ASSUME NEW cause, Trapped(cause)
        PROVE  UNCHANGED <<cell, task>> /\ ~reservation'.valid
    BY <2>1, TrapClears DEF Trapped, IInv
  <2>2. CASE \E a \in Addr : LoadReserved(a)
    BY <2>1, <2>2 DEF LoadReserved, Completed
  <2>3. CASE \E a \in Addr : StoreConditional(a)
    BY <2>1, <2>3 DEF StoreConditional, Completed
  <2>4. CASE \E op \in Ops, a \in Addr, x \in Operands : Amo(op, a, x)
    BY <2>1, <2>4 DEF Amo, Loads, Trapped
  <2>5. CASE Abandon \/ Interrupted \/ Reset \/ \E t \in Tasks : Return(t)
    BY <2>1, <2>5 DEF Abandon, Completed, Interrupted, Reset, Return
  <2> QED
    BY <2>2, <2>3, <2>4, <2>5 DEF Next
<1>2. Init => IInv
  BY InvInit
<1>3. IInv /\ [Next]_avars => IInv'
  BY InvStep
<1> QED
  BY <1>1, <1>2, <1>3, PTL DEF Spec, PreciseTrap

\* A word is a number of Bits bits.
LEMMA WordRange == Word = 0 .. 2^Bits - 1 /\ 2^Bits \in Nat \ {0}
  BY AtomicsAssumption, PowerType DEF Word, Cells!Word

\* Every set of bit positions is that of a word.
LEMMA WordOfBits ==
  ASSUME NEW s \in SUBSET (0 .. Bits - 1)
  PROVE  Cells!WordOf(s) \in Word
<1>1. \E w \in 0 .. 2^Bits - 1 : DigitsOf(w, Bits) = s
  BY AtomicsAssumption, DigitsExist
<1>2. \A w : Cells!BitsOf(w) = DigitsOf(w, Bits)
  BY DEF Cells!BitsOf, DigitsOf, Digit
<1>3. \E w \in Cells!Word : Cells!BitsOf(w) = s
  BY <1>1, <1>2 DEF Cells!Word
<1> QED BY <1>3 DEF Cells!WordOf, Word

\* What an operation leaves in memory is a word.
LEMMA CombineType ==
  ASSUME NEW op \in Ops, NEW old \in Word, NEW x \in Word
  PROVE  Cells!Combine(op, old, x) \in Word
<1>1. Cells!Sum(old, x) \in Word
  <2> DEFINE m == 2^Bits
  <2>1. m \in Nat \ {0} /\ old \in Nat /\ x \in Nat /\ Word = 0 .. m - 1
    BY WordRange
  <2>2. (old + x) % m \in 0 .. m - 1
    <3> HIDE DEF m
    <3> QED BY <2>1
  <2> QED BY <2>1, <2>2 DEF Cells!Sum
<1>2. \A w : Cells!BitsOf(w) \subseteq 0 .. Bits - 1
  BY DEF Cells!BitsOf
<1>3. CASE op = "swap"
  BY <1>3 DEF Cells!Combine
<1>4. CASE op = "add"
  BY <1>1, <1>4 DEF Cells!Combine
<1>5. CASE op = "xor"
  BY <1>2, <1>5, WordOfBits DEF Cells!Combine
<1>6. CASE op = "and"
  BY <1>2, <1>6, WordOfBits DEF Cells!Combine
<1>7. CASE op = "or"
  BY <1>2, <1>7, WordOfBits DEF Cells!Combine
<1>8. CASE op \in {"min", "max", "minu", "maxu"}
  BY <1>8 DEF Cells!Combine
<1> QED BY <1>3, <1>4, <1>5, <1>6, <1>7, <1>8 DEF Ops, Cells!Ops

\* A completed instruction loads a word.
LEMMA CompletedType ==
  ASSUME TypeOK, NEW rd \in Word, NEW loaded \in BOOLEAN, Completed(rd, loaded)
  PROVE  /\ task' \in [Tasks -> [rd : Word, loaded : BOOLEAN]]
         /\ running' \in Tasks
         /\ trap' \in {4, 5, 6, 7, NoTrap}
BY DEF TypeOK, Completed

\* A trap changes no type.
LEMMA TrapType ==
  ASSUME TypeOK, NEW cause \in {4, 5, 6, 7, NoTrap}, TakeTrap(cause)
  PROVE  /\ running' \in Tasks
         /\ trap' \in {4, 5, 6, 7, NoTrap}
         /\ reservation' \in [valid : BOOLEAN, addr : {0} \union Words]
         /\ done' \in [op : Ops \union {"none"}, at : {0} \union Words, x : Word, old : Word]
<1>1. Cells!NoOperation \in [op : Ops \union {"none"}, at : {0} \union Words, x : Word, old : Word]
  BY OperandsAssumption DEF Cells!NoOperation, Cells!Operation
<1> QED BY <1>1 DEF TypeOK, TakeTrap, AfterTrap

\* The variables have their types: words stay within their width, the sum of
\* an AMO wraps, and the registers and the reservation name words of memory.
THEOREM TypeCorrect == Spec => []TypeOK
<1> DEFINE Reports == [op : Ops \union {"none"}, at : {0} \union Words, x : Word, old : Word]
<1>1. /\ Cells!NoOperation \in Reports
      /\ \A op \in Ops, a \in Words, x \in Word, old \in Word : Cells!Operation(op, a, x, old) \in Reports
  BY OperandsAssumption DEF Cells!NoOperation, Cells!Operation
<1>2. Init => TypeOK
  BY <1>1, OperandsAssumption DEF Init, TypeOK, Fresh, NoReservation
<1>3. TypeOK /\ [Next]_avars => TypeOK'
  <2> SUFFICES ASSUME TypeOK, [Next]_avars PROVE TypeOK'
    OBVIOUS
  <2>1. ASSUME NEW cause \in {4, 5, 6, 7, NoTrap}, Trapped(cause) PROVE TypeOK'
    <3>1. TakeTrap(cause) /\ UNCHANGED <<cell, task>>
      BY <2>1 DEF Trapped
    <3> QED BY <3>1, TrapType DEF TypeOK
  <2>2. ASSUME NEW a \in Addr, LoadReserved(a) PROVE TypeOK'
    <3>1. CASE Trapped(4) \/ Trapped(5)
      BY <2>1, <3>1
    <3>2. CASE ~(Trapped(4) \/ Trapped(5))
      <4>1. /\ a \in Words /\ Completed(cell[a], TRUE)
            /\ reservation' = [valid |-> TRUE, addr |-> a]
            /\ done' = Cells!NoOperation /\ cell' = cell
        BY <2>2, <3>2 DEF LoadReserved, Readable
      <4>2. cell[a] \in Word
        BY <4>1 DEF TypeOK
      <4> QED BY <1>1, <4>1, <4>2, CompletedType DEF TypeOK
    <3> QED BY <3>1, <3>2
  <2>3. ASSUME NEW a \in Addr, StoreConditional(a) PROVE TypeOK'
    <3>1. CASE Trapped(6) \/ Trapped(7)
      BY <2>1, <3>1
    <3>2. CASE ~(Trapped(6) \/ Trapped(7))
      <4> DEFINE rd == IF Check(a) THEN 0 ELSE 1
                 stored == Cells!Combine("add", task[running].rd, 1)
      <4>1. /\ Check(a) => Writable(a)
            /\ cell' = IF Check(a) THEN [cell EXCEPT ![a] = stored] ELSE cell
            /\ Completed(rd, FALSE)
            /\ done' = IF Check(a) THEN Cells!Operation("add", a, 1, task[running].rd)
                                   ELSE Cells!NoOperation
            /\ reservation' = [reservation EXCEPT !.valid = FALSE]
        BY <2>3, <3>2 DEF StoreConditional
      <4>2. rd \in Word /\ 1 \in Word
        BY OperandsAssumption
      <4>3. task[running].rd \in Word
        BY DEF TypeOK
      <4>4. stored \in Word
        BY <4>2, <4>3, CombineType DEF Ops, Cells!Ops
      <4> HIDE DEF rd, stored
      <4>5. cell' \in [Words -> Word]
        BY <4>1, <4>4 DEF TypeOK, Writable
      <4>6. done' \in Reports
        BY <1>1, <4>1, <4>2, <4>3 DEF Writable, Ops, Cells!Ops
      <4>7. reservation' \in [valid : BOOLEAN, addr : {0} \union Words]
        BY <4>1 DEF TypeOK
      <4> QED BY <4>1, <4>2, <4>5, <4>6, <4>7, CompletedType DEF TypeOK
    <3> QED BY <3>1, <3>2
  <2>4. ASSUME NEW op \in Ops, NEW a \in Addr, NEW x \in Operands, Amo(op, a, x) PROVE TypeOK'
    <3>1. CASE Trapped(6)
      BY <2>1, <3>1
    <3>2. CASE ~Trapped(6)
      <4>1. /\ task' = IF Loads(a) THEN [task EXCEPT ![running].rd = cell[a]] ELSE task
            /\ IF ~Writable(a)
                 THEN TakeTrap(7) /\ UNCHANGED cell
                 ELSE /\ cell' = [cell EXCEPT ![a] = Cells!Combine(op, @, x)]
                      /\ done' = Cells!Operation(op, a, x, cell[a])
                      /\ trap' = NoTrap
                      /\ UNCHANGED <<running, reservation>>
        BY <2>4, <3>2 DEF Amo
      <4>2. a \in Words => cell[a] \in Word /\ Cells!Combine(op, cell[a], x) \in Word
        BY OperandsAssumption, CombineType DEF TypeOK
      <4>3. task' \in [Tasks -> [rd : Word, loaded : BOOLEAN]]
        BY <4>1, <4>2 DEF TypeOK, Loads, Writable
      <4>4. CASE ~Writable(a)
        BY <4>1, <4>3, <4>4, TrapType DEF TypeOK
      <4>5. CASE Writable(a)
        <5>1. a \in Words /\ x \in Word
          BY <4>5, OperandsAssumption DEF Writable
        <5>2. done' \in Reports
          BY <1>1, <4>1, <4>2, <4>5, <5>1
        <5>3. cell' \in [Words -> Word]
          BY <4>1, <4>2, <4>5, <5>1 DEF TypeOK
        <5> QED BY <4>1, <4>3, <4>5, <5>2, <5>3 DEF TypeOK
      <4> QED BY <4>4, <4>5
    <3> QED BY <3>1, <3>2
  <2>5. CASE Abandon
    <3>1. task[running].rd \in Word
      BY DEF TypeOK
    <3> QED BY <1>1, <2>5, <3>1, CompletedType DEF Abandon, TypeOK
  <2>6. CASE Interrupted
    BY <2>1, <2>6 DEF Interrupted
  <2>7. ASSUME NEW t \in Tasks, Return(t) PROVE TypeOK'
    BY <1>1, <2>7 DEF Return, TypeOK
  <2>8. CASE Reset
    BY <1>1, <2>8, OperandsAssumption DEF Reset, TypeOK, Fresh
  <2>9. CASE UNCHANGED avars
    BY <2>9 DEF avars, TypeOK
  <2> QED BY <2>2, <2>3, <2>4, <2>5, <2>6, <2>7, <2>8, <2>9 DEF Next
<1> QED BY <1>2, <1>3, PTL DEF Spec
=============================================================================
