--------------------------- MODULE WideCounters ----------------------------
(***************************************************************************)
(* What the counters promise (doc/riscv_csr_reference.md): two counters    *)
(* twice as wide as a register, one of the steps of the hart and one of    *)
(* its retired instructions, either half of which a program may assign.    *)
(***************************************************************************)
EXTENDS Integers

CONSTANT W       \* number of values of a register; 2^32 in the code

VARIABLES
  count,
  retired    \* whether the last step retired an instruction

wvars == <<count, retired>>

Counters == {"cycle", "instret"}

Following(n) == (n + 1) % (W * W)

WithHalf(n, part, v) ==
  IF part = "lo" THEN W * (n \div W) + v ELSE W * v + (n % W)

Init == count = [c \in Counters |-> 0] /\ retired = FALSE

\* An instruction that writes no counter.
Retire ==
  /\ count' = [c \in Counters |-> Following(count[c])]
  /\ retired' = TRUE

\* One that assigns half of a counter, and is counted after it.
Assign(c, part, v) ==
  /\ count' = [d \in Counters |->
                 Following(IF d = c THEN WithHalf(count[c], part, v) ELSE count[d])]
  /\ retired' = TRUE

\* A trap.
Abort ==
  /\ count' = [count EXCEPT !["cycle"] = Following(@)]
  /\ retired' = FALSE

Next ==
  \/ Retire \/ Abort
  \/ \E c \in Counters, part \in {"lo", "hi"}, v \in 0 .. W - 1 : Assign(c, part, v)
  \/ Init'

Spec == Init /\ [][Next]_wvars
=============================================================================
