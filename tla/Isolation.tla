----------------------------- MODULE Isolation -----------------------------
(***************************************************************************)
(* What the privileged architecture of the hart promises, with nothing of  *)
(* how: three nested protection domains.  The hart is in one mode at a     *)
(* time; machine-owned state changes only in M-mode or by the entry to it, *)
(* supervisor-owned state never changes while user code runs.  Mode rises  *)
(* by a trap, the domain entered saving the interrupted context in its own *)
(* state; it falls when the higher mode decides to return.  The pending    *)
(* interrupts belong to the platform, and a supervisor touches only those  *)
(* the machine has handed to it.                                           *)
(***************************************************************************)
EXTENDS Integers

CONSTANTS U, S, M   \* the modes, in increasing order

VARIABLES
  mode,        \* the current privilege mode
  at,          \* where the hart is in its program
  machine,     \* the state that belongs to M-mode
  supervisor,  \* the state that belongs to S-mode
  pending,     \* the pending interrupts
  delegated    \* the interrupts M-mode has handed to S-mode

ivars == <<mode, at, machine, supervisor, pending, delegated>>

IsolationInit == mode = M /\ pending = {} /\ delegated = {}

\* M-mode software may change everything and go anywhere.
MachineStep == mode = M

\* S-mode software changes what is its own, and stays or goes down.
SupervisorStep ==
  /\ mode = S /\ mode' \in {U, S}
  /\ pending' \ delegated = pending \ delegated
  /\ UNCHANGED <<machine, delegated>>

\* User code changes nothing but its own place.
UserStep ==
  /\ mode = U
  /\ UNCHANGED <<mode, machine, supervisor, pending, delegated>>

\* A trap to S-mode saves the interrupted context in the supervisor's state.
TrapToSupervisor ==
  /\ mode \in {U, S} /\ mode' = S
  /\ UNCHANGED <<machine, pending, delegated>>

\* A trap to M-mode saves it in the machine's, out of the supervisor's reach.
TrapToMachine ==
  /\ mode \in {U, S} /\ mode' = M
  /\ UNCHANGED <<supervisor, pending, delegated>>

\* The platform raises and lowers interrupts; the hart itself does not move.
PlatformStep == UNCHANGED <<mode, at, machine, supervisor, delegated>>

\* A reset of the hart: back to M-mode with nothing pending or handed out.
ResetStep == mode' = M /\ pending' = {} /\ delegated' = {}

IsolationNext ==
  \/ MachineStep \/ SupervisorStep \/ UserStep
  \/ TrapToSupervisor \/ TrapToMachine
  \/ PlatformStep \/ ResetStep

IsolationSpec == IsolationInit /\ [][IsolationNext]_ivars
=============================================================================
