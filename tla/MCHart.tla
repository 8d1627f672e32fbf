------------------------------- MODULE MCHart -------------------------------
(***************************************************************************)
(* Values for the constants of Hart.                                       *)
(***************************************************************************)
EXTENDS Hart

AllInstrs == InstrClasses

\* What the program writes to mstatus and sstatus.
MachineStatus == {{}, {"MPRV"}, {"MIE"}, {"MPPL"}, {"MPPH", "MPRV"}, {"MPPL", "MPPH", "MPRV", "MPIE"}}
StackStatus == {{}, {"SIE", "MPPL"}, {"MIE", "MPRV"}, {"SPP", "SPIE", "TSR"},
                {"MPPL", "MPPH", "MPIE", "MPRV", "TVM", "TW"}}
UserStatus == {{}, {"SIE", "MPIE"}}
IrqStatus == {{}, {"SIE", "MPIE", "MPPL"}, {"MIE"}}

NoIrqs == {{}}
TimerOperands == {{}, {3, 7}, {7}}
\* One interrupt of each group, delegated or not.
PairIrqs == {1, 3}

\* Two M interrupts and one that can be routed to S-mode.
ThreeIrqs == {1, 3, 7}
ThreeOperands == {{1}, {1, 3, 7}}

NoDeleg == {{}}
EcallDeleg == {{}, {2, 8}}
AllDeleg == {{}, Causes}

PrivilegeCsrs == {"mstatus", "sstatus", "medeleg", "mepc", "sepc", "satp"}
=============================================================================
