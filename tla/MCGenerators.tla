---------------------------- MODULE MCGenerators ----------------------------
(***************************************************************************)
(* The instance of Generators the runs check.                              *)
(***************************************************************************)
EXTENDS Generators

MCRegs == {0, 9, 22}
MCCRegs == {8, 10, 13}
MCRms == {0, 7}
MCAmoBits == {0, 1, 2}

MCGens ==
  {"I", "M", "A", "F", "C", "FC", "Zba", "Zbb", "Zbs", "Zicond", "Zicsr", "Zifencei",
   "Illegal", "Any"}

\* The generators whose groups two calls can all switch off.
MCSmallGens == {"C", "M", "Zicond", "Illegal"}

\* Parcels of every quadrant and funct3 with these register fields, some of
\* which coincide with x0, ra and sp.
MCParcels ==
  {f3 * 8192 + b * 4096 + rd * 128 + rs2 * 4 + q :
     f3 \in 0 .. 7, b \in {0, 1}, rd \in {0, 1, 2, 13, 31}, rs2 \in {0, 1, 2, 13, 31}, q \in 0 .. 2}

\* The words around the function codes of the extensions.
MCWords ==
  [op : {"OP", "OP_IMM", "SYSTEM", "MISC", "AMO", "OP_FP", "MADD", "LOAD_FP", "RESERVED"},
   f7 : {0, 1, 4, 5, 7, 9, 16, 20, 32, 36, 48, 52}, rs2 : {0, 1, 2, 7, 24}, rs1 : {0}, f3 : 0 .. 7,
   rd : {0, 1}]

\* Registers that all differ, and registers at the edges of the words.
MCRegisterFiles ==
  {[r \in 0 .. 31 |-> IF r = 0 THEN 0 ELSE (r * 370123 + 77) % 2^XLEN],
   [r \in 0 .. 31 |-> IF r = 0 THEN 0 ELSE IF r % 2 = 0 THEN 2^(XLEN - 1) + r ELSE 2^XLEN - r]}

MCPcs == {4096, 2^XLEN - 2}
=============================================================================
