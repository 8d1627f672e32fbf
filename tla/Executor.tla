------------------------------ MODULE Executor ------------------------------
(***************************************************************************)
(* rv32i::Executor and the executors of the register-only extensions: what *)
(* one decoded instruction does to the hart.  The effect is a record: the  *)
(* next pc, the register written (x0 for none), the bus access asked for,  *)
(* the trap, and the request the hart itself must act on (xRET, WFI,       *)
(* SFENCE.VMA; module Hart).  What the access does is module Memory's.     *)
(*                                                                         *)
(* A decoded instruction is a record [type, rd, rs1, rs2, imm, raw], and   *)
(* x is the register file, with x[0] = 0.                                  *)
(***************************************************************************)
EXTENDS Alu

NoTrap == 99
NoAccess == [kind |-> "none", at |-> 0, bytes |-> 0, data |-> 0]

\* result.next_pc = pc + 4, and no trap.
Nothing(after) ==
  [next |-> after, trap |-> NoTrap, tval |-> 0, rd |-> 0, value |-> 0,
   access |-> NoAccess, request |-> "none"]

Writes(after, rd, v) == [Nothing(after) EXCEPT !.rd = rd, !.value = v]
Traps(after, cause, tval) == [Nothing(after) EXCEPT !.trap = cause, !.tval = tval]
Requests(after, what) == [Nothing(after) EXCEPT !.request = what]

LoadTypes == {"LB", "LH", "LW", "LBU", "LHU"}
StoreTypes == {"SB", "SH", "SW"}
BranchTypes == {"BEQ", "BNE", "BLT", "BGE", "BLTU", "BGEU"}

Width(type) ==
  CASE type \in {"LB", "LBU", "SB"} -> 1
    [] type \in {"LH", "LHU", "SH"} -> 2
    [] type \in {"LW", "SW"} -> 4

\* do_load and do_store: the access, with the register a load writes if it
\* does not trap.
Loads(after, type, rd, at) ==
  [Nothing(after) EXCEPT !.rd = rd,
     !.access = [kind |-> "load", at |-> at, bytes |-> Width(type), data |-> 0]]
Stores(after, type, at, data) ==
  [Nothing(after) EXCEPT
     !.access = [kind |-> "store", at |-> at, bytes |-> Width(type), data |-> data]]

\* The register value of the bytes a load brought.
Extend(type, v) ==
  CASE type = "LB" -> SignExtend(v, ByteBits)
    [] type = "LH" -> SignExtend(v, HalfBits)
    [] type = "LBU" -> v % 2^ByteBits
    [] type = "LHU" -> v % 2^HalfBits
    [] type = "LW" -> v

BranchTakenBug(type, a, b) ==
  CASE type = "BEQ" -> a = b
    [] type = "BNE" -> a # b
    [] type = "BLT" -> Signed(a) < Signed(b)
    [] type = "BGE" -> Signed(a) > Signed(b)
    [] type = "BLTU" -> a < b
    [] type = "BGEU" -> a >= b

BranchTaken(type, a, b) ==
  CASE type = "BEQ" -> a = b
    [] type = "BNE" -> a # b
    [] type = "BLT" -> Signed(a) < Signed(b)
    [] type = "BGE" -> Signed(a) >= Signed(b)
    [] type = "BLTU" -> a < b
    [] type = "BGEU" -> a >= b

\* Bit 0 is cleared by the caller or zero in the immediate.
TargetMisaligned(hasC, target) == ~hasC /\ Bit(target, 1) = 1

\* The link register is written before the target is checked.
JumpBug(hasC, after, rd, target) ==
  IF TargetMisaligned(hasC, target)
  THEN [Traps(after, 0, target) EXCEPT !.rd = rd, !.value = after]
  ELSE Writes(target, rd, after)

\* "target alignment is checked before any register write, so a trapping
\* jump has no architectural side effects"
Jump(hasC, after, rd, target) ==
  IF TargetMisaligned(hasC, target) THEN Traps(after, 0, target)
  ELSE Writes(target, rd, after)

TakeBranch(hasC, after, target) ==
  IF TargetMisaligned(hasC, target) THEN Traps(after, 0, target) ELSE Nothing(target)

EcallCause(priv) == CASE priv = 0 -> 8 [] priv = 1 -> 9 [] OTHER -> 11

\* rv32i::Executor::execute for an instruction of len bytes; the code's len
\* is 4.  The effect of a compressed instruction is compared with len 2.
BaseEffect(d, x, pc, len, hasC, priv) ==
  LET a == x[d.rs1]
      b == x[d.rs2]
      after == Trunc(pc + len)
      at == Trunc(a + d.imm)
  IN  CASE d.type = "LUI" -> Writes(after, d.rd, Trunc(d.imm))
        [] d.type = "AUIPC" -> Writes(after, d.rd, Trunc(pc + d.imm))
        [] d.type = "JAL" -> Jump(hasC, after, d.rd, Trunc(pc + d.imm))
        [] d.type = "JALR" -> Jump(hasC, after, d.rd, at - (at % 2))
        [] d.type \in BranchTypes ->
             IF BranchTaken(d.type, a, b)
             THEN TakeBranch(hasC, after, Trunc(pc + d.imm)) ELSE Nothing(after)
        [] d.type \in LoadTypes -> Loads(after, d.type, d.rd, at)
        [] d.type \in StoreTypes -> Stores(after, d.type, at, b)
        [] d.type \in ImmTypes \union RegTypes ->
             Writes(after, d.rd, Compute(d.type, a, b, d.imm))
        [] d.type = "FENCE" -> Nothing(after)
        [] d.type = "ECALL" -> Traps(after, EcallCause(priv), 0)
        [] d.type = "EBREAK" -> Traps(after, 3, pc)
        [] d.type \in {"MRET", "SRET", "SFENCE_VMA", "WFI"} -> Requests(after, d.type)
        [] d.type = "ILLEGAL" -> Traps(after, 2, d.raw)

\* rv32m, zba, zbb, zbs, zicond and zifencei::Executor: a register or nothing.
RegisterEffect(d, x, pc) ==
  IF d.type = "FENCE_I" THEN Nothing(Trunc(pc + 4))
  ELSE Writes(Trunc(pc + 4), d.rd, Compute(d.type, x[d.rs1], x[d.rs2], d.imm))
=============================================================================
