# A verification development of the RV32 instruction-set model

TLA+ modules for the C++ model of a RISC-V hart in this repository, TLC
configurations that check them on small instances, and TLAPS proofs of what
matters most for every instance.

## 1. The system

`riscv_cpu.hpp` is a single hart: `CPU::step` samples interrupts, fetches one
instruction from a `Bus`, dispatches it to the executor of its extension and
finishes the step. A host program owns the hart, calls `step` or `run`, drives
six interrupt lines between steps, and may implement the `Bus` itself. Nothing
runs in parallel with a step; the interleavings are those of *guest* code:
interrupts and traps come between any two instructions and run other code.
Beside the hart, `riscv_*_opgen.hpp` generate random instructions for tests.

| Component | State | Operations | Interacts with | What is hard | What makes it correct |
|---|---|---|---|---|---|
| CSR file (`riscv_zicsr.hpp`) | the CSRs, the privilege mode | read, write with WARL legalisation, existence and permission tests, raw `get`/`set` | CSR instructions; trap entry, xRET and the lines, which bypass the legalisation | views of one register under several addresses and masks; fields kept legal by some writers only | every reachable value is one a legal write could store; a view reaches only what it shows |
| Hart (`riscv_cpu.hpp`) | `pc`, privilege, the interrupt lines in `mip` | `step`, trap entry, delegation, MRET/SRET, interrupts, SFENCE.VMA, WFI, reset | all others | nested traps, interrupts at the first instruction of a handler, several interrupts at once, delegation | isolation of the modes; no interrupt starves or pre-empts a handler; priority; a trap can be returned from |
| Counters | `mcycle(h)`, `minstret(h)` | counting at the three ends of a step, half writes, shadows | CSR file, hart | carries between halves that software reads and writes one by one | each pair is one wide counter of the documented events |
| Bus, `SimpleMemory`, `mem_access` (`riscv_common.hpp`) | bytes | read and write of 1, 2, 4 bytes, fetch, image load, clear | every executor, the host | the two ends of memory and of the address space; partial effects | faults exactly outside memory; no partial store |
| RV32A (`riscv_rv32a.hpp`) | `ReservationSet` | LR, SC, nine AMOs | bus, trap entry | traps between LR and SC; a read that succeeds before a write that faults | no update is lost; a trapping atomic has done nothing |
| RV32I/M, Zba, Zbb, Zbs, Zicond, Zifencei | integer registers | decode, execute | bus, hart | overlapping encodings, edge values of arithmetic, aliasing of rd and rs | each encoding has one meaning, with the ISA's result |
| RV32C, compressed F (`riscv_rv32c.hpp`, `riscv_rv32fc.hpp`) | none of its own | decode and execute 16-bit words | the same registers, bus, hart | immediates scattered over the word; encodings shared by instructions, hints and reserved ones | a compressed instruction acts as the one it abbreviates |
| RV32F (`riscv_rv32f.hpp`) | float registers, `fcsr` | decode, execute, resolve the rounding mode | the host's floating point and `<cfenv>`; `fcsr` in the CSR file | the host's NaNs, roundings and flags are not the ISA's; `fcsr` is copied out and back | flags accrue and are never lost; NaNs are canonical; conversions saturate |
| Dispatch and classifier (`riscv_cpu.hpp`, `riscv_opcode_classify.hpp`) | which extensions are enabled | ask the decoders in turn; list those that accept | all decoders | two decoders for one word | the order does not matter; disabled means illegal |
| Opcode generators | enable mask, options, random state | `generate(type)`, `generate_random`, one of a list, hints, `enable_group` | decoders | encoders written apart from decoders; draws repeated until one is allowed | what is generated decodes as drawn, is enabled, and comes at all |
| `System` | a hart and a memory | `load_program`, `reset` | host | a load that throws half way | a prefix is loaded |
| Disassembler, test program | none | print; run examples | all | – | – |

`PROJECT.json` lists the components with their sources, and under `hazards` the
places in this code that a test hardly reaches, with the property that watches
each. Sections 4 to 6 use its names.

## 2. Modules

| Module | What it is |
|---|---|
| `CsrFile` | The CSR file as a record, and its functions: legalisation (`LegalizeMstatus`, `LegalizeMpp`, ...), existence and permissions, `ReadCsr`, `WriteCsr`. No state of its own. |
| `Hart` | The state machine: one action per kind of instruction (`Plain`, `Jump`, `Fault`, `Ecall`, `CsrInstruction`, `Mret`, `Sret`, `SfenceVma`, `Wfi`, ...), `TakeInterrupt`, and the host's `SetLine` and `Reset`. |
| `Isolation` | What the privileged architecture promises: three nested domains, each with state of its own. |
| `MCHart` | The instances of `Hart` that are checked. |
| `Bus`, `Memory` | `SimpleMemory` as operators, and the accesses of the hart and the loads of the host as actions. |
| `AtomicCells` | Words changed only by whole read-modify-write operations. |
| `Atomics` | RV32A with several guest tasks and traps between their instructions. |
| `WideCounters` | Two counters of double width. |
| `Counters` | The counters in halves, and a program reading one. |
| `Words`, `Alu` | Words of `XLEN` bits, and the arithmetic of I, M, Zba, Zbb, Zbs and Zicond on them, as the code computes it. |
| `Executor` | What a decoded integer instruction does: `BaseEffect` gives the register it writes, the next pc, the access it asks for and the trap. |
| `Decode` | Each extension's 32-bit decoder (`TypeBy`), the immediates, the dispatch of `execute_32bit` (`Dispatch`) and the classifier (`Classes`). |
| `Compressed` | The two 16-bit decoders and what they do, and `Expansion`, the base instruction each abbreviates. |
| `Float` | Floats of any format, and what the host computes on them. |
| `Datapath` | A hart that executes integer and float instructions: registers, pc, `fcsr`, accesses a bus may refuse, traps. |
| `Encode`, `EncodeCompressed`, `IllegalWords` | The generators' encoders: what each draws, and how the word is put together. |
| `Generators` | The generator objects: mask, options, requests, the loops that draw; every word is held against `Decode` and `Compressed`. |
| `MCDatapath`, `MCGenerators` | Their instances. |
| `Numbers_proofs` | Lemmas on integers and their binary digits: division, disjoint fields, sets of bits as words. |
| `Words_proofs` | The same of the words of `Words`. |
| `Hart_proofs`, `Memory_proofs`, `Atomics_proofs`, `Counters_proofs`, `Generators_proofs`, `Datapath_proofs` | Theorems about the module of the same name; those of `Generators` include the decoders and the compressed instructions. |

`Hart` extends `CsrFile`; `Isolation`, `AtomicCells` and `WideCounters` are
abstract specifications that `Hart`, `Atomics` and `Counters` instantiate with
a refinement mapping. `Executor` extends `Alu`, which extends `Words`;
`Datapath` extends `Executor` and `Float`; `Compressed` extends `Executor`;
`Generators` extends `Decode`, `Compressed`, `EncodeCompressed` and
`IllegalWords`, the last two of which extend `Encode`.

### State

*Hart.* `csr` is the CSR file (a register of bits is the set of their names or
numbers), `priv` the privilege mode, `pc`, `reserved` whether the reservation is
valid, `line` the lines the host drives, `result` the `CPUExecResult` of the
last step. Values that only pass through (cause and trap value registers,
scratch registers, integer registers) are left out; what an instruction reads
from a register is chosen from a small set of operands. An interrupt is taken
before fetch exactly when one is deliverable, as in `begin_step`; otherwise
every instruction class of the guest may be the next. `pc` is a number modulo
`AddrSpace`, for the alignment and the wrap.

*Memory.* `mem` is the byte array, `last` the last access with its outcome.
A byte has `Byte` values, and an address space may end where the array ends.
`HasBuffer` is FALSE for a memory that was moved from. The words of one program
have one value.

*Atomics.* `cell` is memory by aligned words, `task` the registers of each
guest task, `running` the one whose instructions are executed, `reservation`
the `ReservationSet`, `trap` and `done` what the last instruction reported.
Traps are taken whole: `reservation` is cleared and any task may be the one
that runs next. `Return` is an xRET, which does not clear it.

*Counters.* `half` has the four CSRs, `retired` is what the step reported and
`reader` is a program that reads high, low and high again.

*Datapath.* `x`, `f`, `pc`, and `frm` and `fflags` as the CSR file holds them.
`did` is the instruction just executed and its outcome, `steps` counts towards
`max_instructions` of `CPU::run`, and `deck` names the group of instructions
and starting states a behaviour belongs to. A load is answered by the bus with
any value, or refused.

*Generators.* `gen` is the generator modelled, `mask` its `enabled_` with one
element for all the bits no type uses, `options` the modes the CSR generator was
told of. A call is a sequence of steps: `asked` is the request, `stage` where it
is (`picking` in `pick_enabled`, `drawing` and `hinting` in the loops), `tries`
the draws of `pick_enabled` that failed, `stream` a parity that stands for the
random state, so that a draw in vain is a step; `out` is the word returned with
what was drawn for it. `Any` is no generator: it gives words a program may hold
whatever made them, for the properties of the decoders.

Definitions whose names end in `Bug` are mutants: the definition that follows,
changed as a mistake in the code would change it. Nothing else uses them.

## 3. Environment

Rules the models assume of what is around the code:

* The configuration (`HasS`, `HasU`, `HasC`, `HasF`) is constant: the comment
  above `begin_step` requires a reset after a change. `allow_misaligned_data`
  is documented to take effect at the next step, and may differ at each access
  of `Memory`.
* A bus throws or answers; a bus that throws on some writes (`ReadOnly`) stands
  for the one a user writes. No device writes memory behind the guest.
* In `Atomics`, a task's SC stores the successor of what its LR loaded, and a
  handler returns only with no reservation valid, as the ISA manual asks of
  handlers, because xRET leaves the reservation alone.
* In `Counters`, nobody assigns a counter during a reading of it, and a reading
  does not take so many steps that the high half comes round.
* The host's `+`, `-`, `*`, `/`, `sqrt` and `fma` round the exact result once in
  the mode set, and raise the flags of IEEE 754; the statements between
  `feclearexcept` and `fetestexcept` are executed in the order written. The
  Makefile builds without optimisation; an optimised build without
  `FENV_ACCESS` promises neither. `FmaInvalid` is the one point IEEE 754 leaves
  open, whether `fma(inf, 0, qNaN)` is invalid; the ISA says it is, x86 that it
  is not, and the runs have the latter.

## 4. Runs

All runs are exhaustive on their instance. Deadlock is checked except in
`datapath` and `doc_fma`, where `CPU::run` stops after `max_instructions`.

| Run | Question | Instance |
|---|---|---|
| `hart_msu` | Do the mode, `mstatus` and the isolation of the modes stay right under every instruction class, TVM/TSR/TW and full delegation? | M, S, U; IALIGN 16; five values of `mstatus`; delegation of all or no exceptions; eight addresses; an odd `mtvec` |
| `hart_irq` | Is no handler of an interrupt pre-empted by another, is the interrupt taken the documented one, and do `sie`, `sip` and `mideleg` give a supervisor only what it was handed? | SSI, MSI and MTI, delegated or not, every alias that enables, sets or clears them |
| `hart_mu` | M and U without S, IALIGN 32: do mode and pcs stay legal, and are the platform's bits of `mip` out of software's reach? | every MPP a program can write, misaligned targets, vectors and exception pcs, `mip` written by software |
| `hart_live` | Does an enabled interrupt always get through to user code, and one for M-mode to a supervisor? | eight addresses, one M and one S interrupt |
| `memory` | Are faults exact, stores whole, and program loads that throw stored up to there, at both ends of memory and where sums wrap? | eight addresses, six bytes from 2 to the last one, a read-only byte, bytes of four values |
| `atomics` | Is an update ever lost? | two tasks, a writable and a read-only word of two bits, misaligned and unmapped addresses, all nine AMOs |
| `counters` | Are the halves one counter, and is a reading right? | registers of three values |
| `opgen` | Do generators and decoders agree on every encoding, is what is meant to be illegal illegal on every hart, does a compressed instruction do what it abbreviates, and does a call return what is enabled? | thirteen generators and `Any`; at most two calls that configure one; registers 0, 9, 22; single-bit and extreme immediates |
| `datapath` | Are results, flags and traps of the executors what arithmetic and the ISA say at the edges? | words of eight bits, floats with three exponent and four fraction bits; one instruction from many states, three from few |
| `doc_mpp`, `doc_fma`, `doc_mask` | Three statements of the documentation that the code does not keep; see section 7 | the smallest instance that shows each, or that of the passing run |

Why these bounds are enough. The privileged logic compares, masks and copies
fields; it does no arithmetic on them, so the named bits of the CSRs it looks
at are all there, and operands choose representative combinations of them.
Addresses matter by their alignment, by being wrapped and by crossing the ends
of memory: eight of them have every case (in `memory` an access at 7 is inside
the array with its first byte, and its end, computed in 32 bits, would be too).
With three interrupts, one of S and two of M, every order of arrival, enabling
and delegation of a pair occurs, and the scan must choose within a pass and
between the passes. Two tasks and one reservation give every interleaving that
can involve a reservation and a word, since a step compares the running task
with at most one other that ran since. Registers of three values carry after
one or two steps, so that a carry, a double carry and the wrap of both halves
occur within a reading. In `hart_live` the address space is 8 because with 4 a
plain instruction at IALIGN 32 does not change the state, and a stuttering step
would satisfy no fairness condition.

`opgen`: an encoder moves bits and does not compare them, so the immediates are
those with one bit set, those with all, and zero; a bit that one side puts
elsewhere shows. All operands are combined when a type is asked for by name
(`generate(type)`, and only before any configuration, since it does not look at
the mask); requests that choose a type take one vector of operands. Two calls
of `enable_group` switch off a group and another, or one and back on. Words are
executed with `XLEN` 20, wide enough for the immediate of C.LUI and within the
32-bit integers of TLC; the encodings themselves have all their 16 bits.

`datapath`: carries, signs and overflows of words are the same at eight bits as
at 32, and the operands are both ends, zero, minus one and words between. The
format of floats has subnormals, two rounding bits, values beyond either
integer range and both kinds of NaN. A unit is a half, so that conversions
round; the ten bits of FCLASS do not fit in a word of eight and are kept as
the position of the bit. That the laws of integers hold
at 32 bits is for the theorems of section 5; that the hexadecimal masks of the code
are the `Mask(k)` of the model at that width is by reading.

### Properties

* `TypeOK` in each state machine (that of `Counters` is not in a run, but
  proved).
* Hart: `ModeImplemented`, `MstatusLegal`, `MprvOnlyInM`, `PcsAligned`,
  `TrapReturnTransparent` (invariants), `PlatformPending`,
  `HandlerNotPreempted`, `InterruptPriority`, `PrivilegeMoves` (steps),
  `ImplementsIsolation` (refinement), `HigherModesServed` (liveness).
* Memory: `FaultsExact`, `StoreIsRead`; `ChangesAreAddressed`, `ProgramPrefix`.
* Atomics: `ReservationFresh`, `PreciseTrap`; `ImplementsAtomicCells`.
* Counters: `ReadingExact`; `ImplementsWideCounters`.
* Generators: `GeneratedDecodes`, `IllegalRejected`, `DispatchExact`,
  `CompressedExact`, `CsrStimulusTrapFree`, `AnswerEnabled` (invariants);
  `DrawEnds` (liveness).
* Datapath, all of them of steps: `IntegerLaws` (division, upper halves of
  products, counts, rotations), `OrdersAgree` (branches, set-less-than, minimum
  and maximum of integers and floats, FCLASS), `ConversionsExact`,
  `TrapsWithoutEffect`, `FlagsAccrue`, `NaNCanonical`, `DynamicAsStatic`.

The abstract specification of `Atomics` shows with each change the operation
its task is told of and the word the operation found. Without them, any new
value of a word would be a legal swap; with them, an SC that reports success
must be an addition of one to the word its LR loaded. `WideCounters` shows
`retired` for the same reason: a trap counted as retired would otherwise be
one more instruction.

The laws of `Datapath` are not the definitions of `Alu` again: a quotient is
judged by the remainder it leaves, an upper half by the product it completes,
a rotation by where the ones go, a count by the set it counts, an order of
FCLASS by the comparisons.

What three of the properties do not say. `PlatformPending` does not make MTIP
and MEIP equal to their lines: a reset clears `mip` and leaves the lines, so that
a line then high shows only when it is driven again. `HandlerNotPreempted` is of
interrupt entries; an exception taken to S-mode may be followed at once by an
interrupt to M-mode, which saves its pc elsewhere. `FlagsAccrue` sees when flags
are merged and that a trap keeps them, but not the packing of `fcsr`: the copies
out of the CSR file and back are one assignment of `frm` and `fflags`.

### Fairness

`hart_live` assumes weak fairness of `Step`, the hart's own steps. `CPU::run`
is a loop that calls `step` without any condition but a count, so a host that
runs the hart takes its steps for ever. Nothing is assumed of the host's
actions, of traps or of the guest's choice of instructions.

`opgen` and `doc_mask` assume that a call of a generator runs until it returns
(weak fairness of `Pick`, and of a hit or a miss of the loops), and that a draw
that can hit does some time (`Hit`, `HintHit`): draws are uniform over the
types, so that a type that is enabled is missed for ever with probability zero.
Nothing is assumed of the host's calls.

## 5. Theorems

Each holds for every value of the constants under the named assumptions of the
modules; the runs check the same formulas first.

**Hart** (`Hart_proofs`). The inductive invariant is in three layers.

1. `Shape`: the variables have their types, and the pcs and vectors are
   aligned (`ShapeInvariant`). It needs nothing else, because each value that
   becomes `pc` is masked when it is stored, or is `pc` plus a length: from it
   come `TypeCorrect`, `AlwaysAligned`, `PendingIsPlatforms`, `PrivilegeOnlyMoves`,
   `NeverPreempted` and `PriorityKept`. (`PendingIsPlatforms` also uses that a
   pending MTIP or MEIP has its line high, `ForgedStep`.)
2. `BitsOK` (`BitsInvariant`): `mstatus` has no bit its configuration lacks.
   Trap entry and xRET set bits without legalising, so this needs that trap
   entry is only ever to a mode that exists. With it, `MprvInvariant` and
   `AlwaysTransparent`.
3. `StatusOK` (`StatusInvariant`): MPP and the mode are implemented modes.
   This is inductive only if S-mode comes with U-mode (`HasS => HasU`), the
   assumption of `AlwaysImplemented` and `AlwaysLegal`; without it SRET enters
   a mode that does not exist (`doc_mpp`).

Steps are divided once, into six kinds (`StepKinds`): a trap, a quiet step that
leaves the CSRs alone, a CSR write, MRET, SRET, and a step of the host. Each
layer is proved by these kinds.
`PriorityKept` needs in addition what the scan computes: `ScanPosition` and
`ScanOrder` say that the first deliverable position of a pass precedes the
others.

`HartIsolated` is the refinement. Each kind of step is a step
of `Isolation` or stutters, in the mode it is taken in; the one hard case is a
supervisor's CSR write, which must leave the machine's part of the shared
registers alone (`sstatus`, `sie`, `sip` merge through masks).

**Memory** (`Memory_proofs`). `MemoryTyped` and `AlwaysExact`. The key is
`CheckAddrExact`: `check_addr` accepts an access exactly when each of its bytes
is in the array, for any base, size and address space, which needs the sum not
to be wrapped. `StoresAreRead` rests on `BytesJoin` (the bytes of a value of
each width, weighed and added, are the value) and `ReadWritten`.
`OnlyAddressedChange` and `PrefixIsLoaded` are action properties. For the second,
the bytes of different words are different ones (`WordsApart`), so that each word
before the one that throws is read back as it was stored (`WordInside`,
`ReadWord`, `StoredIsRead`), and a byte that changes is related to the word and
the place in it that its offset falls in (`ByteOfWord`), also where the load
wraps the address space.

**Atomics** (`Atomics_proofs`). `AlwaysFresh`: while a task is between LR and
SC and the reservation is valid, the word loaded is the word in memory. It is
inductive together with the shape of the variables: a task that is not running
may hold a stale word, and each action that makes another task run leaves no
valid reservation. `NothingLost`, the refinement, follows: `Check` and the
invariant turn the SC into an addition to the present word. `TrapsArePrecise`
is the action property. The result is independent of the width of words, the
number of tasks and the set of addresses.

**Counters** (`Counters_proofs`). `CountersAreWide`: splitting and joining by
`W` are inverse (`Joined`, `Splits`), so counting the halves counts the value
(`BumpCounts`) and assigning a half assigns half of the value (`HalfAssigned`).
`ReadingsAreExact` needs to know how far the counter is from where the reading
began. The inductive invariant `ReadingInv` says that it is no further ahead
than the steps taken (`NotFar`), and that the low half read is that of a value
passed on the way (`LowRead`); if the high half is the same at both ends, then
the value put together is the one passed, because the counter has not had time
to come round (`StepNear`, `AgainKeeps`). `CountersTyped` is its first part.

`TypeCorrect` needs that a sum wraps to a word and that AND, OR and XOR, which
act on the sets of the ones of their operands, give words: a set of bits below
`Bits` weighs less than `2^Bits` (`Numbers_proofs`).

**Decoders** (`Generators_proofs`). `DecodersAreExact`: no two decoders accept
the same word. Each extension's accepted words lie in a region given by opcode,
funct7, funct3 and rs2 (`ReadsClaimed`, `ClaimsOwned`), and the regions are
disjoint. `DispatchIsExact` follows for every set of enabled extensions: the
dispatch asks the owner if it is enabled, and the base decoder, which refuses
the word, if not. These are about all words, of which `opgen` sees samples
(`DispatchExact`).

**Generators** (`Generators_proofs`). All invariants of `opgen`, for every choice
of operands, registers, rounding modes and orderings an encoder may draw. The
argument has three parts.

1. *Encoders and decoders.* A field that is put into a word comes out again,
   whatever its neighbours are, as fields occupy disjoint bits: there is one
   lemma for each format of 32 bits, and one for each compressed one, where an
   immediate is scattered over up to eight places (`Numbers_proofs` has the
   digits of a number). From the formats follows the round trip of each table of
   encodings (`OrderedRoundTrip` and those before it), and that no word of an
   illegal class is accepted by any decoder.
2. *Compressed instructions.* `CompressedShape` says which instructions the two
   16-bit decoders give at all, with operands in which ranges; `ExpansionExact`
   goes through them, and shows that each has the effect of its expansion, for
   all register contents, pcs and widths of the registers; hints change
   nothing but the pc.
3. *The calls.* `IInv` is the inductive invariant. `Settings`: mask and options
   are of this generator. `Answering`: there is a word exactly when the call has
   returned, and it is `Sound`, made by an encoder from operands it may draw.
   `Asking`: what is being drawn is of a kind this generator has, and a loop that
   looks for a type was entered only when the list that was asked for has none.
   `AnswerEnabled` is not inductive without the last, as what a draw may return
   depends on what the earlier steps of the call found. Each action of `Next`
   has its lemma (`AskStep`, `PickStep`, `HitStep`, `HintHitStep`, `MissStep`,
   `GenerateStep`, `QuietStep`).

From `Sound` and the first two parts follow `GeneratorsDecode`,
`IllegalWordsTrap`, `ReturnedWordsDispatch`, `CompressedMeansExpansion` and
`CsrStimulusSafe`, and from `IInv` itself `TypeCorrect` and
`AnswersAreEnabled`. Assumed are `DrawAssumption` (the operands drawn are
registers, immediates and modes an instruction can have, and there is some of
each), `GeneratorAssumption` and `WordAssumption`.

**Datapath** (`Datapath_proofs`). `TrapsAreClean`, `FlagsOnlyAccrue`,
`NaNsAreCanonical` and `DynamicIsStatic`, by the instruction executed: every
assignment to a register is guarded by the absence of a trap, and each result of
the float executor passes `write_canonical`. They need no invariant but that
stimuli are what a decoder produces, hold for every width and format, and
suppose nothing of what the host computes.

`TypeCorrect` supposes what the code guarantees of a step's inputs: registers
that are named exist, an immediate is an `int32_t`, a rounding mode has three
bits, x0 is zero at reset, words are 2^n bits and at least a byte, and 1.0 is a
number of the format (`StartsAssumption`, `DecodedAssumption`,
`HartAssumption`, `FloatAssumption`). Its invariant, `Inductive`, is `TypeOK` with the
pc even. What has to be shown is that every result is a word: of the two binary
searches and the parallel count, by following their states; of the host's
operations, because a rounded magnitude, once packed, is below that of infinity
(`PackedRange`), for which the exponent `CHOOSE` looks for must be shown to
exist (`StepShape`).

What the results mean:

* `OneOrder`. Comparing two floats is comparing their ranks, as `Extent` (the word
  without its sign) grows with the magnitude; the classes are bands of it
  (`ExtentBands`, `ClassOfExtent`). For words, comparing the signs first and the
  words next compares the numbers (`SignedOrder`).
* `ConversionsKeep`. The definition of each rounding mode by its error has
  one solution, and `Nearest` is it (`NearestRounds`). An integer that converts
  without a flag had a step of its binade that divides it, so that unpacking
  gives it back (`OfIntegerExact`, `WholeComesBack`).
* `IntegersLawful`, in four parts.
  - `Divided`: truncated division by magnitudes (`TowardsZero`), and the overflow
    of the least number divided by -1 (`Divides`).
  - `ProductsAreWhole`: upper and lower half join to the product because the upper
    half of a product of two words, read with its sign, is in range
    (`HalvesJoin`). In MULHSU the code's 64-bit product wraps; it loses nothing,
    since the true product fits `int64_t` (`HsuExact`).
  - `Counts`: the binary searches end with a number whose first digit, or last, is
    one (`ClzFinds`, `CtzFinds`), so that the zeros before or after it are an
    interval (`LeadingRun`, `TrailingRun`). The parallel count adds numbers whose
    groups of digits never carry into each other (`GroupsAdd`), each group
    holding the ones of a span of the word (`Tallies`): one digit, two, four,
    eight, then twice as many by each addition (`BytesCounted`, `SumsCounted`).
    This part supposes `ShamtBits <= 7`, words of at most 128 bits, because the
    last sums are kept in bytes; the code has `ShamtBits = 5`.
  - `Rotations`: the two shifts move the ones to disjoint places that are together
    the whole word (`ShiftsMove`).

  A result is a binary number, so these rest on facts about digits that
  are proved once (`Numbers_proofs`): a number is the sum of its digits, digits
  determine it, and a multiplication by a power of two moves them.

Only model-checked: `HigherModesServed` and `DrawEnds`, because liveness under
fairness is out of the prover's reach.

## 6. Not modelled

* The disassembler and the printing of results: formatting. The test program:
  expectations.
* The encoder functions at the end of each extension's header, for tests written
  by hand; the generators have their own, which are modelled.
* Of the generators: the probability of each draw, seeds, the retries inside an
  operand's draw (the set of what may come out is modelled), and
  `generate_sequence`, which calls `generate_random` a number of times.
* Of the CSR file: `misa`, `satp` (stored, never used for translation), the
  scratch registers, and the callbacks, which nothing modelled depends on.
* Floating-point arithmetic of binary32: it is the host's; see section 3. RMM
  arithmetic, which the code rounds as RNE and documents so, is as in the code.

## 7. Where code and documentation differ

Three runs check a sentence of the documentation and show a state or behaviour
of the code that does not keep it.

* `doc_mpp`: in a hart with S-mode and no U-mode SRET enters U-mode, and the
  next trap puts U in MPP (`riscv_cpu.hpp:846`,
  `doc/riscv_csr_reference.md:138`).
* `doc_fma`: FNMADD.S and FNMSUB.S negate what `std::fma` has rounded
  (`riscv_rv32f.hpp:737`, `riscv_rv32f.hpp:750`), while the header (line 46)
  calls the arithmetic bit-exact. In RDN and RUP the result is rounded the wrong
  way, and an exact zero has the wrong sign in every mode: FNMSUB.S of three
  zeros gives -0. Negating an operand before the call would be exact.
* `doc_mask`: a generator whose groups have all been switched off one by one
  still has the unused bits of its mask, which is therefore not "empty", and
  draws for ever (`riscv_rv32i_opgen.hpp:510` and the same loop in the others;
  `riscv_rv32i_opgen.hpp:13`, `README.md:393`). `DrawEnds` says what holds: a
  call returns if a type is enabled, if the mask is zero, and always in RV32C.

Smaller ones have no run:

* A CSR write to `mip` clears the pending bit of a supervisor line that stays
  high, and nothing sets it again (`riscv_zicsr.hpp:487`); `README.md:284` calls
  the lines level-sensitive.
* A supervisor timer interrupt is delivered, to M-mode, in a hart without S-mode
  (`riscv_cpu.hpp:217`); `README.md:290` says that it needs S-mode.
* `mcounteren` exists with M-mode only (`riscv_zicsr.hpp:269`), unlike the
  comment at line 140.
* The generator of CSR instructions lists `fflags`, `frm` and `fcsr` among the
  CSRs that always exist, which they do with F only; `CsrStimulusTrapFree` is of
  harts with F.

## 8. Plan

Done: privilege, traps and interrupts (`Hart`); memory; atomics; counters;
decoders and dispatch; compressed instructions; the arithmetic; floating point
over a small format with `fcsr`; the generators; the proofs of section 5.

What is left, in order:

1. The callbacks of the CSR file and `misa`, with a host that changes the
   configuration and resets.
2. `Datapath` composed with `Memory`, in place of a bus that answers anything.
3. A refinement of `Hart` by a hart that has `Datapath`'s registers, so that CSR
   operands are register contents.
