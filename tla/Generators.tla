----------------------------- MODULE Generators -----------------------------
(***************************************************************************)
(* The opcode generators (riscv_*_opgen.hpp): objects with an enable mask  *)
(* that a host configures and asks for instructions, and that draw until a *)
(* draw is allowed.  Every word they return is held against the decoders   *)
(* and the executors, which the code writes apart from them.               *)
(*                                                                         *)
(* One generator is modelled at a time; gen says which.  "Any" is not a    *)
(* generator: it stands for the words a program may hold whatever made     *)
(* them.                                                                   *)
(***************************************************************************)
EXTENDS Decode, Compressed, EncodeCompressed, IllegalWords, Functions

CONSTANTS
  Gens,           \* the generators of this model
  MaxCalls,       \* bound: configuration calls made on a generator
  AnyParcels,     \* 16-bit words a program holds
  AnyWords,       \* 32-bit words a program holds
  RegisterFiles,  \* register contents under which words are executed
  Pcs             \* and program counters

ASSUME GeneratorAssumption ==
  /\ Gens \subseteq {"I", "M", "A", "F", "C", "FC", "Zba", "Zbb", "Zbs", "Zicond", "Zicsr",
                     "Zifencei", "Illegal", "Any"}
  /\ MaxCalls \in Nat
  /\ AnyParcels \subseteq Parcel /\ AnyParcels # {}
  /\ AnyWords \subseteq Word32 /\ AnyWords # {}
  /\ \A x \in RegisterFiles : x \in [0 .. 31 -> Word] /\ x[0] = 0
  /\ Pcs \subseteq Word

VARIABLES
  gen,      \* which generator
  mask,     \* enabled_: enabled types, and "unused" for the bits above them
  options,  \* set_s_mode, set_u_mode, and set_standard_only(false)
  calls,    \* configuration calls made (bounds the model)
  stage,    \* where the running request is
  asked,    \* the request
  tries,    \* draws of pick_enabled that were not enabled
  stream,   \* parity of the draws that were not enabled
  out       \* the word returned

vars == <<gen, mask, options, calls, stage, asked, tries, stream, out>>

(***************************************************************************)
(* The generators.                                                         *)
(***************************************************************************)
CTypes ==
  {"C_ADDI4SPN", "C_LW", "C_SW", "C_NOP", "C_ADDI", "C_JAL", "C_LI", "C_ADDI16SP", "C_LUI",
   "C_SRLI", "C_SRAI", "C_ANDI", "C_SUB", "C_XOR", "C_OR", "C_AND", "C_J", "C_BEQZ", "C_BNEZ",
   "C_SLLI", "C_LWSP", "C_JR", "C_MV", "C_EBREAK", "C_JALR", "C_ADD", "C_SWSP"}

FcTypes == {"C_FLW", "C_FSW", "C_FLWSP", "C_FSWSP"}

Table(g) ==
  CASE g = "I" -> BaseTable [] g = "M" -> MTable [] g = "A" -> ATable [] g = "F" -> FTable
    [] g = "Zba" -> ZbaTable [] g = "Zbb" -> ZbbTable [] g = "Zbs" -> ZbsTable
    [] g = "Zicond" -> ZicondTable

TableGens == {"I", "M", "A", "F", "Zba", "Zbb", "Zbs", "Zicond"}

\* InstrType, and the class indices of the illegal-word generator.
Types(g) ==
  CASE g \in TableGens -> DOMAIN Table(g)
    [] g = "C" -> CTypes
    [] g = "FC" -> FcTypes
    [] g = "Zicsr" -> CsrTypes
    [] g = "Zifencei" -> {"FENCE_I"}
    [] g = "Illegal" -> DOMAIN Classes32 \union DOMAIN Classes16
    [] g = "Any" -> {"parcel", "word"}

Hints(g) == IF g = "C" THEN HintTypes ELSE {}

\* groups::ALL is ~0ull, which has bits no type uses.
All(g) == Types(g) \union Hints(g) \union {"unused"}

\* The groups a host is modelled to switch on and off.
Groups(g) ==
  {All(g)} \union
  CASE g = "I" -> {{"LUI", "AUIPC"}, {"JAL", "JALR"}, {"LB", "LH", "LW", "LBU", "LHU"},
                   {"SB", "SH", "SW"}, {"BEQ", "BNE", "BLT", "BGE", "BLTU", "BGEU"}}
    [] g = "M" -> {{"MUL", "MULH", "MULHSU", "MULHU"}, {"DIV", "DIVU", "REM", "REMU"}}
    [] g = "A" -> {{"LR_W", "SC_W"}, Types("A") \ {"LR_W", "SC_W"}}
    [] g = "F" -> {{"FLW", "FSW"}, {"FADD_S", "FSUB_S", "FMUL_S", "FDIV_S", "FSQRT_S"},
                   {"FMADD_S", "FMSUB_S", "FNMADD_S", "FNMSUB_S"}, {"FEQ_S", "FLT_S", "FLE_S"}}
    [] g = "C" -> {{"C_LW", "C_SW", "C_LWSP", "C_SWSP"},
                   {"C_JAL", "C_J", "C_BEQZ", "C_BNEZ", "C_JR", "C_JALR"}, CTypes, HintTypes}
    [] g = "FC" -> {{"C_FLW", "C_FLWSP"}, {"C_FSW", "C_FSWSP"}}
    [] g = "Zba" -> {{t} : t \in {"SH1ADD", "SH2ADD", "SH3ADD"}}
    [] g = "Zbb" -> {{"CLZ", "CTZ", "CPOP"}, {"ROL", "ROR", "RORI"}}
    [] g = "Zbs" -> {{"BSET", "BCLR", "BINV", "BEXT"}, {"BSETI", "BCLRI", "BINVI", "BEXTI"}}
    [] g = "Zicond" -> {{"CZERO_EQZ"}, {"CZERO_NEZ"}}
    [] g = "Zicsr" -> {{"CSRRW", "CSRRS", "CSRRC"}, {"CSRRWI", "CSRRSI", "CSRRCI"}}
    [] g = "Illegal" -> {DOMAIN Classes32, DOMAIN Classes16}
    [] OTHER -> {}

(***************************************************************************)
(* The requests.  "list" asks pick_enabled for one of a list, "pair" takes *)
(* an enabled one of two, "category" one of a list whatever is enabled,    *)
(* "ordered" any enabled atomic with these bits aq and rl.                 *)
(***************************************************************************)
Request(kind, from) == [kind |-> kind, from |-> from]
None == Request("none", <<>>)

BaseLists ==
  {<<"LUI", "AUIPC", "LB", "LH", "LW", "LBU", "LHU", "SB", "SH", "SW", "ADDI", "SLTI",
     "SLTIU", "XORI", "ORI", "ANDI", "SLLI", "SRLI", "SRAI", "ADD", "SUB", "SLL", "SLT",
     "SLTU", "XOR", "SRL", "SRA", "OR", "AND", "FENCE">>,
   <<"ADDI", "SLTI", "SLTIU", "XORI", "ORI", "ANDI", "SLLI", "SRLI", "SRAI", "ADD", "SUB",
     "SLL", "SLT", "SLTU", "XOR", "SRL", "SRA", "OR", "AND">>,
   <<"LB", "LH", "LW", "LBU", "LHU", "SB", "SH", "SW">>,
   <<"BEQ", "BNE", "BLT", "BGE", "BLTU", "BGEU">>}

MLists == {<<"MUL", "MULH", "MULHSU", "MULHU">>, <<"DIV", "DIVU", "REM", "REMU">>}

ALists ==
  {<<"AMOSWAP_W", "AMOADD_W", "AMOXOR_W", "AMOAND_W", "AMOOR_W", "AMOMIN_W", "AMOMAX_W",
     "AMOMINU_W", "AMOMAXU_W">>,
   <<"AMOADD_W", "AMOMIN_W", "AMOMAX_W", "AMOMINU_W", "AMOMAXU_W">>,
   <<"AMOSWAP_W", "AMOXOR_W", "AMOAND_W", "AMOOR_W">>}

FLists ==
  {<<"FADD_S", "FSUB_S", "FMUL_S", "FDIV_S", "FSQRT_S">>,
   <<"FMADD_S", "FMSUB_S", "FNMADD_S", "FNMSUB_S">>,
   <<"FCVT_W_S", "FCVT_WU_S", "FCVT_S_W", "FCVT_S_WU">>,
   <<"FEQ_S", "FLT_S", "FLE_S">>, <<"FSGNJ_S", "FSGNJN_S", "FSGNJX_S">>,
   <<"FADD_S", "FSUB_S", "FMUL_S", "FDIV_S", "FSQRT_S", "FMIN_S", "FMAX_S", "FMADD_S",
     "FMSUB_S", "FNMADD_S", "FNMSUB_S", "FCVT_W_S", "FCVT_WU_S", "FCVT_S_W", "FCVT_S_WU",
     "FMV_X_W", "FMV_W_X", "FEQ_S", "FLT_S", "FLE_S", "FSGNJ_S", "FSGNJN_S", "FSGNJX_S",
     "FCLASS_S">>}

CLists ==
  {<<"C_ADDI", "C_LI", "C_ADDI16SP", "C_LUI", "C_SRLI", "C_SRAI", "C_ANDI", "C_SUB", "C_XOR",
     "C_OR", "C_AND", "C_SLLI", "C_MV", "C_ADD">>,
   <<"C_LW", "C_SW", "C_LWSP", "C_SWSP">>,
   <<"C_JAL", "C_J", "C_BEQZ", "C_BNEZ", "C_JR", "C_JALR">>,
   <<"C_ADDI4SPN", "C_LW", "C_SW", "C_NOP", "C_ADDI", "C_LI", "C_ADDI16SP", "C_LUI", "C_SRLI",
     "C_SRAI", "C_ANDI", "C_SUB", "C_XOR", "C_OR", "C_AND", "C_SLLI", "C_LWSP", "C_MV",
     "C_ADD", "C_SWSP">>}

FcPairs ==
  {<<"C_FLW", "C_FLWSP">>, <<"C_FSW", "C_FSWSP">>, <<"C_FLW", "C_FSW">>, <<"C_FLWSP", "C_FSWSP">>}

ZbbCategories ==
  {<<"ANDN", "ORN", "XNOR">>, <<"CLZ", "CTZ", "CPOP">>, <<"MIN", "MINU", "MAX", "MAXU">>,
   <<"SEXT_B", "SEXT_H", "ZEXT_H">>, <<"ROL", "ROR", "RORI">>}

ZbsCategories ==
  {<<"BSET", "BCLR", "BINV", "BEXT">>, <<"BSETI", "BCLRI", "BINVI", "BEXTI">>,
   <<"BSET", "BSETI", "BCLR", "BCLRI">>}

Each(kind, lists) == {Request(kind, l) : l \in lists}

Asks(g) ==
  {Request("random", <<>>)} \union
  CASE g = "I" -> Each("list", BaseLists) \union {Request("pair", <<"JAL", "JALR">>)}
    [] g = "M" -> Each("list", MLists)
    [] g = "A" -> Each("list", ALists)
                    \union {Request("ordered", <<2>>), Request("ordered", <<1>>), Request("ordered", <<3>>)}
    [] g = "F" -> Each("list", FLists) \union {Request("pair", <<"FLW", "FSW">>)}
    [] g = "C" -> Each("list", CLists) \union {Request("hint", <<>>), Request("mixed", <<>>)}
    [] g = "FC" -> Each("pair", FcPairs)
    [] g = "Zbb" -> Each("category", ZbbCategories)
    [] g = "Zbs" -> Each("category", ZbsCategories)
    [] OTHER -> {}

(***************************************************************************)
(* Drawing the operands of a type and encoding the word.                   *)
(***************************************************************************)
NoOperands == [type |-> "none", rd |-> 0, rs1 |-> 0, rs2 |-> 0, imm |-> 0]
NoWord == EncodeR(0, 0, 0, 0, 0, "RESERVED")
NoOut == [bits |-> 0, parcel |-> 0, word |-> NoWord, type |-> "none", drawn |-> NoOperands]

Out32(t, w, d) == [bits |-> 32, parcel |-> 0, word |-> w, type |-> t, drawn |-> d]
Out16(t, p, d) == [bits |-> 16, parcel |-> p, word |-> NoWord, type |-> t, drawn |-> d]

\* What the generator function of a type draws: operands, or the word.
Draws(g, t) ==
  CASE g \in TableGens -> Operands(Table(g)[t], t)
    [] g = "C" -> IF t \in HintTypes THEN HintOperands(t) ELSE COperands(t)
    [] g = "FC" -> FcOperands(t)
    [] g = "Zicsr" -> CsrOperands(t, "s" \in options, "u" \in options)
    [] g = "Zifencei" -> FenceIOperands("ignored" \notin options)
    [] g = "Illegal" -> IF t \in DOMAIN Classes32 THEN Classes32[t] ELSE Classes16[t]
    [] g = "Any" -> IF t = "word" THEN AnyWords ELSE AnyParcels

Made(g, t, d) ==
  CASE g \in TableGens -> Out32(t, Encode32(Table(g)[t], d), d)
    [] g \in {"C", "FC"} -> Out16(t, Encode16(d), d)
    [] g = "Zicsr" -> Out32(t, EncodeCsr(d), d)
    [] g = "Zifencei" -> Out32(t, EncodeFenceI(d), d)
    [] t \in DOMAIN Classes32 \union {"word"} -> Out32(t, d, NoOperands)
    [] OTHER -> Out16(t, d, NoOperands)

\* Bound: the operands of a type are drawn in every way for generate(type);
\* a request that first chooses the type stops at one way.
AnyDraw(t) == CHOOSE d \in Draws(gen, t) : TRUE

Answered(o) == stage' = "answered" /\ out' = o /\ tries' = 0 /\ stream' = 0
Answer(t) == Answered(Made(gen, t, AnyDraw(t)))

(***************************************************************************)
(* The loop of generate_random and random_enabled_type.                    *)
(***************************************************************************)
\* Without a canonical type the compressed generator draws for ever too.
EligibleBug(g) == IF mask = {} THEN Types(g) ELSE mask \intersect Types(g)

\* m: an empty mask is legalized to all; the compressed generator looks at
\* the bits of its types only.
Eligible(g) ==
  IF mask = {} \/ (g = "C" /\ mask \intersect Types(g) = {}) THEN Types(g)
  ELSE mask \intersect Types(g)

EligibleHints == IF mask = {} THEN HintTypes ELSE mask \intersect HintTypes

\* An atomic with its bits aq and rl overwritten.
WithOrdering(t, bits) ==
  LET d == [AnyDraw(t) EXCEPT !.imm = bits] IN Answered(Made(gen, t, d))

Hit ==
  /\ stage = "drawing"
  /\ \E t \in Eligible(gen) :
       IF asked.kind = "ordered" THEN WithOrdering(t, asked.from[1]) ELSE Answer(t)
  /\ UNCHANGED <<gen, mask, options, calls, asked>>

HintHit ==
  /\ stage = "hinting"
  /\ \E t \in EligibleHints : Answer(t)
  /\ UNCHANGED <<gen, mask, options, calls, asked>>

\* A draw that is not enabled: only the random stream moves on.
Miss ==
  /\ \/ stage = "drawing" /\ Types(gen) \ Eligible(gen) # {}
     \/ stage = "hinting" /\ HintTypes \ EligibleHints # {}
  /\ stream' = 1 - stream
  /\ UNCHANGED <<gen, mask, options, calls, stage, asked, tries, out>>

(***************************************************************************)
(* pick_enabled                                                            *)
(***************************************************************************)
PickTries == 8

\* After eight draws the first of the list is taken.
FirstEnabledBug(list) == <<list[1]>>

\* The ordered scan: the first enabled type of the list, if there is one.
FirstEnabled(list) ==
  LET on == {i \in DOMAIN list : list[i] \in mask}
  IN  IF on = {} THEN <<>> ELSE <<list[CHOOSE i \in on : \A j \in on : i <= j]>>

Pick ==
  /\ stage = "picking"
  /\ IF tries < PickTries
     THEN \E t \in Range(asked.from) :
            IF t \in mask THEN Answer(t)
            ELSE tries' = tries + 1 /\ UNCHANGED <<stage, stream, out>>
     ELSE LET found == FirstEnabled(asked.from)
          IN  IF found # <<>> THEN Answer(found[1])
              ELSE stage' = "drawing" /\ tries' = 0 /\ UNCHANGED <<stream, out>>
  /\ UNCHANGED <<gen, mask, options, calls, asked>>

(***************************************************************************)
(* The host: generate_xxx, generate(type), enable_group and the options.   *)
(***************************************************************************)
Waiting == stage = "idle"

Starts(s) == stage' = s /\ tries' = 0 /\ stream' = 0 /\ out' = NoOut

HintStage == IF EligibleHints = {} THEN "drawing" ELSE "hinting"

Ask(r) ==
  /\ Waiting
  /\ asked' = r
  /\ CASE r.kind \in {"random", "ordered"} -> Starts("drawing")
       [] r.kind = "list" -> Starts("picking")
       [] r.kind = "hint" -> Starts(HintStage)
       [] r.kind = "mixed" -> Starts("drawing") \/ Starts(HintStage)
       [] r.kind = "category" -> \E t \in Range(r.from) : Answer(t)
       [] r.kind = "pair" ->
            LET on == Range(r.from) \intersect mask
            IN  IF on = {} THEN Starts("drawing") ELSE \E t \in on : Answer(t)
  /\ UNCHANGED <<gen, mask, options, calls>>

\* generate(type) and generate_hint(type) ignore the mask.
Generate(t) ==
  /\ Waiting
  /\ asked' = Request("type", <<t>>)
  /\ \E d \in Draws(gen, t) : Answered(Made(gen, t, d))
  /\ UNCHANGED <<gen, mask, options, calls>>

Quiet == stage' = "idle" /\ asked' = None /\ tries' = 0 /\ stream' = 0 /\ out' = NoOut

\* The host takes the word.
Take ==
  /\ stage = "answered"
  /\ Quiet
  /\ UNCHANGED <<gen, mask, options, calls>>

EnableGroup(group, on) ==
  /\ Waiting
  /\ calls < MaxCalls
  /\ calls' = calls + 1
  /\ mask' = IF on THEN mask \union group ELSE mask \ group
  /\ Quiet
  /\ UNCHANGED <<gen, options>>

Options(g) ==
  CASE g = "Zicsr" -> {"s", "u"} [] g = "Zifencei" -> {"ignored"} [] OTHER -> {}

SetOption(o, on) ==
  /\ Waiting
  /\ options' = IF on THEN options \union {o} ELSE options \ {o}
  /\ Quiet
  /\ UNCHANGED <<gen, mask, calls>>

Init ==
  /\ gen \in Gens
  /\ mask = All(gen)
  /\ options = {}
  /\ calls = 0
  /\ stage = "idle"
  /\ asked = None
  /\ tries = 0
  /\ stream = 0
  /\ out = NoOut

\* Bound: generate(type), which does not look at the mask, is asked of a
\* generator that has not been configured.
Next ==
  \/ \E r \in Asks(gen) : Ask(r)
  \/ calls = 0 /\ \E t \in Types(gen) \union Hints(gen) : Generate(t)
  \/ \E group \in Groups(gen), on \in BOOLEAN : EnableGroup(group, on)
  \/ \E o \in Options(gen), on \in BOOLEAN : SetOption(o, on)
  \/ Take
  \/ Pick
  \/ Hit
  \/ HintHit
  \/ Miss

\* A call runs until it returns, and the draws are uniform: a type that is
\* enabled is drawn some time.
Spec ==
  /\ Init /\ [][Next]_vars
  /\ WF_vars(Pick) /\ WF_vars(Hit \/ Miss) /\ WF_vars(Hit)
  /\ WF_vars(HintHit \/ Miss) /\ WF_vars(HintHit)

(***************************************************************************)
(* Properties                                                              *)
(***************************************************************************)
\* Every variable is of its type, and a call that waits for nothing has left
\* no draw behind.
TypeOK ==
  /\ gen \in Gens
  /\ mask \subseteq All(gen)
  /\ options \subseteq Options(gen)
  /\ calls \in 0 .. MaxCalls
  /\ stage \in {"idle", "picking", "drawing", "hinting", "answered"}
  /\ tries \in 0 .. PickTries
  /\ stream \in {0, 1}
  /\ out.bits \in {0, 16, 32} /\ out.parcel \in Parcel /\ out.word \in Word32
  /\ (out # NoOut) = (stage = "answered")
  /\ stage # "picking" => tries = 0

\* The sets of extensions a hart is built with here: all, none, one alone
\* and all but one.
Harts ==
  {Extensions, {}} \union {{x} : x \in Extensions} \union {Extensions \ {x} : x \in Extensions}

Generated == out.bits # 0 /\ gen \notin {"Illegal", "Any"}

\* The instruction a hint is a form of.
Canonical(t) ==
  CASE t = "C_ADDI_X0" -> "C_NOP" [] t = "C_LI_X0" -> "C_LI" [] t = "C_LUI_X0" -> "C_LUI"
    [] t = "C_MV_X0" -> "C_MV" [] t = "C_ADD_X0" -> "C_ADD"
    [] t \in {"C_SLLI_X0", "C_SLLI64"} -> "C_SLLI"
    [] t = "C_SRLI64" -> "C_SRLI" [] t = "C_SRAI64" -> "C_SRAI" [] OTHER -> t

\* A generated word is read by its own decoder, and by no other, as the type
\* that was asked for with the operands that were drawn: the encoders and
\* the decoders, written apart and each scattering immediates over the word,
\* agree (riscv_*_opgen.hpp against the Decoder classes and OpcodeClassifier).
GeneratedDecodes ==
  Generated =>
    LET d == out.drawn
        meant == [rd |-> d.rd, rs1 |-> d.rs1, rs2 |-> d.rs2, imm |-> d.imm]
        parcel == Decode16(out.parcel, TRUE, TRUE)
    IN  IF out.bits = 32
        THEN /\ Classes(out.word, TRUE) = {gen}
             /\ TypeBy(gen, out.word, TRUE) = out.type
             /\ Read(out.word) = meant
        ELSE /\ parcel.type = Canonical(out.type)
             /\ [rd |-> parcel.rd, rs1 |-> parcel.rs1, rs2 |-> parcel.rs2, imm |-> parcel.imm] = meant

\* A word of an illegal class raises an illegal-instruction trap on a hart
\* with any extensions and modes: no decoder executes it, or it is a CSR
\* instruction whose CSR exists on no hart.
IllegalRejected ==
  (gen = "Illegal" /\ out.bits # 0) =>
    IF out.bits = 16
    THEN \A hasF \in BOOLEAN : Decode16(out.parcel, TRUE, hasF).type = Illegal
    ELSE \A enabled \in Harts, s \in BOOLEAN :
           \/ Dispatch(out.word, enabled, s) = Illegal
           \/ /\ out.type = "csr_addr"
              /\ \A hasF, u \in BOOLEAN : ~CsrExists(Csr(out.word), hasF, s, u)

\* "The decoders are exact (no aliasing between extensions), so the order
\* below only determines which module claims its own opcodes; disabled
\* extensions simply fall through and end up ILLEGAL" (CPU::execute_32bit):
\* no word has two decoders, and on a hart with any extensions the owner of
\* a word executes it if it is enabled, and nothing does otherwise.
DispatchExact ==
  out.bits = 32 =>
    \A s \in BOOLEAN :
      /\ NoAliasing(out.word, s)
      /\ \A enabled \in Harts : DispatchedByItsOwner(out.word, enabled, s)

\* What a hart sees of an effect: a write to x0 is none.
Visible(e) == IF e.rd = 0 THEN [e EXCEPT !.value = 0] ELSE e

\* A compressed instruction does what the base instruction it abbreviates
\* does, two bytes long, whichever registers coincide: C.JALR through its own
\* link register, C.ADD of a register to itself, x0 in any place.
CompressedAsExpansion ==
  out.bits = 16 =>
    LET d == CDecode(out.parcel)
    IN  d.type # Illegal =>
          \A x \in RegisterFiles, pc \in Pcs :
            Visible(CompressedEffect(d, x, x, pc))
              = Visible(BaseEffect(Expansion(d), x, pc, 2, TRUE, 3))

\* "HINTs are architecturally VALID encodings that execute as NOPs ...
\* Hardware decoders must not trap them" (riscv_rv32c_opgen.hpp): a hint
\* changes nothing but the pc.
HintsExecuteAsNops ==
  out.type \in HintTypes =>
    LET d == Decode16(out.parcel, TRUE, TRUE)
        unchanged(e, x) == [e EXCEPT !.value = IF e.rd = 0 \/ e.value = x[e.rd] THEN 0 ELSE e.value,
                                     !.rd = 0]
    IN  \A x \in RegisterFiles, pc \in Pcs :
          unchanged(CompressedEffect(d, x, x, pc), x) = Nothing(Trunc(pc + 2))

\* What a compressed word means, hints included (riscv_rv32c.hpp).
CompressedExact == CompressedAsExpansion /\ HintsExecuteAsNops

\* A generated CSR instruction does not trap in M-mode on a hart with the
\* modes the generator was told of, and F: its CSR exists, and is not a
\* read-only one that would be written.
CsrStimulusTrapFree ==
  (gen = "Zicsr" /\ out.bits # 0) =>
    LET a == out.drawn.imm
        writes == out.type \in {"CSRRW", "CSRRWI"} \/ out.drawn.rs1 # 0
    IN  /\ CsrExists(a, TRUE, "s" \in options, "u" \in options)
        /\ writes => ~ReadOnlyAddress(a)

\* The answer is enabled if there is an enabled answer: of the list asked
\* for first, of the whole generator otherwise, and never of a type switched
\* off while one is on.
AnswerEnabled ==
  stage = "answered" =>
    LET on == mask \intersect Types(gen)
        wanted == IF asked.kind \in {"list", "pair"} THEN Range(asked.from) \intersect mask
                  ELSE IF asked.kind = "hint" THEN mask \intersect HintTypes ELSE {}
    IN  asked.kind \notin {"type", "category"} =>
          IF asked.kind = "mixed" /\ out.type \in HintTypes THEN mask # {} => out.type \in mask
          ELSE IF wanted # {} THEN out.type \in wanted
          ELSE on # {} => out.type \in on

Drawing == stage \in {"picking", "drawing", "hinting"}

\* A call returns if a type is enabled, if the mask is empty, and always from
\* the compressed generator.
DrawEnds ==
  (Drawing /\ (mask = {} \/ mask \intersect Types(gen) # {} \/ gen = "C"))
    ~> (stage = "answered")

\* "An empty mask is legalized back to ALL" (riscv_rv32i_opgen.hpp): however
\* the types were switched off, a call returns.
EmptyMaskLegalized == Drawing ~> (stage = "answered")
=============================================================================
