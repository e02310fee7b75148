---------------------------- MODULE Instructions ----------------------------
(***************************************************************************)
(* One instruction of the hart: a word is fetched, decoded and logged, or  *)
(* an arithmetic instruction works on the registers; and what the RISC-V   *)
(* manual says of both.                                                    *)
(***************************************************************************)
EXTENDS Arithmetic, Disassembler

HartInit ==
  /\ Init
  /\ ir = {}
  /\ mxl = IF xlen = H THEN 1 ELSE 2

\* The word of a 16 bit instruction is cut to its lower half by LoadCmd.
\* Bounds: decoding reads no register, so words are fetched before registers
\* change, and 32 bit words, which are decoded without mxl, on one hart only.
Fetch ==
  /\ ir = {} /\ x = 0 /\ y = 0 /\ ~crashed
  /\ \/ ir' \in HalfWords
     \/ mxl = 2 /\ ir' \in FullWords
  /\ UNCHANGED <<xlen, x, y, crashed, mxl>>

\* The next instruction.
Retire == ir # {} /\ ir' = {} /\ UNCHANGED <<xlen, x, y, crashed, mxl>>

HartNext ==
  \/ Fetch
  \/ Retire
  \/ ir = {} /\ Next /\ UNCHANGED decodeVars

hartVars == <<xlen, x, y, crashed, ir, mxl>>
HartSpec == HartInit /\ [][HartNext]_hartVars

-----------------------------------------------------------------------------
(* The reference: instruction formats of the manual.  A layout says which  *)
(* bits of an immediate stand from which bit of the word downwards.        *)

Downto(a, b) == [i \in 1 .. a - b + 1 |-> a - i + 1]
Placed(w, layout) ==
  UNION {{p[2][i] : i \in {j \in DOMAIN p[2] : p[1] - j + 1 \in w}} : p \in layout}
Extend(v, width) ==
  IF width > 0 /\ width - 1 \in v THEN v \cup (width .. 31) ELSE v

FullLayout(opcode) ==
  CASE opcode = OPCODE.S -> {<<31, Downto(11, 5)>>, <<11, Downto(4, 0)>>}
    [] opcode = OPCODE.B ->
         {<<31, <<12>>>>, <<30, Downto(10, 5)>>, <<11, Downto(4, 1)>>, <<7, <<11>>>>}
    [] opcode \in {OPCODE.LUI, OPCODE.AUIPC} -> {<<31, Downto(31, 12)>>}
    [] opcode = OPCODE.J ->
         {<<31, <<20>>>>, <<30, Downto(10, 1)>>, <<20, <<11>>>>, <<19, Downto(19, 12)>>}
    [] OTHER -> {<<31, Downto(11, 0)>>}

FullWidth(opcode) ==
  CASE opcode = OPCODE.B -> 13
    [] opcode = OPCODE.J -> 21
    [] opcode \in {OPCODE.LUI, OPCODE.AUIPC} -> 32
    [] OTHER -> 12

\* The 16 bit instructions.  op: bits 15-13 and 1-0; harts: the mxl on which
\* it exists; ones, zeros: bits it fixes; some: bits that must not all be 0;
\* rdNot: values, as bits, that its rd may not have; code: what it stands
\* for, with the places of its registers; layout and width of its immediate,
\* width 0 for one that is not signed; shows: the operands an assembler needs.
CForm(name, op, harts, ones, zeros, some, rdNot, code, layout, width, shows) ==
  [name |-> name, op |-> op, harts |-> harts, ones |-> ones, zeros |-> zeros,
   some |-> some, rdNot |-> rdNot, code |-> code, layout |-> layout, width |-> width,
   shows |-> shows]

RdBits == 7 .. 11
Rs2Bits == 2 .. 6
Imm6Layout == {<<12, <<5>>>>, <<6, Downto(4, 0)>>}
WordLayout == {<<12, <<5, 4, 3>>>>, <<6, <<2, 6>>>>}
DoubleLayout == {<<12, <<5, 4, 3>>>>, <<6, <<7, 6>>>>}
JumpLayout == {<<12, <<11, 4, 9, 8, 10, 6, 7, 3, 2, 1, 5>>>>}
BranchLayout == {<<12, <<8, 4, 3>>>>, <<6, <<7, 6, 2, 1, 5>>>>}
ShortForm(name, code, ones, zeros) ==
  CForm(name, \b10001, {1, 2}, ones, zeros, {}, {}, <<code, "p", "p", "q">>, {}, 0,
        <<"rd", "rs2">>)

CForms ==
  {CForm("C.ADDI4SPN", \b00000, {1, 2}, {}, {}, 5 .. 12, {},
         <<"ADDI", "q", "sp", "x0">>, {<<12, <<5, 4, 9, 8, 7, 6, 2, 3>>>>}, 0,
         <<"rd">>),
   CForm("C.LW", \b01000, {1, 2}, {}, {}, {}, {}, <<"LW", "q", "p", "x0">>,
         WordLayout, 0, <<"rd", "rs1">>),
   CForm("C.LD", \b01100, {2}, {}, {}, {}, {}, <<"LD", "q", "p", "x0">>,
         DoubleLayout, 0, <<"rd", "rs1">>),
   CForm("C.SW", \b11000, {1, 2}, {}, {}, {}, {}, <<"SW", "x0", "p", "q">>,
         WordLayout, 0, <<"rs2", "rs1">>),
   CForm("C.SD", \b11100, {2}, {}, {}, {}, {}, <<"SD", "x0", "p", "q">>,
         DoubleLayout, 0, <<"rs2", "rs1">>),
   CForm("C.ADDI", \b00001, {1, 2}, {}, {}, {}, {}, <<"ADDI", "r", "r", "x0">>,
         Imm6Layout, 6, <<"rd">>),
   CForm("C.JAL", \b00101, {1}, {}, {}, {}, {}, <<"JAL", "ra", "x0", "x0">>,
         JumpLayout, 12, <<>>),
   CForm("C.ADDIW", \b00101, {2}, {}, {}, {}, {{}}, <<"ADDIW", "r", "r", "x0">>,
         Imm6Layout, 6, <<"rd">>),
   CForm("C.LI", \b01001, {1, 2}, {}, {}, {}, {}, <<"ADDI", "r", "x0", "x0">>,
         Imm6Layout, 6, <<"rd">>),
   CForm("C.ADDI16SP", \b01101, {1, 2}, {8}, {7, 9, 10, 11}, Rs2Bits \cup {12}, {},
         <<"ADDI", "r", "r", "x0">>, {<<12, <<9>>>>, <<6, <<4, 6, 8, 7, 5>>>>}, 10,
         <<>>),
   CForm("C.LUI", \b01101, {1, 2}, {}, {}, Rs2Bits \cup {12}, {{8}},
         <<"LUI", "r", "x0", "x0">>, {<<12, <<17>>>>, <<6, Downto(16, 12)>>}, 18,
         <<"rd">>),
   CForm("C.SRLI", \b10001, {1, 2}, {}, {10, 11}, {}, {}, <<"SRLI", "p", "p", "x0">>,
         Imm6Layout, 0, <<"rd">>),
   CForm("C.SRAI", \b10001, {1, 2}, {10}, {11}, {}, {}, <<"SRAI", "p", "p", "x0">>,
         Imm6Layout, 0, <<"rd">>),
   CForm("C.ANDI", \b10001, {1, 2}, {11}, {10}, {}, {}, <<"ANDI", "p", "p", "x0">>,
         Imm6Layout, 6, <<"rd">>),
   ShortForm("C.SUB", "SUB", {10, 11}, {5, 6, 12}),
   ShortForm("C.XOR", "XOR", {10, 11, 5}, {6, 12}),
   ShortForm("C.OR", "OR", {10, 11, 6}, {5, 12}),
   ShortForm("C.AND", "AND", {10, 11, 5, 6}, {12}),
   ShortForm("C.SUBW", "SUBW", {10, 11, 12}, {5, 6}),
   ShortForm("C.ADDW", "ADDW", {10, 11, 12, 5}, {6}),
   CForm("C.J", \b10101, {1, 2}, {}, {}, {}, {}, <<"JAL", "x0", "x0", "x0">>,
         JumpLayout, 12, <<>>),
   CForm("C.BEQZ", \b11001, {1, 2}, {}, {}, {}, {}, <<"BEQ", "x0", "p", "x0">>,
         BranchLayout, 9, <<"rs1">>),
   CForm("C.BNEZ", \b11101, {1, 2}, {}, {}, {}, {}, <<"BNE", "x0", "p", "x0">>,
         BranchLayout, 9, <<"rs1">>),
   CForm("C.SLLI", \b00010, {1, 2}, {}, {}, {}, {}, <<"SLLI", "r", "r", "x0">>,
         Imm6Layout, 0, <<"rd">>),
   CForm("C.LWSP", \b01010, {1, 2}, {}, {}, {}, {{}}, <<"LW", "r", "sp", "x0">>,
         {<<12, <<5>>>>, <<6, <<4, 3, 2, 7, 6>>>>}, 0, <<"rd">>),
   CForm("C.LDSP", \b01110, {2}, {}, {}, {}, {{}}, <<"LD", "r", "sp", "x0">>,
         {<<12, <<5>>>>, <<6, <<4, 3, 8, 7, 6>>>>}, 0, <<"rd">>),
   CForm("C.JR", \b10010, {1, 2}, {}, Rs2Bits \cup {12}, {}, {{}},
         <<"JALR", "x0", "r", "x0">>, {}, 0, <<"rs1">>),
   CForm("C.MV", \b10010, {1, 2}, {}, {12}, Rs2Bits, {}, <<"ADD", "r", "x0", "s">>,
         {}, 0, <<"rd", "rs2">>),
   CForm("C.EBREAK", \b10010, {1, 2}, {12}, RdBits \cup Rs2Bits, {}, {},
         <<"SYSTEM", "x0", "x0", "x0">>, {<<12, <<0>>>>}, 0, <<>>),
   CForm("C.JALR", \b10010, {1, 2}, {12}, Rs2Bits, {}, {{}},
         <<"JALR", "ra", "r", "x0">>, {}, 0, <<"rs1">>),
   CForm("C.ADD", \b10010, {1, 2}, {12}, {}, Rs2Bits, {{}}, <<"ADD", "r", "r", "s">>,
         {}, 0, <<"rd", "rs2">>),
   CForm("C.SWSP", \b11010, {1, 2}, {}, {}, {}, {}, <<"SW", "x0", "sp", "s">>,
         {<<12, <<5, 4, 3, 2, 7, 6>>>>}, 0, <<"rs2">>),
   CForm("C.SDSP", \b11110, {2}, {}, {}, {}, {}, <<"SD", "x0", "sp", "s">>,
         {<<12, <<5, 4, 3, 8, 7, 6>>>>}, 0, <<"rs2">>)}

Fits(w, m, f) ==
  /\ Opcode16(w) = f.op
  /\ m \in f.harts
  /\ f.ones \subseteq w
  /\ f.zeros \cap w = {}
  /\ f.some = {} \/ f.some \cap w # {}
  /\ w \cap RdBits \notin f.rdNot

\* A register by its place in the word.
Placement(w, place) ==
  CASE place = "x0" -> 0
    [] place = "ra" -> 1
    [] place = "sp" -> 2
    [] place = "r" -> Number({i - 7 : i \in w \cap RdBits})
    [] place = "s" -> Number({i - 2 : i \in w \cap Rs2Bits})
    [] place = "p" -> 8 + Number({i - 7 : i \in w \cap (7 .. 9)})
    [] place = "q" -> 8 + Number({i - 2 : i \in w \cap (2 .. 4)})

Expansion(w, f) ==
  [instruction |-> f.code[1], rd |-> Placement(w, f.code[2]),
   rs1 |-> Placement(w, f.code[3]), rs2 |-> Placement(w, f.code[4]),
   imm |-> Extend(Placed(w, f.layout), f.width)]

-----------------------------------------------------------------------------
(* Properties of decoding.                                                 *)

Fetched == ir # {}
IsFull == Fetched /\ ~Compressed(ir)
IsHalf == Fetched /\ Compressed(ir)

\* Every 16 bit instruction that the manual defines is expanded by GetCode16
\* to the instruction, registers and immediate that the manual gives, on both
\* harts, although its immediates are scattered over the word; the word of
\* erased memory, all zeros, is refused.
CompressedAsDefined ==
  /\ GetCode16({}, mxl).instruction = "ERROR"
  /\ IsHalf => \A f \in CForms :
                 Fits(ir, mxl, f) => GetCode16(ir, mxl) = Expansion(ir, f)

\* GetImm puts the immediate of every 32 bit format together as the manual
\* lays it out, sign included; shifts take their amount from six bits.
ImmediatesAsDefined ==
  IsFull =>
    LET opcode == GetOpcode(ir)
        imm == Extend(Placed(ir, FullLayout(opcode)), FullWidth(opcode))
    IN  GetImm(ir) = IF IsShift(ir) THEN imm \cap (0 .. 5) ELSE imm

\* The encoder classes of instruction_encdec.cc give back the word they were
\* set from, except that IType forgets the upper bits of a shift's immediate,
\* and with them the difference between SRLI and SRAI.
EncodersInvert ==
  IsFull =>
    LET opcode == GetOpcode(ir)
    IN  CASE opcode \in {OPCODE.ARITHLOG, OPCODE.ARITHLOG_64, OPCODE.AMO} -> RType(ir) = ir
          [] opcode = OPCODE.S -> SType(ir) = ir
          [] opcode = OPCODE.B -> BType(ir) = ir
          [] opcode \in {OPCODE.LUI, OPCODE.AUIPC} -> UType(ir) = ir
          [] opcode = OPCODE.J -> JType(ir) = ir
          [] OTHER -> IType(ir) = IF IsShift(ir) THEN ir \ (26 .. 31) ELSE ir

\* Decoding agrees with the manual in both lengths, and the assembler's
\* encoders agree with the decoder.
DecodedAsDefined ==
  /\ CompressedAsDefined
  /\ ImmediatesAsDefined
  /\ EncodersInvert

\* The operands that the line of a 32 bit instruction shows, in order.
FullShows(opcode) ==
  CASE opcode \in {OPCODE.ARITHLOG, OPCODE.ARITHLOG_64} -> <<"rd", "rs1", "rs2">>
    [] opcode = OPCODE.AMO -> <<"rd", "rs2", "rs1">>
    [] opcode = OPCODE.B -> <<"rs1", "rs2">>
    [] opcode = OPCODE.S -> <<"rs2", "rs1">>
    [] opcode \in {OPCODE.J, OPCODE.LUI, OPCODE.AUIPC} -> <<"rd">>
    [] OTHER -> <<"rd", "rs1">>

\* The log of -v tells what is executed: whenever an instruction is executed
\* and not refused, its line read back as assembly is that instruction with
\* those operands.  Four exceptions of Disassembler.cpp: C.SW is shown as
\* C.BEQZ (line 120 has no break), AMOMINU.W is misspelled (line 395), a shift
\* is shown with the bits of its immediate that are not the amount, and the
\* immediate of CSRRWI, CSRRSI and CSRRCI is printed as the name of the
\* register with that number (line 373): only the number is compared here.
DisassembledAsExecuted ==
  \A line \in {Disassemble(ir, mxl)}, code \in {Decoded(ir, mxl)} :
    LET shown(fields) == [i \in DOMAIN fields |-> code[fields[i]]]
        opcode == GetOpcode(ir)
    IN  /\ IsHalf /\ code.instruction # "ERROR" /\ Opcode16(ir) # \b11000 =>
             \E f \in CForms :
               /\ f.name = line.name
               /\ f.code[1] = code.instruction
               /\ line.regs = shown(f.shows)
               /\ code.instruction # "SYSTEM" => line.imm = code.imm
        /\ IsFull /\ code.instruction \notin {"ERROR", "AMOMINUW"} =>
             IF code.instruction = "SYSTEM"
             THEN LET op == SystemOperation(code.rd, code.imm)
                  IN  op # "ERROR" => line.name = op
             ELSE /\ line.name = code.instruction
                  /\ opcode # OPCODE.FENCE => line.regs = shown(FullShows(opcode))
                  /\ CASE IsShift(ir) -> line.imm \cap (0 .. 5) = code.imm
                       [] opcode = OPCODE.SYSTEM -> line.imm = GetCsr(ir)
                       [] opcode \in {OPCODE.ARITHLOG, OPCODE.ARITHLOG_64, OPCODE.AMO,
                                      OPCODE.FENCE} -> TRUE
                       [] OTHER -> line.imm = code.imm
=============================================================================
