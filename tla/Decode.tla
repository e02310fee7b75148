------------------------------- MODULE Decode -------------------------------
(***************************************************************************)
(* From an instruction word to what is executed, and to what the log says  *)
(* is executed: GetCode32 and GetCode16 of RISCV_cpu.cc, the field         *)
(* extractors and the encoders of instruction_encdec.cc, and the names and *)
(* immediates of Disassembler.cpp.                                         *)
(*                                                                         *)
(* A 32 bit value is the set of the positions of its one bits, so | is a   *)
(* union and a shift moves positions.  The bit numbers are the real ones.  *)
(***************************************************************************)
EXTENDS Integers

CONSTANTS
  FullWords,     (* bound: the 32 bit instructions that are fetched        *)
  HalfWords      (* bound: the 16 bit instructions that are fetched        *)

Bit == 0 .. 31

ASSUME WordAssumption ==
  /\ \A w \in FullWords : w \subseteq Bit /\ {0, 1} \subseteq w
  /\ \A w \in HalfWords : w \subseteq 0 .. 15 /\ ~ {0, 1} \subseteq w

VARIABLES
  ir,            (* ir_, or {} before the fetch                            *)
  mxl            (* mxl_: 1 on a 32 bit hart, 2 on a 64 bit hart           *)

decodeVars == <<ir, mxl>>

-----------------------------------------------------------------------------
(* bit_tools.h.                                                            *)

\* The number of a field, which has at most 7 bits.
Number(v) ==
  LET bit(i, weight) == IF i \in v THEN weight ELSE 0
  IN  bit(0, 1) + bit(1, 2) + bit(2, 4) + bit(3, 8) + bit(4, 16) + bit(5, 32) + bit(6, 64)
ShiftUp(v, n) == {i + n : i \in v} \cap Bit

\* The tables of the header.
mask(width) == 0 .. width - 1
sign_mask(i) == i + 1 .. 31

bitcrop(v, width, offset) == {i - offset : i \in v} \cap mask(width)
BitShift(v, width, offset, distpos) ==
  ShiftUp(bitcrop(v, width, offset), distpos)
SignExtend(v, width) ==
  IF width - 1 \in v THEN v \cup sign_mask(width - 1) ELSE v \ sign_mask(width - 1)

\* The union of several BitShifts, each as <<width, offset, distpos>>.
Gather(v, pieces) == UNION {BitShift(v, p[1], p[2], p[3]) : p \in pieces}

-----------------------------------------------------------------------------
(* Fields and immediates of 32 bit instructions.                           *)

OPCODE ==
  [ARITHLOG |-> 51, ARITHLOG_64 |-> 59, ARITHLOG_I |-> 19, ARITHLOG_I64 |-> 27,
   B |-> 99, LD |-> 3, J |-> 111, S |-> 35, JALR |-> 103, LUI |-> 55,
   AUIPC |-> 23, SYSTEM |-> 115, FENCE |-> 15, AMO |-> 47]
FUNC == [NORM |-> 0, ALT |-> 32, MULT |-> 1]

GetOpcode(w) == Number(bitcrop(w, 7, 0))
GetRd(w) == Number(bitcrop(w, 5, 7))
GetRs1(w) == Number(bitcrop(w, 5, 15))
GetRs2(w) == Number(bitcrop(w, 5, 20))
Funct3(w) == Number(bitcrop(w, 3, 12))
Funct7(w) == Number(bitcrop(w, 7, 25))

GetImm12(w) == SignExtend(bitcrop(w, 12, 20), 12)
GetStypeImm12(w) == SignExtend(Gather(w, {<<7, 25, 5>>, <<5, 7, 0>>}), 12)

GetImm13(w) ==
  SignExtend(Gather(w, {<<1, 31, 12>>, <<6, 25, 5>>, <<4, 8, 1>>, <<1, 7, 11>>}),
             13)
GetImm20(w) == SignExtend(bitcrop(w, 20, 12), 20)
GetCsr(w) == bitcrop(w, 12, 20)
GetImm21(w) ==
  SignExtend(Gather(w, {<<1, 31, 20>>, <<8, 12, 12>>, <<1, 20, 11>>,
                        <<10, 21, 1>>}), 21)

IsShift(w) ==
  /\ GetOpcode(w) \in {OPCODE.ARITHLOG_I, OPCODE.ARITHLOG_I64}
  /\ Funct3(w) \in {1, 5}

GetImm(w) ==
  LET opcode == GetOpcode(w)
  IN  CASE IsShift(w) -> GetImm12(w) \cap (0 .. 5)
        [] opcode = OPCODE.B -> GetImm13(w)
        [] opcode \in {OPCODE.LUI, OPCODE.AUIPC} -> ShiftUp(GetImm20(w), 12)
        [] opcode = OPCODE.J -> GetImm21(w)
        [] opcode = OPCODE.S -> GetStypeImm12(w)
        [] OTHER -> GetImm12(w)

-----------------------------------------------------------------------------
(* The encoders: SetValue and then GetValue of each class.  A field keeps  *)
(* its place, and only immediates are taken apart and put together.        *)

RegisterFields(w, offsets) == UNION {BitShift(w, 5, n, n) : n \in offsets}
OpcodeFields(w) == BitShift(w, 7, 0, 0) \cup BitShift(w, 3, 12, 12)

RType(w) ==
  BitShift(w, 7, 25, 25) \cup RegisterFields(w, {7, 15, 20}) \cup OpcodeFields(w)
IType(w) ==
  LET imm12 == IF IsShift(w) THEN GetImm12(w) \cap (0 .. 5) ELSE GetImm12(w)
  IN  ShiftUp(imm12, 20) \cup RegisterFields(w, {7, 15}) \cup OpcodeFields(w)
SType(w) ==
  Gather(GetStypeImm12(w), {<<7, 5, 25>>, <<5, 0, 7>>})
    \cup RegisterFields(w, {15, 20}) \cup OpcodeFields(w)

BType(w) ==
  Gather(GetImm13(w), {<<1, 12, 31>>, <<6, 5, 25>>, <<4, 1, 8>>, <<1, 11, 7>>})
    \cup RegisterFields(w, {15, 20}) \cup OpcodeFields(w)
UType(w) ==
  ShiftUp(GetImm20(w) \cap (0 .. 19), 12)
    \cup RegisterFields(w, {7}) \cup BitShift(w, 7, 0, 0)
JType(w) ==
  Gather(GetImm21(w), {<<1, 20, 31>>, <<10, 1, 21>>, <<1, 11, 20>>,
                       <<8, 12, 12>>})
    \cup RegisterFields(w, {7}) \cup BitShift(w, 7, 0, 0)

-----------------------------------------------------------------------------
(* GetCode32: rows of instructions by funct3, from 0 to 7.                 *)

Row(names, funct3) == names[funct3 + 1]

ArithLog(funct3, funct7) ==
  CASE funct7 \in {FUNC.NORM, FUNC.ALT} ->
         IF funct7 = FUNC.ALT /\ funct3 \in {0, 5}
         THEN IF funct3 = 0 THEN "SUB" ELSE "SRA"
         ELSE Row(<<"ADD", "SLL", "SLT", "SLTU", "XOR", "SRL", "OR", "AND">>,
                  funct3)
    [] funct7 = FUNC.MULT ->
         Row(<<"MUL", "MULH", "MULHSU", "MULHU", "DIV", "DIVU", "REM", "REMU">>,
             funct3)
    [] OTHER -> "ERROR"

ArithLog64(funct3, funct7) ==
  CASE funct7 = FUNC.NORM ->
         Row(<<"ADDW", "SLLW", "ERROR", "ERROR", "ERROR", "SRLW", "ERROR", "ERROR">>,
             funct3)
    [] funct7 = FUNC.ALT ->
         Row(<<"SUBW", "SLLW", "ERROR", "ERROR", "ERROR", "SRAW", "ERROR", "ERROR">>,
             funct3)
    [] funct7 = FUNC.MULT ->
         Row(<<"MULW", "ERROR", "ERROR", "ERROR", "DIVW", "DIVUW", "REMW", "REMUW">>,
             funct3)
    [] OTHER -> "ERROR"

\* The lowest bit of funct7 belongs to the amount of a 64 bit shift.
ShiftRightName(funct7, logical, arithmetic) ==
  CASE funct7 \in {0, 1} -> logical
    [] funct7 \in {32, 33} -> arithmetic
    [] OTHER -> "ERROR"

ArithLogI(funct3, funct7) ==
  Row(<<"ADDI", "SLLI", "SLTI", "SLTIU", "XORI", ShiftRightName(funct7, "SRLI", "SRAI"),
        "ORI", "ANDI">>, funct3)

ArithLogI64(funct3, funct7) ==
  CASE funct3 = 0 -> "ADDIW"
    [] funct3 = 1 -> "SLLIW"
    [] funct3 = 5 -> ShiftRightName(funct7, "SRLIW", "SRAIW")
    [] OTHER -> "ERROR"

BranchName(funct3) ==
  Row(<<"BEQ", "BNE", "ERROR", "ERROR", "BLT", "BGE", "BLTU", "BGEU">>, funct3)
LoadName(funct3) ==
  Row(<<"LB", "LH", "LW", "LD", "LBU", "LHU", "LWU", "ERROR">>, funct3)
StoreName(funct3) ==
  IF funct3 \in 0 .. 3 THEN Row(<<"SB", "SH", "SW", "SD">>, funct3) ELSE "ERROR"
SystemName(funct3) ==
  Row(<<"SYSTEM", "CSRRW", "CSRRS", "CSRRC", "ERROR", "CSRRWI", "CSRRSI",
        "CSRRCI">>, funct3)
FenceName(funct3) ==
  IF funct3 \in {0, 1} THEN Row(<<"FENCE", "FENCEI">>, funct3) ELSE "ERROR"

\* funct5 selects the operation; every funct3 but 3 means a word.
AmoName(funct3, funct5) ==
  LET wide == funct3 = 3
  IN  CASE funct5 = \b00000 -> IF wide THEN "AMOADDD" ELSE "AMOADDW"
        [] funct5 = \b01100 -> IF wide THEN "AMOANDD" ELSE "AMOANDW"
        [] funct5 = \b10100 -> IF wide THEN "AMOMAXD" ELSE "AMOMAXW"
        [] funct5 = \b11100 -> IF wide THEN "AMOMAXUD" ELSE "AMOMAXUW"
        [] funct5 = \b10000 -> IF wide THEN "AMOMIND" ELSE "AMOMINW"
        [] funct5 = \b11000 -> IF wide THEN "AMOMINUD" ELSE "AMOMINUW"
        [] funct5 = \b01000 -> IF wide THEN "AMOORD" ELSE "AMOORW"
        [] funct5 = \b00100 -> IF wide THEN "AMOXORD" ELSE "AMOXORW"
        [] funct5 = \b00001 -> IF wide THEN "AMOSWAPD" ELSE "AMOSWAPW"
        [] OTHER -> "ERROR"

GetCode32(w) ==
  LET opcode == GetOpcode(w)
      funct3 == Funct3(w)
      funct7 == Funct7(w)
  IN  CASE opcode = OPCODE.ARITHLOG -> ArithLog(funct3, funct7)
        [] opcode = OPCODE.ARITHLOG_64 -> ArithLog64(funct3, funct7)
        [] opcode = OPCODE.ARITHLOG_I -> ArithLogI(funct3, funct7)
        [] opcode = OPCODE.ARITHLOG_I64 -> ArithLogI64(funct3, funct7)
        [] opcode = OPCODE.B -> BranchName(funct3)
        [] opcode = OPCODE.J -> "JAL"
        [] opcode = OPCODE.JALR -> IF funct3 = 0 THEN "JALR" ELSE "ERROR"
        [] opcode = OPCODE.LD -> LoadName(funct3)
        [] opcode = OPCODE.S -> StoreName(funct3)
        [] opcode = OPCODE.LUI -> "LUI"
        [] opcode = OPCODE.AUIPC -> "AUIPC"
        [] opcode = OPCODE.SYSTEM -> SystemName(funct3)
        [] opcode = OPCODE.FENCE -> FenceName(funct3)
        [] opcode = OPCODE.AMO -> AmoName(funct3, funct7 \div 4)
        [] OTHER -> "ERROR"

\* What SystemInstruction does with the immediate of a SYSTEM instruction.
SystemOperation(rd, imm) ==
  CASE imm = {} -> "ECALL"
    [] imm = {0} -> "EBREAK"
    [] imm = {1, 8, 9} -> "MRET"
    [] imm = {1, 8} -> "SRET"
    [] bitcrop(imm, 27, 5) = {0, 3} /\ rd = 0 -> "SFENCE"
    [] OTHER -> "ERROR"

-----------------------------------------------------------------------------
(* GetCode16: what a 16 bit instruction stands for.                        *)

Code(instruction, rd, rs1, rs2, imm) ==
  [instruction |-> instruction, rd |-> rd, rs1 |-> rs1, rs2 |-> rs2, imm |-> imm]
Undecoded == Code("ERROR", 0, 0, 0, {})

Opcode16(w) == 4 * Number(bitcrop(w, 3, 13)) + Number(bitcrop(w, 2, 0))
Wide(w, offset) == Number(bitcrop(w, 5, offset))
Short(w, offset) == Number(bitcrop(w, 3, offset)) + 8

Imm6(w) == Gather(w, {<<1, 12, 5>>, <<5, 2, 0>>})
Addi4spnImm(w) == Gather(w, {<<2, 11, 4>>, <<4, 7, 6>>, <<1, 6, 2>>, <<1, 5, 3>>})
Addi16spImm(w) ==
  SignExtend(Gather(w, {<<1, 12, 9>>, <<1, 6, 4>>, <<1, 5, 6>>, <<2, 3, 7>>,
                        <<1, 2, 5>>}), 10)
LuiImm(w) == SignExtend(Gather(w, {<<1, 12, 17>>, <<5, 2, 12>>}), 18)

\* Faulty variant: two bits of the offset of a jump change places.
JumpImmSwapped(w) ==
  SignExtend(Gather(w, {<<1, 12, 11>>, <<1, 11, 4>>, <<2, 9, 8>>, <<1, 8, 10>>,
                        <<1, 7, 7>>, <<1, 6, 6>>, <<3, 3, 1>>, <<1, 2, 5>>}), 12)

JumpImm(w) ==
  SignExtend(Gather(w, {<<1, 12, 11>>, <<1, 11, 4>>, <<2, 9, 8>>, <<1, 8, 10>>,
                        <<1, 7, 6>>, <<1, 6, 7>>, <<3, 3, 1>>, <<1, 2, 5>>}), 12)
BranchImm(w) ==
  SignExtend(Gather(w, {<<1, 12, 8>>, <<2, 10, 3>>, <<2, 5, 6>>, <<2, 3, 1>>,
                        <<1, 2, 5>>}), 9)
WordImm(w) == Gather(w, {<<3, 10, 3>>, <<1, 6, 2>>, <<1, 5, 6>>})
DoubleImm(w) == Gather(w, {<<3, 10, 3>>, <<2, 5, 6>>})
LoadWordSpImm(w) == Gather(w, {<<1, 12, 5>>, <<3, 4, 2>>, <<2, 2, 6>>})
LoadDoubleSpImm(w) == Gather(w, {<<1, 12, 5>>, <<2, 5, 3>>, <<3, 2, 6>>})
StoreWordSpImm(w) == Gather(w, {<<4, 9, 2>>, <<2, 7, 6>>})
StoreDoubleSpImm(w) == Gather(w, {<<3, 10, 3>>, <<3, 7, 6>>})

\* Quadrant 1, funct3 4: arithmetic on the short registers.
ShortArithmetic(w) ==
  LET rd == Short(w, 7)
      row == <<Number(bitcrop(w, 3, 10)), Number(bitcrop(w, 2, 5))>>
      register(name) == Code(name, rd, rd, Short(w, 2), {})
  IN  CASE row = <<3, 3>> -> register("AND")
        [] row = <<3, 1>> -> register("XOR")
        [] row = <<3, 0>> -> register("SUB")
        [] row = <<3, 2>> -> register("OR")
        [] row = <<7, 1>> -> register("ADDW")
        [] row = <<7, 0>> -> register("SUBW")
        [] 11 \notin w -> Code(IF 10 \in w THEN "SRAI" ELSE "SRLI", rd, rd, 0, Imm6(w))
        [] 11 \in w /\ 10 \notin w -> Code("ANDI", rd, rd, 0, SignExtend(Imm6(w), 6))
        [] OTHER -> Undecoded

\* Quadrant 2, funct3 4: jumps to a register, moves and additions.
JumpMoveAdd(w) ==
  LET r == Wide(w, 7)
      source == Wide(w, 2)
  IN  IF 12 \in w
      THEN CASE source = 0 /\ r = 0 -> Code("SYSTEM", 0, 0, 0, {0})
             [] source = 0 /\ r # 0 -> Code("JALR", 1, r, 0, {})
             [] source # 0 /\ r = 0 -> Undecoded
             [] OTHER -> Code("ADD", r, r, source, {})
      ELSE IF source = 0 THEN Code("JALR", 0, r, 0, {})
           ELSE Code("ADD", r, 0, source, {})

UpperImmediate(w) ==
  LET rd == Wide(w, 7)
      imm == IF rd = 2 THEN Addi16spImm(w) ELSE LuiImm(w)
  IN  Code(IF imm = {} THEN "ERROR" ELSE IF rd = 2 THEN "ADDI" ELSE "LUI",
           rd, IF rd = 2 THEN 2 ELSE 0, 0, imm)

\* The cases with the highest bit of the opcode.
GetCode16High(w, opcode) ==
  CASE opcode = \b10010 -> JumpMoveAdd(w)
    [] opcode = \b10001 -> ShortArithmetic(w)
    [] opcode = \b10101 -> Code("JAL", 0, 0, 0, JumpImm(w))
    [] opcode = \b11000 -> Code("SW", 0, Short(w, 7), Short(w, 2), WordImm(w))
    [] opcode = \b11100 -> Code("SD", 0, Short(w, 7), Short(w, 2), DoubleImm(w))
    [] opcode = \b11001 -> Code("BEQ", 0, Short(w, 7), 0, BranchImm(w))
    [] opcode = \b11101 -> Code("BNE", 0, Short(w, 7), 0, BranchImm(w))
    [] opcode = \b11010 -> Code("SW", 0, 2, Wide(w, 2), StoreWordSpImm(w))
    [] opcode = \b11110 -> Code("SD", 0, 2, Wide(w, 2), StoreDoubleSpImm(w))
    [] OTHER -> Undecoded

GetCode16(w, m) ==
  LET opcode == Opcode16(w)
      r == Wide(w, 7)
      imm6 == SignExtend(Imm6(w), 6)
  IN  CASE opcode = \b00000 ->
             IF bitcrop(w, 8, 5) = {} THEN Undecoded
             ELSE Code("ADDI", Short(w, 2), 2, 0, Addi4spnImm(w))
        [] opcode = \b00101 /\ m = 1 -> Code("JAL", 1, 0, 0, JumpImm(w))
        [] opcode = \b00101 /\ m # 1 -> Code("ADDIW", r, r, 0, imm6)
        [] opcode = \b00001 -> Code("ADDI", r, r, 0, imm6)
        [] opcode = \b00010 -> Code("SLLI", r, r, 0, Imm6(w))
        [] opcode = \b01000 -> Code("LW", Short(w, 2), Short(w, 7), 0, WordImm(w))
        [] opcode = \b01001 -> Code("ADDI", r, 0, 0, imm6)
        [] opcode = \b01010 -> Code("LW", r, 2, 0, LoadWordSpImm(w))
        [] opcode = \b01100 -> Code("LD", Short(w, 2), Short(w, 7), 0, DoubleImm(w))
        [] opcode = \b01110 -> Code("LD", r, 2, 0, LoadDoubleSpImm(w))
        [] opcode = \b01101 -> UpperImmediate(w)
        [] opcode >= \b10000 -> GetCode16High(w, opcode)
        [] OTHER -> Undecoded

\* The decoding step of RunCpu.
Compressed(w) == ~ {0, 1} \subseteq w
Decoded(w, m) ==
  IF Compressed(w) THEN GetCode16(w, m)
  ELSE Code(GetCode32(w), GetRd(w), GetRs1(w), GetRs2(w), GetImm(w))
=============================================================================
