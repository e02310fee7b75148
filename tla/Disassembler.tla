---------------------------- MODULE Disassembler ----------------------------
(***************************************************************************)
(* Disassembler.cpp: the line that the log shows for an instruction, as    *)
(* its mnemonic, its registers in the order shown and its immediate.  The  *)
(* mnemonics are tables of their own, not those of GetCode32 and GetCode16;*)
(* the operands of 16 bit instructions come from GetCode16.                *)
(***************************************************************************)
EXTENDS Decode

Line(name, regs, imm) == [name |-> name, regs |-> regs, imm |-> imm]
UNDEF == "UNDEF"

-----------------------------------------------------------------------------
(* Disassemble16.                                                          *)

ShortArithmeticLine(w, c) ==
  LET row == <<Number(bitcrop(w, 3, 10)), Number(bitcrop(w, 2, 5))>>
      registers(name) == Line(name, <<c.rd, c.rs2>>, {})
  IN  CASE row = <<3, 3>> -> registers("C.AND")
        [] row = <<3, 1>> -> registers("C.XOR")
        [] row = <<3, 0>> -> registers("C.SUB")
        [] row = <<3, 2>> -> registers("C.OR")
        [] row = <<7, 1>> -> registers("C.ADDW")
        [] row = <<7, 0>> -> registers("C.SUBW")
        [] row[1] % 4 = 1 -> Line("C.SRAI", <<c.rd>>, c.imm)
        [] row[1] % 4 = 0 -> Line("C.SRLI", <<c.rd>>, c.imm)
        [] row[1] % 4 = 2 -> Line("C.ANDI", <<c.rd>>, SignExtend(c.imm, 6))
        [] OTHER -> Line(UNDEF, <<>>, {})

JumpMoveAddLine(w, c) ==
  LET r == Wide(w, 7)
      source == Wide(w, 2)
  IN  IF 12 \in w
      THEN CASE source = 0 /\ r = 0 -> Line("C.EBREAK", <<>>, {})
             [] source = 0 /\ r # 0 -> Line("C.JALR", <<c.rs1>>, {})
             [] source # 0 /\ r # 0 -> Line("C.ADD", <<c.rd, c.rs2>>, {})
             [] OTHER -> Line(UNDEF, <<>>, {})
      ELSE IF source = 0 THEN Line("C.JR", <<c.rs1>>, {})
           ELSE Line("C.MV", <<c.rd, c.rs2>>, {})

\* The line for an instruction that GetCode16 takes for c.  The case of C.SW
\* has no break: its line is overwritten by that of C.BEQZ.
Line16(w, m, c) ==
  LET opcode == Opcode16(w)
  IN  CASE opcode = \b00000 -> Line("C.ADDI4SPN", <<c.rd>>, c.imm)
        [] opcode = \b00001 -> Line("C.ADDI", <<c.rd>>, c.imm)
        [] opcode = \b00010 -> Line("C.SLLI", <<c.rd>>, c.imm)
        [] opcode = \b00101 /\ m = 1 -> Line("C.JAL", <<>>, SignExtend(c.imm, 12))
        [] opcode = \b00101 /\ m # 1 -> Line("C.ADDIW", <<c.rd>>, c.imm)
        [] opcode = \b01000 -> Line("C.LW", <<c.rd, c.rs1>>, c.imm)
        [] opcode = \b01001 -> Line("C.LI", <<c.rd>>, c.imm)
        [] opcode = \b01010 -> Line("C.LWSP", <<c.rd>>, c.imm)
        [] opcode = \b01100 -> Line("C.LD", <<c.rd, c.rs1>>, c.imm)
        [] opcode = \b01101 ->
             IF Wide(w, 7) = 2 THEN Line("C.ADDI16SP", <<>>, c.imm)
             ELSE Line("C.LUI", <<c.rd>>, c.imm)
        [] opcode = \b01110 -> Line("C.LDSP", <<c.rd>>, c.imm)
        [] opcode = \b10010 -> JumpMoveAddLine(w, c)
        [] opcode = \b10001 -> ShortArithmeticLine(w, c)
        [] opcode = \b10101 -> Line("C.J", <<>>, SignExtend(c.imm, 12))
        [] opcode \in {\b11000, \b11001} ->
             Line("C.BEQZ", <<c.rs1>>, SignExtend(c.imm, 9))
        [] opcode = \b11010 -> Line("C.SWSP", <<c.rs2>>, c.imm)
        [] opcode = \b11100 -> Line("C.SD", <<c.rs2, c.rs1>>, c.imm)
        [] opcode = \b11101 -> Line("C.BNEZ", <<c.rs1>>, SignExtend(c.imm, 9))
        [] opcode = \b11110 -> Line("C.SDSP", <<c.rs2>>, c.imm)
        [] OTHER -> Line(UNDEF, <<>>, {})

Disassemble16(w, m) ==
  CHOOSE line \in {Line16(w, m, c) : c \in {GetCode16(w, m)}} : TRUE

-----------------------------------------------------------------------------
(* Disassemble: the mnemonics of an opcode by funct3, from 0 to 7.         *)

None == [i \in 1 .. 8 |-> UNDEF]

ArithLogRow(funct7) ==
  CASE funct7 = FUNC.NORM ->
         <<"ADD", "SLL", "SLT", "SLTU", "XOR", "SRL", "OR", "AND">>
    [] funct7 = FUNC.ALT ->
         <<"SUB", "SLL", "SLT", "SLTU", "XOR", "SRA", "OR", "AND">>
    [] funct7 = FUNC.MULT ->
         <<"MUL", "MULH", "MULHSU", "MULHU", "DIV", "DIVU", "REM", "REMU">>
    [] OTHER -> None

ArithLog64Row(funct7) ==
  CASE funct7 = FUNC.NORM ->
         <<"ADDW", "SLLW", UNDEF, UNDEF, UNDEF, "SRLW", UNDEF, UNDEF>>
    [] funct7 = FUNC.ALT ->
         <<"SUBW", "SLLW", UNDEF, UNDEF, UNDEF, "SRAW", UNDEF, UNDEF>>
    [] funct7 = FUNC.MULT ->
         <<"MULW", UNDEF, UNDEF, UNDEF, "DIVW", "DIVUW", "REMW", "REMUW">>
    [] OTHER -> None

ShiftMnemonic(funct7, logical, arithmetic) ==
  CASE funct7 \div 2 = 0 -> logical
    [] funct7 \div 2 = 16 -> arithmetic
    [] OTHER -> UNDEF
ArithLogIRow(funct7) ==
  <<"ADDI", "SLLI", "SLTI", "SLTIU", "XORI", ShiftMnemonic(funct7, "SRLI", "SRAI"),
    "ORI", "ANDI">>
ArithLogI64Row(funct7) ==
  <<"ADDIW", "SLLIW", UNDEF, UNDEF, UNDEF, ShiftMnemonic(funct7, "SRLIW", "SRAIW"),
    UNDEF, UNDEF>>
BranchRow == <<"BEQ", "BNE", UNDEF, UNDEF, "BLT", "BGE", "BLTU", "BGEU">>

\* Faulty variant: two unsigned loads are mixed up.
LoadRowMixed == <<"LB", "LH", "LW", "LD", "LBU", "LWU", "LHU", UNDEF>>

LoadRow == <<"LB", "LH", "LW", "LD", "LBU", "LHU", "LWU", UNDEF>>
StoreRow == <<"SB", "SH", "SW", "SD", UNDEF, UNDEF, UNDEF, UNDEF>>
CsrRow == <<UNDEF, "CSRRW", "CSRRS", "CSRRC", UNDEF, "CSRRWI", "CSRRSI", "CSRRCI">>
FenceRow == <<"FENCE", "FENCEI", UNDEF, UNDEF, UNDEF, UNDEF, UNDEF, UNDEF>>

SystemLine(w) ==
  LET imm12 == GetImm12(w)
  IN  CASE imm12 = {} -> "ECALL"
        [] imm12 = {0} -> "EBREAK"
        [] imm12 = {1, 8, 9} -> "MRET"
        [] imm12 = {1, 8} -> "SRET"
        [] bitcrop(imm12, 27, 5) = {0, 3} /\ GetRd(w) = 0 -> "SFENCE"
        [] OTHER -> UNDEF

\* AMOMINU.W is spelled AMOMAIN.W.
AmoMnemonic(funct3, funct5) ==
  LET pick(word, double) == IF funct3 = 3 THEN double ELSE word
  IN  CASE funct5 = \b00000 -> pick("AMOADDW", "AMOADDD")
        [] funct5 = \b00001 -> pick("AMOSWAPW", "AMOSWAPD")
        [] funct5 = \b00100 -> pick("AMOXORW", "AMOXORD")
        [] funct5 = \b01000 -> pick("AMOORW", "AMOORD")
        [] funct5 = \b01100 -> pick("AMOANDW", "AMOANDD")
        [] funct5 = \b10000 -> pick("AMOMINW", "AMOMIND")
        [] funct5 = \b10100 -> pick("AMOMAXW", "AMOMAXD")
        [] funct5 = \b11000 -> pick("AMOMAINW", "AMOMINUD")
        [] funct5 = \b11100 -> pick("AMOMAXUW", "AMOMAXUD")
        [] OTHER -> UNDEF

Disassemble(w, m) ==
  LET opcode == GetOpcode(w)
      funct3 == Funct3(w)
      funct7 == Funct7(w)
      rd == GetRd(w)
      rs1 == GetRs1(w)
      rs2 == GetRs2(w)
      upper == ShiftUp(GetImm20(w), 12)
      immediate(row) == Line(Row(row, funct3), <<rd, rs1>>, GetImm12(w))
  IN  CASE Compressed(w) -> Disassemble16(w, m)
        [] opcode = OPCODE.ARITHLOG ->
             Line(Row(ArithLogRow(funct7), funct3), <<rd, rs1, rs2>>, {})
        [] opcode = OPCODE.ARITHLOG_64 ->
             Line(Row(ArithLog64Row(funct7), funct3), <<rd, rs1, rs2>>, {})
        [] opcode = OPCODE.ARITHLOG_I -> immediate(ArithLogIRow(funct7))
        [] opcode = OPCODE.ARITHLOG_I64 -> immediate(ArithLogI64Row(funct7))
        [] opcode = OPCODE.B -> Line(Row(BranchRow, funct3), <<rs1, rs2>>, GetImm13(w))
        [] opcode = OPCODE.J -> Line("JAL", <<rd>>, GetImm21(w))
        [] opcode = OPCODE.JALR ->
             IF funct3 = 0 THEN Line("JALR", <<rd, rs1>>, GetImm12(w))
             ELSE Line(UNDEF, <<>>, {})
        [] opcode = OPCODE.LD -> immediate(LoadRow)
        [] opcode = OPCODE.S ->
             Line(Row(StoreRow, funct3), <<rs2, rs1>>, GetStypeImm12(w))
        [] opcode = OPCODE.LUI -> Line("LUI", <<rd>>, upper)
        [] opcode = OPCODE.AUIPC -> Line("AUIPC", <<rd>>, upper)
        [] opcode = OPCODE.SYSTEM ->
             IF funct3 = 0 THEN Line(SystemLine(w), <<>>, {})
             ELSE Line(Row(CsrRow, funct3), <<rd, rs1>>, GetCsr(w))
        [] opcode = OPCODE.FENCE -> Line(Row(FenceRow, funct3), <<>>, {})
        [] opcode = OPCODE.AMO ->
             Line(AmoMnemonic(funct3, funct7 \div 4), <<rd, rs2, rs1>>, {})
        [] OTHER -> Line(UNDEF, <<>>, {})
=============================================================================
