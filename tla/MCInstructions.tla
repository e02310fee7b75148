--------------------------- MODULE MCInstructions ---------------------------
(* Registers of 8 bits with words of 4; every 16 bit instruction, and 32   *)
(* bit instructions with every opcode, funct3 and funct7.                  *)
EXTENDS Instructions

SomeImmediates == {-8, -3, 1, 7}
\* A word below half of the range and one above it, which is not extended, a
\* register whose lower half alone is zero, and a negative number.
SomeInputs == {6, 13, 48, 250}

AllHalfWords == {w \in SUBSET (0 .. 15) \ {{}} : ~ {0, 1} \subseteq w}

BitsOf(n) == {i \in 0 .. 6 : (n \div 2 ^ i) % 2 = 1}

\* In bits 7-11 and 15-24 no two places are alike in all the patterns, so a
\* field or an immediate that mixes up two bits shows in one of them.
OperandBits == (7 .. 11) \cup (15 .. 24)
Patterns == {{i \in OperandBits : ((i - 6) \div 2 ^ k) % 2 = 1} : k \in 0 .. 4}
              \cup {{}, OperandBits}

\* The opcodes of the table and one that is in none.
Opcodes == {OPCODE[n] : n \in DOMAIN OPCODE} \cup {7}

\* Every funct7 with the extreme patterns, and every pattern with the values
\* of funct7 that the tables name and with single bits.
Operands ==
  ((0 .. 127) \X {{}, OperandBits}) \cup ({0, 1, 2, 4, 8, 16, 32, 64} \X Patterns)

SomeFullWords ==
  {BitsOf(o) \cup ShiftUp(BitsOf(f3), 12) \cup ShiftUp(BitsOf(r[1]), 25) \cup r[2] :
     o \in Opcodes, f3 \in 0 .. 7, r \in Operands}
=============================================================================
