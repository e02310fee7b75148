----------------------------- MODULE Arithmetic -----------------------------
(***************************************************************************)
(* The integer instructions of RISCV_cpu.cc: register arithmetic, shifts,  *)
(* comparisons and branches, multiplication and division, and the          *)
(* operations of the AMO instructions.                                     *)
(*                                                                         *)
(* Registers have 2 * H bits, for the 64 of reg_, whatever the mode; the   *)
(* word of a 32 bit hart, and of the W instructions, is their lower half.  *)
(* Register values are natural numbers, so a mask is a remainder, a right  *)
(* shift a division, and wrapping is % 2^(2 * H).                          *)
(***************************************************************************)
EXTENDS Integers

CONSTANTS
  H,             (* bits of a word, 32; a power of 2                       *)
  Immediates,    (* bound: the immediates of the guest                     *)
  Inputs         (* bound: what registers receive from elsewhere, the      *)
                 (* addresses of code and data, CSRs and memory            *)

W == 2 * H
B == 2 ^ H
M == 2 ^ W
Register == 0 .. M - 1

ASSUME WidthAssumption ==
  /\ H \in Nat /\ \E k \in 1 .. H : H = 2 ^ k
  /\ \A i \in Immediates : i \in -(B \div 2) .. (B \div 2) - 1
  /\ Inputs \subseteq Register

VARIABLES
  xlen,          (* xlen_: H or W                                          *)
  x, y,          (* two registers of the guest                             *)
  crashed        (* the emulator has divided by zero                       *)

vars == <<xlen, x, y, crashed>>

-----------------------------------------------------------------------------
(* Words and registers.                                                    *)

Wrap(v) == v % M
Signed(v) == IF v >= M \div 2 THEN v - M ELSE v
Word(v) == v % B
Sext32bit(v) == IF Word(v) >= B \div 2 THEN Word(v) + (M - B) ELSE Word(v)

ShiftLeft(v, n) == Wrap(v * 2 ^ n)
ShiftRight(v, n) == v \div 2 ^ n
ShiftRightSigned(v, n) == Wrap(Signed(v) \div 2 ^ n)

\* The host's & | ^, bit by bit.
BitOf(v, k) == (v \div 2 ^ k) % 2
FromBits(bits) ==
  LET sum[k \in 0 .. W] ==
        IF k = 0 THEN 0 ELSE sum[k - 1] + bits[k - 1] * 2 ^ (k - 1)
  IN  sum[W]
And(a, b) == FromBits([k \in 0 .. W - 1 |-> BitOf(a, k) * BitOf(b, k)])
Or(a, b) ==
  FromBits([k \in 0 .. W - 1 |-> IF BitOf(a, k) + BitOf(b, k) = 0 THEN 0 ELSE 1])
Xor(a, b) ==
  FromBits([k \in 0 .. W - 1 |-> IF BitOf(a, k) = BitOf(b, k) THEN 0 ELSE 1])

-----------------------------------------------------------------------------
(* OperationInstruction, ImmediateInstruction, ImmediateShiftInstruction.  *)

WordOperations == {"ADDW", "SUBW", "SLLW", "SRLW", "SRAW"}
Operations ==
  {"ADD", "SUB", "AND", "OR", "XOR", "SLL", "SRL", "SRA", "SLT", "SLTU"}
  \cup (IF xlen = W THEN WordOperations ELSE {})

Narrow(op) == xlen = H \/ op \in WordOperations

ShiftAmount(op, b) == b % (IF Narrow(op) THEN H ELSE W)

Unextended(op, a, b) ==
  LET n == ShiftAmount(op, b)
  IN  CASE op \in {"ADD", "ADDW"} -> Wrap(a + b)
        [] op \in {"SUB", "SUBW"} -> Wrap(a - b)
        [] op = "AND" -> And(a, b)
        [] op = "OR"  -> Or(a, b)
        [] op = "XOR" -> Xor(a, b)
        [] op \in {"SLL", "SLLW"} -> ShiftLeft(a, n)
        [] op \in {"SRL", "SRLW"} ->
             ShiftRight(IF Narrow(op) THEN Word(a) ELSE a, n)
        [] op = "SRA" -> ShiftRightSigned(a, n)
        [] op = "SRAW" -> ShiftRight(Sext32bit(a), n)
        [] op = "SLT" -> IF Signed(a) < Signed(b) THEN 1 ELSE 0
        [] op = "SLTU" -> IF a < b THEN 1 ELSE 0

Operation(op, a, b) ==
  IF Narrow(op) THEN Sext32bit(Unextended(op, a, b)) ELSE Unextended(op, a, b)

ShiftOperations ==
  {"SLLI", "SRLI", "SRAI"} \cup (IF xlen = W THEN {"SLLIW", "SRLIW", "SRAIW"} ELSE {})

\* The shift amount is the immediate as it is.
ImmediateShift(op, a, n) ==
  LET logical == ShiftRight(IF xlen = H THEN Word(a) ELSE a, n)
  IN  CASE op = "SLLI" -> IF xlen = H THEN Sext32bit(ShiftLeft(a, n))
                          ELSE ShiftLeft(a, n)
        [] op = "SLLIW" -> Sext32bit(Word(ShiftLeft(a, n)))
        [] op = "SRLI" -> IF xlen = H THEN Sext32bit(logical) ELSE logical
        [] op = "SRLIW" -> Sext32bit(ShiftRight(Word(a), n))
        [] op = "SRAI" -> ShiftRightSigned(a, n)
        [] op = "SRAIW" -> Wrap(Signed(Sext32bit(a)) \div 2 ^ n)

\* BranchInstruction.
Branch(op, a, b) ==
  CASE op = "BEQ" -> a = b
    [] op = "BNE" -> a # b
    [] op = "BLT" -> Signed(a) < Signed(b)
    [] op = "BGE" -> Signed(a) >= Signed(b)
    [] op = "BLTU" -> a < b
    [] op = "BGEU" -> a >= b

-----------------------------------------------------------------------------
(* MultInstruction.                                                        *)

\* Faulty variant: the carry out of the middle of the product is lost.
HighHalfNoCarry(a, b, c, d) ==
  Wrap(a * c + ((a * d) \div B) + ((b * c) \div B))

\* GetMulh64, GetMulhsu64 and GetMulhu64: a and c are the upper halves, signed
\* or not as the operands are, b and d the lower ones.  Each of the four
\* products fits its type.
HighHalf(a, b, c, d) ==
  LET middle == ((a * d) % B) + ((b * c) % B) + ((b * d) \div B)
  IN  Wrap(a * c + ((a * d) \div B) + ((b * c) \div B) + (middle \div B))

UpperSigned(v) == Signed(v) \div B
Upper(v) == v \div B

Multiply(op, a, b) ==
  CASE op \in {"MUL", "MULW"} -> Wrap(a * b)
    [] op = "MULH" ->
         IF xlen = H THEN Wrap(Signed(Wrap(Signed(a) * Signed(b))) \div B)
         ELSE HighHalf(UpperSigned(a), Word(a), UpperSigned(b), Word(b))
    [] op = "MULHSU" ->
         IF xlen = H THEN Wrap(Signed(a) * Word(b)) \div B
         ELSE HighHalf(UpperSigned(a), Word(a), Upper(b), Word(b))
    [] op = "MULHU" ->
         IF xlen = H THEN (Word(a) * Word(b)) \div B
         ELSE HighHalf(Upper(a), Word(a), Upper(b), Word(b))

\* Division of the host: towards zero.
Magnitude(v) == IF v < 0 THEN -v ELSE v
Quotient(a, b) ==
  LET q == Magnitude(a) \div Magnitude(b) IN IF (a < 0) # (b < 0) THEN -q ELSE q
Remainder(a, b) == a - b * Quotient(a, b)

LargestNegative == 2 ^ (xlen - 1)
Multiplications ==
  {"MUL", "MULH", "MULHSU", "MULHU"} \cup (IF xlen = W THEN {"MULW"} ELSE {})
WordDivisions == {"DIVW", "DIVUW", "REMW", "REMUW"}
Divisions ==
  {"DIV", "DIVU", "REM", "REMU"} \cup (IF xlen = W THEN WordDivisions ELSE {})

\* The operands that a division really uses.
Operand(op, v) ==
  CASE op \in {"DIV", "REM"} -> Signed(v)
    [] op \in {"DIVW", "REMW"} -> Signed(Sext32bit(v))
    [] op \in {"DIVUW", "REMUW"} -> Word(v)
    [] OTHER -> IF xlen = H THEN Word(v) ELSE v

\* Division by zero of the host: the test for zero looks at the whole
\* register.
DividesByZero(op, b) == b # 0 /\ Operand(op, b) = 0

\* What the overflow branches return.
Overflow(op) ==
  CASE op = "DIV" -> LargestNegative
    [] op = "DIVW" -> 2 ^ (H - 1)
    [] OTHER -> 0

Overflows(op, a, b) ==
  /\ Signed(b) = -1
  /\ \/ op \in {"DIV", "REM"} /\ a = LargestNegative
     \/ op \in {"DIVW", "REMW"} /\ a = 2 ^ (H - 1)

Divide(op, a, b) ==
  IF b = 0
  THEN IF op \in {"DIV", "DIVU", "DIVW", "DIVUW"} THEN M - 1 ELSE a
  ELSE IF Overflows(op, a, b) THEN Overflow(op)
  ELSE IF op \in {"DIV", "DIVU", "DIVW", "DIVUW"}
  THEN Wrap(Quotient(Operand(op, a), Operand(op, b)))
  ELSE Wrap(Remainder(Operand(op, a), Operand(op, b)))

Extended(op, v) ==
  IF xlen = H \/ op \in WordDivisions \cup {"MULW"} THEN Sext32bit(v) ELSE v

-----------------------------------------------------------------------------
(* AmoInstruction, on the memory m that it finds.                          *)

AmoOperations == {"ADD", "AND", "OR", "XOR", "SWAP", "MAX", "MIN", "MAXU", "MINU"}
AmoWidths == IF xlen = W THEN {H, W} ELSE {H}

AmoLoaded(w, m) == IF w = H THEN Sext32bit(m) ELSE m

AmoValue(op, w, t, b) ==
  LET signed(v) == Signed(IF w = H THEN Sext32bit(v) ELSE v)
      unsigned(v) == IF w = H THEN Word(v) ELSE v
  IN  CASE op = "ADD" -> Wrap(t + b)
        [] op = "AND" -> And(t, b)
        [] op = "OR" -> Or(t, b)
        [] op = "XOR" -> Xor(t, b)
        [] op = "SWAP" -> b
        [] op = "MAX" -> IF signed(t) > signed(b) THEN t ELSE b
        [] op = "MIN" -> IF signed(t) < signed(b) THEN t ELSE b
        [] op = "MAXU" -> IF unsigned(t) > unsigned(b) THEN t ELSE b
        [] op = "MINU" -> IF unsigned(t) < unsigned(b) THEN t ELSE b

\* StoreWd writes the word only.
AmoStored(op, w, m, b) ==
  LET value == AmoValue(op, w, AmoLoaded(w, m), b)
  IN  IF w = H THEN Word(value) ELSE value

-----------------------------------------------------------------------------
(* The guest: two registers, either of which takes the result.             *)

Compute(v) ==
  /\ ~crashed
  /\ \/ x' = v /\ y' = y
     \/ y' = v /\ x' = x
  /\ UNCHANGED <<xlen, crashed>>

OperationInstruction(op) == Compute(Operation(op, x, y))
\* ADDI, ANDI, ORI, XORI, ADDIW, SLTI and SLTIU.
ImmediateInstruction(op, i) == Compute(Operation(op, x, Wrap(i)))
ImmediateShiftInstruction(op, n) == Compute(ImmediateShift(op, x, n))
MultInstruction(op) ==
  \/ op \in Multiplications /\ Compute(Extended(op, Multiply(op, x, y)))
  \/ /\ op \in Divisions /\ ~DividesByZero(op, y)
     /\ Compute(Extended(op, Divide(op, x, y)))
  \/ /\ ~crashed /\ op \in Divisions /\ DividesByZero(op, y)
     /\ crashed' = TRUE
     /\ UNCHANGED <<xlen, x, y>>

\* Faulty variant: the sum is not extended.
LoadUpperWide(base, i) == Compute(Wrap(base + i))

\* AUIPC, and LUI with a base of 0.
LoadUpper(base, i) ==
  Compute(IF xlen = H THEN Sext32bit(Wrap(base + i)) ELSE Wrap(base + i))

\* LW and the AMOs leave what they read, a word as its sign extension.
LoadWord(w, m) == Compute(AmoLoaded(w, m))

\* JAL, JALR, the CSR instructions, LWU and LD store what they find, not
\* extended, and so does an emulated system call with its result.
StoreLink(v) == Compute(v)

\* The process is gone.
Crashed == crashed /\ UNCHANGED vars

\* kTop, where run() lets the stack begin: a register that is not extended.
StackTop == B \div 2

\* The registers as run() leaves them: the stack and the global pointer, both
\* words that it does not extend, and zeros.
InitialRegister == {0, StackTop} \cup (Inputs \cap 0 .. B - 1)

Init ==
  /\ xlen \in {H, W}
  /\ x \in InitialRegister
  /\ y \in InitialRegister
  /\ crashed = FALSE

Next ==
  \/ \E op \in Operations : OperationInstruction(op)
  \/ \E i \in Immediates :
       \/ \E op \in Operations \cap {"ADD", "AND", "OR", "XOR", "ADDW", "SLT", "SLTU"} :
            ImmediateInstruction(op, i)
       \/ \E base \in {0} \cup Inputs : LoadUpper(base, i)
  \/ \E op \in ShiftOperations :
       \E n \in 0 .. (IF xlen = W /\ op \in {"SLLI", "SRLI", "SRAI"} THEN W ELSE H) - 1 :
         ImmediateShiftInstruction(op, n)
  \/ \E op \in Multiplications \cup Divisions : MultInstruction(op)
  \/ \E w \in AmoWidths, m \in Inputs : LoadWord(w, m)
  \/ \E v \in Inputs : StoreLink(v)
  \/ Crashed

Spec == Init /\ [][Next]_vars

-----------------------------------------------------------------------------
(* Properties.                                                             *)

IsExtended(v) == Sext32bit(v) = v

\* On a 32 bit hart every instruction that computes leaves the sign extension
\* of a word, whatever it started from: the comparisons, branches, shifts and
\* divisions that look at the whole register rely on it.  A register that is
\* not extended holds what run() or StoreLink left in it, or that after SRAI,
\* which does not extend.
RegistersExtended ==
  xlen = H =>
    \A v \in {x, y} :
      \/ IsExtended(v)
      \/ \E u \in Inputs \cup {StackTop}, n \in 0 .. W - 1 : v = ShiftRightSigned(u, n)

\* A value read as a signed or unsigned number of w bits, and the register
\* that shows a number of w bits.
AsUnsigned(v, w) == v % 2 ^ w
AsSigned(v, w) ==
  IF AsUnsigned(v, w) >= 2 ^ (w - 1) THEN AsUnsigned(v, w) - 2 ^ w
  ELSE AsUnsigned(v, w)
Shown(v, w) == AsSigned(v, w) % M
IsSet(v, k) == (AsUnsigned(v, k + 1) \div 2 ^ k) = 1

\* The width an instruction works on.
WidthOf(op) ==
  IF op \in WordOperations \cup WordDivisions \cup {"MULW", "SLLIW", "SRLIW", "SRAIW"}
  THEN H ELSE xlen

\* What the instruction set defines for an operation, on numbers of xlen (or
\* H) bits.
OperationAsDefined(op, a, b) ==
  LET w == WidthOf(op)
      r == Operation(op, a, b)
      n == b % w
  IN  CASE op \in {"ADD", "ADDW"} -> r = Shown(a + b, w)
        [] op \in {"SUB", "SUBW"} -> r = Shown(a - b, w)
        [] op = "AND" -> \A k \in 0 .. w - 1 : IsSet(r, k) = (IsSet(a, k) /\ IsSet(b, k))
        [] op = "OR" -> \A k \in 0 .. w - 1 : IsSet(r, k) = (IsSet(a, k) \/ IsSet(b, k))
        [] op = "XOR" -> \A k \in 0 .. w - 1 : IsSet(r, k) = (IsSet(a, k) # IsSet(b, k))
        [] op \in {"SLL", "SLLW"} -> r = Shown(a * 2 ^ n, w)
        [] op \in {"SRL", "SRLW"} -> r = Shown(AsUnsigned(a, w) \div 2 ^ n, w)
        [] op \in {"SRA", "SRAW"} -> r = Shown(AsSigned(a, w) \div 2 ^ n, w)
        [] op = "SLT" -> (r = 1) = (AsSigned(a, w) < AsSigned(b, w))
        [] op = "SLTU" -> (r = 1) = (AsUnsigned(a, w) < AsUnsigned(b, w))

ShiftAsDefined(op, a, n) ==
  LET w == WidthOf(op)
  IN  ImmediateShift(op, a, n) =
        CASE op \in {"SLLI", "SLLIW"} -> Shown(a * 2 ^ n, w)
          [] op \in {"SRLI", "SRLIW"} -> Shown(AsUnsigned(a, w) \div 2 ^ n, w)
          [] op \in {"SRAI", "SRAIW"} -> Shown(AsSigned(a, w) \div 2 ^ n, w)

BranchesAsDefined(a, b) ==
  /\ Branch("BEQ", a, b) = (AsUnsigned(a, xlen) = AsUnsigned(b, xlen))
  /\ Branch("BNE", a, b) = ~Branch("BEQ", a, b)
  /\ Branch("BLT", a, b) = (AsSigned(a, xlen) < AsSigned(b, xlen))
  /\ Branch("BGE", a, b) = ~Branch("BLT", a, b)
  /\ Branch("BLTU", a, b) = (AsUnsigned(a, xlen) < AsUnsigned(b, xlen))
  /\ Branch("BGEU", a, b) = ~Branch("BLTU", a, b)

\* The instructions that look at the whole register, and the registers on which
\* they have to be right: all those of a 64 bit hart, the extended ones of a
\* 32 bit hart.
LooksAtWhole == {"SRA", "SLT", "SLTU", "SRAI", "MULH", "MULHSU"}
Canonical == xlen = H => IsExtended(x) /\ IsExtended(y)

\* OperationInstruction, ImmediateShiftInstruction and BranchInstruction give
\* what is defined.
OperationsAsDefined ==
  /\ \A op \in Operations :
       (op \in LooksAtWhole => Canonical) => OperationAsDefined(op, x, y)
  /\ \A op \in ShiftOperations : \A n \in 0 .. WidthOf(op) - 1 :
       (op \in LooksAtWhole => Canonical) => ShiftAsDefined(op, x, n)
  /\ Canonical => BranchesAsDefined(x, y)

\* MUL and MULH, MULHSU, MULHU give the lower and the upper half of the
\* product, although GetMulh64 and its relatives never form it.
ProductAsDefined(op, a, b) ==
  LET w == WidthOf(op)
      r == Extended(op, Multiply(op, a, b))
      high(p) == Shown(p \div 2 ^ w, w)
  IN  CASE op \in {"MUL", "MULW"} -> r = Shown(a * b, w)
        [] op = "MULH" -> r = high(AsSigned(a, w) * AsSigned(b, w))
        [] op = "MULHSU" -> r = high(AsSigned(a, w) * AsUnsigned(b, w))
        [] op = "MULHU" -> r = high(AsUnsigned(a, w) * AsUnsigned(b, w))

\* A quotient and a remainder belong together: they satisfy a = q * b + r with
\* a remainder smaller than the divisor and of the dividend's sign; division
\* by zero gives all ones and the dividend, overflow the dividend and zero.
\* Here v and d are the registers, a and b the numbers they show.
Pair(div, rem, w, signed, v, d) ==
  LET value(u) == IF signed THEN AsSigned(u, w) ELSE AsUnsigned(u, w)
      q == Extended(div, Divide(div, v, d))
      r == Extended(rem, Divide(rem, v, d))
      a == value(v)
      b == value(d)
  IN  \/ DividesByZero(div, d)
      \/ /\ q = Shown(q, w) /\ r = Shown(r, w)
         /\ CASE b = 0 -> q = Shown(-1, w) /\ r = Shown(v, w)
              [] b # 0 /\ signed /\ a = -(2 ^ (w - 1)) /\ b = -1 ->
                   q = Shown(v, w) /\ r = 0
              [] OTHER -> /\ a = value(q) * b + value(r)
                          /\ Magnitude(value(r)) < Magnitude(b)
                          /\ value(r) * a >= 0

DivisionsAsDefined ==
  /\ Canonical => Pair("DIV", "REM", xlen, TRUE, x, y)
  /\ Pair("DIVU", "REMU", xlen, FALSE, x, y)
  /\ xlen = W => /\ Pair("DIVW", "REMW", H, TRUE, x, y)
                 /\ Pair("DIVUW", "REMUW", H, FALSE, x, y)

\* An AMO leaves in memory the sum, the bits, the operand or the larger or
\* smaller of the two numbers, in the width of the instruction; here x is what
\* it finds there and y its operand.
AmoAsDefined(op, w) ==
  LET r == AmoStored(op, w, x, y)
      unsigned == {AsUnsigned(x, w), AsUnsigned(y, w)}
      signed == {AsSigned(x, w), AsSigned(y, w)}
  IN  CASE op = "ADD" -> r = AsUnsigned(x + y, w)
        [] op = "AND" -> \A k \in 0 .. w - 1 : IsSet(r, k) = (IsSet(x, k) /\ IsSet(y, k))
        [] op = "OR" -> \A k \in 0 .. w - 1 : IsSet(r, k) = (IsSet(x, k) \/ IsSet(y, k))
        [] op = "XOR" -> \A k \in 0 .. w - 1 : IsSet(r, k) = (IsSet(x, k) # IsSet(y, k))
        [] op = "SWAP" -> r = AsUnsigned(y, w)
        [] op = "MAX" -> AsSigned(r, w) \in signed /\ \A s \in signed : s <= AsSigned(r, w)
        [] op = "MIN" -> AsSigned(r, w) \in signed /\ \A s \in signed : s >= AsSigned(r, w)
        [] op = "MAXU" -> r \in unsigned /\ \A u \in unsigned : u <= r
        [] op = "MINU" -> r \in unsigned /\ \A u \in unsigned : u >= r

\* The emulator itself divides by zero only by a register whose lower half
\* alone is zero.
CrashesOnlyOnWords == crashed => Word(y) = 0 /\ y # 0

\* Every operation, product, quotient, remainder and AMO that RunCpu computes
\* from the registers an instruction sequence left behind is the one the
\* instruction set defines, except where the division ends the emulator and
\* where an instruction of a 32 bit hart looks at the whole of a register that
\* is not extended.
ResultsAsDefined ==
  /\ OperationsAsDefined
  /\ \A op \in Multiplications :
       (op \in LooksAtWhole => Canonical) => ProductAsDefined(op, x, y)
  /\ DivisionsAsDefined
  /\ \A op \in AmoOperations, w \in AmoWidths : AmoAsDefined(op, w)
  /\ CrashesOnlyOnWords
=============================================================================
