------------------------------- MODULE Loader -------------------------------
(***************************************************************************)
(* What RISCV_Emulator.cc does before the hart runs: the command line, the *)
(* files, the ELF image, the default page tables and the initial           *)
(* registers.                                                              *)
(*                                                                         *)
(* An ELF file is a record of what the loader takes from it:               *)
(*   size       its length in bytes                                        *)
(*   class64    EI_CLASS is ELFCLASS64                                     *)
(*   entry      e_entry                                                    *)
(*   segments   the program headers: [load: p_type is PT_LOAD, vaddr, data]*)
(*   sections   the section headers: [name, address, size]                 *)
(* Whether it is a supported file is only reported (IsRightElf), and not a *)
(* part of the state.                                                      *)
(***************************************************************************)
EXTENDS Memory, FiniteSets, FiniteSetsExt

CONSTANTS
  Files,           (* the host's files: a function from names              *)
  MaxBinarySize,   (* kMaxBinarySize                                       *)
  MmuTable,        (* the addresses of the default page tables             *)
  Top, Bottom      (* kTop and kBottom                                     *)

Segments == [load : BOOLEAN, vaddr : Nat, data : Seq(Byte)]
Sections == [name : STRING, address : Nat, size : Nat]

ASSUME FileAssumption ==
  /\ \A name \in DOMAIN Files :
       Files[name] \in [size : Nat, class64 : BOOLEAN, entry : Nat,
                       segments : Seq(Segments), sections : Seq(Sections)]
  /\ \E first, last \in 0 .. MemorySize - 1 : first <= last /\ MmuTable = first .. last
  /\ Top \in Nat /\ Bottom \in Nat

NoName == ""

-----------------------------------------------------------------------------
(* The command line.  Only the letters after the dash count, so that a     *)
(* token stands for all that begin like it.                                *)

NoOptions ==
  [error |-> FALSE, filename |-> NoName, verbose |-> FALSE,
   address64bit |-> FALSE, paging |-> FALSE, ecall_emulation |-> FALSE,
   host_emulation |-> FALSE, device_enable |-> FALSE,
   disable_machine_interrupt_delegation |-> FALSE, diskimage_file |-> NoName]

SwitchOf(token) ==
  CASE token = "-v"  -> "verbose"
    [] token = "-64" -> "address64bit"
    [] token = "-p"  -> "paging"
    [] token = "-e"  -> "ecall_emulation"
    [] token = "-h"  -> "host_emulation"
    [] token = "-d"  -> "device_enable"
    [] token = "-m"  -> "disable_machine_interrupt_delegation"
    [] OTHER -> "none"

\* argv[i][0] == '-', for the tokens of the model.
IsDashed(token) == token \in {"-s", "-x"} \/ SwitchOf(token) # "none"

\* One round of the loop over argv.  i is where the loop stands: a token that
\* -s has taken is behind it.
ParseToken(argv, s, j) ==
  LET token == argv[j]
      fail == [s EXCEPT !.options.error = TRUE]
  IN IF s.options.error \/ j < s.i THEN s ELSE
     CASE SwitchOf(token) # "none" ->
            [options |-> [s.options EXCEPT ![SwitchOf(token)] = TRUE],
             i |-> j + 1]
       [] token = "-s" ->
            IF j < Len(argv)
            THEN [options |-> [s.options EXCEPT !.diskimage_file = argv[j + 1]],
                  i |-> j + 2]
            ELSE fail
       [] token = "-x" -> fail
       [] OTHER ->
            IF s.options.filename = NoName
            THEN [options |-> [s.options EXCEPT !.filename = token], i |-> j + 1]
            ELSE fail

\* A faulty variant: the name that -s takes is looked at again.
ParseCmdTwice(argv) ==
  IF argv = << >> THEN [NoOptions EXCEPT !.error = TRUE]
  ELSE LET parsed[j \in 0 .. Len(argv)] ==
             IF j = 0 THEN [options |-> NoOptions, i |-> 1]
             ELSE ParseToken(argv, [parsed[j - 1] EXCEPT !.i = j], j)
       IN parsed[Len(argv)].options

ParseCmd(argv) ==
  IF argv = << >> THEN [NoOptions EXCEPT !.error = TRUE]
  ELSE LET parsed[j \in 0 .. Len(argv)] ==
             IF j = 0 THEN [options |-> NoOptions, i |-> 1]
             ELSE ParseToken(argv, parsed[j - 1], j)
       IN parsed[Len(argv)].options

\* ReadFile returns: otherwise it ends the process.
CanReadFile(name) ==
  name \in DOMAIN Files /\ Files[name].size \in 1 .. MaxBinarySize

-----------------------------------------------------------------------------
(* The image.                                                              *)

\* SearchElf32Shdr and SearchElf64Shdr: the first section of that name.
NoSection == [name |-> NoName, address |-> 0, size |-> 0]
SearchShdr(file, name) ==
  LET found == {j \in DOMAIN file.sections : file.sections[j].name = name}
  IN IF found = {} THEN NoSection ELSE file.sections[Min(found)]
Bss(file) == SearchShdr(file, ".bss")

\* .bss of a 32 bit file ends modulo 2^32; that of a 64 bit file does not,
\* and a counter of 32 bits never reaches an end of 2^32 or more.
BssEnd(file) ==
  IF file.class64 THEN Bss(file).address + Bss(file).size
  ELSE (Bss(file).address + Bss(file).size) % MemorySize
BssIsEndless(file) ==
  Bss(file) # NoSection /\ file.class64 /\ BssEnd(file) >= MemorySize

\* The bytes that the loop zeroes: an endless one goes round all addresses.
BssLength(file) ==
  IF BssIsEndless(file) THEN MemorySize
  ELSE IF Bss(file) # NoSection /\ BssEnd(file) > Bss(file).address
  THEN BssEnd(file) - Bss(file).address
  ELSE 0

\* A faulty variant: one byte less.
BssBytesShort(file) ==
  IF BssLength(file) = 0 THEN << >> ELSE [k \in 1 .. (BssLength(file) - 1) |-> 0]

BssBytes(file) == [k \in 1 .. BssLength(file) |-> 0]

\* GetEntryPoint cuts the entry to 32 bits.
EntryPoint(file) == file.entry % MemorySize

\* GetGlobalPointer gives a 64 bit file to the reader for 32 bits and the
\* reverse.  Read so, the section headers are none or elsewhere: the symbol is
\* not found, or the host process fails.  The -1 for not found is returned as
\* uint32_t and never equals the -1 that run() would replace by the entry.
NotFound == MemorySize - 1

\* SetDefaultMmuTable: an entry is nonzero and its value is that of Mmu.
DefaultTable == [k \in 1 .. Cardinality(MmuTable) |-> 1]
TableStart == CHOOSE a \in MmuTable : \A b \in MmuTable : a <= b

=============================================================================
