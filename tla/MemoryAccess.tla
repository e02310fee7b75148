---------------------------- MODULE MemoryAccess ----------------------------
(***************************************************************************)
(* Loads, stores and atomic memory operations of RISCV_cpu.cc: how an      *)
(* access is translated, split at the 64 bit access unit and faulted.      *)
(*                                                                         *)
(* The MMU is reduced to what Mmu establishes: a page is mapped to a       *)
(* physical page or it faults, a failed translation returns the virtual    *)
(* address, and a write marks the page dirty.  Values are functions from   *)
(* byte positions to bytes; extension to the register width is left out.   *)
(* Page tables and device registers lie outside the modelled memory.       *)
(***************************************************************************)
EXTENDS Integers

CONSTANTS
  PageSize,      (* bytes of a page                                        *)
  Unit,          (* bytes of the access unit, 8                            *)
  Pages,         (* bound: physical pages                                  *)
  Widths,        (* access widths: 1, 2, 4 and 8                           *)
  AmoWidths,     (* widths of the AMO instructions: 4 and 8                *)
  Starts,        (* bound: the addresses the guest accesses                *)
  NotMapped,     (* an entry that maps nothing                             *)
  MaxAccesses,   (* bound: accesses of the guest                           *)
  MaxChanges     (* bound: changes of the page tables                      *)

Size == Pages * PageSize
Physical == 0 .. Size - 1
\* One page more than there is memory: what follows the last page.
VirtualPage == 0 .. Pages

ASSUME SizeAssumption ==
  /\ Unit \in Nat \ {0} /\ PageSize \in Nat \ {0} /\ PageSize % Unit = 0
  /\ Pages \in Nat \ {0}
  /\ \A w \in Widths : w \in 1 .. Unit /\ Unit % w = 0
  /\ AmoWidths \subseteq Widths
  /\ \A va \in Starts : va \in 0 .. Size - 1
  /\ NotMapped \notin 0 .. Pages - 1
  /\ MaxAccesses \in Nat /\ MaxChanges \in Nat

VARIABLES
  bytes,         (* the physical memory                                    *)
  paged,         (* translation is on                                      *)
  map,           (* the page tables: a physical page, or NotMapped         *)
  dirty,         (* the pages whose entry has the dirty bit                *)
  reg,           (* reg_[rd], the last value loaded                        *)
  page_fault,    (* page_fault_ left behind by an AMO                      *)
  faulting_address,      (* faulting_address_                              *)
  trap,          (* the page fault the last access was reported with       *)
  accesses, changes      (* bounds: done so far                            *)

faultVars == <<page_fault, faulting_address>>
vars == <<bytes, paged, map, dirty, reg, faultVars, trap, accesses, changes>>

NoTrap == [cause |-> 0, address |-> 0]
LOAD_PAGE_FAULT == 13
STORE_PAGE_FAULT == 15
INSTRUCTION_PAGE_FAULT == 12

-----------------------------------------------------------------------------
(* Translation, as the CPU uses it.                                        *)

PageOf(va) == va \div PageSize
Faults(va) == paged /\ map[PageOf(va)] = NotMapped
Translate(va) ==
  IF paged /\ ~Faults(va) THEN map[PageOf(va)] * PageSize + (va % PageSize)
  ELSE va
Marked(va) == IF paged /\ ~Faults(va) THEN {PageOf(va)} ELSE {}

-----------------------------------------------------------------------------
(* Physical memory; addresses beyond its end wrap.                         *)

LoadWd(address, width) ==
  [i \in 0 .. width - 1 |-> bytes[(address + i) % Size]]

StoreWd(mem, address, value, width) ==
  [p \in Physical |->
     IF (p - address) % Size < width THEN value[(p - address) % Size] ELSE mem[p]]

\* The bytes up to the end of the unit, or all of them.
GetAccessWidth(width, address) ==
  IF (address % Unit) + width - 1 >= Unit
  THEN width - (address % width) ELSE width

-----------------------------------------------------------------------------
(* The instructions.                                                       *)

Accessing ==
  /\ ~page_fault
  /\ accesses < MaxAccesses
  /\ accesses' = accesses + 1
  /\ UNCHANGED <<paged, map, changes>>

\* A translation at address has failed, and Trap reports it.
Trap(cause, address) ==
  /\ trap' = [cause |-> cause, address |-> address]
  /\ faulting_address' = address
Complete == trap' = NoTrap /\ UNCHANGED faulting_address

\* Faulty variant: the second half is read behind the first.
LoadContiguous(va, width) ==
  /\ Accessing
  /\ IF Faults(va) THEN Trap(LOAD_PAGE_FAULT, va) /\ reg' = reg
     ELSE Complete /\ reg' = LoadWd(Translate(va), width)
  /\ UNCHANGED <<bytes, dirty, page_fault>>

\* The second half is translated from the PHYSICAL address of the first.
LoadInstruction(va, width) ==
  LET first == Translate(va)
      low == GetAccessWidth(width, first)
      second == first + low
      split == low < width
  IN  /\ Accessing
      /\ IF Faults(va) THEN Trap(LOAD_PAGE_FAULT, va) /\ reg' = reg
         ELSE IF split /\ Faults(second)
         THEN Trap(LOAD_PAGE_FAULT, second) /\ reg' = reg
         ELSE /\ Complete
              /\ reg' = [i \in 0 .. width - 1 |->
                           IF i < low THEN LoadWd(first, low)[i]
                           ELSE LoadWd(Translate(second), width - low)[i - low]]
      /\ UNCHANGED <<bytes, dirty, page_fault>>

\* Faulty variant: the second half is stored behind the first, untranslated.
StoreContiguous(va, width, value) ==
  LET first == Translate(va)
  IN  /\ Accessing
      /\ IF Faults(va) THEN Trap(STORE_PAGE_FAULT, va) /\ bytes' = bytes
         ELSE Complete /\ bytes' = StoreWd(bytes, first, value, width)
      /\ dirty' = dirty \cup Marked(va)
      /\ UNCHANGED <<reg, page_fault>>

\* The first half is in memory before the second is translated.
StoreInstruction(va, width, value) ==
  LET first == Translate(va)
      low == GetAccessWidth(width, va)
      second == va + low
      split == low < width
      half == StoreWd(bytes, first, value, low)
      upper == [i \in 0 .. width - low - 1 |-> value[i + low]]
  IN  /\ Accessing
      /\ IF Faults(va) THEN Trap(STORE_PAGE_FAULT, va) /\ bytes' = bytes
         ELSE IF split /\ Faults(second)
         THEN Trap(STORE_PAGE_FAULT, second) /\ bytes' = half
         ELSE /\ Complete
              /\ bytes' = IF split
                          THEN StoreWd(half, Translate(second), upper, width - low)
                          ELSE half
      /\ dirty' = dirty \cup Marked(va)
                  \cup (IF split /\ ~Faults(va) THEN Marked(second) ELSE {})
      /\ UNCHANGED <<reg, page_fault>>

\* Faulty variant: the second translation is not one for writing.
AmoReadsOnly(va, width, value) ==
  /\ Accessing
  /\ reg' = LoadWd(Translate(va), width)
  /\ bytes' = StoreWd(bytes, Translate(va), value, width)
  /\ page_fault' = Faults(va)
  /\ faulting_address' = IF Faults(va) THEN va ELSE faulting_address
  /\ trap' = NoTrap
  /\ UNCHANGED dirty

\* Neither a fault nor the end of the unit is looked at; value is what the
\* operation makes of the old value and rs2.
AmoInstruction(va, width, value) ==
  /\ Accessing
  /\ reg' = LoadWd(Translate(va), width)
  /\ bytes' = StoreWd(bytes, Translate(va), value, width)
  /\ dirty' = dirty \cup Marked(va)
  /\ page_fault' = Faults(va)
  /\ faulting_address' = IF Faults(va) THEN va ELSE faulting_address
  /\ trap' = NoTrap

\* The next instruction finds page_fault_ set and is not fetched.
FetchStaleFault ==
  /\ page_fault
  /\ page_fault' = FALSE
  /\ Trap(INSTRUCTION_PAGE_FAULT, faulting_address)
  /\ UNCHANGED <<bytes, paged, map, dirty, reg, accesses, changes>>

-----------------------------------------------------------------------------
(* The guest's page tables.                                                *)

\* An entry is written, with the dirty bit clear.
ChangeMap(vp, target) ==
  /\ ~page_fault
  /\ changes < MaxChanges
  /\ changes' = changes + 1
  /\ map' = [map EXCEPT ![vp] = target]
  /\ dirty' = dirty \ {vp}
  /\ UNCHANGED <<bytes, paged, reg, faultVars, trap, accesses>>

\* A trap to machine mode, or a return from it.
SwitchTranslation ==
  /\ ~page_fault
  /\ paged' = ~paged
  /\ UNCHANGED <<bytes, map, dirty, reg, faultVars, trap, accesses, changes>>

-----------------------------------------------------------------------------
\* Every byte of memory is different from every other and from what is
\* stored, so that a load shows where it read.
Stored(width) == [i \in 0 .. width - 1 |-> Size + i]
Byte == 0 .. Size + Unit - 1

Init ==
  /\ bytes = [p \in Physical |-> p]
  /\ paged \in BOOLEAN
  /\ map = [vp \in VirtualPage |-> IF vp < Pages THEN vp ELSE NotMapped]
  /\ dirty = {}
  /\ reg = [i \in {} |-> 0]
  /\ page_fault = FALSE
  /\ faulting_address = 0
  /\ trap = NoTrap
  /\ accesses = 0
  /\ changes = 0

\* A guest aligns its AMOs, as the instruction set asks.
Next ==
  \/ \E va \in Starts, width \in Widths :
       \/ LoadInstruction(va, width)
       \/ StoreInstruction(va, width, Stored(width))
  \/ \E va \in Starts, width \in AmoWidths :
       va % width = 0 /\ AmoInstruction(va, width, Stored(width))
  \/ FetchStaleFault
  \/ \E vp \in VirtualPage, target \in (0 .. Pages - 1) \cup {NotMapped} :
       ChangeMap(vp, target)
  \/ SwitchTranslation

Spec == Init /\ [][Next]_vars

-----------------------------------------------------------------------------
(* Properties.                                                             *)

\* Where the page tables put each byte of an access.
Place(va, i) == Translate(va + i) % Size
Missing(va, width) == {i \in 0 .. width - 1 : Faults(va + i)}

\* The bytes before the first that is missing.
Before(va, width) ==
  {i \in 0 .. width - 1 : \A j \in Missing(va, width) : i < j}

\* The first byte that is missing is reported.
ReportsFirst(cause, va, width) ==
  LET missing == Missing(va, width)
  IN  IF missing = {} THEN trap' = NoTrap
      ELSE /\ trap'.cause = cause
           /\ trap'.address - va \in missing
           /\ \A j \in missing : trap'.address - va <= j

\* What a store through the page tables, byte by byte, does.
StoredThroughTables(va, width) ==
  LET done == Before(va, width)
      target == {Place(va, i) : i \in done}
  IN  /\ \A i \in done : bytes'[Place(va, i)] = Size + i
      /\ \A p \in Physical \ target : bytes'[p] = bytes[p]
      /\ paged => \A i \in done : PageOf(va + i) \in dirty'

\* StoreInstruction stores byte by byte through the page tables although it
\* translates at most twice: a store that completes puts each byte where the
\* tables map it and touches nothing else; one that traps reports the first
\* byte that is not mapped and has stored exactly the bytes before it, so that
\* it can be restarted; and every page it wrote is dirty.
StoreThroughTables ==
  [][\A va \in Starts, width \in Widths :
       StoreInstruction(va, width, Stored(width)) =>
         /\ StoredThroughTables(va, width)
         /\ ReportsFirst(STORE_PAGE_FAULT, va, width)]_vars

\* What a load through the page tables, byte by byte, returns or reports.
LoadedThroughTables(va, width) ==
  /\ ReportsFirst(LOAD_PAGE_FAULT, va, width)
  /\ reg' = IF Missing(va, width) = {}
            THEN [i \in 0 .. width - 1 |-> bytes[Place(va, i)]] ELSE reg

\* LoadInstruction reads through the page tables when the access stays in its
\* unit or the page it starts in is mapped to itself; and it never changes
\* memory or page tables.
LoadWithinUnit ==
  [][\A va \in Starts, width \in Widths :
       LoadInstruction(va, width) =>
         /\ bytes' = bytes /\ dirty' = dirty
         /\ (va % Unit) + width <= Unit \/ Translate(va) = va
              => LoadedThroughTables(va, width)]_vars

\* Every load reads through the page tables, wherever it starts ("RV64I").
LoadThroughTables ==
  [][\A va \in Starts, width \in Widths :
       LoadInstruction(va, width) => LoadedThroughTables(va, width)]_vars

\* Memory that changes is accounted for: under translation a page of memory
\* changes only through an entry that is then dirty, or by an AMO whose fault
\* is still to be reported.
ChangesAreDirty ==
  [][paged /\ ~page_fault' =>
       \A p \in Physical : bytes'[p] # bytes[p] =>
         \E vp \in dirty' : map[vp] = p \div PageSize]_vars
=============================================================================
