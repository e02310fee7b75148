-------------------------------- MODULE Mmu --------------------------------
(***************************************************************************)
(* Address translation: Mmu.cpp, the page table entries of pte.cpp and the *)
(* page tables RISCV_Emulator.cc installs before the run.                  *)
(*                                                                         *)
(* Addresses are taken page by page: the offset is copied unchanged.  A    *)
(* page table is a page of K entries (1024 for Sv32, 512 for Sv39) and a   *)
(* virtual page number is Levels digits to the base K, so the shifts and   *)
(* masks of the code are divisions and remainders by powers of K.  The     *)
(* guest switches translation on and off and rewrites table entries.       *)
(***************************************************************************)
EXTENDS Integers

CONSTANTS
  K,             (* entries of a page table                                *)
  Pages,         (* bound: number of physical pages                        *)
  Installations  (* bound: the paging modes, default tables and guests     *)

Page == 0 .. Pages - 1
Index == 0 .. K - 1
Pte == [v: BOOLEAN, r: BOOLEAN, w: BOOLEAN, x: BOOLEAN,
        a: BOOLEAN, d: BOOLEAN, ppn: Page]

\* Levels: 2 is Sv32 (VirtualToPhysical32), 3 is Sv39 (VirtualToPhysical64);
\* the first page of each level of the default tables; the entries of the
\* root these fill; the guest's writes to page tables, how many of them, and
\* the translations after the last one (bounds).
Installation ==
  [levels: {2, 3}, root: Page, level1: Page, level0: Page, valid: 1 .. K,
   ptes: SUBSET [page: Page, index: Index, pte: Pte],
   writes: Nat, translations: Nat]

\* RISCV_Emulator.h puts the tables of a level behind those above it, and
\* there is memory for the tables and for the pages they map.
Laid(i) ==
  /\ i.levels = 2 => i.valid = K /\ i.level0 = i.root + 1
  /\ i.levels = 3 => i.level1 = i.root + 1 /\ i.level0 = i.level1 + i.valid
  /\ LET tables == IF i.levels = 2 THEN i.valid ELSE i.valid * K
     IN  i.level0 + tables <= Pages /\ tables * K <= Pages

ASSUME TableAssumption ==
  /\ K \in Nat \ {0, 1}
  /\ Pages \in Nat \ {0}
  /\ \A i \in Installations : i \in Installation /\ Laid(i)

VARIABLES
  memory,            (* the physical pages, read as page tables            *)
  mode,              (* satp MODE: bare, paged or unsupported              *)
  root,              (* satp PPN                                           *)
  machine,           (* the effective privilege is machine mode            *)
  page_fault,        (* page_fault_                                        *)
  faulting_address,  (* faulting_address_                                  *)
  result,            (* what VirtualToPhysical returned                    *)
  written,           (* history: entries used by a write access since the
                        guest wrote them                                   *)
  writes,            (* bound: table writes done                           *)
  translations,      (* bound: translations done since the last one        *)
  installed          (* the installation that runs                         *)

Levels == installed.levels
Root == installed.root
Level1 == installed.level1
Level0 == installed.level0
ValidEntries == installed.valid
TopLevel == Levels - 1
Level == 0 .. TopLevel

\* K ^ level.
Span(level) == <<1, K, K * K, K * K * K>>[level + 1]
VirtualPage == 0 .. Span(Levels) - 1

outcomeVars == <<page_fault, faulting_address, result>>
vars == <<memory, mode, root, machine, outcomeVars, written, writes,
          translations, installed>>

-----------------------------------------------------------------------------
(* Page table entries.                                                     *)

IsValid(pte) == pte.v /\ ~(~pte.r /\ pte.w)
IsLeaf(pte) == pte.r \/ pte.w \/ pte.x

\* Faulty variant: the dirty bit follows the last access.
SetAccessedResetsDirty(pte, write) == [pte EXCEPT !.a = TRUE, !.d = write]

SetAccessed(pte, write) == [pte EXCEPT !.a = TRUE, !.d = pte.d \/ write]

Pointer(page) == [v |-> TRUE, r |-> FALSE, w |-> FALSE, x |-> FALSE,
                  a |-> FALSE, d |-> FALSE, ppn |-> page]
Leaf(page) == [Pointer(page) EXCEPT !.r = TRUE, !.w = TRUE, !.x = TRUE]
ZeroPte == [Pointer(0) EXCEPT !.v = FALSE]

-----------------------------------------------------------------------------
(* The walk of VirtualToPhysical32 and VirtualToPhysical64.                *)

Vpn(vp, level) == (vp \div Span(level)) % K

Entry(mem, page, vp, level) == mem[page][Vpn(vp, level)]

\* The page that is read as the table of a level, if the walk gets there.
Table(mem, vp, level) ==
  LET second == Entry(mem, root, vp, TopLevel).ppn
  IN  CASE level = TopLevel -> root
        [] level = TopLevel - 1 -> second
        [] level = TopLevel - 2 -> Entry(mem, second, vp, TopLevel - 1).ppn

At(mem, vp, level) == Entry(mem, Table(mem, vp, level), vp, level)

\* The walk leaves the loop at an entry that is invalid or a leaf.
Ends(mem, vp, level) ==
  ~IsValid(At(mem, vp, level)) \/ IsLeaf(At(mem, vp, level))
Stops(mem, vp, level) ==
  /\ Ends(mem, vp, level)
  /\ \A k \in Level : k > level => ~Ends(mem, vp, k)

\* Faulty variant: superpages need not be aligned.
AlignedAlways(pte, level) == TRUE

Aligned(pte, level) == pte.ppn % Span(level) = 0

\* The walk stops at a leaf of this level that is valid and aligned.
Found(mem, vp, level) ==
  /\ Stops(mem, vp, level)
  /\ IsValid(At(mem, vp, level))
  /\ Aligned(At(mem, vp, level), level)

\* The upper digits come from the entry, the lower ones of a superpage from
\* the virtual address.
Frame(pte, vp, level) ==
  Span(level) * (pte.ppn \div Span(level)) + (vp % Span(level))

Untranslated == machine \/ mode = "bare"
\* The level of the leaf; meaningful when there is one.
LeafLevel(mem, vp) == CHOOSE level \in Level : Found(mem, vp, level)
Mapped(mem, vp) ==
  mode = "paged" /\ \E level \in Level : Found(mem, vp, level)
Faults(mem, vp) == ~Untranslated /\ ~Mapped(mem, vp)

\* What a translation returns: the virtual page itself when it faults.
Physical(mem, vp) ==
  IF Untranslated \/ Faults(mem, vp) THEN vp
  ELSE LET level == LeafLevel(mem, vp)
       IN  Frame(At(mem, vp, level), vp, level)

\* Faulty variant: the entry is written back to the slot of level 0.
TouchedLevel0(mem, vp, write) ==
  IF Untranslated \/ Faults(mem, vp) THEN mem
  ELSE LET level == LeafLevel(mem, vp)
       IN  [mem EXCEPT ![Table(mem, vp, level)][Vpn(vp, 0)] =
              SetAccessed(At(mem, vp, level), write)]

\* What a translation writes: the accessed and dirty bits of the leaf.
Touched(mem, vp, write) ==
  IF Untranslated \/ Faults(mem, vp) THEN mem
  ELSE LET level == LeafLevel(mem, vp)
       IN  [mem EXCEPT ![Table(mem, vp, level)][Vpn(vp, level)] =
              SetAccessed(@, write)]

VirtualToPhysical(vp, write) ==
  /\ translations < installed.translations
  /\ translations' = translations + 1
  /\ page_fault' = Faults(memory, vp)
  /\ faulting_address' = IF Faults(memory, vp) THEN vp ELSE 0
  /\ result' = Physical(memory, vp)
  /\ memory' = Touched(memory, vp, write)
  /\ written' = IF write /\ ~Untranslated /\ Mapped(memory, vp)
                THEN LET level == LeafLevel(memory, vp)
                     IN  written \cup
                           {<<Table(memory, vp, level), Vpn(vp, level)>>}
                ELSE written
  /\ UNCHANGED <<mode, root, machine, writes>>

-----------------------------------------------------------------------------
(* The default page tables.                                                *)

\* Faulty variant: every table of level 0 maps the first pages.
DefaultEntryRestarts(page, i) ==
  CASE page = Root /\ Levels = 2 -> Pointer(Level0 + i)
    [] page = Root /\ Levels = 3 -> Pointer(Level1 + i)
    [] Levels = 3 /\ page \in Level1 .. Level1 + ValidEntries - 1 ->
         Pointer(Level0 + (page - Level1) * K + i)
    [] page >= Level0 -> Leaf(i)
    [] OTHER -> ZeroPte

\* SetDefaultMmuTable32 and SetDefaultMmuTable64: physical page = virtual
\* page.  In the root of Sv39 the entries after the first ValidEntries lose
\* their frame number but stay valid.
DefaultEntry(page, i) ==
  LET j == page - Level0
  IN  CASE page = Root /\ Levels = 2 -> Pointer(Level0 + i)
        [] page = Root /\ Levels = 3 ->
             IF i < ValidEntries THEN Pointer(Level1 + i) ELSE Pointer(0)
        [] Levels = 3 /\ page \in Level1 .. Level1 + ValidEntries - 1 ->
             Pointer(Level0 + (page - Level1) * K + i)
        [] j \in 0 .. (IF Levels = 3 THEN ValidEntries * K ELSE K) - 1 ->
             Leaf(j * K + i)
        [] OTHER -> ZeroPte

DefaultTable == [page \in Page |-> [i \in Index |-> DefaultEntry(page, i)]]

-----------------------------------------------------------------------------
(* The guest.                                                              *)

WritePte(p) ==
  /\ writes < installed.writes
  /\ writes' = writes + 1
  /\ translations' = 0
  /\ memory' = [memory EXCEPT ![p.page][p.index] = p.pte]
  /\ written' = written \ {<<p.page, p.index>>}
  /\ UNCHANGED <<mode, root, machine, outcomeVars>>

\* A write to SATP; only Sv39 knows unsupported modes.
WriteSatp(m, page) ==
  /\ m = "unsupported" => Levels = 3
  /\ <<m, page>> # <<mode, root>>
  /\ mode' = m
  /\ root' = page
  /\ UNCHANGED <<memory, machine, outcomeVars, written, writes,
                 translations>>

SetPrivilege(m) ==
  /\ machine' = m
  /\ UNCHANGED <<memory, mode, root, outcomeVars, written, writes,
                 translations>>

Init ==
  /\ installed \in Installations
  /\ memory = DefaultTable
  /\ mode \in {"bare", "paged"}
  /\ root = Root
  /\ machine \in BOOLEAN
  /\ page_fault = FALSE
  /\ faulting_address = 0
  /\ result = 0
  /\ written = {}
  /\ writes = 0
  /\ translations = 0

Step ==
  \/ \E vp \in VirtualPage, write \in BOOLEAN : VirtualToPhysical(vp, write)
  \/ \E p \in installed.ptes : WritePte(p)
  \/ \E page \in {Root, Level0} : WriteSatp("paged", page)
  \/ \E m \in {"bare", "unsupported"} : WriteSatp(m, Root)
  \/ SetPrivilege(~machine)

Next == Step /\ UNCHANGED installed

Spec == Init /\ [][Next]_vars

-----------------------------------------------------------------------------
(* Properties.                                                             *)

\* What the tables say, without a walk: there is a chain of tables from the
\* root, each linked by a valid pointer, to a valid and aligned leaf, and the
\* physical page lies in the leaf's block where the virtual page lies in its.
Slot(below, vp, l) ==
  memory[IF l = TopLevel THEN root ELSE below[l]][(vp \div Span(l)) % K]

Linked(below, vp, level) ==
  \A l \in level + 1 .. TopLevel :
    LET e == Slot(below, vp, l)
    IN  e.v /\ ~(e.r \/ e.w \/ e.x) /\ e.ppn = below[l - 1]

MapsBlock(e, level) ==
  /\ e.v /\ (e.r \/ e.x) /\ (e.w => e.r)
  /\ \E block \in Page : e.ppn = block * Span(level)

MappedAt(vp, level) ==
  {Slot(below, vp, level).ppn + (vp % Span(level)) :
     below \in {b \in [level .. TopLevel - 1 -> Page] :
                  Linked(b, vp, level) /\ MapsBlock(Slot(b, vp, level), level)}}

MappedTo(vp) == UNION {MappedAt(vp, l) : l \in Level}

\* VirtualToPhysical finds what the tables map, and faults exactly when they
\* map nothing, for superpages, misaligned leaves, pointers at level 0 and
\* tables that point back to themselves.
TranslatesAsMapped ==
  [][translations' > translations =>
       \A vp \in VirtualPage, write \in BOOLEAN :
         VirtualToPhysical(vp, write) =>
           IF Untranslated THEN ~page_fault' /\ result' = vp
           ELSE IF mode = "unsupported" \/ MappedTo(vp) = {}
           THEN page_fault' /\ faulting_address' = vp
           ELSE ~page_fault' /\ MappedTo(vp) = {result'}]_vars

\* The bits VirtualToPhysical writes back never change what is mapped, not
\* even when the leaf lies in a table that maps other pages.
TranslationKeepsMapping ==
  [][translations' > translations /\ memory' # memory =>
       \A vp \in VirtualPage : MappedTo(vp)' = MappedTo(vp)]_vars

\* An entry that served a write access is accessed and dirty until the guest
\* stores to it, whatever reads follow: pages to save are not forgotten.
DirtyIsKept ==
  \A e \in written : memory[e[1]][e[2]].a /\ memory[e[1]][e[2]].d

\* Until the guest rewrites them, the default tables map every page of the
\* range they cover to itself ("Physical address = virtual address.").
DefaultIsIdentity ==
  writes = 0 /\ root = Root =>
    \A vp \in 0 .. ValidEntries * Span(TopLevel) - 1 :
      MappedTo(vp) = {vp}
=============================================================================
