----------------------------- MODULE MmuProofs ------------------------------
(***************************************************************************)
(* Proofs for every number of entries and pages, both walks, and every     *)
(* sequence of table writes: translations find what the tables map, keep   *)
(* it, and keep the dirty bits.                                            *)
(***************************************************************************)
EXTENDS Mmu, TLAPS

-----------------------------------------------------------------------------
(* Types.                                                                  *)

TypeOK ==
  /\ installed \in Installations
  /\ memory \in [Page -> [Index -> Pte]]
  /\ root \in Page
  /\ mode \in {"bare", "paged", "unsupported"}
  /\ machine \in BOOLEAN
  /\ written \subseteq Page \X Index

LEMMA Constants ==
  /\ K \in Nat /\ K > 1
  /\ Pages \in Nat \ {0}
  /\ \A i \in Installations : i \in Installation /\ Laid(i)
BY TableAssumption

LEMMA LevelFacts ==
  ASSUME installed \in Installations
  PROVE  /\ Levels \in {2, 3} /\ TopLevel = Levels - 1 /\ Level = 0 .. TopLevel
         /\ Level \subseteq 0 .. 2 /\ TopLevel \in 1 .. 2
         /\ Root \in Page /\ Level0 \in Page /\ ValidEntries \in 1 .. K
<1>1. installed \in Installation
  BY Constants
<1>2. /\ Levels \in {2, 3} /\ Root \in Page /\ Level0 \in Page
      /\ ValidEntries \in 1 .. K
  BY <1>1 DEF Installation, Levels, Root, Level0, ValidEntries
<1>3. QED
  BY <1>2 DEF TopLevel, Level

LEMMA Spans ==
  /\ Span(0) = 1 /\ Span(1) = K /\ Span(2) = K * K
  /\ \A l \in 0 .. 2 : Span(l) \in Nat \ {0}
<1>1. Span(0) = 1 /\ Span(1) = K /\ Span(2) = K * K
  BY DEF Span
<1>2. K * K \in Nat \ {0}
  BY Constants
<1>3. QED
  BY <1>1, <1>2, Constants

\* The index of an entry.
LEMMA VpnIndex ==
  ASSUME NEW vp \in Nat, NEW l \in 0 .. 2
  PROVE  Vpn(vp, l) \in Index
<1>1. PICK s : s = Span(l)
  OBVIOUS
<1>2. s \in Nat \ {0}
  BY <1>1, Spans
<1>3. PICK q : q = vp \div s
  OBVIOUS
<1>4. q \in Nat
  BY <1>2, <1>3
<1>5. q % K \in 0 .. K - 1
  BY <1>4, Constants
<1>6. QED
  BY <1>1, <1>3, <1>5 DEF Vpn, Index

LEMMA EntryType ==
  ASSUME NEW mem \in [Page -> [Index -> Pte]], NEW page \in Page,
         NEW vp \in Nat, NEW l \in 0 .. 2
  PROVE  Entry(mem, page, vp, l) \in Pte /\ Entry(mem, page, vp, l).ppn \in Page
<1>1. Entry(mem, page, vp, l) \in Pte
  BY VpnIndex DEF Entry
<1>2. QED
  BY <1>1 DEF Pte

\* The tables of a walk.
LEMMA Tables ==
  ASSUME TypeOK, NEW vp \in Nat
  PROVE  /\ Table(memory, vp, TopLevel) = root
         /\ Table(memory, vp, TopLevel - 1) = At(memory, vp, TopLevel).ppn
         /\ Levels = 3 => Table(memory, vp, 0) = At(memory, vp, 1).ppn
         /\ \A l \in Level : /\ Table(memory, vp, l) \in Page
                             /\ At(memory, vp, l) \in Pte
<1>1. /\ Levels \in {2, 3} /\ TopLevel = Levels - 1 /\ Level = 0 .. TopLevel
      /\ root \in Page /\ memory \in [Page -> [Index -> Pte]]
  BY LevelFacts DEF TypeOK
<1>3. TopLevel - 1 # TopLevel /\ TopLevel - 2 # TopLevel /\ TopLevel - 2 # TopLevel - 1
  BY <1>1
<1>2. Table(memory, vp, TopLevel) = root
  BY <1>3, Zenon DEF Table
<1>4. Table(memory, vp, TopLevel - 1) = Entry(memory, root, vp, TopLevel).ppn
  BY <1>3, Zenon DEF Table
<1>5. At(memory, vp, TopLevel) = Entry(memory, root, vp, TopLevel)
  BY <1>2 DEF At
<1>6. Table(memory, vp, TopLevel - 2)
        = Entry(memory, Entry(memory, root, vp, TopLevel).ppn, vp, TopLevel - 1).ppn
  BY <1>3, Zenon DEF Table
<1>7. At(memory, vp, TopLevel - 1)
        = Entry(memory, Entry(memory, root, vp, TopLevel).ppn, vp, TopLevel - 1)
  BY <1>4 DEF At
<1>8. Table(memory, vp, TopLevel) \in Page /\ At(memory, vp, TopLevel) \in Pte
      /\ At(memory, vp, TopLevel).ppn \in Page
  BY <1>1, <1>2, <1>5, EntryType
<1>9. /\ Table(memory, vp, TopLevel - 1) \in Page /\ At(memory, vp, TopLevel - 1) \in Pte
      /\ At(memory, vp, TopLevel - 1).ppn \in Page
  BY <1>1, <1>4, <1>5, <1>7, <1>8, EntryType
<1>10. Levels = 3 => /\ Table(memory, vp, 0) = At(memory, vp, 1).ppn
                     /\ Table(memory, vp, 0) \in Page
                     /\ At(memory, vp, 0) \in Pte
  <2> SUFFICES ASSUME Levels = 3
               PROVE  /\ Table(memory, vp, 0) = At(memory, vp, 1).ppn
                      /\ Table(memory, vp, 0) \in Page
                      /\ At(memory, vp, 0) \in Pte
    OBVIOUS
  <2>1. TopLevel - 2 = 0 /\ TopLevel - 1 = 1
    BY <1>1
  <2>2. Table(memory, vp, 0) = At(memory, vp, 1).ppn /\ Table(memory, vp, 0) \in Page
    BY <1>6, <1>7, <1>9, <2>1
  <2>3. At(memory, vp, 0) = Entry(memory, Table(memory, vp, 0), vp, 0)
    BY DEF At
  <2>4. QED
    BY <1>1, <2>2, <2>3, EntryType
<1>11. ASSUME NEW l \in Level PROVE Table(memory, vp, l) \in Page /\ At(memory, vp, l) \in Pte
  <2>1. l = TopLevel \/ l = TopLevel - 1 \/ (Levels = 3 /\ l = 0)
    BY <1>1
  <2>2. QED
    BY <1>8, <1>9, <1>10, <2>1
<1>12. QED
  BY <1>2, <1>4, <1>5, <1>10, <1>11

-----------------------------------------------------------------------------
(* What a translation writes.                                              *)

\* A walk that finds a leaf finds it at one level.
LEMMA OneLeaf ==
  ASSUME installed \in Installations, NEW mem, NEW vp, NEW l \in Level, NEW k \in Level,
         Found(mem, vp, l), Found(mem, vp, k)
  PROVE  l = k
<1>1. l \in Nat /\ k \in Nat
  BY LevelFacts
<1>2. Ends(mem, vp, l) /\ Ends(mem, vp, k)
  BY DEF Found, Stops
<1>3. ~(k > l) /\ ~(l > k)
  BY <1>2 DEF Found, Stops
<1>4. QED
  BY <1>1, <1>3

LEMMA LeafFound ==
  ASSUME NEW mem, NEW vp, Mapped(mem, vp)
  PROVE  LeafLevel(mem, vp) \in Level /\ Found(mem, vp, LeafLevel(mem, vp))
BY DEF Mapped, LeafLevel

\* Tables that map the same: only the accessed and dirty bits differ, and no
\* bit is cleared.
Fields(e) == <<e.v, e.r, e.w, e.x, e.ppn>>
SameFields(m, n) == \A page \in Page, i \in Index : Fields(m[page][i]) = Fields(n[page][i])

\* The step of a translation: one entry is marked, or none.
LEMMA TouchedOne ==
  ASSUME TypeOK, NEW vp \in Nat, NEW write \in BOOLEAN, VirtualToPhysical(vp, write)
  PROVE  \/ memory' = memory /\ written' = written
         \/ \E page \in Page, i \in Index :
              /\ memory' = [memory EXCEPT ![page][i] = SetAccessed(@, write)]
              /\ written' = IF write THEN written \cup {<<page, i>>} ELSE written
<1>1. CASE Untranslated \/ Faults(memory, vp)
  BY <1>1 DEF VirtualToPhysical, Touched, Faults
<1>2. CASE ~(Untranslated \/ Faults(memory, vp))
  <2>1. PICK l : l = LeafLevel(memory, vp)
    OBVIOUS
  <2>2. l \in Level /\ Mapped(memory, vp)
    BY <1>2, <2>1, LeafFound DEF Faults
  <2>3. l \in 0 .. 2
    BY <2>2, LevelFacts DEF TypeOK
  <2>4. Table(memory, vp, l) \in Page /\ Vpn(vp, l) \in Index
    BY <2>2, <2>3, Tables, VpnIndex
  <2>5. memory' = [memory EXCEPT ![Table(memory, vp, l)][Vpn(vp, l)] =
                     SetAccessed(@, write)]
    BY <1>2, <2>1, Zenon DEF VirtualToPhysical, Touched
  <2>6. written' = IF write THEN written \cup {<<Table(memory, vp, l), Vpn(vp, l)>>}
                   ELSE written
    BY <1>2, <2>1, <2>2, Zenon DEF VirtualToPhysical
  <2>7. QED
    BY <2>4, <2>5, <2>6, Zenon
<1>3. QED
  BY <1>1, <1>2

LEMMA MarkedEntry ==
  ASSUME NEW e \in Pte, NEW write \in BOOLEAN
  PROVE  /\ SetAccessed(e, write) \in Pte
         /\ Fields(SetAccessed(e, write)) = Fields(e)
         /\ SetAccessed(e, write).a
         /\ SetAccessed(e, write).d <=> e.d \/ write
BY DEF SetAccessed, Pte, Fields

-----------------------------------------------------------------------------
(* The default tables.                                                     *)

LEMMA MakesPte ==
  ASSUME NEW page \in Page
  PROVE  Pointer(page) \in Pte /\ Leaf(page) \in Pte
BY DEF Pointer, Leaf, Pte

\* The number of tables of level 0.
LowTables == IF Levels = 3 THEN ValidEntries * K ELSE K

LEMMA Layout ==
  ASSUME installed \in Installations
  PROVE  /\ Levels \in {2, 3} /\ ValidEntries \in 1 .. K /\ LowTables \in Nat \ {0}
         /\ Root \in Nat /\ Level0 \in Nat /\ Level1 \in Nat
         /\ Levels = 2 => Level0 = Root + 1 /\ LowTables = K /\ ValidEntries = K
         /\ Levels = 3 => /\ Level1 = Root + 1 /\ Level0 = Level1 + ValidEntries
                          /\ LowTables = ValidEntries * K
         /\ Level0 + LowTables <= Pages
         /\ LowTables * K <= Pages
<1>1. installed \in Installation /\ Laid(installed)
  BY Constants
<1>2. /\ Levels \in {2, 3} /\ ValidEntries \in 1 .. K
      /\ Root \in Nat /\ Level0 \in Nat /\ Level1 \in Nat
  BY <1>1 DEF Installation, Levels, Root, Level0, Level1, ValidEntries, Page
<1>3. /\ Levels = 2 => ValidEntries = K /\ Level0 = Root + 1
      /\ Levels = 3 => Level1 = Root + 1 /\ Level0 = Level1 + ValidEntries
  BY <1>1 DEF Laid, Levels, Root, Level0, Level1, ValidEntries
<1>4. LowTables = IF Levels = 2 THEN ValidEntries ELSE ValidEntries * K
  BY <1>2, <1>3 DEF LowTables
<1>5. Level0 + LowTables <= Pages /\ LowTables * K <= Pages
  BY <1>1, <1>4 DEF Laid, Levels, Level0, ValidEntries
<1>6. LowTables \in Nat \ {0}
  BY <1>2, Constants DEF LowTables
<1>7. QED
  BY <1>2, <1>3, <1>5, <1>6 DEF LowTables

\* Pages behind a table of each kind.
LEMMA Digits ==
  ASSUME NEW a \in Nat, NEW n \in Nat, a < n, NEW i \in Index
  PROVE  a * K + i \in Nat /\ a * K + i < n * K
<1>1. i \in Nat /\ i < K
  BY Constants DEF Index
<1>2. a * K + K <= n * K
  BY Constants
<1>3. a * K \in Nat /\ n * K \in Nat
  BY Constants
<1>4. QED
  BY <1>1, <1>2, <1>3, Constants

\* What SetDefaultMmuTable32 and SetDefaultMmuTable64 write.
LEMMA RootEntry ==
  ASSUME installed \in Installations, NEW i \in Index
  PROVE  /\ Levels = 2 => DefaultEntry(Root, i) = Pointer(Level0 + i)
         /\ Levels = 3 => DefaultEntry(Root, i) =
                            IF i < ValidEntries THEN Pointer(Level1 + i) ELSE Pointer(0)
<1>1. /\ Levels \in {2, 3}
      /\ ~(Levels = 3 /\ Root \in Level1 .. Level1 + ValidEntries - 1)
      /\ ~(Root - Level0 \in 0 .. LowTables - 1)
  BY Layout
<1>2. CASE Levels = 2
  <2>1. Levels # 3
    BY <1>2
  <2>2. ~(Root - Level0 \in 0 .. (IF Levels = 3 THEN ValidEntries * K ELSE K) - 1)
    BY <1>1 DEF LowTables
  <2>3. QED
    BY <1>1, <1>2, <2>1, <2>2, Zenon DEF DefaultEntry
<1>3. CASE Levels = 3
  <2>1. Levels # 2
    BY <1>3
  <2>2. ~(Root - Level0 \in 0 .. (IF Levels = 3 THEN ValidEntries * K ELSE K) - 1)
    BY <1>1 DEF LowTables
  <2>3. QED
    BY <1>1, <1>3, <2>1, <2>2, Zenon DEF DefaultEntry
<1>4. QED
  BY <1>1, <1>2, <1>3

LEMMA MiddleEntry ==
  ASSUME installed \in Installations, Levels = 3, NEW i \in Index,
         NEW page \in Level1 .. Level1 + ValidEntries - 1
  PROVE  DefaultEntry(page, i) = Pointer(Level0 + (page - Level1) * K + i)
<1>1. page # Root /\ ~(page - Level0 \in 0 .. LowTables - 1)
  BY Layout
<1>2. ~(page - Level0 \in 0 .. (IF Levels = 3 THEN ValidEntries * K ELSE K) - 1)
  BY <1>1 DEF LowTables
<1>3. QED
  BY <1>1, <1>2, Zenon DEF DefaultEntry

LEMMA LowEntry ==
  ASSUME installed \in Installations, NEW i \in Index, NEW page \in Nat,
         page - Level0 \in 0 .. LowTables - 1
  PROVE  DefaultEntry(page, i) = Leaf((page - Level0) * K + i)
<1>1. page # Root /\ ~(Levels = 3 /\ page \in Level1 .. Level1 + ValidEntries - 1)
  BY Layout
<1>2. page - Level0 \in 0 .. (IF Levels = 3 THEN ValidEntries * K ELSE K) - 1
  BY <1>1 DEF LowTables
<1>3. QED
  BY <1>1, <1>2, Zenon DEF DefaultEntry

LEMMA OtherEntry ==
  ASSUME installed \in Installations, NEW i \in Index, NEW page,
         page # Root, ~(Levels = 3 /\ page \in Level1 .. Level1 + ValidEntries - 1),
         ~(page - Level0 \in 0 .. LowTables - 1)
  PROVE  DefaultEntry(page, i) = ZeroPte
<1>1. ~(page - Level0 \in 0 .. (IF Levels = 3 THEN ValidEntries * K ELSE K) - 1)
  BY DEF LowTables
<1>2. QED
  BY <1>1, Zenon DEF DefaultEntry

LEMMA DefaultType ==
  ASSUME installed \in Installations
  PROVE  DefaultTable \in [Page -> [Index -> Pte]]
<1> SUFFICES ASSUME NEW page \in Page, NEW i \in Index
             PROVE  DefaultEntry(page, i) \in Pte
  BY DEF DefaultTable
<1>1. page \in Nat /\ i \in Nat /\ i < K /\ Pages \in Nat \ {0} /\ K \in Nat /\ K > 1
  BY Constants DEF Page, Index
<1>2. 0 \in Page
  BY <1>1 DEF Page
<1>3. CASE page = Root
  <2>1. CASE Levels = 2
    <3>1. Level0 + i \in Page
      BY <1>1, <2>1, Layout DEF Page
    <3>2. QED
      BY <1>3, <2>1, <3>1, RootEntry, MakesPte
  <2>2. CASE Levels = 3
    <3>1. i < ValidEntries => Level1 + i \in Page
      BY <1>1, <2>2, Layout DEF Page
    <3>2. QED
      BY <1>2, <1>3, <2>2, <3>1, RootEntry, MakesPte
  <2>3. QED
    BY <2>1, <2>2, Layout
<1>4. CASE Levels = 3 /\ page \in Level1 .. Level1 + ValidEntries - 1
  <2>1. PICK a : a = page - Level1
    OBVIOUS
  <2>2. a \in Nat /\ ValidEntries \in Nat /\ a < ValidEntries
    BY <1>1, <1>4, <2>1, Layout
  <2>3. a * K + i \in Nat /\ a * K + i < ValidEntries * K
    BY <2>2, Digits
  <2>4. PICK x, n : x = a * K /\ n = ValidEntries * K
    OBVIOUS
  <2>5. x \in Nat /\ n \in Nat /\ x + i < n /\ Level0 \in Nat /\ Level0 + n <= Pages
    BY <1>1, <1>4, <2>2, <2>3, <2>4, Layout
  <2>6. Level0 + x + i \in Page
    BY <1>1, <2>5 DEF Page
  <2>7. DefaultEntry(page, i) = Pointer(Level0 + x + i)
    BY <1>4, <2>1, <2>4, MiddleEntry
  <2>8. QED
    BY <2>6, <2>7, MakesPte
<1>5. CASE page - Level0 \in 0 .. LowTables - 1
  <2>1. PICK a : a = page - Level0
    OBVIOUS
  <2>2. a \in Nat /\ LowTables \in Nat /\ a < LowTables /\ LowTables * K <= Pages
    BY <1>1, <1>5, <2>1, Layout
  <2>3. a * K + i \in Nat /\ a * K + i < LowTables * K
    BY <2>2, Digits
  <2>4. PICK x, n : x = a * K + i /\ n = LowTables * K
    OBVIOUS
  <2>5. n \in Nat
    BY <1>1, <2>2, <2>4
  <2>6. x \in Page
    BY <1>1, <2>2, <2>3, <2>4, <2>5 DEF Page
  <2>7. DefaultEntry(page, i) = Leaf(x)
    BY <1>1, <1>5, <2>1, <2>4, LowEntry
  <2>8. QED
    BY <2>6, <2>7, MakesPte
<1>6. CASE ~(page = Root \/ (Levels = 3 /\ page \in Level1 .. Level1 + ValidEntries - 1)
             \/ page - Level0 \in 0 .. LowTables - 1)
  <2>1. DefaultEntry(page, i) = ZeroPte
    BY <1>6, OtherEntry
  <2>2. ZeroPte \in Pte
    BY <1>2 DEF ZeroPte, Pointer, Pte
  <2>3. QED
    BY <2>1, <2>2
<1>7. QED
  BY <1>3, <1>4, <1>5, <1>6

-----------------------------------------------------------------------------
(* The invariant.                                                          *)

\* Until the guest writes an entry, the tables are the default ones but for
\* the bits that translations set.
Unwritten == writes = 0 => SameFields(memory, DefaultTable)

IInv == TypeOK /\ writes \in Nat /\ translations \in Nat /\ DirtyIsKept /\ Unwritten

LEMMA InitInv == ASSUME Init PROVE IInv
<1>1. installed \in Installations
  BY DEF Init
<1>2. TypeOK
  BY <1>1, DefaultType, LevelFacts DEF Init, TypeOK
<1>3. DirtyIsKept
  BY DEF Init, DirtyIsKept
<1>4. writes \in Nat /\ translations \in Nat /\ Unwritten
  BY DEF Init, Unwritten, SameFields
<1>5. QED
  BY <1>2, <1>3, <1>4 DEF IInv

\* Marking an entry keeps the dirty bits and what is mapped.
LEMMA MarkKeeps ==
  ASSUME IInv, NEW page \in Page, NEW i \in Index, NEW write \in BOOLEAN,
         NEW new, new = [memory EXCEPT ![page][i] = SetAccessed(@, write)]
  PROVE  /\ new \in [Page -> [Index -> Pte]]
         /\ SameFields(new, memory)
         /\ \A e \in written : new[e[1]][e[2]].a /\ new[e[1]][e[2]].d
         /\ write => new[page][i].a /\ new[page][i].d
<1>1. memory \in [Page -> [Index -> Pte]] /\ written \subseteq Page \X Index
  BY DEF IInv, TypeOK
<1>2. memory[page][i] \in Pte
  BY <1>1
<1>3. PICK s : s = SetAccessed(memory[page][i], write)
  OBVIOUS
<1>4. s \in Pte /\ Fields(s) = Fields(memory[page][i]) /\ s.a /\ (s.d <=> memory[page][i].d \/ write)
  BY <1>2, <1>3, MarkedEntry
<1>5. new = [memory EXCEPT ![page][i] = s]
  BY <1>3
<1>6. new \in [Page -> [Index -> Pte]]
  BY <1>1, <1>4, <1>5
<1>7. \A p \in Page, k \in Index :
        new[p][k] = IF p = page /\ k = i THEN s ELSE memory[p][k]
  BY <1>1, <1>5
<1>8. SameFields(new, memory)
  BY <1>4, <1>7 DEF SameFields
<1>9. ASSUME NEW e \in written PROVE new[e[1]][e[2]].a /\ new[e[1]][e[2]].d
  <2>1. e[1] \in Page /\ e[2] \in Index
    BY <1>1
  <2>2. memory[e[1]][e[2]].a /\ memory[e[1]][e[2]].d
    BY DEF IInv, DirtyIsKept
  <2>3. QED
    BY <1>4, <1>7, <2>1, <2>2
<1>10. write => new[page][i].a /\ new[page][i].d
  BY <1>4, <1>7
<1>11. QED
  BY <1>6, <1>8, <1>9, <1>10

LEMMA TranslateInv ==
  ASSUME IInv, NEW vp \in Nat, NEW write \in BOOLEAN, VirtualToPhysical(vp, write),
         installed' = installed
  PROVE  IInv' /\ SameFields(memory', memory)
<1>1. TypeOK /\ writes \in Nat /\ translations \in Nat /\ DirtyIsKept /\ Unwritten
  BY DEF IInv
<1>2. root' = root /\ mode' = mode /\ machine' = machine /\ writes' = writes
      /\ translations' = translations + 1
  BY DEF VirtualToPhysical
<1>3. DefaultTable' = DefaultTable
  BY DEF DefaultTable, DefaultEntry, Levels, Root, Level0, Level1, ValidEntries
<1>4. CASE memory' = memory /\ written' = written
  BY <1>1, <1>2, <1>3, <1>4
  DEF IInv, TypeOK, DirtyIsKept, Unwritten, SameFields
<1>5. ASSUME NEW page \in Page, NEW i \in Index,
             memory' = [memory EXCEPT ![page][i] = SetAccessed(@, write)],
             written' = IF write THEN written \cup {<<page, i>>} ELSE written
      PROVE  IInv' /\ SameFields(memory', memory)
  <2>1. /\ memory' \in [Page -> [Index -> Pte]]
        /\ SameFields(memory', memory)
        /\ \A e \in written : memory'[e[1]][e[2]].a /\ memory'[e[1]][e[2]].d
        /\ write => memory'[page][i].a /\ memory'[page][i].d
    BY <1>5, MarkKeeps
  <2>2. TypeOK'
    <3>1. written' \subseteq Page \X Index
      BY <1>1, <1>5 DEF TypeOK
    <3>2. QED
      BY <1>1, <1>2, <2>1, <3>1 DEF TypeOK
  <2>3. DirtyIsKept'
    BY <1>5, <2>1 DEF DirtyIsKept
  <2>4. Unwritten'
    BY <1>1, <1>2, <1>3, <2>1 DEF Unwritten, SameFields
  <2>5. QED
    BY <1>1, <1>2, <2>1, <2>2, <2>3, <2>4 DEF IInv
<1>6. QED
  BY <1>1, <1>4, <1>5, TouchedOne

LEMMA VirtualPages ==
  ASSUME installed \in Installations
  PROVE  VirtualPage \subseteq Nat
BY DEF VirtualPage

LEMMA NextInv == ASSUME IInv, [Next]_vars PROVE IInv'
<1>1. TypeOK /\ writes \in Nat /\ translations \in Nat /\ DirtyIsKept /\ Unwritten
  BY DEF IInv
<1>2. ASSUME NEW vp \in VirtualPage, NEW write \in BOOLEAN, VirtualToPhysical(vp, write),
             installed' = installed
      PROVE  IInv'
  BY <1>1, <1>2, TranslateInv, VirtualPages DEF TypeOK
<1>3. ASSUME NEW p \in installed.ptes, WritePte(p), installed' = installed
      PROVE  IInv'
  <2>1. p.page \in Page /\ p.index \in Index /\ p.pte \in Pte
    BY <1>1, Constants DEF TypeOK, Installation
  <2>2. /\ memory' = [memory EXCEPT ![p.page][p.index] = p.pte]
        /\ written' = written \ {<<p.page, p.index>>}
        /\ writes' = writes + 1 /\ translations' = 0
        /\ root' = root /\ mode' = mode /\ machine' = machine
    BY <1>3 DEF WritePte
  <2>3. TypeOK'
    BY <1>1, <1>3, <2>1, <2>2 DEF TypeOK
  <2>4. ASSUME NEW e \in written'
        PROVE  memory'[e[1]][e[2]].a /\ memory'[e[1]][e[2]].d
    <3>1. e \in written /\ e \in Page \X Index /\ e # <<p.page, p.index>>
      BY <1>1, <2>2, <2>4 DEF TypeOK
    <3>2. e[1] \in Page /\ e[2] \in Index /\ ~(e[1] = p.page /\ e[2] = p.index)
      BY <3>1
    <3>3. memory'[e[1]][e[2]] = memory[e[1]][e[2]]
      BY <1>1, <2>1, <2>2, <3>2 DEF TypeOK
    <3>4. QED
      BY <1>1, <3>1, <3>3 DEF DirtyIsKept
  <2>5. writes' \in Nat /\ translations' \in Nat /\ Unwritten'
    BY <1>1, <2>2 DEF Unwritten
  <2>6. QED
    BY <2>3, <2>4, <2>5 DEF IInv, DirtyIsKept
<1>4. ASSUME UNCHANGED <<memory, written, writes, translations, installed>>,
             root' \in Page, mode' \in {"bare", "paged", "unsupported"},
             machine' \in BOOLEAN
      PROVE  IInv'
  <2>1. DefaultTable' = DefaultTable
    BY <1>4 DEF DefaultTable, DefaultEntry, Levels, Root, Level0, Level1, ValidEntries
  <2>2. QED
    BY <1>1, <1>4, <2>1 DEF IInv, TypeOK, DirtyIsKept, Unwritten, SameFields
<1>5. ASSUME NEW page \in {Root, Level0}, WriteSatp("paged", page), installed' = installed
      PROVE  IInv'
  <2>1. page \in Page
    BY <1>1, LevelFacts DEF TypeOK
  <2>2. QED
    BY <1>1, <1>4, <1>5, <2>1 DEF TypeOK, WriteSatp
<1>6. ASSUME NEW m \in {"bare", "unsupported"}, WriteSatp(m, Root), installed' = installed
      PROVE  IInv'
  <2>1. Root \in Page
    BY <1>1, LevelFacts DEF TypeOK
  <2>2. QED
    BY <1>1, <1>4, <1>6, <2>1 DEF TypeOK, WriteSatp
<1>7. ASSUME SetPrivilege(~machine), installed' = installed
      PROVE  IInv'
  BY <1>1, <1>4, <1>7 DEF TypeOK, SetPrivilege
<1>8. CASE UNCHANGED vars
  BY <1>1, <1>4, <1>8 DEF TypeOK, vars
<1>9. QED
  BY <1>2, <1>3, <1>5, <1>6, <1>7, <1>8 DEF Next, Step

LEMMA Invariant == Spec => []IInv
<1>1. Init => IInv
  BY InitInv
<1>2. IInv /\ [Next]_vars => IInv'
  BY NextInv
<1>3. QED
  BY <1>1, <1>2, PTL DEF Spec

\* VirtualToPhysical never clears the accessed or the dirty bit of an entry,
\* so a page that was written is known until the guest clears it.
THEOREM DirtyIsKeptHolds == Spec => []DirtyIsKept
BY Invariant, PTL DEF IInv

-----------------------------------------------------------------------------
(* What is mapped.                                                         *)

\* The entries a chain of tables passes are those of memory.
LEMMA SlotType ==
  ASSUME TypeOK, NEW vp \in Nat, NEW level \in Level,
         NEW below \in [level .. TopLevel - 1 -> Page], NEW l \in level .. TopLevel
  PROVE  /\ Vpn(vp, l) \in Index
         /\ l = TopLevel => Slot(below, vp, l) = memory[root][Vpn(vp, l)]
         /\ l # TopLevel => /\ below[l] \in Page
                            /\ Slot(below, vp, l) = memory[below[l]][Vpn(vp, l)]
<1>1. level \in 0 .. TopLevel /\ TopLevel \in 1 .. 2 /\ l \in 0 .. 2 /\ root \in Page
  BY LevelFacts DEF TypeOK
<1>2. l # TopLevel => below[l] \in Page
  BY <1>1
<1>3. Vpn(vp, l) \in Index
  BY <1>1, VpnIndex
<1>4. QED
  BY <1>2, <1>3, Zenon DEF Slot, Vpn

\* Tables that agree but for the accessed and dirty bits map the same.
LEMMA SameMapping ==
  ASSUME TypeOK, SameFields(memory', memory), root' = root, installed' = installed,
         NEW vp \in Nat
  PROVE  MappedTo(vp)' = MappedTo(vp)
<1>1. TopLevel' = TopLevel /\ Level' = Level
  BY DEF TopLevel, Level, Levels
<1>2. ASSUME NEW level \in Level PROVE MappedAt(vp, level)' = MappedAt(vp, level)
  <2>1. ASSUME NEW b \in [level .. TopLevel - 1 -> Page], NEW l \in level .. TopLevel
        PROVE  Fields(Slot(b, vp, l)') = Fields(Slot(b, vp, l))
    <3>1. /\ Vpn(vp, l) \in Index
          /\ l = TopLevel => Slot(b, vp, l) = memory[root][Vpn(vp, l)]
          /\ l # TopLevel => /\ b[l] \in Page
                             /\ Slot(b, vp, l) = memory[b[l]][Vpn(vp, l)]
      BY SlotType
    <3>2. PICK page, i : page = (IF l = TopLevel THEN root ELSE b[l]) /\ i = Vpn(vp, l)
      OBVIOUS
    <3>3. page \in Page /\ i \in Index /\ Slot(b, vp, l) = memory[page][i]
      BY <3>1, <3>2 DEF TypeOK
    <3>4. Slot(b, vp, l)' = memory'[page][i]
      BY <1>1, <3>2, Zenon DEF Slot, Vpn
    <3>5. QED
      BY <3>3, <3>4 DEF SameFields
  <2>2. level \in 0 .. TopLevel /\ TopLevel \in 1 .. 2
    BY LevelFacts DEF TypeOK
  <2>3. ASSUME NEW b \in [level .. TopLevel - 1 -> Page]
        PROVE  /\ Linked(b, vp, level)' <=> Linked(b, vp, level)
               /\ MapsBlock(Slot(b, vp, level), level)'
                    <=> MapsBlock(Slot(b, vp, level), level)
               /\ Slot(b, vp, level)'.ppn = Slot(b, vp, level).ppn
    <3>1. \A l \in level .. TopLevel :
            /\ Slot(b, vp, l)'.v = Slot(b, vp, l).v /\ Slot(b, vp, l)'.r = Slot(b, vp, l).r
            /\ Slot(b, vp, l)'.w = Slot(b, vp, l).w /\ Slot(b, vp, l)'.x = Slot(b, vp, l).x
            /\ Slot(b, vp, l)'.ppn = Slot(b, vp, l).ppn
      BY <2>1 DEF Fields
    <3>2. level \in level .. TopLevel /\ (level + 1 .. TopLevel) \subseteq level .. TopLevel
      BY <2>2
    <3>3. Linked(b, vp, level)' <=> Linked(b, vp, level)
      BY <1>1, <3>1, <3>2, Zenon DEF Linked
    <3>4. MapsBlock(Slot(b, vp, level), level)' <=> MapsBlock(Slot(b, vp, level), level)
      BY <3>1, <3>2, Zenon DEF MapsBlock
    <3>5. QED
      BY <3>1, <3>2, <3>3, <3>4
  <2>4. QED
    BY <1>1, <2>3, Zenon DEF MappedAt
<1>3. QED
  BY <1>1, <1>2, Zenon DEF MappedTo

\* The accessed and dirty bits that VirtualToPhysical writes back never
\* change what any page is mapped to, shared and self-mapping tables included.
THEOREM TranslationKeepsMappingHolds == Spec => TranslationKeepsMapping
<1>1. IInv /\ [Next]_vars =>
        [translations' > translations /\ memory' # memory =>
           \A vp \in VirtualPage : MappedTo(vp)' = MappedTo(vp)]_vars
  <2> SUFFICES ASSUME IInv, Next, translations' > translations, memory' # memory,
                      NEW vp \in VirtualPage
               PROVE  MappedTo(vp)' = MappedTo(vp)
    OBVIOUS
  <2>1. TypeOK /\ installed' = installed /\ installed \in Installations /\ vp \in Nat
    BY VirtualPages DEF IInv, Next, TypeOK
  <2>2. ASSUME NEW vq \in VirtualPage, NEW write \in BOOLEAN, VirtualToPhysical(vq, write)
        PROVE  MappedTo(vp)' = MappedTo(vp)
    <3>1. SameFields(memory', memory) /\ root' = root
      BY <2>1, <2>2, TranslateInv, VirtualPages DEF VirtualToPhysical
    <3>2. QED
      BY <2>1, <3>1, SameMapping
  <2>3. ~(\E p \in installed.ptes : WritePte(p))
    <3>1. translations \in Nat /\ ~(0 > translations)
      BY DEF IInv
    <3>2. QED
      BY <3>1 DEF WritePte
  <2>4. QED
    BY <2>2, <2>3 DEF Next, Step, WriteSatp, SetPrivilege
<1>2. QED
  BY <1>1, Invariant, PTL DEF Spec, TranslationKeepsMapping

-----------------------------------------------------------------------------
(* The walk and the chain of tables.                                       *)

LEMMA NextTable ==
  ASSUME TypeOK, NEW vp \in Nat, NEW l \in Level, l # TopLevel
  PROVE  l + 1 \in Level /\ Table(memory, vp, l) = At(memory, vp, l + 1).ppn
<1>1. /\ Levels \in {2, 3} /\ TopLevel = Levels - 1 /\ Level = 0 .. TopLevel
  BY LevelFacts DEF TypeOK
<1>2. l = TopLevel - 1 \/ (Levels = 3 /\ l = 0)
  BY <1>1
<1>3. CASE l = TopLevel - 1
  <2>1. l + 1 = TopLevel /\ TopLevel \in Level
    BY <1>1, <1>3
  <2>2. QED
    BY <1>3, <2>1, Tables
<1>4. CASE Levels = 3 /\ l = 0
  <2>1. l + 1 = 1 /\ 1 \in Level
    BY <1>1, <1>4
  <2>2. QED
    BY <1>4, <2>1, Tables
<1>5. QED
  BY <1>2, <1>3, <1>4

\* A chain of tables is the one the walk takes.
LEMMA ChainIsWalk ==
  ASSUME TypeOK, NEW vp \in Nat, NEW level \in Level,
         NEW b \in [level .. TopLevel - 1 -> Page], Linked(b, vp, level)
  PROVE  \A l \in level .. TopLevel : Slot(b, vp, l) = At(memory, vp, l)
<1>1. /\ Levels \in {2, 3} /\ TopLevel = Levels - 1 /\ Level = 0 .. TopLevel
  BY LevelFacts DEF TypeOK
<1>2. Slot(b, vp, TopLevel) = At(memory, vp, TopLevel)
  BY Tables, Zenon DEF Slot, At, Entry, Vpn
<1>3. ASSUME NEW l \in level .. TopLevel, l # TopLevel,
             Slot(b, vp, l + 1) = At(memory, vp, l + 1)
      PROVE  Slot(b, vp, l) = At(memory, vp, l)
  <2>1. l \in Level /\ l + 1 \in level + 1 .. TopLevel /\ (l + 1) - 1 = l
    BY <1>1, <1>3
  <2>2. Slot(b, vp, l + 1).ppn = b[l]
    BY <2>1 DEF Linked
  <2>3. b[l] = Table(memory, vp, l)
    BY <1>3, <2>1, <2>2, NextTable
  <2>4. QED
    BY <1>3, <2>3, Zenon DEF Slot, At, Entry, Vpn
<1>4. level <= TopLevel - 1 => Slot(b, vp, TopLevel - 1) = At(memory, vp, TopLevel - 1)
  <2> SUFFICES ASSUME level <= TopLevel - 1
               PROVE  Slot(b, vp, TopLevel - 1) = At(memory, vp, TopLevel - 1)
    OBVIOUS
  <2>1. /\ TopLevel - 1 \in level .. TopLevel /\ TopLevel - 1 # TopLevel
        /\ (TopLevel - 1) + 1 = TopLevel
    BY <1>1
  <2>2. QED
    BY <1>2, <1>3, <2>1
<1>5. level <= TopLevel - 2 => Slot(b, vp, TopLevel - 2) = At(memory, vp, TopLevel - 2)
  <2> SUFFICES ASSUME level <= TopLevel - 2
               PROVE  Slot(b, vp, TopLevel - 2) = At(memory, vp, TopLevel - 2)
    OBVIOUS
  <2>1. /\ TopLevel - 2 \in level .. TopLevel /\ TopLevel - 2 # TopLevel
        /\ (TopLevel - 2) + 1 = TopLevel - 1 /\ level <= TopLevel - 1
    BY <1>1
  <2>2. QED
    BY <1>3, <1>4, <2>1
<1>6. ASSUME NEW l \in level .. TopLevel PROVE Slot(b, vp, l) = At(memory, vp, l)
  <2>1. \/ l = TopLevel
        \/ l = TopLevel - 1 /\ level <= TopLevel - 1
        \/ l = TopLevel - 2 /\ level <= TopLevel - 2
    BY <1>1
  <2>2. QED
    BY <1>2, <1>4, <1>5, <2>1
<1>7. QED
  BY <1>6

\* An entry the walk passes is a valid pointer.
LEMMA Passes ==
  ASSUME NEW e \in Pte
  PROVE  ~(~IsValid(e) \/ IsLeaf(e)) <=> e.v /\ ~(e.r \/ e.w \/ e.x)
BY Zenon DEF IsValid, IsLeaf

\* An entry that maps a block is a valid, aligned leaf.
LEMMA Blocks ==
  ASSUME NEW e \in Pte, NEW l \in 0 .. 2, NEW vp \in Nat
  PROVE  /\ MapsBlock(e, l) <=> IsValid(e) /\ IsLeaf(e) /\ Aligned(e, l)
         /\ Aligned(e, l) => e.ppn + (vp % Span(l)) = Frame(e, vp, l)
<1>1. PICK s, n : s = Span(l) /\ n = e.ppn
  OBVIOUS
<1>2. s \in Nat \ {0} /\ n \in Nat /\ n < Pages /\ Pages \in Nat
  BY <1>1, Spans, Constants DEF Pte, Page
<1>3. e.v /\ (e.r \/ e.x) /\ (e.w => e.r) <=> IsValid(e) /\ IsLeaf(e)
  BY Zenon DEF IsValid, IsLeaf
<1>4. (\E block \in Page : n = block * s) <=> n % s = 0
  <2>1. ASSUME NEW block \in Page, n = block * s PROVE n % s = 0
    <3>1. block \in Nat
      BY <1>2 DEF Page
    <3>2. QED
      BY <1>2, <2>1, <3>1
  <2>2. ASSUME n % s = 0 PROVE \E block \in Page : n = block * s
    <3>1. PICK block : block = n \div s
      OBVIOUS
    <3>2. block \in Nat /\ n = block * s
      BY <1>2, <2>2, <3>1
    <3>3. block <= n
      BY <1>2, <3>2
    <3>4. block \in Page
      BY <1>2, <3>2, <3>3 DEF Page
    <3>5. QED
      BY <3>2, <3>4
  <2>3. QED
    BY <2>1, <2>2
<1>5. Aligned(e, l) <=> n % s = 0
  BY <1>1 DEF Aligned
<1>6. MapsBlock(e, l) <=> IsValid(e) /\ IsLeaf(e) /\ Aligned(e, l)
  BY <1>1, <1>3, <1>4, <1>5, Zenon DEF MapsBlock
<1>7. n % s = 0 => n = s * (n \div s)
  BY <1>2
<1>8. QED
  BY <1>1, <1>5, <1>6, <1>7 DEF Frame

LEMMA FoundParts ==
  ASSUME NEW mem, NEW vp, NEW level
  PROVE  Found(mem, vp, level) <=>
           /\ \A k \in Level : k > level => ~Ends(mem, vp, k)
           /\ IsValid(At(mem, vp, level)) /\ IsLeaf(At(mem, vp, level))
           /\ Aligned(At(mem, vp, level), level)
BY Zenon DEF Found, Stops, Ends

\* At each level the tables map what the walk finds there, or nothing.
LEMMA MappedAtLevel ==
  ASSUME TypeOK, NEW vp \in Nat, NEW level \in Level
  PROVE  MappedAt(vp, level) = IF Found(memory, vp, level)
                               THEN {Frame(At(memory, vp, level), vp, level)} ELSE {}
<1>1. /\ TopLevel \in 1 .. 2 /\ Level = 0 .. TopLevel /\ level \in 0 .. 2
      /\ level \in level .. TopLevel
  BY LevelFacts DEF TypeOK
<1>2. \A l \in Level : At(memory, vp, l) \in Pte /\ Table(memory, vp, l) \in Page
  BY Tables
<1>3. ASSUME NEW b \in [level .. TopLevel - 1 -> Page], Linked(b, vp, level),
             MapsBlock(Slot(b, vp, level), level)
      PROVE  /\ Found(memory, vp, level)
             /\ Slot(b, vp, level).ppn + (vp % Span(level))
                  = Frame(At(memory, vp, level), vp, level)
  <2>1. \A l \in level .. TopLevel : Slot(b, vp, l) = At(memory, vp, l)
    BY <1>3, ChainIsWalk
  <2>2. ASSUME NEW k \in Level, k > level PROVE ~Ends(memory, vp, k)
    <3>1. k \in level + 1 .. TopLevel /\ k \in level .. TopLevel
      BY <1>1, <2>2
    <3>2. Slot(b, vp, k).v /\ ~(Slot(b, vp, k).r \/ Slot(b, vp, k).w \/ Slot(b, vp, k).x)
      BY <1>3, <3>1 DEF Linked
    <3>3. QED
      BY <1>2, <2>1, <3>1, <3>2, Passes DEF Ends
  <2>3. Slot(b, vp, level) = At(memory, vp, level) /\ At(memory, vp, level) \in Pte
    BY <1>1, <1>2, <2>1
  <2>4. /\ IsValid(At(memory, vp, level)) /\ IsLeaf(At(memory, vp, level))
        /\ Aligned(At(memory, vp, level), level)
    BY <1>1, <1>3, <2>3, Blocks
  <2>5. At(memory, vp, level).ppn + (vp % Span(level))
          = Frame(At(memory, vp, level), vp, level)
    BY <1>1, <2>3, <2>4, Blocks
  <2>6. QED
    BY <2>2, <2>3, <2>4, <2>5, FoundParts
<1>4. ASSUME Found(memory, vp, level)
      PROVE  \E b \in [level .. TopLevel - 1 -> Page] :
               /\ Linked(b, vp, level) /\ MapsBlock(Slot(b, vp, level), level)
               /\ Slot(b, vp, level) = At(memory, vp, level)
  <2>1. PICK b : b = [k \in level .. TopLevel - 1 |-> Table(memory, vp, k)]
    OBVIOUS
  <2>2. b \in [level .. TopLevel - 1 -> Page]
    BY <1>1, <1>2, <2>1
  <2>3. ASSUME NEW l \in level .. TopLevel PROVE Slot(b, vp, l) = At(memory, vp, l)
    <3>1. (IF l = TopLevel THEN root ELSE b[l]) = Table(memory, vp, l)
      BY <1>1, <2>1, Tables
    <3>2. QED
      BY <3>1, Zenon DEF Slot, At, Entry, Vpn
  <2>4. ASSUME NEW l \in level + 1 .. TopLevel
        PROVE  /\ Slot(b, vp, l).v
               /\ ~(Slot(b, vp, l).r \/ Slot(b, vp, l).w \/ Slot(b, vp, l).x)
               /\ Slot(b, vp, l).ppn = b[l - 1]
    <3>1. /\ l \in Level /\ l \in level .. TopLevel /\ l > level
          /\ l - 1 \in Level /\ l - 1 # TopLevel /\ (l - 1) + 1 = l
          /\ l - 1 \in level .. TopLevel - 1
      BY <1>1
    <3>2. ~Ends(memory, vp, l)
      BY <1>4, <3>1, FoundParts
    <3>3. /\ At(memory, vp, l).v
          /\ ~(At(memory, vp, l).r \/ At(memory, vp, l).w \/ At(memory, vp, l).x)
      BY <1>2, <3>1, <3>2, Passes DEF Ends
    <3>4. Table(memory, vp, l - 1) = At(memory, vp, l).ppn
      BY <3>1, NextTable
    <3>5. b[l - 1] = Table(memory, vp, l - 1)
      BY <2>1, <3>1
    <3>6. QED
      BY <2>3, <3>1, <3>3, <3>4, <3>5
  <2>5. Linked(b, vp, level)
    BY <2>4, Zenon DEF Linked
  <2>6. MapsBlock(At(memory, vp, level), level)
    BY <1>1, <1>2, <1>4, FoundParts, Blocks
  <2>7. Slot(b, vp, level) = At(memory, vp, level)
    BY <1>1, <2>3
  <2>8. QED
    BY <2>2, <2>5, <2>6, <2>7
<1>5. CASE ~Found(memory, vp, level)
  BY <1>3, <1>5 DEF MappedAt
<1>6. CASE Found(memory, vp, level)
  <2>1. PICK f : f = Frame(At(memory, vp, level), vp, level)
    OBVIOUS
  <2>2. \A x \in MappedAt(vp, level) : x = f
    BY <1>3, <2>1 DEF MappedAt
  <2>3. PICK b \in [level .. TopLevel - 1 -> Page] :
          /\ Linked(b, vp, level) /\ MapsBlock(Slot(b, vp, level), level)
    BY <1>4, <1>6
  <2>4. f = Slot(b, vp, level).ppn + (vp % Span(level))
    BY <1>3, <2>1, <2>3
  <2>5. f \in MappedAt(vp, level)
    BY <2>3, <2>4 DEF MappedAt
  <2>6. QED
    BY <1>6, <2>1, <2>2, <2>5
<1>7. QED
  BY <1>5, <1>6

\* The tables map a page where the walk finds it, and nowhere else.
LEMMA MappedToFound ==
  ASSUME TypeOK, NEW vp \in Nat
  PROVE  /\ \A l \in Level : Found(memory, vp, l) =>
              MappedTo(vp) = {Frame(At(memory, vp, l), vp, l)}
         /\ (\A l \in Level : ~Found(memory, vp, l)) => MappedTo(vp) = {}
<1>1. installed \in Installations
  BY DEF TypeOK
<1>2. \A k \in Level : MappedAt(vp, k) = IF Found(memory, vp, k)
                         THEN {Frame(At(memory, vp, k), vp, k)} ELSE {}
  BY MappedAtLevel
<1>3. ASSUME NEW l \in Level, Found(memory, vp, l)
      PROVE  MappedTo(vp) = {Frame(At(memory, vp, l), vp, l)}
  <2>1. \A k \in Level : Found(memory, vp, k) => k = l
    BY <1>1, <1>3, OneLeaf
  <2>2. \A k \in Level : MappedAt(vp, k) # {} => k = l
    BY <1>2, <2>1
  <2>3. \A x : x \in MappedTo(vp) <=> x \in MappedAt(vp, l)
    BY <2>2 DEF MappedTo
  <2>4. QED
    BY <1>2, <1>3, <2>3
<1>4. ASSUME \A l \in Level : ~Found(memory, vp, l) PROVE MappedTo(vp) = {}
  BY <1>2, <1>4 DEF MappedTo
<1>5. QED
  BY <1>3, <1>4

\* VirtualToPhysical32 and VirtualToPhysical64 translate as the tables say,
\* whatever the guest has written to them, and fault exactly when the tables
\* map nothing.
THEOREM TranslatesAsMappedHolds == Spec => TranslatesAsMapped
<1>1. IInv /\ [Next]_vars =>
        [translations' > translations =>
           \A vp \in VirtualPage, write \in BOOLEAN :
             VirtualToPhysical(vp, write) =>
               IF Untranslated THEN ~page_fault' /\ result' = vp
               ELSE IF mode = "unsupported" \/ MappedTo(vp) = {}
               THEN page_fault' /\ faulting_address' = vp
               ELSE ~page_fault' /\ MappedTo(vp) = {result'}]_vars
  <2> SUFFICES ASSUME IInv, NEW vp \in VirtualPage, NEW write \in BOOLEAN,
                      VirtualToPhysical(vp, write)
               PROVE  IF Untranslated THEN ~page_fault' /\ result' = vp
                      ELSE IF mode = "unsupported" \/ MappedTo(vp) = {}
                      THEN page_fault' /\ faulting_address' = vp
                      ELSE ~page_fault' /\ MappedTo(vp) = {result'}
    OBVIOUS
  <2>1. TypeOK /\ vp \in Nat
    BY VirtualPages DEF IInv, TypeOK
  <2>2. /\ page_fault' = Faults(memory, vp)
        /\ faulting_address' = IF Faults(memory, vp) THEN vp ELSE 0
        /\ result' = Physical(memory, vp)
    BY DEF VirtualToPhysical
  <2>3. CASE Untranslated
    BY <2>2, <2>3 DEF Faults, Physical
  <2>4. CASE ~Untranslated /\ (mode = "unsupported" \/ MappedTo(vp) = {})
    <3>1. ~Mapped(memory, vp)
      BY <2>1, <2>4, MappedToFound DEF Mapped
    <3>2. QED
      BY <2>2, <2>4, <3>1 DEF Faults
  <2>5. CASE ~Untranslated /\ ~(mode = "unsupported" \/ MappedTo(vp) = {})
    <3>1. mode = "paged"
      BY <2>1, <2>5 DEF TypeOK, Untranslated
    <3>2. PICK l \in Level : Found(memory, vp, l)
      BY <2>1, <2>5, MappedToFound
    <3>3. Mapped(memory, vp)
      BY <3>1, <3>2 DEF Mapped
    <3>4. PICK k : k = LeafLevel(memory, vp)
      OBVIOUS
    <3>5. k \in Level /\ Found(memory, vp, k)
      BY <3>3, <3>4, LeafFound
    <3>6. ~Faults(memory, vp)
      BY <3>3 DEF Faults
    <3>7. result' = Frame(At(memory, vp, k), vp, k)
      BY <2>2, <2>5, <3>4, <3>6, Zenon DEF Physical
    <3>8. MappedTo(vp) = {result'}
      BY <2>1, <3>5, <3>7, MappedToFound
    <3>9. QED
      BY <2>2, <2>5, <3>6, <3>8
  <2>6. QED
    BY <2>3, <2>4, <2>5
<1>2. QED
  BY <1>1, Invariant, PTL DEF Spec, TranslatesAsMapped

-----------------------------------------------------------------------------
(* The identity of the default tables.                                     *)

\* The digits of a page number below n * K * K.
LEMMA ThreeDigits ==
  ASSUME NEW vp \in Nat, NEW n \in 1 .. K, vp < n * (K * K)
  PROVE  \E h, m, l \in Index :
           /\ h < n /\ vp = (h * K + m) * K + l
           /\ Vpn(vp, 2) = h /\ Vpn(vp, 1) = m /\ Vpn(vp, 0) = l
<1>1. K \in Nat /\ K > 1 /\ Span(0) = 1 /\ Span(1) = K /\ Span(2) = K * K
  BY Constants, Spans
<1>2. PICK q, l, h, m : q = vp \div K /\ l = vp % K /\ h = q \div K /\ m = q % K
  OBVIOUS
<1>3. q \in Nat /\ l \in 0 .. K - 1 /\ vp = q * K + l
  BY <1>1, <1>2
<1>4. h \in Nat /\ m \in 0 .. K - 1 /\ q = h * K + m
  BY <1>1, <1>2, <1>3
<1>5. vp = (h * K + m) * K + l
  BY <1>3, <1>4
<1>6. PICK s, r : s = K * K /\ r = m * K + l
  OBVIOUS
<1>7. s \in Nat \ {0} /\ r \in 0 .. s - 1
  <2>1. m \in Nat /\ m < K /\ l \in Index
    BY <1>1, <1>3, <1>4 DEF Index
  <2>2. m * K + l \in Nat /\ m * K + l < K * K
    BY <1>1, <2>1, Digits
  <2>3. s \in Nat
    BY <1>1, <1>6
  <2>4. QED
    BY <1>6, <2>2, <2>3
<1>8. vp = h * s + r
  BY <1>1, <1>3, <1>4, <1>5, <1>6
<1>9. vp \div s = h
  BY <1>4, <1>7, <1>8
<1>10. h < n
  <2> SUFFICES ASSUME n <= h PROVE FALSE
    BY <1>1, <1>4
  <2>1. n * s <= h * s
    BY <1>4, <1>7
  <2>2. n * s \in Nat /\ h * s \in Nat
    BY <1>4, <1>7
  <2>3. QED
    BY <1>6, <1>7, <1>8, <2>1, <2>2
<1>11. h \in 0 .. K - 1 /\ h % K = h
  BY <1>1, <1>4, <1>10
<1>12. Vpn(vp, 2) = h /\ Vpn(vp, 1) = m
  BY <1>1, <1>2, <1>6, <1>9, <1>11 DEF Vpn
<1>13. vp \div 1 = vp
  OBVIOUS
<1>14. Vpn(vp, 0) = l
  BY <1>1, <1>2, <1>13 DEF Vpn
<1>15. QED
  BY <1>3, <1>4, <1>5, <1>10, <1>11, <1>12, <1>14, Zenon DEF Index

LEMMA TwoDigits ==
  ASSUME NEW vp \in Nat, vp < K * K
  PROVE  \E m, l \in Index : vp = m * K + l /\ Vpn(vp, 1) = m /\ Vpn(vp, 0) = l
<1>1. K \in Nat /\ K > 1 /\ Span(0) = 1 /\ Span(1) = K
  BY Constants, Spans
<1>2. PICK q, l : q = vp \div K /\ l = vp % K
  OBVIOUS
<1>3. q \in Nat /\ l \in 0 .. K - 1 /\ vp = q * K + l
  BY <1>1, <1>2
<1>4. q < K
  <2> SUFFICES ASSUME K <= q PROVE FALSE
    BY <1>1, <1>3
  <2>1. K * K <= q * K
    BY <1>1, <1>3
  <2>2. K * K \in Nat /\ q * K \in Nat
    BY <1>1, <1>3
  <2>3. QED
    BY <1>3, <2>1, <2>2
<1>5. q \in 0 .. K - 1 /\ q % K = q
  BY <1>1, <1>3, <1>4
<1>6. vp \div 1 = vp
  OBVIOUS
<1>7. Vpn(vp, 1) = q /\ Vpn(vp, 0) = l
  BY <1>1, <1>2, <1>5, <1>6 DEF Vpn
<1>8. QED
  BY <1>3, <1>5, <1>7, Zenon DEF Index

LEMMA PointerFields ==
  ASSUME NEW e, NEW page, Fields(e) = Fields(Pointer(page))
  PROVE  IsValid(e) /\ ~IsLeaf(e) /\ e.ppn = page
<1>1. /\ e.v = TRUE /\ e.r = FALSE /\ e.w = FALSE /\ e.x = FALSE /\ e.ppn = page
  BY DEF Fields, Pointer
<1>2. QED
  BY <1>1, Zenon DEF IsValid, IsLeaf

LEMMA LeafFields ==
  ASSUME NEW e, NEW page, Fields(e) = Fields(Leaf(page))
  PROVE  IsValid(e) /\ IsLeaf(e) /\ e.ppn = page
<1>1. /\ e.v = TRUE /\ e.r = TRUE /\ e.w = TRUE /\ e.x = TRUE /\ e.ppn = page
  BY DEF Fields, Pointer, Leaf
<1>2. QED
  BY <1>1, Zenon DEF IsValid, IsLeaf

\* A walk along pointers to a leaf of level 0 that names its own page.
LEMMA WalkToLeaf ==
  ASSUME TypeOK, NEW vp \in Nat,
         \A k \in Level : k > 0 => IsValid(At(memory, vp, k)) /\ ~IsLeaf(At(memory, vp, k)),
         IsValid(At(memory, vp, 0)), IsLeaf(At(memory, vp, 0)), At(memory, vp, 0).ppn = vp
  PROVE  MappedTo(vp) = {vp}
<1>1. 0 \in Level /\ Span(0) = 1
  BY LevelFacts, Spans DEF TypeOK
<1>2. vp % 1 = 0 /\ 1 * (vp \div 1) + 0 = vp
  OBVIOUS
<1>3. Aligned(At(memory, vp, 0), 0) /\ Frame(At(memory, vp, 0), vp, 0) = vp
  BY <1>1, <1>2 DEF Aligned, Frame
<1>4. \A k \in Level : k > 0 => ~Ends(memory, vp, k)
  BY DEF Ends
<1>5. Found(memory, vp, 0)
  BY <1>3, <1>4, FoundParts
<1>6. QED
  BY <1>1, <1>3, <1>5, MappedToFound

LEMMA DefaultMaps ==
  ASSUME IInv, writes = 0, root = Root,
         NEW vp \in 0 .. ValidEntries * Span(TopLevel) - 1
  PROVE  MappedTo(vp) = {vp}
<1>1. TypeOK /\ installed \in Installations
  BY DEF IInv, TypeOK
<1>2. /\ Levels \in {2, 3} /\ TopLevel = Levels - 1 /\ Level = 0 .. TopLevel
      /\ Root \in Page /\ ValidEntries \in 1 .. K /\ K \in Nat /\ K > 1 /\ Pages \in Nat
  BY <1>1, LevelFacts, Constants
<1>3. \A page \in Page, i \in Index : Fields(memory[page][i]) = Fields(DefaultEntry(page, i))
  BY DEF IInv, Unwritten, SameFields, DefaultTable
<1>4. vp \in Nat
  BY <1>2
<1>5. \A l \in Level : At(memory, vp, l) = memory[Table(memory, vp, l)][Vpn(vp, l)]
  BY DEF At, Entry
<1>6. CASE Levels = 2
  <2>1. TopLevel = 1 /\ Level = {0, 1} /\ 0 \in Level /\ 1 \in Level
    BY <1>2, <1>6
  <2>2. vp < K * K
    <3>1. ValidEntries * Span(TopLevel) = K * K
      BY <1>1, <1>6, <2>1, Layout, Spans
    <3>2. QED
      BY <1>2, <3>1
  <2>3. PICK m \in Index, l \in Index : vp = m * K + l /\ Vpn(vp, 1) = m /\ Vpn(vp, 0) = l
    BY <1>4, <2>2, TwoDigits
  <2>4. m \in Nat /\ m < K /\ Level0 + m \in Page
    BY <1>1, <1>2, <1>6, Layout DEF Index, Page
  <2>5. Fields(At(memory, vp, 1)) = Fields(Pointer(Level0 + m))
    <3>1. At(memory, vp, 1) = memory[Root][m]
      BY <1>1, <1>4, <1>5, <2>1, <2>3, Tables
    <3>2. DefaultEntry(Root, m) = Pointer(Level0 + m)
      BY <1>1, <1>6, RootEntry
    <3>3. QED
      BY <1>2, <1>3, <3>1, <3>2
  <2>6. IsValid(At(memory, vp, 1)) /\ ~IsLeaf(At(memory, vp, 1))
        /\ At(memory, vp, 1).ppn = Level0 + m
    BY <2>5, PointerFields
  <2>7. Table(memory, vp, 0) = Level0 + m
    <3>1. TopLevel - 1 = 0
      BY <2>1
    <3>2. QED
      BY <1>1, <1>4, <2>1, <2>6, <3>1, Tables
  <2>8. Fields(At(memory, vp, 0)) = Fields(Leaf(vp))
    <3>1. At(memory, vp, 0) = memory[Level0 + m][l]
      BY <1>5, <2>1, <2>3, <2>7
    <3>2. PICK page : page = Level0 + m
      OBVIOUS
    <3>3. page \in Nat /\ page - Level0 = m /\ m \in 0 .. LowTables - 1
      BY <1>1, <1>6, <2>4, <3>2, Layout
    <3>4. DefaultEntry(page, l) = Leaf(m * K + l)
      BY <1>1, <3>3, LowEntry
    <3>5. QED
      BY <1>3, <2>3, <2>4, <3>1, <3>2, <3>4
  <2>9. IsValid(At(memory, vp, 0)) /\ IsLeaf(At(memory, vp, 0)) /\ At(memory, vp, 0).ppn = vp
    BY <2>8, LeafFields
  <2>10. \A k \in Level : k > 0 => k = 1
    BY <2>1
  <2>11. QED
    BY <1>1, <1>4, <2>6, <2>9, <2>10, WalkToLeaf
<1>7. CASE Levels = 3
  <2>1. TopLevel = 2 /\ Level = {0, 1, 2} /\ 0 \in Level /\ 1 \in Level /\ 2 \in Level
    BY <1>2, <1>7
  <2>2. vp < ValidEntries * (K * K)
    <3>1. Span(TopLevel) = K * K
      BY <2>1, Spans
    <3>2. PICK n : n = ValidEntries * (K * K)
      OBVIOUS
    <3>3. n \in Nat /\ vp \in 0 .. n - 1
      BY <1>2, <3>1, <3>2
    <3>4. QED
      BY <3>2, <3>3
  <2>3. PICK h \in Index, m \in Index, l \in Index :
          /\ h < ValidEntries /\ vp = (h * K + m) * K + l
          /\ Vpn(vp, 2) = h /\ Vpn(vp, 1) = m /\ Vpn(vp, 0) = l
    BY <1>2, <1>4, <2>2, ThreeDigits
  <2>4. PICK t : t = h * K + m
    OBVIOUS
  <2>5. h \in Nat /\ ValidEntries \in Nat /\ t \in Nat /\ t < LowTables
    <3>1. h \in Nat /\ ValidEntries \in Nat
      BY <1>2 DEF Index
    <3>2. h * K + m \in Nat /\ h * K + m < ValidEntries * K
      BY <2>3, <3>1, Digits
    <3>3. LowTables = ValidEntries * K
      BY <1>1, <1>7, Layout
    <3>4. QED
      BY <2>4, <3>1, <3>2, <3>3
  <2>6. Level1 + h \in Page /\ Level0 + t \in Page
    BY <1>1, <1>2, <1>7, <2>3, <2>5, Layout DEF Page
  <2>7. Fields(At(memory, vp, 2)) = Fields(Pointer(Level1 + h))
    <3>1. At(memory, vp, 2) = memory[Root][h]
      BY <1>1, <1>4, <1>5, <2>1, <2>3, Tables
    <3>2. DefaultEntry(Root, h) = Pointer(Level1 + h)
      BY <1>1, <1>7, <2>3, RootEntry
    <3>3. QED
      BY <1>2, <1>3, <3>1, <3>2
  <2>8. IsValid(At(memory, vp, 2)) /\ ~IsLeaf(At(memory, vp, 2))
        /\ At(memory, vp, 2).ppn = Level1 + h
    BY <2>7, PointerFields
  <2>9. Table(memory, vp, 1) = Level1 + h
    <3>1. TopLevel - 1 = 1
      BY <2>1
    <3>2. QED
      BY <1>1, <1>4, <2>1, <2>8, <3>1, Tables
  <2>10. Fields(At(memory, vp, 1)) = Fields(Pointer(Level0 + t))
    <3>1. At(memory, vp, 1) = memory[Level1 + h][m]
      BY <1>5, <2>1, <2>3, <2>9
    <3>2. PICK page : page = Level1 + h
      OBVIOUS
    <3>3. page \in Level1 .. Level1 + ValidEntries - 1 /\ page - Level1 = h
      BY <1>1, <2>3, <2>5, <3>2, Layout
    <3>4. DefaultEntry(page, m) = Pointer(Level0 + h * K + m)
      BY <1>1, <1>7, <3>3, MiddleEntry
    <3>5. Level0 + h * K + m = Level0 + t
      <4>1. h * K \in Nat /\ m \in Nat /\ Level0 \in Nat
        BY <1>1, <1>2, <2>5, Layout DEF Index
      <4>2. QED
        BY <2>4, <4>1
    <3>6. QED
      BY <1>3, <2>6, <3>1, <3>2, <3>4, <3>5
  <2>11. IsValid(At(memory, vp, 1)) /\ ~IsLeaf(At(memory, vp, 1))
         /\ At(memory, vp, 1).ppn = Level0 + t
    BY <2>10, PointerFields
  <2>12. Table(memory, vp, 0) = Level0 + t
    BY <1>1, <1>4, <1>7, <2>11, Tables
  <2>13. Fields(At(memory, vp, 0)) = Fields(Leaf(vp))
    <3>1. At(memory, vp, 0) = memory[Level0 + t][l]
      BY <1>5, <2>1, <2>3, <2>12
    <3>2. PICK page : page = Level0 + t
      OBVIOUS
    <3>3. page \in Nat /\ page - Level0 = t /\ t \in 0 .. LowTables - 1
      BY <1>1, <2>5, <3>2, Layout
    <3>4. DefaultEntry(page, l) = Leaf(t * K + l)
      BY <1>1, <3>3, LowEntry
    <3>5. QED
      BY <1>3, <2>3, <2>4, <2>6, <3>1, <3>2, <3>4
  <2>14. IsValid(At(memory, vp, 0)) /\ IsLeaf(At(memory, vp, 0)) /\ At(memory, vp, 0).ppn = vp
    BY <2>13, LeafFields
  <2>15. \A k \in Level : k > 0 => k = 1 \/ k = 2
    BY <2>1
  <2>16. QED
    BY <1>1, <1>4, <2>8, <2>11, <2>14, <2>15, WalkToLeaf
<1>8. QED
  BY <1>2, <1>6, <1>7

\* Until the guest writes to them, the tables of SetDefaultMmuTable32 and
\* SetDefaultMmuTable64 map every page of their range to itself, whatever the
\* translations in between have marked.
THEOREM DefaultIsIdentityHolds == Spec => []DefaultIsIdentity
<1>1. IInv => DefaultIsIdentity
  BY DefaultMaps DEF DefaultIsIdentity
<1>2. QED
  BY <1>1, Invariant, PTL
=============================================================================
