--------------------------- MODULE EmulatorProofs ---------------------------
(***************************************************************************)
(* Proofs about one run of the emulator.                                   *)
(***************************************************************************)
EXTENDS Emulator, MemoryProofs, FiniteSetTheorems, SequenceTheorems, TLAPS

-----------------------------------------------------------------------------
(* What the steps write.                                                   *)

\* The bytes of a value are a sequence.
LEMMA BytesOfValue ==
  ASSUME NEW v \in Nat, NEW n \in 0 .. 9
  PROVE  /\ BytesOf(v, n) \in Seq(Byte)
         /\ Len(BytesOf(v, n)) = n
         /\ \A k \in 1 .. n : BytesOf(v, n)[k] = ByteOf(v, k - 1)
<1>1. \A k \in 0 .. 8 : ByteOf(v, k) \in Byte
  BY ByteStep
<1>2. \A k \in 1 .. n : k - 1 \in 0 .. 8
  OBVIOUS
<1>3. BytesOf(v, n) \in [1 .. n -> Byte]
  BY <1>1, <1>2 DEF BytesOf
<1>4. QED
  BY <1>3 DEF BytesOf

\* A store of any width puts its bytes, aligned or not.
LEMMA StorePuts ==
  ASSUME NEW m, WellFormed(m), NEW address \in Nat, NEW data \in Nat,
         NEW width \in {1, 2, 4, 8}
  PROVE  Puts(m, StoreWd(m, address, data, width), address, BytesOf(data, width), width)
<1>1. /\ BytesOf(data, width) \in Seq(Byte)
      /\ Len(BytesOf(data, width)) = width
      /\ \A k \in 1 .. width : BytesOf(data, width)[k] = ByteOf(data, k - 1)
  <2>1. width \in 0 .. 9
    OBVIOUS
  <2>2. QED
    BY <2>1, BytesOfValue
<1>2. CASE width = 4 /\ address % 4 = 0
  <2>1. width # 8
    BY <1>2
  <2>2. StoreWd(m, address, data, width) = Write32(m, address, data)
    BY <1>2, <2>1, Zenon DEF StoreWd
  <2>3. QED
    BY <1>1, <1>2, <2>2, WordPut
<1>3. CASE width = 8 /\ address % 8 = 0
  <2>1. width # 4
    BY <1>3
  <2>2. StoreWd(m, address, data, width) = Write64(m, address, data)
    BY <1>3, <2>1, Zenon DEF StoreWd
  <2>3. QED
    BY <1>3, <2>2, DoublePut
<1>4. CASE ~(width = 4 /\ address % 4 = 0) /\ ~(width = 8 /\ address % 8 = 0)
  <2>1. StoreWd(m, address, data, width) = WriteBytes(m, address, BytesOf(data, width))
    BY <1>4, Zenon DEF StoreWd
  <2>2. PICK d : d = BytesOf(data, width)
    OBVIOUS
  <2>3. Len(d) = width /\ width \in Nat /\ \A k \in 1 .. Len(d) : d[k] \in Byte
    BY <1>1, <2>2
  <2>4. Puts(m, WriteBytes(m, address, d), address, d, Len(d))
    BY <2>3, BytesWritten
  <2>5. QED
    BY <2>1, <2>2, <2>3, <2>4
<1>5. QED
  BY <1>2, <1>3, <1>4

\* Which call it is depends on reg[A7] alone.
LEMMA CallCases ==
  ASSUME NEW s, NEW c, NEW top, NEW max, NEW r,
         r \in SystemCallEmulation(s, c, top, max)
  PROVE  \/ r \in ExitCall(s, c)
         \/ r \in WriteCall(s, c)
         \/ r \in BrkCall(s, c, top)
         \/ r \in ReadCall(s, c)
         \/ r \in FstatCall(s, c)
         \/ c.a7 = 57 /\ r \in CloseCall(s, c)
         \/ c.a7 = 1024 /\ r \in OpenCall(s, c, max)
         \/ r \in LseekCall(s, c)
<1>1. CASE c.a7 = 93
  <2>1. c.a7 \notin {64, 214, 63, 80, 57, 1024, 62}
    BY <1>1
  <2>2. QED
    BY <1>1, <2>1, Zenon DEF SystemCallEmulation
<1>2. CASE c.a7 = 64
  <2>1. c.a7 \notin {93, 214, 63, 80, 57, 1024, 62}
    BY <1>2
  <2>2. QED
    BY <1>2, <2>1, Zenon DEF SystemCallEmulation
<1>3. CASE c.a7 = 214
  <2>1. c.a7 \notin {93, 64, 63, 80, 57, 1024, 62}
    BY <1>3
  <2>2. QED
    BY <1>3, <2>1, Zenon DEF SystemCallEmulation
<1>4. CASE c.a7 = 63
  <2>1. c.a7 \notin {93, 64, 214, 80, 57, 1024, 62}
    BY <1>4
  <2>2. QED
    BY <1>4, <2>1, Zenon DEF SystemCallEmulation
<1>5. CASE c.a7 = 80
  <2>1. c.a7 \notin {93, 64, 214, 63, 57, 1024, 62}
    BY <1>5
  <2>2. QED
    BY <1>5, <2>1, Zenon DEF SystemCallEmulation
<1>6. CASE c.a7 = 57
  <2>1. c.a7 \notin {93, 64, 214, 63, 80, 1024, 62}
    BY <1>6
  <2>2. QED
    BY <1>6, <2>1, Zenon DEF SystemCallEmulation
<1>7. CASE c.a7 = 1024
  <2>1. c.a7 \notin {93, 64, 214, 63, 80, 57, 62}
    BY <1>7
  <2>2. QED
    BY <1>7, <2>1, Zenon DEF SystemCallEmulation
<1>8. CASE c.a7 = 62
  <2>1. c.a7 \notin {93, 64, 214, 63, 80, 57, 1024}
    BY <1>8
  <2>2. QED
    BY <1>8, <2>1, Zenon DEF SystemCallEmulation
<1>9. CASE c.a7 \notin {93, 64, 214, 63, 80, 57, 1024, 62}
  BY <1>9, Zenon DEF SystemCallEmulation
<1>10. QED
  BY <1>1, <1>2, <1>3, <1>4, <1>5, <1>6, <1>7, <1>8, <1>9

\* A buffer of some bytes.
LEMMA BufferWritten ==
  ASSUME NEW m, WellFormed(m), NEW i \in Nat, NEW n \in Nat,
         NEW buffer \in [1 .. n -> Byte]
  PROVE  /\ buffer \in Seq(Byte) /\ Len(buffer) = n
         /\ Puts(m, WriteBytes(m, i, buffer), i, buffer, Len(buffer))
<1>1. buffer \in Seq(Byte) /\ Len(buffer) = n
  OBVIOUS
<1>2. Len(buffer) \in Nat /\ \A k \in 1 .. Len(buffer) : buffer[k] \in Byte
  BY <1>1
<1>3. QED
  BY <1>1, <1>2, BytesWritten

\* From memory m to n some bytes were written as w says: perhaps none.
Written(m, n, w) ==
  /\ w.address \in Nat
  /\ w.data \in Seq(Byte)
  /\ Puts(m, n, w.address, w.data, Len(w.data))

\* The registers of a system call.
Calls == [op : {"ecall"}, a7 : Nat, a0 : Nat, a1 : Nat, a2 : Nat]

\* A call writes what it says it has written.
LEMMA CallWrites ==
  ASSUME NEW m, WellFormed(m), NEW a0, NEW brk, NEW fds, NEW handles, NEW s,
         s = [mem |-> m, a0 |-> a0, brk |-> brk, fds |-> fds, openHandles |-> handles,
              end |-> FALSE, written |-> NothingWritten],
         NEW c \in Calls, NEW top, NEW max,
         NEW r \in SystemCallEmulation(s, c, top, max)
  PROVE  Written(m, r.mem, r.written)
<1>1. c.a1 \in Nat /\ c.a2 \in Nat /\ StatSize \in Nat
  BY CallAssumption DEF Calls
<1>2. ASSUME r.mem = m, r.written = NothingWritten
      PROVE  Written(m, r.mem, r.written)
  <2>1. PICK d : d = << >>
    OBVIOUS
  <2>2. Puts(m, m, 0, d, 0)
    BY PutsFew
  <2>3. QED
    BY <1>2, <2>1, <2>2 DEF Written, NothingWritten
<1>3. ASSUME NEW i \in Nat, NEW n \in Nat, NEW buffer \in [1 .. n -> Byte],
             r.mem = WriteBytes(m, i, buffer),
             r.written = [address |-> i, data |-> buffer]
      PROVE  Written(m, r.mem, r.written)
  BY <1>3, BufferWritten DEF Written
<1>4. CASE r \in ExitCall(s, c)
  BY <1>2, <1>4 DEF ExitCall
<1>5. CASE r \in WriteCall(s, c)
  BY <1>2, <1>5 DEF WriteCall
<1>6. CASE r \in BrkCall(s, c, top)
  BY <1>2, <1>6 DEF BrkCall
<1>7. CASE r \in ReadCall(s, c)
  <2>1. PICK N : N = HostTransfer(s.fds, {"stream", "r", "rw"}, c.a0, c.a2)
    OBVIOUS
  <2>2. PICK n \in N :
          r \in {Received(s, c, n, buffer) : buffer \in [1 .. c.a2 -> Byte]}
    BY <1>7, <2>1 DEF ReadCall
  <2>3. PICK buffer \in [1 .. c.a2 -> Byte] : r = Received(s, c, n, buffer)
    BY <2>2, Zenon
  <2>4. r.mem = WriteBytes(m, c.a1, buffer) /\ r.written = [address |-> c.a1, data |-> buffer]
    BY <2>3 DEF Received
  <2>5. QED
    BY <1>1, <1>3, <2>4
<1>8. CASE r \in FstatCall(s, c)
  <2>1. PICK buffer \in [1 .. StatSize -> Byte] :
          r = [s EXCEPT !.a0 = HostStatus(s.fds, c.a0),
                        !.mem = WriteBytes(s.mem, c.a1, buffer),
                        !.written = [address |-> c.a1, data |-> buffer]]
    BY <1>8, Zenon DEF FstatCall
  <2>2. r.mem = WriteBytes(m, c.a1, buffer) /\ r.written = [address |-> c.a1, data |-> buffer]
    BY <2>1
  <2>3. QED
    BY <1>1, <1>3, <2>2
<1>9. CASE r \in CloseCall(s, c)
  BY <1>2, <1>9 DEF CloseCall
<1>10. CASE r \in OpenCall(s, c, max)
  <2>1. \/ r = [s EXCEPT !.a0 = Failed]
        \/ \E fd \in HostOpen(s.fds) : r = Opened(s, c, fd)
    BY <1>10, Zenon DEF OpenCall
  <2>2. r.mem = m /\ r.written = NothingWritten
    BY <2>1 DEF Opened
  <2>3. QED
    BY <1>2, <2>2
<1>11. CASE r \in LseekCall(s, c)
  BY <1>2, <1>11 DEF LseekCall
<1>12. QED
  BY <1>4, <1>5, <1>6, <1>7, <1>8, <1>9, <1>10, <1>11, CallCases

-----------------------------------------------------------------------------
(* What the loader writes.                                                 *)

\* A file's parts are as the assumption on the host's files says.
LEMMA FileParts ==
  ASSUME NEW name \in DOMAIN Files
  PROVE  /\ Files[name].segments \in Seq(Segments)
         /\ Files[name].sections \in Seq(Sections)
         /\ Files[name].class64 \in BOOLEAN
         /\ Files[name].entry \in Nat
BY FileAssumption

\* .bss is a part of the image, if only an empty one.
LEMMA BssWritten ==
  ASSUME NEW name \in DOMAIN Files
  PROVE  /\ Bss(Files[name]).address \in Nat
         /\ Bss(Files[name]).size \in Nat
         /\ BssBytes(Files[name]) \in Seq(Byte)
         /\ \A k \in 1 .. Len(BssBytes(Files[name])) : BssBytes(Files[name])[k] = 0
<1>1. PICK file : file = Files[name]
  OBVIOUS
<1>2. file.sections \in Seq(Sections)
  BY <1>1, FileParts
<1> DEFINE found == {j \in DOMAIN file.sections : file.sections[j].name = ".bss"}
<1>3. Bss(file) = IF found = {} THEN NoSection ELSE file.sections[Min(found)]
  BY DEF Bss, SearchShdr
<1>6. Bss(file).address \in Nat /\ Bss(file).size \in Nat
  <2>1. CASE found = {}
    BY <1>3, <2>1 DEF NoSection
  <2>2. CASE found # {}
    <3>1. found \in SUBSET Nat
      BY <1>2
    <3>2. \E x \in found : \A y \in found : x <= y
      BY <2>2, <3>1, Least
    <3>3. Min(found) \in found
      BY <3>2 DEF Min
    <3>4. PICK j \in DOMAIN file.sections : j = Min(found)
      BY <3>3
    <3>5. file.sections[j] \in Sections
      BY <1>2
    <3>6. Bss(file) \in Sections
      BY <1>3, <2>2, <3>4, <3>5
    <3>7. QED
      BY <3>6 DEF Sections
  <2>3. QED
    BY <2>1, <2>2
<1> HIDE DEF found
<1>7. PICK start \in Nat, size \in Nat : start = Bss(file).address /\ size = Bss(file).size
  BY <1>6
<1>8. BssEnd(file) \in Nat
  BY <1>7, Sizes DEF BssEnd
<1>9. PICK end \in Nat : end = BssEnd(file)
  BY <1>8
<1>10. 0 \in Byte
  BY MemoryAssumption DEF Byte
<1>11. BssLength(file) \in Nat
  BY <1>7, <1>9, Sizes DEF BssLength
<1>12. PICK len \in Nat : len = BssLength(file)
  BY <1>11
<1>13. BssBytes(file) = [k \in 1 .. len |-> 0]
  BY <1>12 DEF BssBytes
<1>14. QED
  BY <1>1, <1>6, <1>10, <1>13

\* So are the default page tables.
LEMMA TablesWritten ==
  /\ TableStart \in MmuTable /\ TableStart \in Nat
  /\ \A a \in MmuTable : TableStart <= a
  /\ DefaultTable \in Seq(Byte)
  /\ MmuTable = TableStart .. TableStart + Len(DefaultTable) - 1
  /\ \A a \in MmuTable : a < MemorySize
  /\ \A k \in 1 .. Len(DefaultTable) : DefaultTable[k] = 1
<1>0. PICK size \in Nat : size = MemorySize
  BY Sizes
<1>1. PICK first \in 0 .. size - 1, last \in 0 .. size - 1 :
        first <= last /\ MmuTable = first .. last
  BY <1>0, FileAssumption
<1>2. first \in MmuTable /\ \A a \in MmuTable : first <= a
  BY <1>1
<1>3. TableStart = first
  <2>1. TableStart \in MmuTable /\ \A a \in MmuTable : TableStart <= a
    BY <1>2 DEF TableStart
  <2>2. QED
    BY <1>1, <1>2, <2>1
<1>4. PICK n \in Nat : n = Cardinality(MmuTable) /\ last = first + n - 1
  <2>1. Cardinality(first .. last) = last - first + 1
    BY <1>1, FS_Interval
  <2>2. QED
    BY <1>1, <2>1
<1>5. 1 \in Byte
  BY MemoryAssumption DEF Byte
<1>6. DefaultTable = [k \in 1 .. n |-> 1]
  BY <1>4 DEF DefaultTable
<1>7. DefaultTable \in Seq(Byte) /\ Len(DefaultTable) = n
      /\ \A k \in 1 .. Len(DefaultTable) : DefaultTable[k] = 1
  BY <1>5, <1>6
<1>8. QED
  BY <1>0, <1>1, <1>2, <1>3, <1>4, <1>7

\* The places of the devices.
LEMMA DevicePlaces ==
  /\ kUartLsr \in Nat /\ kUartLsr < MemorySize
  /\ kVirtioBase \in Nat /\ kVirtioBase % 4 = 0 /\ kVirtioBase + 7 < MemorySize
  /\ kUartLsr \notin kVirtioBase .. kVirtioBase + 7
<1>1. PICK s \in Nat : s = MemorySize
  BY Sizes
<1>2. /\ kUartLsr \in 0 .. s - 1
      /\ kVirtioBase \in 0 .. s - 8 /\ kVirtioBase % 4 = 0
      /\ kUartLsr \notin kVirtioBase .. kVirtioBase + 7
  BY <1>1, EmulatorAssumption
<1>3. QED
  BY <1>1, <1>2

\* The line status stays a byte.
LEMMA LineStatus ==
  ASSUME NEW lsr \in Byte
  PROVE  UartReady(lsr) \in Byte
<1>1. PICK b \in Nat \ {0, 1} : b = ByteSize /\ b % 2 = 0
  BY MemoryAssumption, EmulatorAssumption
<1>2. lsr \in Nat /\ lsr < b
  BY <1>1 DEF Byte
<1>3. CASE lsr % 2 = 1
  BY <1>1, <1>2, <1>3 DEF UartReady, Byte
<1>4. CASE lsr % 2 = 0
  <2>1. lsr + 1 < b
    BY <1>1, <1>2, <1>4
  <2>2. QED
    BY <1>1, <1>2, <1>4, <2>1 DEF UartReady, Byte
<1>5. QED
  BY <1>2, <1>3, <1>4

-----------------------------------------------------------------------------
(* The types of the state.                                                 *)

TimerStates ==
  [elapsed_cycles : Nat, next_cycle : Nat, timercmp_update : BOOLEAN,
   timer_interrupt : BOOLEAN]

GuestStates ==
  [todo : Seq(GuestInstructions), left : Int, setting : Nat \cup {NoDeadline},
   deadlines : SUBSET Nat, unnoticed : BOOLEAN, orderly : BOOLEAN]

\* A program that the loader works on is one of the host's files.
FileKnown == phase \notin {"start", "rejected"} => options.filename \in DOMAIN Files

TypeInv ==
  /\ job \in Jobs
  /\ loading \in Nat \ {0}
  /\ FileKnown
  /\ WellFormed(mem)
  /\ timer \in TimerStates
  /\ guest \in GuestStates

\* A step writes to memory what access says, or nothing.
MemoryStep ==
  \/ UNCHANGED <<mem, access>>
  \/ UNCHANGED access /\ Puts(mem, mem', 0, << >>, 0)
  \/ Written(mem, mem', access')

\* The fields of an instruction.
LEMMA InstructionFields ==
  ASSUME NEW i \in GuestInstructions
  PROVE  /\ i.op \in {"load", "store", "amo"} => i.address \in Nat /\ i.width \in {1, 2, 4, 8}
         /\ i.op \in {"store", "amo"} => i.data \in Nat
         /\ i.op = "ecall" => i \in Calls
BY DEF GuestInstructions, Calls

\* A byte string in its place.
LEMMA DataWritten ==
  ASSUME NEW m, WellFormed(m), NEW i \in Nat, NEW data \in Seq(Byte), NEW w,
         w.address = i, w.data = data
  PROVE  Written(m, WriteBytes(m, i, data), w)
<1>1. Len(data) \in Nat /\ \A k \in 1 .. Len(data) : data[k] \in Byte
  OBVIOUS
<1>2. Puts(m, WriteBytes(m, i, data), i, data, Len(data))
  BY <1>1, BytesWritten
<1>3. QED
  BY <1>2 DEF Written

\* The two words of VirtioInit are eight bytes next to each other.
LEMMA IdentityPut ==
  ASSUME NEW m, WellFormed(m)
  PROVE  \E f :
           /\ f = BytesOf(1, 4) \o BytesOf(2, 4)
           /\ f \in Seq(Byte) /\ Len(f) = 8
           /\ \A k \in 1 .. 4 : f[k] = ByteOf(1, k - 1) /\ f[4 + k] = ByteOf(2, k - 1)
           /\ Puts(m, Write32(Write32(m, kVirtioBase, 1), kVirtioBase + 4, 2),
                   kVirtioBase, f, 8)
<1>1. PICK d, e : d = BytesOf(1, 4) /\ e = BytesOf(2, 4)
  OBVIOUS
<1>2. PICK h, o : h = Write32(m, kVirtioBase, 1) /\ o = Write32(h, kVirtioBase + 4, 2)
  OBVIOUS
<1>3. kVirtioBase \in Nat /\ kVirtioBase % 4 = 0 /\ kVirtioBase + 4 \in Nat
      /\ (kVirtioBase + 4) % 4 = 0
  BY DevicePlaces
<1>4. PICK f : f = d \o e
  OBVIOUS
<1>5. /\ d \in Seq(Byte) /\ Len(d) = 4 /\ \A k \in 1 .. 4 : d[k] = ByteOf(1, k - 1)
      /\ e \in Seq(Byte) /\ Len(e) = 4 /\ \A k \in 1 .. 4 : e[k] = ByteOf(2, k - 1)
  BY <1>1, BytesOfValue
<1>6. /\ f \in Seq(Byte) /\ Len(f) = 4 + 4
      /\ \A k \in 1 .. 4 : f[k] = d[k] /\ f[4 + k] = e[k]
  <2>1. /\ f \in Seq(Byte)
        /\ Len(f) = Len(d) + Len(e)
        /\ \A k \in 1 .. Len(d) + Len(e) :
             f[k] = IF k <= Len(d) THEN d[k] ELSE e[k - Len(d)]
    BY <1>4, <1>5, ConcatProperties
  <2>2. \A k \in 1 .. 8 : f[k] = IF k <= 4 THEN d[k] ELSE e[k - 4]
    BY <1>5, <2>1
  <2>3. QED
    BY <1>5, <2>1, <2>2
<1>7. Puts(m, h, kVirtioBase, f, 4)
  BY <1>2, <1>3, <1>5, <1>6, WordPut
<1>8. WellFormed(h)
  BY <1>7 DEF Puts
<1>9. Puts(h, o, kVirtioBase + 4, e, 4)
  BY <1>2, <1>3, <1>5, <1>8, WordPut
<1>10. Puts(m, o, kVirtioBase, f, 4 + 4)
  <2>1. PICK p \in Nat : p = 4
    OBVIOUS
  <2>2. Puts(m, h, kVirtioBase, f, p) /\ Puts(h, o, kVirtioBase + p, e, p)
    BY <1>7, <1>9, <2>1
  <2>3. \A k \in 1 .. p : f[p + k] = e[k]
    BY <1>6, <2>1
  <2>4. Puts(m, o, kVirtioBase, f, p + p)
    BY <1>3, <2>2, <2>3, PutsAfter
  <2>5. QED
    BY <2>1, <2>4
<1>11. /\ f = BytesOf(1, 4) \o BytesOf(2, 4)
       /\ f \in Seq(Byte) /\ Len(f) = 8
       /\ \A k \in 1 .. 4 : f[k] = ByteOf(1, k - 1) /\ f[4 + k] = ByteOf(2, k - 1)
  BY <1>1, <1>4, <1>5, <1>6
<1>12. Puts(m, Write32(Write32(m, kVirtioBase, 1), kVirtioBase + 4, 2), kVirtioBase, f, 8)
  BY <1>2, <1>10
<1>13. QED
  BY <1>11, <1>12, Zenon

\* The steps of run() write the image, the tables and the devices' first values.
LEMMA SetupWrites ==
  ASSUME TypeInv, Setup
  PROVE  MemoryStep
<1>1. WellFormed(mem)
  BY DEF TypeInv
<1>2. phase \in {"segments", "symbols"} => options.filename \in DOMAIN Files
  BY DEF TypeInv, FileKnown
<1>3. CASE ReadProgram
  BY <1>3 DEF ReadProgram, MemoryStep
<1>4. CASE LoadSegment
  <2>1. PICK segment : segment = File.segments[loading]
    OBVIOUS
  <2>2. segment \in Segments
    <3>1. options.filename \in DOMAIN Files
      BY <1>2, <1>4 DEF LoadSegment
    <3>2. File.segments \in Seq(Segments)
      BY <3>1, FileParts DEF File
    <3>3. loading \in 1 .. Len(File.segments)
      BY <1>4, <3>2 DEF LoadSegment, TypeInv
    <3>4. QED
      BY <2>1, <3>2, <3>3
  <2>3. segment.vaddr \in Nat /\ segment.data \in Seq(Byte)
    BY <2>2 DEF Segments
  <2>4. CASE segment.load
    <3>1. /\ mem' = WriteBytes(mem, segment.vaddr, segment.data)
          /\ access'.address = segment.vaddr /\ access'.data = segment.data
      BY <1>4, <2>1, <2>4 DEF LoadSegment, Writes
    <3>2. QED
      BY <1>1, <2>3, <3>1, DataWritten DEF MemoryStep
  <2>5. CASE ~segment.load
    BY <1>4, <2>1, <2>5 DEF LoadSegment, MemoryStep
  <2>6. QED
    BY <2>4, <2>5
<1>5. CASE SetUpBss
  <2>1. /\ mem' = WriteBytes(mem, Bss(File).address, BssBytes(File))
        /\ access'.address = Bss(File).address /\ access'.data = BssBytes(File)
    BY <1>5 DEF SetUpBss, Writes
  <2>2. options.filename \in DOMAIN Files
    BY <1>2, <1>5 DEF SetUpBss
  <2>3. Bss(File).address \in Nat /\ BssBytes(File) \in Seq(Byte)
    BY <2>2, BssWritten DEF File
  <2>4. QED
    BY <1>1, <2>1, <2>3, DataWritten DEF MemoryStep
<1>6. CASE FindSymbols
  BY <1>6 DEF FindSymbols, MemoryStep
<1>7. CASE SymbolsFail
  BY <1>7 DEF SymbolsFail, MemoryStep
<1>8. CASE SetDefaultMmuTable
  <2>1. /\ mem' = WriteBytes(mem, TableStart, DefaultTable)
        /\ access'.address = TableStart /\ access'.data = DefaultTable
    BY <1>8 DEF SetDefaultMmuTable, Writes
  <2>2. TableStart \in Nat /\ DefaultTable \in Seq(Byte)
    BY TablesWritten
  <2>3. QED
    BY <1>1, <2>1, <2>2, DataWritten DEF MemoryStep
<1>9. CASE UartInit
  <2>1. PICK lsr : lsr = UartReady(ReadByte(mem, kUartLsr))
    OBVIOUS
  <2>2. /\ mem' = WriteByte(mem, kUartLsr, lsr)
        /\ access'.address = kUartLsr /\ access'.data = <<lsr>>
    BY <1>9, <2>1 DEF UartInit, Writes
  <2>3. kUartLsr \in Nat
    BY DevicePlaces
  <2>4. lsr \in Byte
    BY <1>1, <2>1, <2>3, ByteRead, LineStatus
  <2>5. PICK d : d = <<lsr>>
    OBVIOUS
  <2>6. d[1] = lsr /\ d \in Seq(Byte) /\ Len(d) = 1
    BY <2>4, <2>5
  <2>7. Puts(mem, WriteByte(mem, kUartLsr, d[1]), kUartLsr, d, 1)
    BY <1>1, <2>3, <2>4, <2>6, PutsFew
  <2>8. QED
    BY <2>2, <2>3, <2>5, <2>6, <2>7 DEF MemoryStep, Written
<1>10. CASE VirtioInit
  <2>1. PICK f : f = BytesOf(1, 4) \o BytesOf(2, 4)
    OBVIOUS
  <2>2. /\ mem' = Write32(Write32(mem, kVirtioBase, 1), kVirtioBase + 4, 2)
        /\ access'.address = kVirtioBase /\ access'.data = f
    BY <1>10, <2>1 DEF VirtioInit, VirtioWords, Writes
  <2>3. f \in Seq(Byte) /\ Len(f) = 8 /\ Puts(mem, mem', kVirtioBase, f, 8)
    BY <1>1, <2>1, <2>2, IdentityPut
  <2>4. kVirtioBase \in Nat
    BY DevicePlaces
  <2>5. QED
    BY <2>2, <2>3, <2>4 DEF MemoryStep, Written
<1>11. CASE StartLoop
  BY <1>11 DEF StartLoop, MemoryStep
<1>12. QED
  BY <1>3, <1>4, <1>5, <1>6, <1>7, <1>8, <1>9, <1>10, <1>11 DEF Setup

\* The instructions of the guest write what they say.
LEMMA InstructionWrites ==
  ASSUME TypeInv, NEW i \in GuestInstructions, NEW g, Instruction(i, g)
  PROVE  MemoryStep
<1>1. WellFormed(mem)
  BY DEF TypeInv
<1>2. CASE i.op = "load" /\ LoadInstruction(i, g)
  <2>1. PICK v \in Nat : v = timer.elapsed_cycles
    BY DEF TypeInv, TimerStates
  <2>2. /\ mem' = Write64(mem, kTimerMtime, v)
        /\ access'.address = kTimerMtime /\ access'.data = BytesOf(v, 8)
    BY <1>2, <2>1 DEF LoadInstruction, MemoryMappedValueUpdate, Writes
  <2>3. kTimerMtime \in Nat /\ kTimerMtime % 8 = 0
    BY TimerAssumption, Sizes
  <2>4. Puts(mem, mem', kTimerMtime, BytesOf(v, 8), 8)
    BY <1>1, <2>2, <2>3, DoublePut
  <2>5. BytesOf(v, 8) \in Seq(Byte) /\ Len(BytesOf(v, 8)) = 8
    BY BytesOfValue
  <2>6. QED
    BY <2>2, <2>3, <2>4, <2>5 DEF MemoryStep, Written
<1>3. ASSUME i.op \in {"store", "amo"},
             mem' = StoreWd(mem, i.address, i.data, i.width),
             access'.address = i.address, access'.data = BytesOf(i.data, i.width)
      PROVE  MemoryStep
  <2>1. i.address \in Nat /\ i.data \in Nat /\ i.width \in {1, 2, 4, 8}
    BY <1>3, InstructionFields
  <2>2. Puts(mem, mem', i.address, BytesOf(i.data, i.width), i.width)
    BY <1>1, <1>3, <2>1, StorePuts
  <2>3. i.width \in 0 .. 9
    BY <2>1
  <2>4. BytesOf(i.data, i.width) \in Seq(Byte) /\ Len(BytesOf(i.data, i.width)) = i.width
    BY <2>1, <2>3, BytesOfValue
  <2>5. QED
    BY <1>3, <2>1, <2>2, <2>4 DEF MemoryStep, Written
<1>4. CASE i.op = "store" /\ StoreInstruction(i, g)
  BY <1>3, <1>4 DEF StoreInstruction, Writes
<1>5. CASE i.op = "amo" /\ AmoInstruction(i, g)
  BY <1>3, <1>5 DEF AmoInstruction, Writes
<1>6. CASE i.op = "ecall" /\ EcallInstruction(i, g)
  <2>1. CASE ~options.ecall_emulation
    BY <1>6, <2>1 DEF EcallInstruction, MemoryStep
  <2>2. CASE options.ecall_emulation
    <3>1. PICK s : s = [mem |-> mem, a0 |-> i.a0, brk |-> hart.brk,
                        fds |-> system.fds, openHandles |-> system.openHandles,
                        end |-> FALSE, written |-> NothingWritten]
      OBVIOUS
    <3>2. PICK r \in SystemCallEmulation(s, i, Top, PathMax) :
            /\ mem' = r.mem
            /\ IF r.written = NothingWritten THEN UNCHANGED access
               ELSE Writes("call", r.written.address, r.written.data)
      BY <1>6, <2>2, <3>1, Zenon DEF EcallInstruction
    <3>3. i \in Calls
      BY <1>6, InstructionFields
    <3>4. Written(mem, mem', r.written)
      BY <1>1, <3>1, <3>2, <3>3, CallWrites
    <3>5. CASE r.written = NothingWritten
      BY <3>2, <3>4, <3>5 DEF MemoryStep, Written, NothingWritten
    <3>6. CASE r.written # NothingWritten
      <4>1. access'.address = r.written.address /\ access'.data = r.written.data
        BY <3>2, <3>6 DEF Writes
      <4>2. QED
        BY <3>4, <4>1 DEF MemoryStep, Written
    <3>7. QED
      BY <3>5, <3>6
  <2>3. QED
    BY <2>1, <2>2
<1>7. CASE i.op = "error" /\ ErrorInstruction(i, g)
  BY <1>7 DEF ErrorInstruction, MemoryStep
<1>8. QED
  BY <1>2, <1>4, <1>5, <1>6, <1>7 DEF Instruction

\* The guest's position after an instruction.
LEMMA Advanced ==
  ASSUME guest \in GuestStates, NEW code \in Seq(GuestInstructions) \ {<< >>},
         NEW deadline \in Nat \cup {NoDeadline}
  PROVE  /\ Head(code) \in GuestInstructions
         /\ Advance(code, deadline) \in GuestStates
         /\ Advance(code, deadline).unnoticed = guest.unnoticed
         /\ Advance(code, deadline).orderly = guest.orderly
<1>1. Head(code) \in GuestInstructions /\ Tail(code) \in Seq(GuestInstructions)
  OBVIOUS
<1>2. QED
  BY <1>1 DEF Advance, GuestStates, NoDeadline

\* Whether the timer misses a write.
LEMMA NotedTyped ==
  ASSUME guest \in GuestStates, NEW by, NEW address, NEW width
  PROVE  /\ Noted(by, address, width).unnoticed \in BOOLEAN
         /\ Noted(by, address, width).unnoticed
              = IF TouchesTimerCmp(address, width)
                THEN by # "store" \/ address >= MemorySize ELSE guest.unnoticed
BY DEF Noted, GuestStates

\* What an instruction does to the guest's histories, the timer and run()'s
\* variables.
LEMMA InstructionFrame ==
  ASSUME TypeInv, NEW i \in GuestInstructions, NEW g \in GuestStates, Instruction(i, g)
  PROVE  /\ guest' \in GuestStates
         /\ timer' \in TimerStates
         /\ phase' = "devices" /\ UNCHANGED <<job, loading, options>>
<1>1. guest \in GuestStates /\ timer \in TimerStates
  BY DEF TypeInv
<1>2. CASE i.op = "load" /\ LoadInstruction(i, g)
  BY <1>1, <1>2 DEF LoadInstruction, NextInstruction
<1>3. CASE i.op = "store" /\ StoreInstruction(i, g)
  <2>1. PICK u \in BOOLEAN : u = Noted("store", i.address, i.width).unnoticed
    BY <1>1, NotedTyped
  <2>2. guest' = [g EXCEPT !.unnoticed = u]
    BY <1>3, <2>1 DEF StoreInstruction, NextInstruction
  <2>3. guest' \in GuestStates
    BY <2>2 DEF GuestStates
  <2>4. PICK w \in BOOLEAN : w <=> TimerCmpWritten(i.address, i.width)
    OBVIOUS
  <2>5. timer' = [timer EXCEPT !.timercmp_update = timer.timercmp_update \/ w]
    BY <1>3, <2>4 DEF StoreInstruction, CheckDeviceWrite
  <2>6. timer' \in TimerStates
    BY <1>1, <2>5 DEF TimerStates
  <2>7. QED
    BY <1>3, <2>3, <2>6 DEF StoreInstruction, NextInstruction
<1>4. CASE i.op = "amo" /\ AmoInstruction(i, g)
  <2>1. PICK u \in BOOLEAN : u = Noted("amo", i.address, i.width).unnoticed
    BY <1>1, NotedTyped
  <2>2. guest' = [g EXCEPT !.unnoticed = u]
    BY <1>4, <2>1 DEF AmoInstruction, NextInstruction
  <2>3. guest' \in GuestStates
    BY <2>2 DEF GuestStates
  <2>4. QED
    BY <1>1, <1>4, <2>3 DEF AmoInstruction, NextInstruction
<1>5. CASE i.op = "ecall" /\ EcallInstruction(i, g)
  <2>1. CASE ~options.ecall_emulation
    BY <1>1, <1>5, <2>1 DEF EcallInstruction, NextInstruction
  <2>2. CASE options.ecall_emulation
    <3>1. PICK r : NextInstruction([g EXCEPT
                     !.unnoticed = Noted("call", r.written.address,
                                         Len(r.written.data)).unnoticed,
                     !.orderly = g.orderly /\ ~Disorderly(i)])
      BY <1>5, <2>2, Zenon DEF EcallInstruction
    <3>2. PICK u \in BOOLEAN :
            u = Noted("call", r.written.address, Len(r.written.data)).unnoticed
      BY <1>1, NotedTyped
    <3>3. PICK o \in BOOLEAN : o = (g.orderly /\ ~Disorderly(i))
      OBVIOUS
    <3>4. guest' = [g EXCEPT !.unnoticed = u, !.orderly = o]
      BY <3>1, <3>2, <3>3 DEF NextInstruction
    <3>5. guest' \in GuestStates
      BY <3>4 DEF GuestStates
    <3>6. QED
      BY <1>1, <1>5, <3>1, <3>5 DEF EcallInstruction, NextInstruction
  <2>3. QED
    BY <2>1, <2>2
<1>6. CASE i.op = "error" /\ ErrorInstruction(i, g)
  BY <1>1, <1>6 DEF ErrorInstruction, NextInstruction
<1>7. QED
  BY <1>2, <1>3, <1>4, <1>5, <1>6 DEF Instruction

\* A piece of code goes on with an instruction that it contains.
LEMMA PieceStep ==
  ASSUME TypeInv, BeginPiece \/ ContinuePiece
  PROVE  \E i \in GuestInstructions, g \in GuestStates :
           /\ Instruction(i, g)
           /\ g.unnoticed = guest.unnoticed
           /\ g.orderly = guest.orderly
<1>1. guest \in GuestStates /\ job \in Jobs
  BY DEF TypeInv
<1>2. CASE BeginPiece
  <2>1. PICK piece \in job.pieces :
          Instruction(Head(piece.code),
                      [Advance(piece.code, piece.deadline) EXCEPT !.left = guest.left - 1])
    BY <1>2 DEF BeginPiece
  <2>2. job.pieces \in SUBSET Pieces
    BY <1>1, EmulatorAssumption
  <2>3. piece.code \in Seq(GuestInstructions) \ {<< >>} /\ piece.deadline \in Nat \cup {NoDeadline}
    BY <2>2 DEF Pieces
  <2>4. PICK a \in GuestStates :
          /\ a = Advance(piece.code, piece.deadline)
          /\ Head(piece.code) \in GuestInstructions
          /\ a.unnoticed = guest.unnoticed
          /\ a.orderly = guest.orderly
    BY <1>1, <2>3, Advanced
  <2>5. PICK left \in Int : left = guest.left - 1
    BY <1>1 DEF GuestStates
  <2>6. PICK g : g = [a EXCEPT !.left = left]
    OBVIOUS
  <2>7. g \in GuestStates /\ g.unnoticed = guest.unnoticed /\ g.orderly = guest.orderly
    BY <2>4, <2>6 DEF GuestStates
  <2>8. Instruction(Head(piece.code), g)
    BY <2>1, <2>4, <2>5, <2>6
  <2>9. QED
    BY <2>4, <2>7, <2>8, Zenon
<1>3. CASE ContinuePiece
  <2>1. /\ guest.todo \in Seq(GuestInstructions) \ {<< >>}
        /\ guest.setting \in Nat \cup {NoDeadline}
    BY <1>1, <1>3 DEF ContinuePiece, GuestStates
  <2>2. PICK a \in GuestStates :
          /\ a = Advance(guest.todo, guest.setting)
          /\ Head(guest.todo) \in GuestInstructions
          /\ a.unnoticed = guest.unnoticed
          /\ a.orderly = guest.orderly
    BY <1>1, <2>1, Advanced
  <2>3. Instruction(Head(guest.todo), a)
    BY <1>3, <2>2 DEF ContinuePiece
  <2>4. QED
    BY <2>2, <2>3, Zenon
<1>4. QED
  BY <1>2, <1>3

\* Every step writes what access says.
LEMMA StepWrites ==
  ASSUME TypeInv, [Next]_vars
  PROVE  MemoryStep
<1>1. CASE Setup
  BY <1>1, SetupWrites
<1>2. CASE BeginPiece \/ ContinuePiece
  BY <1>2, PieceStep, InstructionWrites
<1>3. CASE TimerTick
  BY <1>3 DEF TimerTick, MemoryStep
<1>4. CASE TakeTimerInterrupt
  BY <1>4 DEF TakeTimerInterrupt, MemoryStep
<1>5. CASE OtherInstruction
  BY <1>5 DEF OtherInstruction, MemoryStep
<1>6. CASE PeripheralEmulations
  BY <1>6 DEF PeripheralEmulations, MemoryStep
<1>7. CASE UNCHANGED vars
  BY <1>7 DEF vars, MemoryStep
<1>8. QED
  BY <1>1, <1>2, <1>3, <1>4, <1>5, <1>6, <1>7 DEF Next, Loop

\* A double word.
LEMMA DoubleRead ==
  ASSUME NEW m, WellFormed(m), NEW i \in Nat
  PROVE  Read64(m, i) \in Nat
<1>1. PICK low \in Nat, high \in Nat : low = Read32(m, i) /\ high = Read32(m, i + 4)
  BY WordRead
<1>2. PICK w \in Nat : w = Weight[4]
  BY Weights
<1>3. QED
  BY <1>1, <1>2 DEF Read64

\* The count goes on, and is compared with a number.
LEMMA TickTyped ==
  ASSUME timer \in TimerStates, WellFormed(mem)
  PROVE  /\ Ticked(timer, mem) \in TimerStates
         /\ Ticked(timer, mem).elapsed_cycles = (timer.elapsed_cycles + 1) % Weight[8]
         /\ Ticked(timer, mem).next_cycle =
              IF timer.timercmp_update THEN Read64(mem, kTimerCmp) ELSE timer.next_cycle
         /\ Ticked(timer, mem).timercmp_update = FALSE
         /\ Ticked(timer, mem).timer_interrupt =
              (timer.timer_interrupt
                 \/ Ticked(timer, mem).elapsed_cycles = Ticked(timer, mem).next_cycle)
<1>1. kTimerCmp \in Nat
  BY TimerAssumption, Sizes
<1>2. PICK old \in Nat : old = Read64(mem, kTimerCmp)
  BY <1>1, DoubleRead
<1>3. PICK w \in Nat \ {0} : w = Weight[8]
  BY Weights
<1>4. PICK e \in Nat : e = (timer.elapsed_cycles + 1) % Weight[8]
  BY <1>3 DEF TimerStates
<1>5. PICK n \in Nat : n = IF timer.timercmp_update THEN Read64(mem, kTimerCmp)
                           ELSE timer.next_cycle
  BY <1>2 DEF TimerStates
<1>6. PICK b \in BOOLEAN : b = (timer.timer_interrupt \/ e = n)
  OBVIOUS
<1>7. Ticked(timer, mem) = [elapsed_cycles |-> e, next_cycle |-> n,
                            timercmp_update |-> FALSE, timer_interrupt |-> b]
  BY <1>4, <1>5, <1>6 DEF Ticked
<1>8. QED
  BY <1>4, <1>5, <1>6, <1>7 DEF TimerStates

\* What the program started with has the types.
LEMMA InitTyped == Init => TypeInv
<1>1. SUFFICES ASSUME Init PROVE TypeInv
  OBVIOUS
<1>2. job.limit \in Nat
  BY <1>1, EmulatorAssumption DEF Init
<1>3. timer \in TimerStates
  BY <1>1 DEF Init, TimerInit, TimerStates
<1>4. guest \in GuestStates
  BY <1>1, <1>2 DEF Init, GuestStates, NoDeadline
<1>5. QED
  BY <1>1, <1>3, <1>4, Constructed DEF Init, TypeInv, FileKnown

\* Every step keeps the types.
LEMMA StepTyped == TypeInv /\ [Next]_vars => TypeInv'
<1>1. SUFFICES ASSUME TypeInv, [Next]_vars PROVE TypeInv'
  OBVIOUS
<1>2. WellFormed(mem)'
  <2>1. MemoryStep
    BY <1>1, StepWrites
  <2>2. QED
    BY <1>1, <2>1 DEF MemoryStep, Written, Puts, TypeInv
<1>3. /\ job \in Jobs /\ loading \in Nat \ {0} /\ FileKnown
      /\ WellFormed(mem) /\ timer \in TimerStates /\ guest \in GuestStates
  BY <1>1 DEF TypeInv
<1>4. ASSUME UNCHANGED <<job, timer, guest>>, loading' \in Nat \ {0}, FileKnown'
      PROVE  TypeInv'
  BY <1>2, <1>3, <1>4 DEF TypeInv
<1>5. CASE ReadProgram
  <2>1. FileKnown'
    BY <1>5 DEF ReadProgram, FileKnown, CanReadFile
  <2>2. QED
    BY <1>3, <1>4, <1>5, <2>1 DEF ReadProgram, loopVars
<1>6. CASE LoadSegment
  BY <1>3, <1>4, <1>6 DEF LoadSegment, loopVars, FileKnown
<1>7. CASE SetUpBss
  BY <1>3, <1>4, <1>7 DEF SetUpBss, loopVars, FileKnown
<1>8. CASE FindSymbols
  BY <1>3, <1>4, <1>8 DEF FindSymbols, FileKnown
<1>9. CASE SymbolsFail
  BY <1>3, <1>4, <1>9 DEF SymbolsFail, loopVars, FileKnown
<1>10. CASE SetDefaultMmuTable
  BY <1>3, <1>4, <1>10 DEF SetDefaultMmuTable, FileKnown
<1>11. CASE UartInit
  BY <1>3, <1>4, <1>11 DEF UartInit, loopVars, FileKnown
<1>12. CASE VirtioInit
  BY <1>3, <1>4, <1>12 DEF VirtioInit, loopVars, FileKnown
<1>13. CASE StartLoop
  <2>1. PICK v \in Nat : v = Read64(mem, kTimerCmp)
    BY <1>3, TimerAssumption, Sizes, DoubleRead
  <2>2. guest' = [guest EXCEPT !.deadlines = {v}]
    BY <1>13, <2>1 DEF StartLoop
  <2>3. guest' \in GuestStates
    BY <1>3, <2>2 DEF GuestStates
  <2>4. FileKnown' /\ UNCHANGED <<job, loading, timer>>
    BY <1>3, <1>13 DEF StartLoop, FileKnown
  <2>5. QED
    BY <1>2, <1>3, <2>3, <2>4 DEF TypeInv
<1>14. CASE TimerTick
  <2>1. PICK t \in TimerStates : t = Ticked(timer, mem)
    BY <1>3, TickTyped
  <2>2. timer' = [t EXCEPT !.timer_interrupt = FALSE]
    BY <1>14, <2>1 DEF TimerTick
  <2>3. timer' \in TimerStates
    BY <2>2 DEF TimerStates
  <2>4. FileKnown' /\ UNCHANGED <<job, loading, guest>>
    BY <1>3, <1>14 DEF TimerTick, FileKnown
  <2>5. QED
    BY <1>2, <1>3, <2>3, <2>4 DEF TypeInv
<1>15. CASE TakeTimerInterrupt
  BY <1>3, <1>4, <1>15 DEF TakeTimerInterrupt, FileKnown
<1>16. CASE BeginPiece \/ ContinuePiece
  <2>1. /\ guest' \in GuestStates
        /\ timer' \in TimerStates
        /\ phase' = "devices" /\ UNCHANGED <<job, loading, options>>
    BY <1>1, <1>16, PieceStep, InstructionFrame
  <2>2. phase = "execute"
    BY <1>16 DEF BeginPiece, ContinuePiece
  <2>3. QED
    BY <1>2, <1>3, <2>1, <2>2 DEF TypeInv, FileKnown
<1>17. CASE OtherInstruction
  <2>1. UNCHANGED <<job, loading, options, timer, guest>> /\ phase = "execute"
    BY <1>17 DEF OtherInstruction, NextInstruction
  <2>2. QED
    BY <1>3, <1>4, <2>1 DEF FileKnown
<1>18. CASE PeripheralEmulations
  BY <1>3, <1>4, <1>18 DEF PeripheralEmulations, FileKnown
<1>19. CASE UNCHANGED vars
  BY <1>3, <1>4, <1>19 DEF vars, loopVars, FileKnown
<1>20. QED
  BY <1>1, <1>5, <1>6, <1>7, <1>8, <1>9, <1>10, <1>11, <1>12, <1>13, <1>14, <1>15,
     <1>16, <1>17, <1>18, <1>19 DEF Next, Setup, Loop

\* The types of the emulator's state: whatever the files, the command line and
\* the guest, the loader works on a file that exists and memory_ stays a table
\* of vectors of words.
THEOREM TypesHold == Spec => []TypeInv
BY InitTyped, StepTyped, PTL DEF Spec

-----------------------------------------------------------------------------
(* The memory is flat.                                                     *)

\* A set of numbers up to n has a greatest.
LEMMA Greatest ==
  ASSUME NEW n \in Nat, NEW T \in SUBSET (1 .. n), T # {}
  PROVE  \E x \in T : \A y \in T : y <= x
<1> DEFINE D == {n - x : x \in T}
<1>1. D \in SUBSET Nat /\ D # {}
  <2>1. \A x \in T : x \in 1 .. n
    OBVIOUS
  <2>2. \A x \in T : n - x \in Nat
    BY <2>1
  <2>3. PICK x : x \in T
    OBVIOUS
  <2>4. n - x \in D
    BY <2>3
  <2>5. QED
    BY <2>2, <2>4
<1>2. PICK d \in D : \A e \in D : d <= e
  BY <1>1, Least
<1>3. PICK x \in T : d = n - x
  OBVIOUS
<1>4. ASSUME NEW y \in T
      PROVE  y <= x
  <2>1. n - y \in D
    OBVIOUS
  <2>2. n - x <= n - y
    BY <1>2, <1>3, <2>1
  <2>3. x \in Nat /\ y \in Nat
    OBVIOUS
  <2>4. QED
    BY <2>2, <2>3
<1>5. QED
  BY <1>4

\* The places of some bytes of data at address that are for a.
Hits(address, n, a) == {k \in 1 .. n : (address + k - 1) % MemorySize = a}

\* The greatest of some numbers up to n.
LEMMA LatestIs ==
  ASSUME NEW n \in Nat, NEW S \in SUBSET (1 .. n), S # {}
  PROVE  Latest(S) \in S /\ \A k \in S : k <= Latest(S)
<1>1. \E x \in S : \A y \in S : y <= x
  BY Greatest
<1>2. QED
  BY <1>1 DEF Latest

\* What a place holds after a write.
LEMMA PutsPlace ==
  ASSUME NEW m, NEW o, NEW i \in Nat, NEW data, NEW n \in Nat, Puts(m, o, i, data, n),
         NEW a \in 0 .. MemorySize - 1
  PROVE  /\ Hits(i, n, a) = {} => ReadByte(o, a) = ReadByte(m, a)
         /\ Hits(i, n, a) # {} => ReadByte(o, a) = data[Latest(Hits(i, n, a))]
<1>1. PICK size \in Nat \ {0} : size = MemorySize
  BY Sizes
<1>2. a \in Nat /\ a % size = a
  BY <1>1
<1>3. PICK here : here = Hits(i, n, a)
  OBVIOUS
<1>4. here = {k \in 1 .. n : (i + k - 1) % size = a}
  BY <1>1, <1>3 DEF Hits
<1>5. /\ (\A k \in 1 .. n : (i + k - 1) % size # a) => ReadByte(o, a) = ReadByte(m, a)
      /\ \A k \in 1 .. n :
           /\ (i + k - 1) % size = a
           /\ \A j \in k + 1 .. n : (i + j - 1) % size # a
           => ReadByte(o, a) = data[k]
  BY <1>1, <1>2 DEF Puts
<1>6. CASE here = {}
  BY <1>3, <1>4, <1>5, <1>6
<1>7. CASE here # {}
  <2>1. PICK k : k = Latest(here)
    OBVIOUS
  <2>2. k \in here /\ \A j \in here : j <= k
    BY <1>4, <1>7, <2>1, LatestIs
  <2>3. k \in 1 .. n /\ (i + k - 1) % size = a
    BY <1>4, <2>2
  <2>4. \A j \in k + 1 .. n : (i + j - 1) % size # a
    <3>1. SUFFICES ASSUME NEW j \in k + 1 .. n, (i + j - 1) % size = a PROVE FALSE
      OBVIOUS
    <3>2. k \in Nat /\ j \in Nat /\ k < j /\ j \in 1 .. n
      BY <2>3
    <3>3. j \in here
      BY <1>4, <3>1, <3>2
    <3>4. j <= k
      BY <2>2, <3>3
    <3>5. QED
      BY <3>2, <3>4
  <2>5. ReadByte(o, a) = data[k]
    BY <1>5, <2>3, <2>4
  <2>6. QED
    BY <1>3, <1>7, <2>1, <2>5
<1>8. QED
  BY <1>6, <1>7

\* A write of the memory is one of the flat memory.
LEMMA FlatWrite ==
  ASSUME Written(mem, mem', access')
  PROVE  Flat!Write
<1>1. PICK address \in Nat, data \in Seq(Byte) :
        address = access'.address /\ data = access'.data
  BY DEF Written
<1>2. Puts(mem, mem', address, data, Len(data))
  BY <1>1 DEF Written
<1>3. PICK size \in Nat \ {0} : size = MemorySize
  BY Sizes
<1>4. ASSUME NEW a \in 0 .. size - 1
      PROVE  ReadByte(mem', a) =
               LET here == {k \in 1 .. Len(data) : (address + k - 1) % size = a}
               IN  IF here = {} THEN ReadByte(mem, a)
                   ELSE data[CHOOSE k \in here : \A j \in here : j <= k]
  <2>1. Len(data) \in Nat
    OBVIOUS
  <2>2. PICK here : here = Hits(address, Len(data), a)
    OBVIOUS
  <2>3. ReadByte(mem', a) = IF here = {} THEN ReadByte(mem, a) ELSE data[Latest(here)]
    <3>1. a \in 0 .. MemorySize - 1
      BY <1>3
    <3>2. PICK m, o, n : m = mem /\ o = mem' /\ n = Len(data)
      OBVIOUS
    <3>3. Puts(m, o, address, data, n) /\ n \in Nat
      BY <1>2, <2>1, <3>2
    <3>4. Hits(address, n, a) = {} => ReadByte(o, a) = ReadByte(m, a)
      BY <3>1, <3>3, PutsPlace
    <3>5. Hits(address, n, a) # {} => ReadByte(o, a) = data[Latest(Hits(address, n, a))]
      BY <3>1, <3>3, PutsPlace
    <3>6. QED
      BY <2>2, <3>2, <3>4, <3>5
  <2>4. here = {k \in 1 .. Len(data) : (address + k - 1) % size = a}
    BY <1>3, <2>2 DEF Hits
  <2>5. QED
    BY <2>3, <2>4 DEF Latest
<1>5. PICK old : old = [a \in 0 .. size - 1 |-> ReadByte(mem, a)]
  OBVIOUS
<1>6. PICK new : new = [a \in 0 .. size - 1 |-> ReadByte(mem', a)]
  OBVIOUS
<1>7. Flat!Overwritten(address, data) =
        [a \in 0 .. size - 1 |->
           LET here == {k \in 1 .. Len(data) : (address + k - 1) % size = a}
           IN  IF here = {} THEN old[a]
               ELSE data[CHOOSE k \in here : \A j \in here : j <= k]]
  BY <1>3, <1>5 DEF Flat!Overwritten, Flat!Address, Flat!Place
<1>8. new = Flat!Overwritten(address, data)
  BY <1>4, <1>5, <1>6, <1>7
<1>9. QED
  BY <1>1, <1>3, <1>6, <1>8 DEF Flat!Write

\* The wrapper is a flat memory of bytes, for every size of its entries and
\* their number, every program and every guest.
THEOREM ImplementsFlatMemory == Spec => IsFlatMemory
<1>1. Init => Flat!Init
  <2>1. \A a \in 0 .. (MemorySize - 1) : a \in Nat
    BY Sizes
  <2>2. Init => \A a \in 0 .. (MemorySize - 1) : ReadByte(mem, a) = 0
    BY <2>1, Constructed DEF Init
  <2>3. QED
    BY <2>2 DEF Init, Nobody, Flat!Init, Flat!Address
<1>2. TypeInv /\ [Next]_vars => [Flat!Write]_<<[a \in 0 .. (MemorySize - 1) |-> ReadByte(mem, a)], access>>
  <2>1. SUFFICES ASSUME TypeInv, [Next]_vars
                 PROVE  \/ Flat!Write
                        \/ UNCHANGED <<[a \in 0 .. (MemorySize - 1) |-> ReadByte(mem, a)], access>>
    OBVIOUS
  <2>2. CASE UNCHANGED <<mem, access>>
    BY <2>2
  <2>3. CASE UNCHANGED access /\ Puts(mem, mem', 0, << >>, 0)
    <3>1. \A a \in Nat : ReadByte(mem', a) = ReadByte(mem, a)
      BY <2>3 DEF Puts
    <3>2. \A a \in 0 .. (MemorySize - 1) : ReadByte(mem', a) = ReadByte(mem, a)
      BY <3>1, Sizes
    <3>3. QED
      BY <2>3, <3>2
  <2>4. CASE Written(mem, mem', access')
    BY <2>4, FlatWrite
  <2>5. QED
    BY <2>1, <2>2, <2>3, <2>4, StepWrites DEF MemoryStep
<1>3. QED
  BY <1>1, <1>2, TypesHold, PTL DEF Spec, IsFlatMemory, Flat!Spec

-----------------------------------------------------------------------------
(* The count of open files.                                                *)

\* What a call does to the descriptors and the count: nothing, a close that is
\* carried out, or an open that succeeds.
Closed(s, c, r) ==
  /\ c.a7 = 57 /\ s.openHandles > 0
  /\ r.fds = [fd \in DOMAIN s.fds \ {c.a0} |-> s.fds[fd]]
  /\ r.openHandles = s.openHandles - 1

OpenedOne(s, r) ==
  \E fd, mode :
    /\ fd \notin DOMAIN s.fds /\ mode \in {"r", "rw"}
    /\ r.fds = [f \in DOMAIN s.fds \cup {fd} |-> IF f = fd THEN mode ELSE s.fds[f]]
    /\ r.openHandles = s.openHandles + 1

LEMMA CallCounts ==
  ASSUME NEW m, NEW a0, NEW brk, NEW fds, NEW handles, NEW s,
         s = [mem |-> m, a0 |-> a0, brk |-> brk, fds |-> fds, openHandles |-> handles,
              end |-> FALSE, written |-> NothingWritten],
         NEW c, NEW top, NEW max,
         NEW r \in SystemCallEmulation(s, c, top, max)
  PROVE  \/ r.fds = s.fds /\ r.openHandles = s.openHandles
         \/ Closed(s, c, r)
         \/ OpenedOne(s, r)
<1>1. CASE r \in ExitCall(s, c)
  BY <1>1 DEF ExitCall
<1>2. CASE r \in WriteCall(s, c)
  BY <1>2 DEF WriteCall
<1>3. CASE r \in BrkCall(s, c, top)
  BY <1>3 DEF BrkCall
<1>4. CASE r \in ReadCall(s, c)
  <2>1. PICK N : N = HostTransfer(s.fds, {"stream", "r", "rw"}, c.a0, c.a2)
    OBVIOUS
  <2>2. PICK n \in N :
          r \in {Received(s, c, n, buffer) : buffer \in [1 .. c.a2 -> Byte]}
    BY <1>4, <2>1 DEF ReadCall
  <2>3. PICK buffer \in [1 .. c.a2 -> Byte] : r = Received(s, c, n, buffer)
    BY <2>2, Zenon
  <2>4. QED
    BY <2>3 DEF Received
<1>5. CASE r \in FstatCall(s, c)
  BY <1>5 DEF FstatCall
<1>6. CASE c.a7 = 57 /\ r \in CloseCall(s, c)
  BY <1>6 DEF CloseCall, Closed
<1>7. CASE r \in OpenCall(s, c, max)
  <2>1. \/ r = [s EXCEPT !.a0 = Failed]
        \/ \E fd \in HostOpen(s.fds) : r = Opened(s, c, fd)
    BY <1>7, Zenon DEF OpenCall
  <2>2. CASE r = [s EXCEPT !.a0 = Failed]
    BY <2>2
  <2>3. CASE \E fd \in HostOpen(s.fds) : r = Opened(s, c, fd)
    <3>1. PICK fd \in HostOpen(s.fds) : r = Opened(s, c, fd)
      BY <2>3
    <3>2. CASE fd = Failed
      BY <3>1, <3>2 DEF Opened
    <3>3. CASE fd # Failed
      <4>1. fd \notin DOMAIN s.fds
        BY <3>3 DEF HostOpen
      <4>2. PICK mode : mode = OpenMode(c.a1)
        OBVIOUS
      <4>3. mode \in {"r", "rw"}
        BY <4>2, Zenon DEF OpenMode
      <4>4. /\ r.fds = [f \in DOMAIN s.fds \cup {fd} |-> IF f = fd THEN mode ELSE s.fds[f]]
            /\ r.openHandles = s.openHandles + 1
        BY <3>1, <3>3, <4>2 DEF Opened
      <4>5. QED
        BY <4>1, <4>3, <4>4, Zenon DEF OpenedOne
    <3>4. QED
      BY <3>2, <3>3
  <2>4. QED
    BY <2>1, <2>2, <2>3
<1>8. CASE r \in LseekCall(s, c)
  BY <1>8 DEF LseekCall
<1>9. QED
  BY <1>1, <1>2, <1>3, <1>4, <1>5, <1>6, <1>7, <1>8, CallCases

\* The host's descriptors are finitely many.
HandleInv ==
  /\ IsFiniteSet(DOMAIN system.fds)
  /\ HandlesCounted

\* Whether a step counts as it should, apart from the history.
Counts(fds, handles, orderly) ==
  /\ IsFiniteSet(DOMAIN fds)
  /\ handles \in 0 .. Cardinality(FilesOf(fds))
  /\ orderly => /\ handles = Cardinality(FilesOf(fds))
                /\ Streams \subseteq DOMAIN fds \ FilesOf(fds)

LEMMA CountsIsInv == HandleInv <=> Counts(system.fds, system.openHandles, guest.orderly)
BY DEF HandleInv, HandlesCounted, Counts

\* A close takes a file and its count, or is disorderly.
LEMMA CloseCounts ==
  ASSUME NEW s, NEW c, NEW r, NEW orderly \in BOOLEAN,
         Counts(s.fds, s.openHandles, orderly), Closed(s, c, r)
  PROVE  Counts(r.fds, r.openHandles,
                orderly /\ ~(s.openHandles > 0 /\ c.a0 \notin FilesOf(s.fds)))
<1> DEFINE old == FilesOf(s.fds)
           new == FilesOf(r.fds)
<1>1. IsFiniteSet(DOMAIN s.fds) /\ old \subseteq DOMAIN s.fds
  BY DEF Counts, FilesOf
<1>2. IsFiniteSet(old)
  BY <1>1, FS_Subset
<1>3. DOMAIN r.fds = DOMAIN s.fds \ {c.a0} /\ \A fd \in DOMAIN r.fds : r.fds[fd] = s.fds[fd]
  BY DEF Closed
<1>4. IsFiniteSet(DOMAIN r.fds)
  BY <1>1, <1>3, FS_Subset
<1>5. new = old \ {c.a0}
  BY <1>3 DEF FilesOf
<1>6. /\ Cardinality(old) \in Nat /\ s.openHandles \in 0 .. Cardinality(old)
      /\ s.openHandles > 0 /\ r.openHandles = s.openHandles - 1
  BY <1>2, FS_CardinalityType DEF Counts, Closed
<1>7. CASE c.a0 \in old
  <2>1. Cardinality(new) = Cardinality(old) - 1
    BY <1>2, <1>5, <1>7, FS_RemoveElement
  <2>2. r.openHandles \in 0 .. Cardinality(new)
    BY <1>6, <2>1
  <2>3. ASSUME orderly
        PROVE  /\ r.openHandles = Cardinality(new)
               /\ Streams \subseteq DOMAIN r.fds \ new
    <3>1. s.openHandles = Cardinality(old) /\ Streams \subseteq DOMAIN s.fds \ old
      BY <2>3 DEF Counts
    <3>2. QED
      BY <1>3, <1>5, <1>6, <1>7, <2>1, <3>1
  <2>4. QED
    BY <1>4, <2>2, <2>3 DEF Counts
<1>8. CASE c.a0 \notin old
  <2>1. new = old
    BY <1>5, <1>8
  <2>2. r.openHandles \in 0 .. Cardinality(new)
    BY <1>6, <2>1
  <2>3. QED
    BY <1>4, <1>6, <1>8, <2>2 DEF Counts
<1>9. QED
  BY <1>7, <1>8

\* An open adds a file and its count.
LEMMA OpenCounts ==
  ASSUME NEW s, NEW r, NEW orderly \in BOOLEAN,
         Counts(s.fds, s.openHandles, orderly), OpenedOne(s, r)
  PROVE  Counts(r.fds, r.openHandles, orderly)
<1> DEFINE old == FilesOf(s.fds)
           new == FilesOf(r.fds)
<1>1. IsFiniteSet(DOMAIN s.fds) /\ old \subseteq DOMAIN s.fds
  BY DEF Counts, FilesOf
<1>2. IsFiniteSet(old)
  BY <1>1, FS_Subset
<1>3. PICK fd, mode :
        /\ fd \notin DOMAIN s.fds /\ mode \in {"r", "rw"}
        /\ r.fds = [f \in DOMAIN s.fds \cup {fd} |-> IF f = fd THEN mode ELSE s.fds[f]]
        /\ r.openHandles = s.openHandles + 1
  BY DEF OpenedOne
<1>4. DOMAIN r.fds = DOMAIN s.fds \cup {fd}
  BY <1>3
<1>5. IsFiniteSet(DOMAIN r.fds)
  BY <1>1, <1>4, FS_AddElement
<1>6. mode # "stream"
  BY <1>3
<1>7. new = old \cup {fd}
  BY <1>3, <1>6 DEF FilesOf
<1>8. fd \notin old
  BY <1>1, <1>3
<1>9. Cardinality(new) = Cardinality(old) + 1
  BY <1>2, <1>7, <1>8, FS_AddElement
<1>10. Cardinality(old) \in Nat /\ s.openHandles \in 0 .. Cardinality(old)
  BY <1>2, FS_CardinalityType DEF Counts
<1>11. r.openHandles \in 0 .. Cardinality(new)
  BY <1>3, <1>9, <1>10
<1>12. ASSUME orderly
       PROVE  /\ r.openHandles = Cardinality(new)
              /\ Streams \subseteq DOMAIN r.fds \ new
  <2>1. s.openHandles = Cardinality(old) /\ Streams \subseteq DOMAIN s.fds \ old
    BY <1>12 DEF Counts
  <2>2. QED
    BY <1>3, <1>4, <1>7, <1>8, <1>9, <1>10, <2>1
<1>13. QED
  BY <1>5, <1>11, <1>12 DEF Counts

\* Every step keeps the count.
LEMMA StepCounts == TypeInv /\ HandleInv /\ [Next]_vars => HandleInv'
<1>1. SUFFICES ASSUME TypeInv, HandleInv, [Next]_vars PROVE HandleInv'
  OBVIOUS
<1>2. guest \in GuestStates /\ guest.orderly \in BOOLEAN
  BY <1>1 DEF TypeInv, GuestStates
<1>3. ASSUME UNCHANGED system, guest'.orderly = guest.orderly
      PROVE  HandleInv'
  BY <1>1, <1>3 DEF HandleInv, HandlesCounted
<1>4. CASE Setup
  <2>1. UNCHANGED system
    BY <1>4 DEF Setup, ReadProgram, LoadSegment, SetUpBss, FindSymbols, SymbolsFail,
                SetDefaultMmuTable, UartInit, VirtioInit, StartLoop, loopVars
  <2>2. CASE StartLoop
    BY <1>2, <1>3, <2>1, <2>2 DEF StartLoop, GuestStates
  <2>3. CASE ~StartLoop
    <3>1. UNCHANGED guest
      BY <1>4, <2>3 DEF Setup, ReadProgram, LoadSegment, SetUpBss, FindSymbols,
                        SymbolsFail, SetDefaultMmuTable, UartInit, VirtioInit, loopVars
    <3>2. QED
      BY <1>3, <2>1, <3>1
  <2>4. QED
    BY <2>2, <2>3
<1>5. CASE TimerTick \/ TakeTimerInterrupt \/ OtherInstruction \/ PeripheralEmulations
  BY <1>3, <1>5 DEF TimerTick, TakeTimerInterrupt, OtherInstruction,
                    PeripheralEmulations, NextInstruction
<1>6. CASE BeginPiece \/ ContinuePiece
  <2>1. PICK i \in GuestInstructions, g \in GuestStates :
          Instruction(i, g) /\ g.orderly = guest.orderly
    BY <1>1, <1>6, PieceStep
  <2>2. CASE i.op = "ecall" /\ EcallInstruction(i, g) /\ options.ecall_emulation
    <3>1. PICK s : s = [mem |-> mem, a0 |-> i.a0, brk |-> hart.brk,
                        fds |-> system.fds, openHandles |-> system.openHandles,
                        end |-> FALSE, written |-> NothingWritten]
      OBVIOUS
    <3>2. PICK r \in SystemCallEmulation(s, i, Top, PathMax) :
            /\ system' = [fds |-> r.fds, openHandles |-> r.openHandles]
            /\ NextInstruction([g EXCEPT
                     !.unnoticed = Noted("call", r.written.address,
                                         Len(r.written.data)).unnoticed,
                     !.orderly = g.orderly /\ ~Disorderly(i)])
      BY <2>2, <3>1, Zenon DEF EcallInstruction
    <3>3. guest'.orderly = (guest.orderly /\ ~Disorderly(i))
      BY <2>1, <3>2 DEF NextInstruction, GuestStates
    <3>4. /\ s.fds = system.fds /\ s.openHandles = system.openHandles
          /\ system'.fds = r.fds /\ system'.openHandles = r.openHandles
      BY <3>1, <3>2
    <3>5. Counts(s.fds, s.openHandles, guest.orderly)
      BY <1>1, <3>4, CountsIsInv
    <3>6. PICK o \in BOOLEAN : o = (guest.orderly /\ ~Disorderly(i))
      OBVIOUS
    <3>7. Counts(r.fds, r.openHandles, o)
      <4>1. CASE r.fds = s.fds /\ r.openHandles = s.openHandles
        BY <3>5, <3>6, <4>1 DEF Counts
      <4>2. CASE Closed(s, i, r)
        <5>1. Counts(r.fds, r.openHandles,
                     guest.orderly /\ ~(s.openHandles > 0 /\ i.a0 \notin FilesOf(s.fds)))
          BY <1>2, <3>5, <4>2, CloseCounts
        <5>2. Disorderly(i) <=> s.openHandles > 0 /\ i.a0 \notin FilesOf(s.fds)
          BY <3>4, <4>2 DEF Disorderly, Closed
        <5>3. QED
          BY <3>6, <5>1, <5>2 DEF Counts
      <4>3. CASE OpenedOne(s, r)
        <5>1. Counts(r.fds, r.openHandles, guest.orderly)
          BY <1>2, <3>5, <4>3, OpenCounts
        <5>2. QED
          BY <3>6, <5>1 DEF Counts
      <4>4. QED
        BY <3>1, <4>1, <4>2, <4>3, CallCounts
    <3>8. QED
      BY <3>3, <3>4, <3>6, <3>7 DEF HandleInv, HandlesCounted, Counts
  <2>3. CASE ~(i.op = "ecall" /\ EcallInstruction(i, g) /\ options.ecall_emulation)
    <3>1. UNCHANGED system
      BY <2>1, <2>3 DEF Instruction, LoadInstruction, StoreInstruction, AmoInstruction,
                        EcallInstruction, ErrorInstruction
    <3>2. guest'.orderly = g.orderly
      BY <2>1, <2>3 DEF Instruction, LoadInstruction, StoreInstruction, AmoInstruction,
           EcallInstruction, ErrorInstruction, NextInstruction, GuestStates
    <3>3. QED
      BY <1>3, <2>1, <3>1, <3>2
  <2>4. QED
    BY <2>2, <2>3
<1>7. CASE UNCHANGED vars
  BY <1>3, <1>7 DEF vars, loopVars
<1>8. QED
  BY <1>1, <1>4, <1>5, <1>6, <1>7 DEF Next, Loop

\* The count that close consults is that of the guest's open files, for every
\* program, host and sequence of calls.
THEOREM HandlesCountedHolds == Spec => []HandlesCounted
<1>1. Init => HandleInv
  <2>1. SUFFICES ASSUME Init PROVE HandleInv
    OBVIOUS
  <2>2. DOMAIN system.fds = Streams /\ FilesOf(system.fds) = {} /\ system.openHandles = 0
    BY <2>1 DEF Init, FilesOf
  <2>3. IsFiniteSet(Streams)
    <3>1. PICK a \in Int, b \in Int : a = 0 /\ b = 2
      OBVIOUS
    <3>2. IsFiniteSet(a .. b)
      BY FS_Interval
    <3>3. Streams = a .. b
      BY <3>1, Zenon DEF Streams
    <3>4. QED
      BY <3>2, <3>3
  <2>4. Cardinality(FilesOf(system.fds)) = 0
    BY <2>2, FS_EmptySet
  <2>5. QED
    BY <2>2, <2>3, <2>4 DEF HandleInv, HandlesCounted
<1>2. HandleInv => HandlesCounted
  BY DEF HandleInv
<1>3. QED
  BY <1>1, <1>2, StepCounts, TypesHold, PTL DEF Spec

-----------------------------------------------------------------------------
(* The timer.                                                              *)

HartFields == {"entry", "gp", "sp", "satp", "a0", "brk", "mtip", "error", "end"}

SetupPhases == {"start", "segments", "symbols", "tables", "uart", "virtio", "run"}

\* next_cycle_ is what mtimecmp holds in memory, unless it is about to be read
\* again or the timer was not told of a write.
CmpCurrent ==
  ~timer.timercmp_update /\ ~guest.unnoticed => timer.next_cycle = Read64(mem, kTimerCmp)

TimerInv ==
  /\ DOMAIN hart = HartFields /\ hart.mtip \in BOOLEAN
  /\ timer.timer_interrupt = FALSE
  /\ phase \in SetupPhases => timer.timercmp_update
  /\ CmpCurrent

LEMMA TimerPlaces ==
  /\ kTimerCmp \in Nat /\ kTimerCmp % 8 = 0 /\ kTimerCmp >= 8
  /\ kTimerMtime \in Nat /\ kTimerMtime % 8 = 0
  /\ kTimerMtime + 7 < MemorySize /\ kTimerCmp + 7 < MemorySize
  /\ kTimerMtime + 8 <= kTimerCmp \/ kTimerCmp + 8 <= kTimerMtime
<1>1. PICK s \in Nat : s = MemorySize
  BY Sizes
<1>2. PICK c \in Nat, t \in Nat : c = kTimerCmp /\ t = kTimerMtime /\ c % 8 = 0 /\ t % 8 = 0
        /\ c # 0 /\ c # t /\ c <= s - 8 /\ t <= s - 8
  <2>1. kTimerCmp \in Nat /\ kTimerMtime \in Nat
    BY <1>1, TimerAssumption
  <2>2. QED
    BY <1>1, <2>1, TimerAssumption
<1>3. c >= 8 /\ (t + 8 <= c \/ c + 8 <= t)
  BY <1>2
<1>4. QED
  BY <1>1, <1>2, <1>3

\* A write elsewhere leaves mtimecmp as it is.
LEMMA Untouched ==
  ASSUME NEW m, WellFormed(m), NEW n, NEW w, Written(m, n, w),
         ~TouchesTimerCmp(w.address, Len(w.data))
  PROVE  Read64(n, kTimerCmp) = Read64(m, kTimerCmp)
<1>1. PICK i \in Nat, data \in Seq(Byte) : i = w.address /\ data = w.data
  BY DEF Written
<1>2. WellFormed(n) /\ Puts(m, n, i, data, Len(data)) /\ Len(data) \in Nat
  BY <1>1 DEF Written, Puts
<1>3. kTimerCmp \in Nat /\ kTimerCmp % 8 = 0 /\ kTimerCmp + 7 < MemorySize
      /\ MemorySize \in Nat \ {0}
  BY TimerPlaces, Sizes
<1>4. ASSUME NEW j \in 0 .. 7
      PROVE  ReadByte(n, kTimerCmp + j) = ReadByte(m, kTimerCmp + j)
  <2>1. PICK a \in Nat : a = kTimerCmp + j /\ a % MemorySize = a
    BY <1>3
  <2>2. ASSUME NEW k \in 1 .. Len(data)
        PROVE  (i + k - 1) % MemorySize # a % MemorySize
    <3>1. k - 1 \in 0 .. (Len(data) - 1) /\ i + (k - 1) = i + k - 1
      BY <1>2
    <3>2. (i + (k - 1)) % MemorySize \notin kTimerCmp .. (kTimerCmp + 7)
      BY <1>1, <3>1 DEF TouchesTimerCmp
    <3>3. a \in kTimerCmp .. (kTimerCmp + 7)
      BY <1>3, <2>1
    <3>4. QED
      BY <2>1, <3>1, <3>2, <3>3
  <2>3. QED
    BY <1>2, <2>1, <2>2 DEF Puts
<1>5. QED
  BY <1>2, <1>3, <1>4, DoubleKept

\* CheckDeviceWrite finds every store to mtimecmp below 4 GiB.
LEMMA StoreNoticed ==
  ASSUME NEW address \in Nat, address < MemorySize, NEW width \in {1, 2, 4, 8},
         TouchesTimerCmp(address, width)
  PROVE  TimerCmpWritten(address, width)
<1>1. PICK s \in Nat \ {0}, c \in Nat : s = MemorySize /\ c = kTimerCmp /\ c >= 8 /\ c + 7 < s
  BY Sizes, TimerPlaces
<1>2. PICK k \in 0 .. (width - 1) : (address + k) % s \in c .. (c + 7)
  BY <1>1 DEF TouchesTimerCmp
<1>3. address + k < s
  <2>1. SUFFICES ASSUME address + k >= s PROVE FALSE
    BY <1>1
  <2>2. address + k - s \in 0 .. 6
    BY <1>1, <2>1
  <2>3. (address + k) % s = address + k - s
    BY <1>1, <2>2
  <2>4. QED
    BY <1>1, <1>2, <2>2, <2>3
<1>4. (address + k) % s = address + k
  BY <1>3
<1>5. QED
  BY <1>1, <1>2, <1>4 DEF TimerCmpWritten

\* A store that does not touch mtimecmp.
LEMMA StoreUntouched ==
  ASSUME NEW m, WellFormed(m), NEW address \in Nat, NEW data \in Nat,
         NEW width \in {1, 2, 4, 8}, ~TouchesTimerCmp(address, width)
  PROVE  Read64(StoreWd(m, address, data, width), kTimerCmp) = Read64(m, kTimerCmp)
<1>1. PICK w : w = [address |-> address, data |-> BytesOf(data, width)]
  OBVIOUS
<1>2. width \in 0 .. 9
  OBVIOUS
<1>3. BytesOf(data, width) \in Seq(Byte) /\ Len(BytesOf(data, width)) = width
  BY <1>2, BytesOfValue
<1>4. Written(m, StoreWd(m, address, data, width), w)
  BY <1>1, <1>3, StorePuts DEF Written
<1>5. QED
  BY <1>1, <1>3, <1>4, Untouched

\* Neither does bringing mtime up to date.
LEMMA MtimeUntouched ==
  ASSUME NEW m, WellFormed(m), NEW v \in Nat
  PROVE  Read64(Write64(m, kTimerMtime, v), kTimerCmp) = Read64(m, kTimerCmp)
<1>1. PICK w : w = [address |-> kTimerMtime, data |-> BytesOf(v, 8)]
  OBVIOUS
<1>2. /\ BytesOf(v, 8) \in Seq(Byte) /\ Len(BytesOf(v, 8)) = 8
      /\ kTimerMtime \in Nat /\ kTimerMtime % 8 = 0
  <2>1. BytesOf(v, 8) \in Seq(Byte) /\ Len(BytesOf(v, 8)) = 8
    BY BytesOfValue
  <2>2. QED
    BY <2>1, TimerPlaces
<1>3. Written(m, Write64(m, kTimerMtime, v), w)
  BY <1>1, <1>2, DoublePut DEF Written
<1>4. ~TouchesTimerCmp(kTimerMtime, 8)
  <2>1. PICK s \in Nat \ {0}, c \in Nat, t \in Nat :
          /\ s = MemorySize /\ c = kTimerCmp /\ t = kTimerMtime
          /\ t + 7 < s /\ (t + 8 <= c \/ c + 8 <= t)
    BY Sizes, TimerPlaces
  <2>2. ASSUME NEW k \in 0 .. 7
        PROVE  (t + k) % s \notin c .. (c + 7)
    <3>1. (t + k) % s = t + k
      BY <2>1
    <3>2. QED
      BY <2>1, <3>1
  <2>3. \A k \in 0 .. (8 - 1) : k \in 0 .. 7
    OBVIOUS
  <2>4. QED
    BY <2>1, <2>2, <2>3 DEF TouchesTimerCmp
<1>5. QED
  BY <1>1, <1>2, <1>3, <1>4, Untouched

\* An instruction either leaves mtimecmp alone, or has it read again, or is one
\* that the timer does not notice.
LEMMA InstructionCmp ==
  ASSUME TypeInv, CmpCurrent, NEW i \in GuestInstructions, NEW g \in GuestStates,
         g.unnoticed = guest.unnoticed, Instruction(i, g)
  PROVE  CmpCurrent' /\ timer'.timer_interrupt = timer.timer_interrupt
<1>1. /\ WellFormed(mem) /\ guest \in GuestStates /\ timer \in TimerStates
  BY DEF TypeInv
<1>2. ASSUME UNCHANGED timer, guest'.unnoticed = guest.unnoticed,
             Read64(mem', kTimerCmp) = Read64(mem, kTimerCmp)
      PROVE  CmpCurrent' /\ timer'.timer_interrupt = timer.timer_interrupt
  BY <1>2 DEF CmpCurrent
<1>3. CASE i.op = "load" /\ LoadInstruction(i, g)
  <2>1. PICK v \in Nat : v = timer.elapsed_cycles
    BY <1>1 DEF TimerStates
  <2>2. mem' = Write64(mem, kTimerMtime, v) /\ UNCHANGED timer /\ guest' = g
    BY <1>3, <2>1 DEF LoadInstruction, MemoryMappedValueUpdate, NextInstruction
  <2>3. QED
    BY <1>1, <1>2, <2>2, MtimeUntouched
<1>4. CASE i.op = "store" /\ StoreInstruction(i, g)
  <2>1. i.address \in Nat /\ i.data \in Nat /\ i.width \in {1, 2, 4, 8}
    BY <1>4, InstructionFields
  <2>2. /\ mem' = StoreWd(mem, i.address, i.data, i.width)
        /\ timer' = [timer EXCEPT !.timercmp_update =
                       timer.timercmp_update \/ TimerCmpWritten(i.address, i.width)]
        /\ guest' = [g EXCEPT !.unnoticed = Noted("store", i.address, i.width).unnoticed]
    BY <1>4 DEF StoreInstruction, CheckDeviceWrite, NextInstruction
  <2>3. guest'.unnoticed = IF TouchesTimerCmp(i.address, i.width)
                           THEN i.address >= MemorySize ELSE guest.unnoticed
    <3>1. guest'.unnoticed = Noted("store", i.address, i.width).unnoticed
      BY <2>2 DEF GuestStates
    <3>2. QED
      BY <1>1, <3>1, NotedTyped
  <2>4. /\ timer'.timercmp_update = (timer.timercmp_update \/ TimerCmpWritten(i.address, i.width))
        /\ timer'.next_cycle = timer.next_cycle
        /\ timer'.timer_interrupt = timer.timer_interrupt
    BY <1>1, <2>2 DEF TimerStates
  <2>5. CASE TouchesTimerCmp(i.address, i.width)
    <3>1. CASE i.address >= MemorySize
      BY <2>3, <2>4, <2>5, <3>1 DEF CmpCurrent
    <3>2. CASE i.address < MemorySize
      BY <2>1, <2>4, <2>5, <3>2, StoreNoticed DEF CmpCurrent
    <3>3. QED
      BY <2>1, <3>1, <3>2, Sizes
  <2>6. CASE ~TouchesTimerCmp(i.address, i.width)
    <3>1. Read64(mem', kTimerCmp) = Read64(mem, kTimerCmp)
      BY <1>1, <2>1, <2>2, <2>6, StoreUntouched
    <3>2. QED
      BY <2>3, <2>4, <2>6, <3>1 DEF CmpCurrent
  <2>7. QED
    BY <2>5, <2>6
<1>5. CASE i.op = "amo" /\ AmoInstruction(i, g)
  <2>1. i.address \in Nat /\ i.data \in Nat /\ i.width \in {1, 2, 4, 8}
    BY <1>5, InstructionFields
  <2>2. /\ mem' = StoreWd(mem, i.address, i.data, i.width) /\ UNCHANGED timer
        /\ guest' = [g EXCEPT !.unnoticed = Noted("amo", i.address, i.width).unnoticed]
    BY <1>5 DEF AmoInstruction, NextInstruction
  <2>3. guest'.unnoticed = Noted("amo", i.address, i.width).unnoticed
    BY <2>2 DEF GuestStates
  <2>4. CASE TouchesTimerCmp(i.address, i.width)
    BY <1>1, <2>2, <2>3, <2>4, NotedTyped DEF CmpCurrent
  <2>5. CASE ~TouchesTimerCmp(i.address, i.width)
    <3>1. Read64(mem', kTimerCmp) = Read64(mem, kTimerCmp)
      BY <1>1, <2>1, <2>2, <2>5, StoreUntouched
    <3>2. guest'.unnoticed = guest.unnoticed
      BY <1>1, <2>3, <2>5, NotedTyped
    <3>3. QED
      BY <1>2, <2>2, <3>1, <3>2
  <2>6. QED
    BY <2>4, <2>5
<1>6. CASE i.op = "ecall" /\ EcallInstruction(i, g)
  <2>1. CASE ~options.ecall_emulation
    BY <1>2, <1>6, <2>1 DEF EcallInstruction, NextInstruction
  <2>2. CASE options.ecall_emulation
    <3>1. PICK s : s = [mem |-> mem, a0 |-> i.a0, brk |-> hart.brk,
                        fds |-> system.fds, openHandles |-> system.openHandles,
                        end |-> FALSE, written |-> NothingWritten]
      OBVIOUS
    <3>2. PICK r \in SystemCallEmulation(s, i, Top, PathMax) :
            /\ mem' = r.mem
            /\ NextInstruction([g EXCEPT
                     !.unnoticed = Noted("call", r.written.address,
                                         Len(r.written.data)).unnoticed,
                     !.orderly = g.orderly /\ ~Disorderly(i)])
      BY <1>6, <2>2, <3>1, Zenon DEF EcallInstruction
    <3>3. i \in Calls /\ UNCHANGED timer
      BY <1>6, InstructionFields DEF EcallInstruction
    <3>4. Written(mem, mem', r.written)
      BY <1>1, <3>1, <3>2, <3>3, CallWrites
    <3>5. guest'.unnoticed = Noted("call", r.written.address, Len(r.written.data)).unnoticed
      BY <3>2 DEF NextInstruction, GuestStates
    <3>6. CASE TouchesTimerCmp(r.written.address, Len(r.written.data))
      BY <1>1, <3>3, <3>5, <3>6, NotedTyped DEF CmpCurrent
    <3>7. CASE ~TouchesTimerCmp(r.written.address, Len(r.written.data))
      <4>1. Read64(mem', kTimerCmp) = Read64(mem, kTimerCmp)
        BY <1>1, <3>4, <3>7, Untouched
      <4>2. guest'.unnoticed = guest.unnoticed
        BY <1>1, <3>5, <3>7, NotedTyped
      <4>3. QED
        BY <1>2, <3>3, <4>1, <4>2
    <3>8. QED
      BY <3>6, <3>7
  <2>3. QED
    BY <2>1, <2>2
<1>7. CASE i.op = "error" /\ ErrorInstruction(i, g)
  BY <1>2, <1>7 DEF ErrorInstruction, NextInstruction
<1>8. QED
  BY <1>3, <1>4, <1>5, <1>6, <1>7 DEF Instruction

\* Instructions leave the pending interrupt and the shape of the hart alone.
LEMMA InstructionHart ==
  ASSUME DOMAIN hart = HartFields, NEW i, NEW g, Instruction(i, g)
  PROVE  DOMAIN hart' = HartFields /\ hart'.mtip = hart.mtip
<1>1. CASE LoadInstruction(i, g)
  BY <1>1 DEF LoadInstruction, HartFields
<1>2. CASE StoreInstruction(i, g)
  BY <1>2 DEF StoreInstruction
<1>3. CASE AmoInstruction(i, g)
  BY <1>3 DEF AmoInstruction, HartFields
<1>4. CASE EcallInstruction(i, g)
  <2>1. CASE ~options.ecall_emulation
    BY <1>4, <2>1 DEF EcallInstruction
  <2>2. CASE options.ecall_emulation
    <3>1. PICK s : hart' = [hart EXCEPT !.a0 = s.a0, !.brk = s.brk,
                                        !.error = FALSE, !.end = s.end]
      BY <1>4, <2>2, Zenon DEF EcallInstruction
    <3>2. QED
      BY <3>1 DEF HartFields
  <2>3. QED
    BY <2>1, <2>2
<1>5. CASE ErrorInstruction(i, g)
  BY <1>5 DEF ErrorInstruction, HartFields
<1>6. QED
  BY <1>1, <1>2, <1>3, <1>4, <1>5 DEF Instruction

\* Every step keeps the timer's invariant.
LEMMA StepTimer == TypeInv /\ TimerInv /\ [Next]_vars => TimerInv'
<1>1. SUFFICES ASSUME TypeInv, TimerInv, [Next]_vars PROVE TimerInv'
  OBVIOUS
<1>2. /\ DOMAIN hart = HartFields /\ hart.mtip \in BOOLEAN
      /\ timer.timer_interrupt = FALSE
      /\ phase \in SetupPhases => timer.timercmp_update
      /\ CmpCurrent
  BY <1>1 DEF TimerInv
<1>3. WellFormed(mem) /\ timer \in TimerStates /\ guest \in GuestStates
  BY <1>1 DEF TypeInv
<1>4. CASE Setup
  <2>1. phase \in SetupPhases /\ UNCHANGED timer
    BY <1>4 DEF Setup, ReadProgram, LoadSegment, SetUpBss, FindSymbols, SymbolsFail,
                SetDefaultMmuTable, UartInit, VirtioInit, StartLoop, loopVars, SetupPhases
  <2>2. timer'.timercmp_update
    BY <1>2, <2>1
  <2>3. DOMAIN hart' = HartFields /\ hart'.mtip = hart.mtip
    <3>1. CASE FindSymbols
      BY <1>2, <3>1 DEF FindSymbols, HartFields
    <3>2. CASE SetDefaultMmuTable
      BY <1>2, <3>2 DEF SetDefaultMmuTable, HartFields
    <3>3. CASE StartLoop
      BY <1>2, <3>3 DEF StartLoop, HartFields
    <3>4. CASE ~FindSymbols /\ ~SetDefaultMmuTable /\ ~StartLoop
      BY <1>2, <1>4, <3>4 DEF Setup, ReadProgram, LoadSegment, SetUpBss, SymbolsFail,
                              UartInit, VirtioInit, loopVars
    <3>5. QED
      BY <3>1, <3>2, <3>3, <3>4
  <2>4. QED
    BY <1>2, <2>1, <2>2, <2>3 DEF TimerInv, CmpCurrent
<1>5. CASE TimerTick
  <2>1. PICK t \in TimerStates : t = Ticked(timer, mem)
    BY <1>3, TickTyped
  <2>2. /\ t.timercmp_update = FALSE
        /\ t.next_cycle = IF timer.timercmp_update THEN Read64(mem, kTimerCmp)
                          ELSE timer.next_cycle
    BY <1>3, <2>1, TickTyped
  <2>3. /\ timer' = [t EXCEPT !.timer_interrupt = FALSE]
        /\ hart' = [hart EXCEPT !.mtip = hart.mtip \/ t.timer_interrupt]
        /\ phase' = "execute" /\ UNCHANGED <<mem, guest>>
    BY <1>5, <2>1 DEF TimerTick
  <2>4. timer'.timer_interrupt = FALSE /\ timer'.next_cycle = t.next_cycle
    BY <2>3 DEF TimerStates
  <2>5. DOMAIN hart' = HartFields /\ hart'.mtip \in BOOLEAN
    BY <1>2, <2>3 DEF HartFields
  <2>6. CmpCurrent'
    BY <1>2, <2>2, <2>3, <2>4 DEF CmpCurrent
  <2>7. phase' \notin SetupPhases
    BY <2>3 DEF SetupPhases
  <2>8. QED
    BY <2>4, <2>5, <2>6, <2>7 DEF TimerInv
<1>6. CASE TakeTimerInterrupt
  <2>1. DOMAIN hart' = HartFields /\ hart'.mtip = FALSE
    BY <1>2, <1>6 DEF TakeTimerInterrupt, HartFields
  <2>2. phase' \notin SetupPhases /\ UNCHANGED <<timer, mem, guest>>
    BY <1>6 DEF TakeTimerInterrupt, LoopEnd, SetupPhases
  <2>3. QED
    BY <1>2, <2>1, <2>2 DEF TimerInv, CmpCurrent
<1>7. CASE BeginPiece \/ ContinuePiece
  <2>1. PICK i \in GuestInstructions, g \in GuestStates :
          Instruction(i, g) /\ g.unnoticed = guest.unnoticed
    BY <1>1, <1>7, PieceStep
  <2>2. CmpCurrent' /\ timer'.timer_interrupt = FALSE
    BY <1>1, <1>2, <2>1, InstructionCmp
  <2>3. DOMAIN hart' = HartFields /\ hart'.mtip = hart.mtip
    BY <1>2, <2>1, InstructionHart
  <2>4. phase' = "devices"
    BY <1>1, <2>1, InstructionFrame
  <2>5. phase' \notin SetupPhases
    BY <2>4 DEF SetupPhases
  <2>6. QED
    BY <1>2, <2>2, <2>3, <2>5 DEF TimerInv
<1>8. CASE OtherInstruction
  <2>1. phase' \notin SetupPhases /\ UNCHANGED <<hart, timer, mem, guest>>
    BY <1>8 DEF OtherInstruction, NextInstruction, SetupPhases
  <2>2. QED
    BY <1>2, <2>1 DEF TimerInv, CmpCurrent
<1>9. CASE PeripheralEmulations
  <2>1. phase' \notin SetupPhases /\ UNCHANGED <<timer, mem, guest>>
    BY <1>9 DEF PeripheralEmulations, LoopEnd, SetupPhases
  <2>2. \/ hart' = hart
        \/ hart' = [hart EXCEPT !.a0 = host'.host_value, !.end = TRUE,
                                !.error = hart.error \/ host'.error_flag]
    BY <1>9 DEF PeripheralEmulations
  <2>3. DOMAIN hart' = HartFields /\ hart'.mtip = hart.mtip
    BY <1>2, <2>2 DEF HartFields
  <2>4. QED
    BY <1>2, <2>1, <2>3 DEF TimerInv, CmpCurrent
<1>10. CASE UNCHANGED vars
  BY <1>2, <1>10 DEF vars, loopVars, TimerInv, CmpCurrent
<1>11. QED
  BY <1>1, <1>4, <1>5, <1>6, <1>7, <1>8, <1>9, <1>10 DEF Next, Loop

LEMMA InitTimer == Init => TimerInv
<1>1. SUFFICES ASSUME Init PROVE TimerInv
  OBVIOUS
<1>2. DOMAIN hart = HartFields /\ hart.mtip = FALSE
  BY <1>1 DEF Init, HartFields
<1>3. timer.timer_interrupt = FALSE /\ timer.timercmp_update = TRUE
  BY <1>1 DEF Init, TimerInit
<1>4. QED
  BY <1>2, <1>3 DEF TimerInv, CmpCurrent

\* mtimecmp as bytes and as a double word.
LEMMA CmpContents ==
  ASSUME WellFormed(mem)
  PROVE  ValueOf(Flat!Contents(kTimerCmp, 8)) = Read64(mem, kTimerCmp)
<1>1. Flat!Contents(kTimerCmp, 8) = ReadBytes(mem, kTimerCmp, 8)
  <2>1. PICK s \in Nat \ {0}, c \in Nat : s = MemorySize /\ c = kTimerCmp /\ c + 7 < s
    BY Sizes, TimerPlaces
  <2>2. ASSUME NEW k \in 1 .. 8
        PROVE  (c + k - 1) % s = c + k - 1 /\ c + k - 1 \in 0 .. (s - 1)
    BY <2>1
  <2>3. QED
    BY <2>1, <2>2 DEF Flat!Contents, Flat!Place, ReadBytes
<1>2. QED
  BY <1>1, TimerPlaces, DoubleValue

\* The tick compares the count with the double word that the memory holds.
LEMMA TickCompares ==
  ASSUME TypeInv, TimerInv, TimerTick, ~hart.mtip, ~guest.unnoticed
  PROVE  hart'.mtip <=> timer'.elapsed_cycles = ValueOf(Flat!Contents(kTimerCmp, 8))
<1>1. WellFormed(mem) /\ timer \in TimerStates
  BY DEF TypeInv
<1>2. PICK t \in TimerStates : t = Ticked(timer, mem)
  BY <1>1, TickTyped
<1>3. t.next_cycle = Read64(mem, kTimerCmp)
  BY <1>1, <1>2, TickTyped DEF TimerInv, CmpCurrent
<1>4. t.timer_interrupt <=> t.elapsed_cycles = t.next_cycle
  BY <1>1, <1>2, TickTyped DEF TimerInv
<1>5. /\ timer' = [t EXCEPT !.timer_interrupt = FALSE]
      /\ hart' = [hart EXCEPT !.mtip = hart.mtip \/ t.timer_interrupt]
  BY <1>2 DEF TimerTick
<1>6. timer'.elapsed_cycles = t.elapsed_cycles
  BY <1>5 DEF TimerStates
<1>7. hart'.mtip <=> t.timer_interrupt
  BY <1>5 DEF TimerInv, HartFields
<1>8. ValueOf(Flat!Contents(kTimerCmp, 8)) = Read64(mem, kTimerCmp)
  BY <1>1, CmpContents
<1>9. QED
  BY <1>3, <1>4, <1>6, <1>7, <1>8

\* The cached comparison value is never out of date: for every program and guest
\* the interrupt comes at the tick whose count mtimecmp holds in memory.
THEOREM TimerMatchesMemoryHolds == Spec => TimerMatchesMemory
<1>1. TypeInv /\ TimerInv /\ [Next]_vars =>
        [TimerTick /\ ~hart.mtip /\ ~guest.unnoticed =>
           (hart'.mtip <=> timer'.elapsed_cycles = ValueOf(Flat!Contents(kTimerCmp, 8)))]_vars
  BY TickCompares
<1>2. QED
  BY <1>1, InitTimer, StepTimer, TypesHold, PTL DEF Spec, TimerMatchesMemory

-----------------------------------------------------------------------------
(* Loads.                                                                  *)

\* A load of any width reads the value of its bytes, aligned or not.
LEMMA LoadValue ==
  ASSUME NEW m, WellFormed(m), NEW address \in Nat, NEW width \in {1, 2, 4, 8}
  PROVE  LoadWd(m, address, width) = ValueOf(ReadBytes(m, address, width))
<1>1. CASE width = 4 /\ address % 4 = 0
  <2>1. width # 8
    BY <1>1
  <2>2. LoadWd(m, address, width) = Read32(m, address)
    BY <1>1, <2>1, Zenon DEF LoadWd
  <2>3. PICK v \in Nat : v = Read32(m, address) /\ v % Weight[4] = v
    BY WordRead, WordOfBytes
  <2>4. PICK data : data = ReadBytes(m, address, 4)
    OBVIOUS
  <2>5. ASSUME NEW k \in 1 .. 4
        PROVE  data[k] = ByteOf(v, k - 1)
    <3>1. PICK j \in 0 .. 3 : j = k - 1
      OBVIOUS
    <3>2. data[k] = ReadByte(m, address + k - 1) /\ address + k - 1 = address + j
      BY <2>4, <3>1 DEF ReadBytes
    <3>3. QED
      BY <1>1, <2>3, <3>1, <3>2, WordBytes
  <2>6. Len(data) = 4
    BY <2>4 DEF ReadBytes
  <2>7. ValueOf(data) = v % Weight[4]
    BY <2>5, <2>6, DataValue
  <2>8. QED
    BY <1>1, <2>2, <2>3, <2>4, <2>7
<1>2. CASE width = 8 /\ address % 8 = 0
  <2>1. width # 4
    BY <1>2
  <2>2. LoadWd(m, address, width) = Read64(m, address)
    BY <1>2, <2>1, Zenon DEF LoadWd
  <2>3. QED
    BY <1>2, <2>2, DoubleValue
<1>3. CASE ~(width = 4 /\ address % 4 = 0) /\ ~(width = 8 /\ address % 8 = 0)
  BY <1>3, Zenon DEF LoadWd
<1>4. QED
  BY <1>1, <1>2, <1>3

\* After mtime is brought up to date its bytes are those of the count, and the
\* others as before.
LEMMA MtimeSeen ==
  ASSUME NEW m, WellFormed(m), NEW v \in Nat, NEW n, n = Write64(m, kTimerMtime, v),
         NEW a \in 0 .. (MemorySize - 1)
  PROVE  ReadByte(n, a) = IF a \in kTimerMtime .. kTimerMtime + 7
                          THEN ByteOf(v, a - kTimerMtime) ELSE ReadByte(m, a)
<1>1. PICK s \in Nat \ {0}, t \in Nat : s = MemorySize /\ t = kTimerMtime /\ t % 8 = 0 /\ t + 7 < s
  BY Sizes, TimerPlaces
<1>2. PICK data : data = BytesOf(v, 8)
  OBVIOUS
<1>3. Puts(m, n, t, data, 8)
  BY <1>1, <1>2, DoublePut
<1>4. a \in Nat /\ a % s = a
  BY <1>1
<1>5. /\ (\A k \in 1 .. 8 : (t + k - 1) % s # a) => ReadByte(n, a) = ReadByte(m, a)
      /\ \A k \in 1 .. 8 :
           /\ (t + k - 1) % s = a
           /\ \A j \in k + 1 .. 8 : (t + j - 1) % s # a
           => ReadByte(n, a) = data[k]
  BY <1>1, <1>3, <1>4 DEF Puts
<1>6. \A k \in 1 .. 8 : (t + k - 1) % s = t + k - 1
  BY <1>1
<1>7. CASE a \in t .. t + 7
  <2>1. PICK k \in 1 .. 8 : k = a - t + 1
    BY <1>1, <1>7
  <2>2. t + k - 1 = a /\ a - t = k - 1
    BY <1>4, <2>1
  <2>3. (t + k - 1) % s = a
    BY <1>6, <2>2
  <2>4. ASSUME NEW j \in k + 1 .. 8
        PROVE  (t + j - 1) % s # a
    <3>1. j \in 1 .. 8 /\ t + j - 1 # a
      BY <2>2
    <3>2. QED
      BY <1>6, <3>1
  <2>5. ReadByte(n, a) = data[k]
    BY <1>5, <2>3, <2>4
  <2>6. data[k] = ByteOf(v, k - 1)
    BY <1>2 DEF BytesOf
  <2>7. QED
    BY <1>1, <1>7, <2>2, <2>5, <2>6
<1>8. CASE a \notin t .. t + 7
  <2>1. ASSUME NEW k \in 1 .. 8
        PROVE  (t + k - 1) % s # a
    <3>1. t + k - 1 \in t .. t + 7
      OBVIOUS
    <3>2. QED
      BY <1>6, <1>8, <3>1
  <2>2. QED
    BY <1>1, <1>5, <1>8, <2>1
<1>9. QED
  BY <1>1, <1>7, <1>8

\* What a load finds.
LEMMA LoadSees ==
  ASSUME TypeInv, TimerInv, NEW i \in GuestInstructions, i.op = "load",
         NEW g, LoadInstruction(i, g)
  PROVE  LET seen(k) ==
               LET a == Flat!Place(i.address, k)
               IN IF a \in kTimerMtime .. kTimerMtime + 7
                  THEN ByteOf(timer.elapsed_cycles, a - kTimerMtime)
                  ELSE ReadByte(mem, a)
         IN  hart'.a0 = SignExtend(ValueOf([k \in 1 .. i.width |-> seen(k)]), i.width)
<1> DEFINE seen(k) ==
             IF Flat!Place(i.address, k) \in kTimerMtime .. kTimerMtime + 7
             THEN ByteOf(timer.elapsed_cycles, Flat!Place(i.address, k) - kTimerMtime)
             ELSE ReadByte(mem, Flat!Place(i.address, k))
<1>1. PICK v \in Nat : v = timer.elapsed_cycles
  BY DEF TypeInv, TimerStates
<1>2. WellFormed(mem)
  BY DEF TypeInv
<1>3. i.address \in Nat /\ i.width \in {1, 2, 4, 8}
  BY InstructionFields
<1>4. PICK n : n = Write64(mem, kTimerMtime, v)
  OBVIOUS
<1>5. hart' = [hart EXCEPT !.a0 = SignExtend(LoadWd(n, i.address, i.width), i.width)]
  BY <1>1, <1>4 DEF LoadInstruction, MemoryMappedValueUpdate
<1>6. hart'.a0 = SignExtend(LoadWd(n, i.address, i.width), i.width)
  BY <1>5 DEF TimerInv, HartFields
<1>7. WellFormed(n)
  BY <1>2, <1>4, DoublePut, TimerPlaces DEF Puts
<1>8. LoadWd(n, i.address, i.width) = ValueOf(ReadBytes(n, i.address, i.width))
  BY <1>3, <1>7, LoadValue
<1>9. ASSUME NEW k \in 1 .. i.width
      PROVE  ReadByte(n, i.address + k - 1) = seen(k)
  <2>1. PICK s \in Nat \ {0} : s = MemorySize
    BY Sizes
  <2>2. i.address + k - 1 \in Nat
    BY <1>3
  <2>3. PICK a \in 0 .. (s - 1) : a = (i.address + k - 1) % s
    BY <2>1, <2>2
  <2>4. a = Flat!Place(i.address, k)
    BY <2>1, <2>3 DEF Flat!Place
  <2>5. a \in Nat /\ a % s = (i.address + k - 1) % s
    BY <2>1, <2>3
  <2>6. ReadByte(n, i.address + k - 1) = ReadByte(n, a)
    BY <1>7, <2>1, <2>2, <2>5, ByteReadModulo
  <2>7. ReadByte(n, a) = IF a \in kTimerMtime .. kTimerMtime + 7
                         THEN ByteOf(v, a - kTimerMtime) ELSE ReadByte(mem, a)
    BY <1>2, <1>4, <2>1, MtimeSeen
  <2>8. QED
    BY <1>1, <2>4, <2>6, <2>7
<1>10. ReadBytes(n, i.address, i.width) = [k \in 1 .. i.width |-> seen(k)]
  BY <1>9 DEF ReadBytes
<1>11. QED
  BY <1>6, <1>8, <1>10

\* Every load sees memory as it is and the present count in mtime, whatever its
\* width and wherever it begins.
THEOREM LoadsSeeMtimeHolds == Spec => LoadsSeeMtime
<1> DEFINE Sees(i) ==
             LET seen(k) ==
                   LET a == Flat!Place(i.address, k)
                   IN IF a \in kTimerMtime .. kTimerMtime + 7
                      THEN ByteOf(timer.elapsed_cycles, a - kTimerMtime)
                      ELSE ReadByte(mem, a)
             IN i.op = "load" /\ phase = "execute" /\ LoadInstruction(i, guest') =>
                  hart'.a0 = SignExtend(ValueOf([k \in 1 .. i.width |-> seen(k)]), i.width)
<1>1. TypeInv /\ TimerInv =>
        \A piece \in job.pieces : \A n \in DOMAIN piece.code : Sees(piece.code[n])
  <2>1. SUFFICES ASSUME TypeInv, TimerInv, NEW piece \in job.pieces,
                        NEW n \in DOMAIN piece.code
                 PROVE  Sees(piece.code[n])
    OBVIOUS
  <2>2. piece \in Pieces
    BY <2>1, EmulatorAssumption DEF TypeInv
  <2>3. piece.code \in Seq(GuestInstructions)
    BY <2>2 DEF Pieces
  <2>4. PICK i \in GuestInstructions : i = piece.code[n]
    BY <2>3
  <2>5. Sees(i)
    BY <2>1, LoadSees
  <2>6. QED
    BY <2>4, <2>5
<1>2. QED
  BY <1>1, InitTimer, StepTimer, TypesHold, PTL DEF Spec, LoadsSeeMtime

-----------------------------------------------------------------------------
(* Accesses of 16 bits.                                                    *)

\* Every memory that the emulator can have reads and writes halves as their two
\* bytes, at the borders of the entries as well.
THEOREM HalvesAsBytesHolds == Spec => []HalvesAsBytes
<1>1. TypeInv => HalvesAsBytes
  <2>1. SUFFICES ASSUME TypeInv,
                        NEW i \in {EntrySize - 4, EntrySize - 2, EntrySize, EntrySize + 2}
                 PROVE  /\ Read16(mem, i) = ValueOf(ReadBytes(mem, i, 2))
                        /\ \A value \in 0 .. Weight[2] - 1 :
                             LET after == Write16(mem, i, value)
                             IN /\ ReadBytes(after, i, 2) = BytesOf(value, 2)
                                /\ \A a \in (0 .. MemorySize - 1) \ {i, i + 1} :
                                     ReadByte(after, a) = ReadByte(mem, a)
    BY DEF HalvesAsBytes
  <2>2. WellFormed(mem)
    BY <2>1 DEF TypeInv
  <2>3. PICK e \in Nat, n \in Nat, s \in Nat \ {0} :
          e = EntryWords /\ EntrySize = 4 * e /\ s = MemorySize /\ e >= 2
          /\ n = Entries /\ n >= 2 /\ s = n * (4 * e)
    BY Sizes, MemoryAssumption
  <2>4. s >= 2 * (4 * e)
    <3>1. PICK x \in Nat : x = 4 * e
      OBVIOUS
    <3>2. n * x >= 2 * x
      BY <2>3
    <3>3. QED
      BY <2>3, <3>1, <3>2
  <2>5. i \in Nat /\ i % 2 = 0 /\ i + 1 < s /\ i + 1 \in Nat
    BY <2>3, <2>4
  <2>6. Read16(mem, i) = ValueOf(ReadBytes(mem, i, 2))
    BY <2>2, <2>5, HalfRead
  <2>7. ASSUME NEW value \in 0 .. Weight[2] - 1, NEW after, after = Write16(mem, i, value)
        PROVE  /\ ReadBytes(after, i, 2) = BytesOf(value, 2)
               /\ \A a \in (0 .. MemorySize - 1) \ {i, i + 1} :
                    ReadByte(after, a) = ReadByte(mem, a)
    <3>1. \A k \in 0 .. 1 : ReadByte(after, i + k) = ByteOf(value, k)
      BY <2>2, <2>5, <2>7, HalfWritten
    <3>2. ASSUME NEW k \in 1 .. 2
          PROVE  ReadByte(after, i + k - 1) = ByteOf(value, k - 1)
      <4>1. k - 1 \in 0 .. 1 /\ i + (k - 1) = i + k - 1
        BY <2>5
      <4>2. QED
        BY <3>1, <4>1
    <3>3. ReadBytes(after, i, 2) = BytesOf(value, 2)
      BY <3>2 DEF ReadBytes, BytesOf
    <3>4. ASSUME NEW a \in (0 .. MemorySize - 1) \ {i, i + 1}
          PROVE  ReadByte(after, a) = ReadByte(mem, a)
      <4>1. a \in Nat /\ a % s = a /\ i % s = i /\ (i + 1) % s = i + 1 /\ a # i /\ a # i + 1
        BY <2>3, <2>5
      <4>2. a % MemorySize # i % MemorySize /\ a % MemorySize # (i + 1) % MemorySize
        BY <2>3, <4>1
      <4>3. QED
        BY <2>2, <2>5, <2>7, <4>1, <4>2, HalfWritten
    <3>5. QED
      BY <3>3, <3>4
  <2>8. QED
    BY <2>6, <2>7
<1>2. QED
  BY <1>1, TypesHold, PTL

-----------------------------------------------------------------------------
(* The host interface.                                                     *)

\* The command of tohost0 is its sixth and seventh byte, and what is left
\* without one is the value.
LEMMA HostFields ==
  ASSUME NEW p \in Nat, p % Weight[8] = p
  PROVE  /\ ByteOf(p, 7) = 0 => p \div Weight[6] = ByteOf(p, 6)
         /\ p \div Weight[6] = 0 => p % Weight[6] = p
<1>1. PICK b \in Nat \ {0}, w \in Nat \ {0} : b = ByteSize /\ w = Weight[6]
  BY MemoryAssumption, Weights
<1>2. PICK v \in Nat \ {0}, u \in Nat \ {0} :
        v = b * w /\ u = b * v /\ v = Weight[7] /\ u = Weight[8]
  <2>1. Weight[7] \in Nat \ {0} /\ Weight[8] \in Nat \ {0}
    BY Weights
  <2>2. Weight[7] = b * w /\ Weight[8] = b * Weight[7]
    BY <1>1, Weights
  <2>3. QED
    BY <2>1, <2>2
<1>3. p < u
  BY <1>2
<1>4. PICK h \in Nat, r \in 0 .. w - 1 : h = p \div w /\ r = p % w /\ p = h * w + r
  <2>1. p % w \in 0 .. w - 1 /\ p \div w \in Nat /\ p = (p \div w) * w + (p % w)
    OBVIOUS
  <2>2. QED
    BY <2>1
<1>5. PICK t \in Nat, l \in 0 .. b - 1 : t = h \div b /\ l = h % b /\ h = t * b + l
  <2>1. h % b \in 0 .. b - 1 /\ h \div b \in Nat /\ h = (h \div b) * b + (h % b)
    OBVIOUS
  <2>2. QED
    BY <2>1
<1>6. t < b
  <2>1. SUFFICES ASSUME t >= b PROVE FALSE
    OBVIOUS
  <2>2. h >= t * b
    BY <1>5
  <2>3. t * b >= b * b
    BY <2>1
  <2>4. h * w >= (b * b) * w
    <3>1. PICK c \in Nat : c = b * b
      OBVIOUS
    <3>2. PICK d \in Nat : d = t * b
      OBVIOUS
    <3>3. h >= c
      BY <2>2, <2>3, <3>1, <3>2
    <3>4. h * w >= c * w
      BY <3>3
    <3>5. QED
      BY <3>1, <3>4
  <2>5. (b * b) * w = b * (b * w)
    OBVIOUS
  <2>6. PICK x \in Nat : x = h * w
    OBVIOUS
  <2>7. QED
    BY <1>2, <1>3, <1>4, <2>4, <2>5, <2>6
<1>7. ByteOf(p, 6) = l
  BY <1>1, <1>4, <1>5 DEF ByteOf
<1>8. ByteOf(p, 7) = t
  <2>1. p \div (w * b) = (p \div w) \div b
    BY DivideTwice
  <2>2. w * b = b * w
    OBVIOUS
  <2>3. p \div v = t
    BY <1>2, <1>4, <1>5, <2>1, <2>2
  <2>4. t % b = t
    BY <1>6
  <2>5. QED
    BY <1>1, <1>2, <2>3, <2>4 DEF ByteOf
<1>9. t = 0 => h = l
  BY <1>5
<1>10. h = 0 => r = p
  BY <1>4
<1>11. QED
  BY <1>1, <1>4, <1>7, <1>8, <1>9, <1>10

\* A word of 32 bits has no command.
LEMMA HostWord ==
  ASSUME NEW p \in Word
  PROVE  p \in Nat /\ p % Weight[6] = p
<1>1. PICK b \in Nat \ {0}, w \in Nat \ {0} : b = ByteSize /\ w = Weight[4]
  BY MemoryAssumption, Weights
<1>2. PICK v \in Nat \ {0}, u \in Nat \ {0} : v = b * w /\ u = b * v /\ u = Weight[6]
  <2>1. Weight[5] \in Nat \ {0} /\ Weight[6] \in Nat \ {0}
    BY Weights
  <2>2. Weight[5] = b * w /\ Weight[6] = b * Weight[5]
    BY <1>1, Weights
  <2>3. QED
    BY <2>1, <2>2
<1>3. p \in Nat /\ p < w
  BY <1>1 DEF Word
<1>4. w <= v /\ v <= u
  BY <1>2
<1>5. p < u
  BY <1>3, <1>4
<1>6. QED
  BY <1>2, <1>3, <1>5

\* The payload of a host word depends on its bytes alone.
LEMMA PayloadKept ==
  ASSUME NEW m, WellFormed(m), NEW n, Puts(m, n, 0, << >>, 0),
         NEW w \in {kToHost0, kToHost1}, NEW x
  PROVE  HostPayload(n, w, x) = HostPayload(m, w, x)
<1>1. w \in Nat /\ w % 8 = 0 /\ w % 4 = 0
  <2>1. PICK s \in Nat : s = MemorySize
    BY Sizes
  <2>2. w \in 0 .. s - 8 /\ w % 8 = 0
    BY <2>1, HostAssumption
  <2>3. w \in Nat
    BY <2>1, <2>2
  <2>4. QED
    BY <2>2, <2>3
<1>2. WellFormed(n) /\ \A a \in Nat : ReadByte(n, a) = ReadByte(m, a)
  BY DEF Puts
<1>3. Read64(n, w) = Read64(m, w)
  <2>1. \A k \in 0 .. 7 : w + k \in Nat
    BY <1>1
  <2>2. QED
    BY <1>1, <1>2, <2>1, DoubleKept
<1>4. Read32(n, w) = Read32(m, w)
  <2>1. LoadWd(n, w, 4) = ValueOf(ReadBytes(n, w, 4)) /\ LoadWd(m, w, 4) = ValueOf(ReadBytes(m, w, 4))
    BY <1>1, <1>2, LoadValue
  <2>2. 4 # 8
    OBVIOUS
  <2>3. LoadWd(n, w, 4) = Read32(n, w) /\ LoadWd(m, w, 4) = Read32(m, w)
    BY <1>1, <2>2, Zenon DEF LoadWd
  <2>4. ASSUME NEW k \in 1 .. 4
        PROVE  ReadByte(n, w + k - 1) = ReadByte(m, w + k - 1)
    <3>1. w + k - 1 \in Nat
      BY <1>1
    <3>2. QED
      BY <1>2, <3>1
  <2>5. ReadBytes(n, w, 4) = ReadBytes(m, w, 4)
    BY <2>4 DEF ReadBytes
  <2>6. QED
    BY <2>1, <2>3, <2>5
<1>5. QED
  BY <1>3, <1>4 DEF HostPayload

HostNames == {"host_write", "host_value", "end_flag", "error_flag"}

\* No store of the present iteration or an earlier one is unanswered.
NothingAsked ==
  \A w \in StoredWord :
    HostPayload(mem, w, mxl) = Asked => ~AskedExit(w) /\ ~AskedError(w)

Quiet == host.host_write = {} /\ ~host.end_flag /\ ~host.error_flag

\* Between an instruction and the peripherals: a request is that of the last
\* store, which left the hart without an error.
Requested ==
  /\ ~host.end_flag /\ ~host.error_flag
  /\ IF host.host_write = {} THEN NothingAsked
     ELSE /\ access.by = "store"
          /\ host.host_write = HostWords(access.address, mxl)
          /\ ~hart.error /\ ~hart.end

HostInv ==
  /\ DOMAIN host = HostNames
  /\ phase \in SetupPhases => Quiet /\ access.by # "store"
  /\ options.host_emulation =>
       /\ phase \in {"tick", "execute"} =>
            Quiet /\ NothingAsked /\ ~hart.error /\ ~hart.end
       /\ phase = "devices" => Requested
       /\ HostEndsAsAsked

\* The two words are not the same, and each is noted by its own number.
LEMMA NotedWords ==
  ASSUME NEW address, NEW x
  PROVE  /\ 0 \in HostWords(address, x) <=> HostAddress(address, x) = kToHost0
         /\ 1 \in HostWords(address, x) <=> HostAddress(address, x) = kToHost1
         /\ HostWords(address, x) \subseteq {0, 1}
BY DEF HostWords

\* Without a noted word the emulation of the host does nothing.
LEMMA EmulationNone ==
  ASSUME NEW p, NEW m, NEW x, p.host_write = {}
  PROVE  HostEmulation(p, m, x) = p
<1>1. 1 \notin p.host_write
  OBVIOUS
<1>2. QED
  BY <1>1, Zenon DEF HostEmulation

\* The request of tohost0 as the emulation decodes it.
LEMMA RequestDecoded ==
  ASSUME TypeInv, NEW p, p = HostPayload(mem, kToHost0, mxl), p = Asked
  PROVE  /\ HostDevice(p, mxl) # 0 => ~AskedExit(kToHost0) /\ ~AskedError(kToHost0)
         /\ HostDevice(p, mxl) = 0 /\ HostCommand(p, mxl) # 0 =>
              ~AskedExit(kToHost0) /\ AskedError(kToHost0)
         /\ HostDevice(p, mxl) = 0 /\ HostCommand(p, mxl) = 0 =>
              /\ HostValue(p) = p
              /\ ~AskedError(kToHost0)
              /\ AskedExit(kToHost0) <=> p % 2 # 0
<1>1. kToHost0 # kToHost1 /\ kToHost0 \in Nat /\ kToHost0 % 8 = 0
  BY HostAssumption, Sizes
<1>2. WellFormed(mem)
  BY DEF TypeInv
<1>3. CASE mxl = 1
  <2>1. p \in Word
    BY <1>1, <1>2, <1>3, WordRead DEF HostPayload
  <2>2. p \in Nat /\ p % Weight[6] = p
    BY <2>1, HostWord
  <2>3. HostDevice(p, mxl) = 0 /\ HostCommand(p, mxl) = 0 /\ HostValue(p) = p
    BY <1>3, <2>2 DEF HostDevice, HostCommand, HostValue
  <2>4. p % 2 = 1 <=> p % 2 # 0
    BY <2>2
  <2>5. QED
    BY <1>1, <1>3, <2>3, <2>4 DEF AskedExit, AskedError
<1>4. CASE mxl = 2
  <2>1. mxl # 1
    BY <1>4
  <2>2. p \in Nat /\ p % Weight[8] = p
    BY <1>1, <1>2, <2>1, DoubleBytes DEF HostPayload
  <2>3. /\ HostDevice(p, mxl) = ByteOf(p, 7)
        /\ HostCommand(p, mxl) = p \div Weight[6]
        /\ HostValue(p) = p % Weight[6]
    BY <2>1 DEF HostDevice, HostCommand, HostValue
  <2>4. /\ ByteOf(p, 7) = 0 => p \div Weight[6] = ByteOf(p, 6)
        /\ p \div Weight[6] = 0 => p % Weight[6] = p
    BY <2>2, HostFields
  <2>5. p % 2 = 1 <=> p % 2 # 0
    BY <2>2
  <2>6. QED
    BY <1>1, <1>4, <2>1, <2>3, <2>4, <2>5 DEF AskedExit, AskedError
<1>5. mxl = 1 \/ mxl = 2
  BY DEF mxl
<1>6. QED
  BY <1>3, <1>4, <1>5

\* A request stays unasked for while neither memory nor the last access changes,
\* and is gone when somebody else than a store wrote.
LEMMA NothingKept ==
  ASSUME TypeInv, NothingAsked, Puts(mem, mem', 0, << >>, 0), UNCHANGED <<access, options>>
  PROVE  NothingAsked'
<1>1. WellFormed(mem)
  BY DEF TypeInv
<1>2. mxl' = mxl
  BY DEF mxl
<1>3. /\ StoredWord' = StoredWord /\ Asked' = Asked
      /\ \A w : (AskedExit(w))' = AskedExit(w) /\ (AskedError(w))' = AskedError(w)
  BY <1>2 DEF StoredWord, Asked, AskedExit, AskedError
<1>4. \A w \in {kToHost0, kToHost1} : HostPayload(mem', w, mxl') = HostPayload(mem, w, mxl)
  BY <1>1, <1>2, PayloadKept
<1>5. StoredWord \subseteq {kToHost0, kToHost1}
  BY DEF StoredWord
<1>6. QED
  BY <1>3, <1>4, <1>5 DEF NothingAsked

LEMMA NothingStored ==
  ASSUME access'.by # "store"
  PROVE  NothingAsked'
BY DEF NothingAsked, StoredWord

LEMMA SameMemory ==
  ASSUME TypeInv
  PROVE  Puts(mem, mem, 0, << >>, 0)
BY PutsFew DEF TypeInv

\* After an instruction a request is that of a store, and of this one.
LEMMA InstructionAsks ==
  ASSUME TypeInv, NothingAsked, Quiet, ~hart.error, ~hart.end, DOMAIN host = HostNames,
         NEW i \in GuestInstructions, NEW g \in GuestStates, Instruction(i, g)
  PROVE  Requested' /\ DOMAIN host' = HostNames
<1>1. UNCHANGED options
  BY InstructionFrame
<1>2. mxl' = mxl
  BY <1>1 DEF mxl
<1>3. ASSUME UNCHANGED host, NothingAsked' PROVE Requested' /\ DOMAIN host' = HostNames
  BY <1>3 DEF Requested, Quiet
<1>4. CASE i.op = "load" /\ LoadInstruction(i, g)
  <2>1. UNCHANGED host /\ access'.by = "timer"
    BY <1>4 DEF LoadInstruction, Writes
  <2>2. QED
    BY <1>3, <2>1, NothingStored
<1>5. CASE i.op = "store" /\ StoreInstruction(i, g)
  <2>1. /\ access' = [by |-> "store", address |-> i.address, data |-> BytesOf(i.data, i.width)]
        /\ host' = [host EXCEPT !.host_write = host.host_write \cup HostWords(i.address, mxl)]
        /\ UNCHANGED hart
    BY <1>5 DEF StoreInstruction, Writes, CheckDeviceWrite
  <2>2. /\ host'.host_write = HostWords(i.address, mxl)
        /\ host'.end_flag = host.end_flag /\ host'.error_flag = host.error_flag
        /\ DOMAIN host' = HostNames
    BY <2>1 DEF Quiet, HostNames
  <2>3. access'.by = "store" /\ access'.address = i.address
    BY <2>1
  <2>4. HostWords(i.address, mxl) = {} => StoredWord' = {}
    BY <1>2, <2>3, NotedWords DEF StoredWord
  <2>5. HostWords(i.address, mxl) = {} => NothingAsked'
    BY <2>4 DEF NothingAsked
  <2>6. QED
    BY <1>2, <2>1, <2>2, <2>3, <2>5 DEF Requested, Quiet
<1>6. CASE i.op = "amo" /\ AmoInstruction(i, g)
  <2>1. UNCHANGED host /\ access'.by = "amo"
    BY <1>6 DEF AmoInstruction, Writes
  <2>2. QED
    BY <1>3, <2>1, NothingStored
<1>7. CASE i.op = "ecall" /\ EcallInstruction(i, g)
  <2>1. UNCHANGED host
    BY <1>7 DEF EcallInstruction
  <2>2. CASE ~options.ecall_emulation
    <3>1. UNCHANGED <<mem, access>>
      BY <1>7, <2>2 DEF EcallInstruction
    <3>2. QED
      BY <1>1, <1>3, <2>1, <3>1, SameMemory, NothingKept
  <2>3. CASE options.ecall_emulation
    <3>1. PICK s : s = [mem |-> mem, a0 |-> i.a0, brk |-> hart.brk,
                        fds |-> system.fds, openHandles |-> system.openHandles,
                        end |-> FALSE, written |-> NothingWritten]
      OBVIOUS
    <3>2. PICK r \in SystemCallEmulation(s, i, Top, PathMax) :
            /\ mem' = r.mem
            /\ IF r.written = NothingWritten THEN UNCHANGED access
               ELSE Writes("call", r.written.address, r.written.data)
      BY <1>7, <2>3, <3>1, Zenon DEF EcallInstruction
    <3>3. i \in Calls
      BY <1>7, InstructionFields
    <3>4. Written(mem, mem', r.written)
      <4>1. WellFormed(mem)
        BY DEF TypeInv
      <4>2. QED
        BY <3>1, <3>2, <3>3, <4>1, CallWrites
    <3>5. CASE r.written = NothingWritten
      <4>1. Puts(mem, mem', 0, << >>, 0)
        BY <3>4, <3>5 DEF Written, NothingWritten
      <4>2. QED
        BY <1>1, <1>3, <2>1, <3>2, <3>5, <4>1, NothingKept
    <3>6. CASE r.written # NothingWritten
      <4>1. access'.by = "call"
        BY <3>2, <3>6 DEF Writes
      <4>2. QED
        BY <1>3, <2>1, <4>1, NothingStored
    <3>7. QED
      BY <3>5, <3>6
  <2>4. QED
    BY <2>2, <2>3
<1>8. CASE i.op = "error" /\ ErrorInstruction(i, g)
  <2>1. UNCHANGED <<mem, access, host>>
    BY <1>8 DEF ErrorInstruction
  <2>2. QED
    BY <1>1, <1>3, <2>1, SameMemory, NothingKept
<1>9. QED
  BY <1>4, <1>5, <1>6, <1>7, <1>8 DEF Instruction

\* The program goes on with nothing asked, or ends as the store asked.
LEMMA EmulationAnswers ==
  ASSUME TypeInv, DOMAIN hart = HartFields, DOMAIN host = HostNames, Requested,
         options.host_emulation, PeripheralEmulations
  PROVE  /\ DOMAIN host' = HostNames
         /\ phase' = "tick" => Quiet' /\ NothingAsked' /\ ~hart'.error /\ ~hart'.end
         /\ HostEndsAsAsked'
         /\ phase' \in {"tick", "ended"}
<1>1. /\ UNCHANGED <<options, mem, access>>
      /\ host' = HostEmulation(host, mem, mxl)
      /\ hart' = IF host'.end_flag
                 THEN [hart EXCEPT !.a0 = host'.host_value, !.end = TRUE,
                                   !.error = hart.error \/ host'.error_flag]
                 ELSE hart
      /\ phase' = IF hart'.error \/ hart'.end THEN "ended" ELSE "tick"
  BY DEF PeripheralEmulations, LoopEnd
<1>2. mxl' = mxl
  BY <1>1 DEF mxl
<1>3. /\ StoredWord' = StoredWord /\ Asked' = Asked
      /\ \A w : (AskedExit(w))' = AskedExit(w) /\ (AskedError(w))' = AskedError(w)
      /\ \A w : HostPayload(mem', w, mxl') = HostPayload(mem, w, mxl)
  BY <1>1, <1>2 DEF StoredWord, Asked, AskedExit, AskedError
<1>4. kToHost0 # kToHost1
  BY HostAssumption
<1>5. ASSUME host'.host_write = {}, ~host'.end_flag, ~host'.error_flag, NothingAsked,
             DOMAIN host' = HostNames
      PROVE  /\ DOMAIN host' = HostNames
             /\ phase' = "tick" => Quiet' /\ NothingAsked' /\ ~hart'.error /\ ~hart'.end
             /\ HostEndsAsAsked'
             /\ phase' \in {"tick", "ended"}
  <2>1. NothingAsked'
    BY <1>3, <1>5 DEF NothingAsked
  <2>2. hart' = hart
    BY <1>1, <1>5
  <2>3. HostEndsAsAsked'
    BY <1>5, <2>1 DEF NothingAsked, HostEndsAsAsked
  <2>4. QED
    BY <1>1, <1>5, <2>1, <2>3 DEF Quiet
<1>6. CASE host.host_write = {}
  <2>1. host' = host
    BY <1>1, <1>6, EmulationNone
  <2>2. QED
    BY <1>5, <1>6, <2>1 DEF Requested
<1>7. ASSUME host.host_write # {}
      PROVE  /\ access.by = "store" /\ ~hart.error /\ ~hart.end
             /\ host.host_write = HostWords(access.address, mxl)
  BY <1>7 DEF Requested
<1>8. ASSUME host'.host_write = {}, host'.end_flag, NEW w, StoredWord = {w},
             DOMAIN host' = HostNames, ~hart.error,
             HostPayload(mem, w, mxl) = Asked =>
               /\ AskedExit(w) \/ AskedError(w)
               /\ host'.error_flag <=> AskedError(w)
               /\ AskedExit(w) => host'.host_value = Asked \div 2
      PROVE  /\ DOMAIN host' = HostNames
             /\ phase' = "tick" => Quiet' /\ NothingAsked' /\ ~hart'.error /\ ~hart'.end
             /\ HostEndsAsAsked'
             /\ phase' \in {"tick", "ended"}
  <2>1. /\ hart'.a0 = host'.host_value /\ hart'.end = TRUE
        /\ hart'.error <=> host'.error_flag
    BY <1>1, <1>8 DEF HartFields
  <2>2. phase' = "ended"
    BY <1>1, <2>1
  <2>3. HostEndsAsAsked'
    BY <1>3, <1>8, <2>1, <2>2 DEF HostEndsAsAsked
  <2>4. QED
    BY <1>8, <2>2, <2>3
<1>9. CASE 1 \in host.host_write
  <2>1. host.host_write # {}
    BY <1>9
  <2>2. host' = [host EXCEPT !.host_write = {}, !.end_flag = TRUE,
                             !.host_value = HostPayload(mem, kToHost1, mxl) \div 2]
    BY <1>1, <1>9, <2>1, Zenon DEF HostEmulation
  <2>3. access.by = "store" /\ HostAddress(access.address, mxl) = kToHost1
    BY <1>7, <1>9, <2>1, NotedWords
  <2>4. StoredWord = {kToHost1}
    BY <2>3 DEF StoredWord
  <2>5. AskedExit(kToHost1) /\ ~AskedError(kToHost1)
    BY <1>4 DEF AskedExit, AskedError
  <2>6. /\ host'.host_write = {} /\ host'.end_flag /\ DOMAIN host' = HostNames
        /\ host'.host_value = HostPayload(mem, kToHost1, mxl) \div 2
        /\ host'.error_flag = host.error_flag
    BY <2>2 DEF HostNames
  <2>7. ~host.error_flag
    BY DEF Requested
  <2>8. QED
    BY <1>7, <1>8, <2>1, <2>4, <2>5, <2>6, <2>7
<1>10. CASE host.host_write # {} /\ 1 \notin host.host_write
  <2>1. access.by = "store" /\ HostAddress(access.address, mxl) = kToHost0
    <3>1. 0 \in host.host_write
      BY <1>7, <1>10, NotedWords
    <3>2. QED
      BY <1>7, <1>10, <3>1, NotedWords
  <2>2. StoredWord = {kToHost0}
    BY <1>4, <2>1 DEF StoredWord
  <2>3. PICK p : p = HostPayload(mem, kToHost0, mxl)
    OBVIOUS
  <2>4. PICK done : done = [host EXCEPT !.host_write = {}, !.end_flag = FALSE]
    OBVIOUS
  <2>5. host' = IF HostDevice(p, mxl) # 0 THEN done
                ELSE IF HostCommand(p, mxl) # 0
                     THEN [done EXCEPT !.error_flag = TRUE, !.end_flag = TRUE]
                ELSE IF HostValue(p) % 2 = 0 THEN done
                ELSE [done EXCEPT !.host_value = HostValue(p) \div 2,
                                  !.end_flag = TRUE]
    BY <1>1, <1>10, <2>3, <2>4, Zenon DEF HostEmulation
  <2>6. /\ done.host_write = {} /\ done.end_flag = FALSE /\ DOMAIN done = HostNames
        /\ ~done.error_flag
    BY <2>4 DEF HostNames, Requested
  <2>7. p = Asked =>
          /\ HostDevice(p, mxl) # 0 => ~AskedExit(kToHost0) /\ ~AskedError(kToHost0)
          /\ HostDevice(p, mxl) = 0 /\ HostCommand(p, mxl) # 0 =>
               ~AskedExit(kToHost0) /\ AskedError(kToHost0)
          /\ HostDevice(p, mxl) = 0 /\ HostCommand(p, mxl) = 0 =>
               /\ HostValue(p) = p
               /\ ~AskedError(kToHost0)
               /\ AskedExit(kToHost0) <=> p % 2 # 0
    BY <2>3, RequestDecoded
  <2>8. CASE HostDevice(p, mxl) # 0
    <3>1. host' = done
      BY <2>5, <2>8
    <3>2. NothingAsked
      BY <2>2, <2>3, <2>7, <2>8 DEF NothingAsked
    <3>3. QED
      BY <1>5, <2>6, <3>1, <3>2
  <2>9. CASE HostDevice(p, mxl) = 0 /\ HostCommand(p, mxl) # 0
    <3>1. host' = [done EXCEPT !.error_flag = TRUE, !.end_flag = TRUE]
      BY <2>5, <2>9
    <3>2. /\ host'.host_write = {} /\ host'.end_flag /\ host'.error_flag
          /\ DOMAIN host' = HostNames
      BY <2>6, <3>1 DEF HostNames
    <3>3. QED
      BY <1>7, <1>8, <1>10, <2>2, <2>3, <2>7, <2>9, <3>2
  <2>10. CASE HostDevice(p, mxl) = 0 /\ HostCommand(p, mxl) = 0 /\ HostValue(p) % 2 = 0
    <3>1. host' = done
      BY <2>5, <2>10
    <3>2. NothingAsked
      BY <2>2, <2>3, <2>7, <2>10 DEF NothingAsked
    <3>3. QED
      BY <1>5, <2>6, <3>1, <3>2
  <2>11. CASE HostDevice(p, mxl) = 0 /\ HostCommand(p, mxl) = 0 /\ HostValue(p) % 2 # 0
    <3>1. host' = [done EXCEPT !.host_value = HostValue(p) \div 2, !.end_flag = TRUE]
      BY <2>5, <2>11
    <3>2. /\ host'.host_write = {} /\ host'.end_flag /\ ~host'.error_flag
          /\ host'.host_value = HostValue(p) \div 2
          /\ DOMAIN host' = HostNames
      BY <2>6, <3>1 DEF HostNames
    <3>3. QED
      BY <1>7, <1>8, <1>10, <2>2, <2>3, <2>7, <2>11, <3>2
  <2>12. QED
    BY <2>8, <2>9, <2>10, <2>11
<1>11. QED
  BY <1>6, <1>9, <1>10

LEMMA InitHost == Init => HostInv
<1>1. SUFFICES ASSUME Init PROVE HostInv
  OBVIOUS
<1>2. DOMAIN host = HostNames /\ Quiet
  BY <1>1 DEF Init, HostInit, HostNames, Quiet
<1>3. access.by = "nobody" /\ phase = "start"
  BY <1>1 DEF Init, Nobody
<1>4. QED
  BY <1>2, <1>3 DEF HostInv, HostEndsAsAsked

\* Every step keeps the host interface's invariant.
LEMMA StepHost == TypeInv /\ TimerInv /\ HostInv /\ [Next]_vars => HostInv'
<1>1. SUFFICES ASSUME TypeInv, TimerInv, HostInv, [Next]_vars PROVE HostInv'
  OBVIOUS
<1>2. DOMAIN hart = HartFields /\ DOMAIN host = HostNames
  BY <1>1 DEF TimerInv, HostInv
<1>3. ASSUME options'.host_emulation, DOMAIN host' = HostNames, Quiet', NothingAsked',
             ~hart'.error, ~hart'.end, phase' \in {"tick", "execute"}
      PROVE  HostInv'
  <2>1. HostEndsAsAsked'
    BY <1>3 DEF HostEndsAsAsked, NothingAsked, Quiet
  <2>2. QED
    BY <1>3, <2>1 DEF HostInv, SetupPhases
<1>4. ASSUME ~options'.host_emulation, DOMAIN host' = HostNames, phase' \notin SetupPhases
      PROVE  HostInv'
  BY <1>4 DEF HostInv
<1>5. CASE Setup
  <2>1. phase \in SetupPhases /\ UNCHANGED host
    BY <1>5 DEF Setup, ReadProgram, LoadSegment, SetUpBss, FindSymbols, SymbolsFail,
                SetDefaultMmuTable, UartInit, VirtioInit, StartLoop, loopVars, SetupPhases
  <2>2. Quiet /\ access.by # "store"
    BY <1>1, <2>1 DEF HostInv
  <2>3. Quiet'
    BY <2>1, <2>2 DEF Quiet
  <2>4. access'.by # "store"
    BY <1>5, <2>2 DEF Setup, ReadProgram, LoadSegment, SetUpBss, FindSymbols, SymbolsFail,
                SetDefaultMmuTable, UartInit, VirtioInit, StartLoop, loopVars, Writes
  <2>5. NothingAsked'
    BY <2>4, NothingStored
  <2>6. CASE StartLoop
    <3>1. phase' = "tick" /\ ~hart'.error /\ ~hart'.end
      BY <1>2, <2>6 DEF StartLoop, HartFields
    <3>2. phase' \notin SetupPhases
      BY <3>1 DEF SetupPhases
    <3>3. QED
      BY <1>2, <1>3, <1>4, <2>1, <2>3, <2>5, <3>1, <3>2
  <2>7. CASE ~StartLoop
    <3>1. phase' \notin {"tick", "execute", "devices", "ended"}
      BY <1>5, <2>7 DEF Setup, ReadProgram, LoadSegment, SetUpBss, FindSymbols, SymbolsFail,
                SetDefaultMmuTable, UartInit, VirtioInit
    <3>2. QED
      BY <1>2, <2>1, <2>3, <2>4, <3>1 DEF HostInv, HostEndsAsAsked
  <2>8. QED
    BY <2>6, <2>7
<1>6. ASSUME phase \in {"tick", "execute"}, options.host_emulation
      PROVE  Quiet /\ NothingAsked /\ ~hart.error /\ ~hart.end
  BY <1>1, <1>6 DEF HostInv
<1>7. CASE TimerTick
  <2>1. /\ phase = "tick" /\ phase' = "execute"
        /\ UNCHANGED <<host, mem, access, options>>
        /\ hart'.error = hart.error /\ hart'.end = hart.end
    BY <1>2, <1>7 DEF TimerTick, HartFields
  <2>2. phase' \notin SetupPhases
    BY <2>1 DEF SetupPhases
  <2>3. options.host_emulation => Quiet' /\ NothingAsked'
    BY <1>1, <1>6, <2>1, SameMemory, NothingKept DEF Quiet
  <2>4. QED
    BY <1>2, <1>3, <1>4, <1>6, <2>1, <2>2, <2>3
<1>8. CASE TakeTimerInterrupt
  <2>1. /\ phase = "execute" /\ phase' = LoopEnd(hart)
        /\ UNCHANGED <<host, mem, access, options>>
        /\ hart'.error = hart.error /\ hart'.end = hart.end
    BY <1>2, <1>8 DEF TakeTimerInterrupt, HartFields
  <2>2. phase' \notin SetupPhases
    BY <2>1 DEF SetupPhases, LoopEnd
  <2>3. options.host_emulation => Quiet' /\ NothingAsked' /\ phase' = "tick"
    BY <1>1, <1>6, <2>1, SameMemory, NothingKept DEF Quiet, LoopEnd
  <2>4. QED
    BY <1>2, <1>3, <1>4, <1>6, <2>1, <2>2, <2>3
<1>9. ASSUME phase' = "devices", DOMAIN host' = HostNames,
             options'.host_emulation => Requested'
      PROVE  HostInv'
  BY <1>9 DEF HostInv, HostEndsAsAsked, SetupPhases
<1>10. CASE BeginPiece \/ ContinuePiece
  <2>1. PICK i \in GuestInstructions, g \in GuestStates : Instruction(i, g)
    BY <1>1, <1>10, PieceStep
  <2>2. phase = "execute"
    BY <1>10 DEF BeginPiece, ContinuePiece
  <2>3. phase' = "devices" /\ UNCHANGED options
    BY <1>1, <2>1, InstructionFrame
  <2>4. CASE options.host_emulation
    BY <1>1, <1>2, <1>6, <1>9, <2>1, <2>2, <2>3, <2>4, InstructionAsks
  <2>5. CASE ~options.host_emulation
    <3>1. DOMAIN host' = HostNames
      BY <1>2, <2>1 DEF Instruction, LoadInstruction, StoreInstruction, CheckDeviceWrite,
                        AmoInstruction, EcallInstruction, ErrorInstruction
    <3>2. QED
      BY <1>9, <2>3, <2>5, <3>1
  <2>6. QED
    BY <2>4, <2>5
<1>11. CASE OtherInstruction
  <2>1. /\ phase = "execute" /\ phase' = "devices"
        /\ UNCHANGED <<host, mem, access, options, hart>>
    BY <1>11 DEF OtherInstruction, NextInstruction
  <2>2. options.host_emulation => Requested'
    BY <1>1, <1>6, <2>1, SameMemory, NothingKept DEF Quiet, Requested
  <2>3. QED
    BY <1>2, <1>9, <2>1, <2>2
<1>12. CASE PeripheralEmulations
  <2>1. phase = "devices" /\ UNCHANGED options /\ phase' = LoopEnd(hart')
    BY <1>12 DEF PeripheralEmulations
  <2>2. phase' \notin SetupPhases
    BY <2>1 DEF SetupPhases, LoopEnd
  <2>3. CASE options.host_emulation
    <3>1. Requested
      BY <1>1, <2>1, <2>3 DEF HostInv
    <3>2. /\ DOMAIN host' = HostNames
          /\ phase' = "tick" => Quiet' /\ NothingAsked' /\ ~hart'.error /\ ~hart'.end
          /\ HostEndsAsAsked'
          /\ phase' \in {"tick", "ended"}
      BY <1>1, <1>2, <1>12, <2>3, <3>1, EmulationAnswers
    <3>3. QED
      BY <2>2, <3>2 DEF HostInv
  <2>4. CASE ~options.host_emulation
    <3>1. UNCHANGED host
      BY <1>12, <2>4 DEF PeripheralEmulations
    <3>2. QED
      BY <1>2, <1>4, <2>1, <2>2, <2>4, <3>1
  <2>5. QED
    BY <2>3, <2>4
<1>13. CASE UNCHANGED vars
  BY <1>1, <1>13 DEF vars, loopVars, HostInv, HostEndsAsAsked, Quiet, NothingAsked, Requested,
                     StoredWord, Asked, AskedExit, AskedError, mxl
<1>14. QED
  BY <1>1, <1>5, <1>7, <1>8, <1>10, <1>11, <1>12, <1>13 DEF Next, Loop

\* A program under -h ends in the iteration of the store that asks for it and in
\* no other, with that store's value, for every guest and every register width.
THEOREM HostEndsAsAskedHolds == Spec => []HostEndsAsAsked
<1>1. HostInv => HostEndsAsAsked
  BY DEF HostInv, HostEndsAsAsked
<1>2. QED
  BY <1>1, InitHost, StepHost, InitTimer, StepTimer, TypesHold, PTL DEF Spec

-----------------------------------------------------------------------------
(* The image.                                                              *)

\* A write that stays below the end of the memory hits a range.
LEMMA HitsRange ==
  ASSUME NEW i \in Nat, NEW n \in Nat, i + n <= MemorySize, NEW a \in 0 .. MemorySize - 1
  PROVE  /\ a \in i .. i + n - 1 => Hits(i, n, a) = {a - i + 1}
         /\ a \notin i .. i + n - 1 => Hits(i, n, a) = {}
<1>1. PICK size \in Nat \ {0} : size = MemorySize
  BY Sizes
<1>2. \A k \in 1 .. n : (i + k - 1) % size = i + k - 1
  <2>1. SUFFICES ASSUME NEW k \in 1 .. n PROVE (i + k - 1) % size = i + k - 1
    OBVIOUS
  <2>2. i + k - 1 \in 0 .. size - 1
    BY <1>1
  <2>3. QED
    BY <2>2
<1>3. Hits(i, n, a) = {k \in 1 .. n : i + k - 1 = a}
  BY <1>1, <1>2 DEF Hits
<1>4. a \in Nat
  BY <1>1
<1>5. a \in i .. i + n - 1 => Hits(i, n, a) = {a - i + 1}
  BY <1>3, <1>4
<1>6. a \notin i .. i + n - 1 => Hits(i, n, a) = {}
  BY <1>3, <1>4
<1>7. QED
  BY <1>5, <1>6

LEMMA LatestOfOne ==
  ASSUME NEW x \in Int
  PROVE  Latest({x}) = x
BY DEF Latest

\* One more segment.
LEMMA LoadedNext ==
  ASSUME NEW file, file.segments \in Seq(Segments), NEW n \in Nat,
         n < Len(file.segments), NEW a
  PROVE  LET segment == file.segments[n + 1]
         IN  Loaded(file, n + 1, a) =
               IF segment.load /\ BytesFor(segment, a) # {}
               THEN segment.data[Latest(BytesFor(segment, a))]
               ELSE Loaded(file, n, a)
<1>1. PICK segment : segment = file.segments[n + 1]
  OBVIOUS
<1>2. PICK C, D : C = Covering(file, n, a) /\ D = Covering(file, n + 1, a)
  OBVIOUS
<1>3. 1 .. n + 1 = (1 .. n) \cup {n + 1}
  OBVIOUS
<1>4. CASE segment.load /\ BytesFor(segment, a) # {}
  <2>1. D = C \cup {n + 1}
    BY <1>1, <1>2, <1>3, <1>4 DEF Covering
  <2>2. C \subseteq 1 .. n
    BY <1>2 DEF Covering
  <2>3. D \subseteq 1 .. n + 1 /\ n + 1 \in D
    BY <2>1, <2>2
  <2>4. Latest(D) \in D /\ \A k \in D : k <= Latest(D)
    <3>1. PICK p \in Nat : p = n + 1
      OBVIOUS
    <3>2. QED
      BY <2>3, <3>1, LatestIs
  <2>5. Latest(D) = n + 1
    <3>1. Latest(D) \in 1 .. n + 1 /\ n + 1 <= Latest(D)
      BY <2>3, <2>4
    <3>2. QED
      BY <3>1
  <2>6. Loaded(file, n + 1, a) = segment.data[Latest(BytesFor(segment, a))]
    BY <1>1, <1>2, <2>3, <2>5 DEF Loaded
  <2>7. QED
    BY <1>1, <1>4, <2>6
<1>5. CASE ~(segment.load /\ BytesFor(segment, a) # {})
  <2>1. D = C
    BY <1>1, <1>2, <1>3, <1>5 DEF Covering
  <2>2. Loaded(file, n + 1, a) = Loaded(file, n, a)
    BY <1>2, <2>1 DEF Loaded
  <2>3. QED
    BY <1>1, <1>5, <2>2
<1>6. QED
  BY <1>4, <1>5

\* What a place holds after .bss, and after the tables.
AfterBss(file, a) ==
  IF InBss(file, a) THEN 0 ELSE Loaded(file, Len(file.segments), a)

\* The bytes of memory m are those of the function f.
Holds(m, f) == \A a \in 0 .. MemorySize - 1 : ReadByte(m, a) = f[a]

LoadedImage(file, n) == [a \in 0 .. MemorySize - 1 |-> Loaded(file, n, a)]
BssImage(file) == [a \in 0 .. MemorySize - 1 |-> AfterBss(file, a)]
TablesImage(file) == [a \in 0 .. MemorySize - 1 |-> Image(file, a)]
UartImage(file) ==
  [a \in 0 .. MemorySize - 1 |->
     IF a = kUartLsr THEN UartReady(Image(file, a)) ELSE Image(file, a)]
DeviceImage(file) ==
  [a \in 0 .. MemorySize - 1 |->
     IF a \in kVirtioBase .. kVirtioBase + 7
     THEN ByteOf(VirtioWords[1 + (a - kVirtioBase) \div 4], (a - kVirtioBase) % 4)
     ELSE UartImage(file)[a]]

\* A segment is loaded over those before it.
LEMMA SegmentLoaded ==
  ASSUME NEW m, WellFormed(m), NEW file, file.segments \in Seq(Segments), NEW n \in Nat,
         n < Len(file.segments), Holds(m, LoadedImage(file, n)),
         NEW segment, segment = file.segments[n + 1]
  PROVE  /\ segment.load =>
              Holds(WriteBytes(m, segment.vaddr, segment.data), LoadedImage(file, n + 1))
         /\ ~segment.load => Holds(m, LoadedImage(file, n + 1))
<1>1. segment.vaddr \in Nat /\ segment.data \in Seq(Byte)
  <2>1. segment \in Segments
    OBVIOUS
  <2>2. QED
    BY <2>1 DEF Segments
<1>2. ASSUME NEW a \in 0 .. MemorySize - 1
      PROVE  /\ segment.load /\ BytesFor(segment, a) # {} =>
                  LoadedImage(file, n + 1)[a] = segment.data[Latest(BytesFor(segment, a))]
             /\ ~(segment.load /\ BytesFor(segment, a) # {}) =>
                  LoadedImage(file, n + 1)[a] = ReadByte(m, a)
  BY LoadedNext DEF LoadedImage, Holds
<1>3. CASE segment.load
  <2>1. PICK o, len, data, i : /\ o = WriteBytes(m, segment.vaddr, segment.data)
                               /\ len = Len(segment.data) /\ data = segment.data
                               /\ i = segment.vaddr
    OBVIOUS
  <2>2. len \in Nat /\ i \in Nat /\ \A k \in 1 .. len : data[k] \in Byte
    BY <1>1, <2>1
  <2>3. Puts(m, o, i, data, len)
    BY <2>1, <2>2, BytesWritten
  <2>4. ASSUME NEW a \in 0 .. MemorySize - 1
        PROVE  ReadByte(o, a) = LoadedImage(file, n + 1)[a]
    <3>1. BytesFor(segment, a) = Hits(i, len, a)
      BY <2>1 DEF BytesFor, Hits
    <3>2. /\ Hits(i, len, a) = {} => ReadByte(o, a) = ReadByte(m, a)
          /\ Hits(i, len, a) # {} => ReadByte(o, a) = data[Latest(Hits(i, len, a))]
      BY <2>2, <2>3, PutsPlace
    <3>3. QED
      BY <1>2, <1>3, <2>1, <3>1, <3>2
  <2>5. QED
    BY <1>3, <2>1, <2>4 DEF Holds
<1>4. CASE ~segment.load
  BY <1>2, <1>4 DEF Holds
<1>5. QED
  BY <1>3, <1>4

\* From memory m to o the n bytes from i on become v, and no other changes.
Filled(m, o, i, n, v) ==
  \A a \in 0 .. MemorySize - 1 :
    ReadByte(o, a) = IF a \in i .. i + n - 1 THEN v ELSE ReadByte(m, a)

\* A write of one value within the memory.
LEMMA RangeWritten ==
  ASSUME NEW m, WellFormed(m), NEW i \in Nat, NEW data \in Seq(Byte),
         i + Len(data) <= MemorySize, NEW v, \A k \in 1 .. Len(data) : data[k] = v
  PROVE  Filled(m, WriteBytes(m, i, data), i, Len(data), v)
<1>1. PICK o, n : o = WriteBytes(m, i, data) /\ n = Len(data)
  OBVIOUS
<1>2. n \in Nat /\ \A k \in 1 .. n : data[k] \in Byte
  BY <1>1
<1>3. Puts(m, o, i, data, n)
  BY <1>1, <1>2, BytesWritten
<1>4. ASSUME NEW a \in 0 .. MemorySize - 1
      PROVE  ReadByte(o, a) = IF a \in i .. i + n - 1 THEN v ELSE ReadByte(m, a)
  <2>1. /\ Hits(i, n, a) = {} => ReadByte(o, a) = ReadByte(m, a)
        /\ Hits(i, n, a) # {} => ReadByte(o, a) = data[Latest(Hits(i, n, a))]
    BY <1>2, <1>3, PutsPlace
  <2>2. /\ a \in i .. i + n - 1 => Hits(i, n, a) = {a - i + 1}
        /\ a \notin i .. i + n - 1 => Hits(i, n, a) = {}
    BY <1>1, <1>2, HitsRange
  <2>3. CASE a \in i .. i + n - 1
    <3>1. PICK k \in 1 .. n : k = a - i + 1
      BY <1>2, <2>3
    <3>2. Latest({k}) = k
      BY LatestOfOne
    <3>3. ReadByte(o, a) = data[k]
      BY <2>1, <2>2, <2>3, <3>1, <3>2
    <3>4. QED
      BY <1>1, <2>3, <3>3
  <2>4. QED
    BY <2>1, <2>2, <2>3
<1>5. Filled(m, o, i, n, v)
  BY <1>4 DEF Filled
<1>6. QED
  BY <1>1, <1>5

\* A .bss within the memory is never endless.
LEMMA BssFinite ==
  ASSUME NEW name \in DOMAIN Files, BssFits(Files[name])
  PROVE  ~BssIsEndless(Files[name])
<1>1. PICK start \in Nat, len \in Nat :
        start = Bss(Files[name]).address /\ len = Bss(Files[name]).size
  BY BssWritten
<1>2. PICK size \in Nat : size = MemorySize
  BY Sizes
<1>3. start + len < size
  BY <1>1, <1>2 DEF BssFits
<1>4. QED
  BY <1>1, <1>2, <1>3 DEF BssIsEndless, BssEnd

\* .bss is zeroed over the segments.
LEMMA BssZeroed ==
  ASSUME NEW m, WellFormed(m), NEW name \in DOMAIN Files, NEW file, file = Files[name],
         BssFits(file), Holds(m, LoadedImage(file, Len(file.segments)))
  PROVE  Holds(WriteBytes(m, Bss(file).address, BssBytes(file)), BssImage(file))
<1>1. PICK start, len : start = Bss(file).address /\ len = Bss(file).size
  OBVIOUS
<1>2. PICK size \in Nat \ {0} : size = MemorySize /\ start \in Nat /\ len \in Nat
  BY <1>1, BssWritten, Sizes
<1>3. start + len < size
  BY <1>1, <1>2 DEF BssFits
<1>4. PICK data : data = BssBytes(file)
  OBVIOUS
<1>5. data \in Seq(Byte) /\ \A k \in 1 .. Len(data) : data[k] = 0
  BY <1>4, BssWritten
<1>6. /\ Bss(file) = NoSection => Len(data) = 0
      /\ Bss(file) # NoSection => Len(data) = len
  <2>1. BssEnd(file) = start + len
    <3>1. start + len \in Nat /\ (start + len) % size = start + len
      BY <1>2, <1>3
    <3>2. QED
      BY <1>1, <1>2, <3>1 DEF BssEnd
  <2>2. ~BssIsEndless(file)
    BY BssFinite
  <2>3. PICK n \in Nat : n = IF Bss(file) # NoSection THEN len ELSE 0
    BY <1>2
  <2>4. BssLength(file) = n
    BY <1>1, <1>2, <2>1, <2>2, <2>3 DEF BssLength
  <2>5. data = [k \in 1 .. n |-> 0]
    BY <1>4, <2>4 DEF BssBytes
  <2>6. QED
    BY <2>3, <2>5
<1>7. start \in Nat /\ Len(data) \in Nat /\ start + Len(data) <= MemorySize
  BY <1>2, <1>3, <1>5, <1>6
<1>8. Filled(m, WriteBytes(m, start, data), start, Len(data), 0)
  <2>1. PICK v : v = 0
    OBVIOUS
  <2>2. \A k \in 1 .. Len(data) : data[k] = v
    BY <1>5, <2>1
  <2>3. Filled(m, WriteBytes(m, start, data), start, Len(data), v)
    BY <1>5, <1>7, <2>2, RangeWritten
  <2>4. QED
    BY <2>1, <2>3
<1>9. ASSUME NEW a \in 0 .. MemorySize - 1
      PROVE  ReadByte(WriteBytes(m, start, data), a) = BssImage(file)[a]
  <2>1. InBss(file, a) <=> a \in start .. start + Len(data) - 1
    <3>1. CASE Bss(file) = NoSection
      <4>1. start .. start + Len(data) - 1 = {}
        BY <1>2, <1>6, <3>1
      <4>2. QED
        BY <3>1, <4>1 DEF InBss
    <3>2. CASE Bss(file) # NoSection
      BY <1>1, <1>6, <3>2 DEF InBss
    <3>3. QED
      BY <3>1, <3>2
  <2>2. ReadByte(m, a) = Loaded(file, Len(file.segments), a)
    BY DEF Holds, LoadedImage
  <2>3. BssImage(file)[a] = IF InBss(file, a) THEN 0 ELSE Loaded(file, Len(file.segments), a)
    BY DEF BssImage, AfterBss
  <2>4. QED
    BY <1>8, <2>1, <2>2, <2>3 DEF Filled
<1>10. QED
  BY <1>1, <1>4, <1>9 DEF Holds

\* The default tables are laid over the image.
LEMMA TablesLaid ==
  ASSUME NEW m, WellFormed(m), NEW file, Holds(m, BssImage(file))
  PROVE  Holds(WriteBytes(m, TableStart, DefaultTable), TablesImage(file))
<1>1. PICK start, data : start = TableStart /\ data = DefaultTable
  OBVIOUS
<1>2. /\ start \in Nat /\ data \in Seq(Byte) /\ start \in MmuTable
      /\ MmuTable = start .. start + Len(data) - 1
      /\ \A a \in MmuTable : a < MemorySize
      /\ \A k \in 1 .. Len(data) : data[k] = 1
  BY <1>1, TablesWritten
<1>3. start + Len(data) <= MemorySize
  <2>1. PICK size \in Nat, n \in Nat : size = MemorySize /\ n = Len(data)
    BY <1>2, Sizes
  <2>2. n > 0 /\ start + n - 1 \in MmuTable
    BY <1>2, <2>1
  <2>3. start + n - 1 < size
    BY <1>2, <2>1, <2>2
  <2>4. QED
    BY <1>2, <2>1, <2>3
<1>4. Filled(m, WriteBytes(m, start, data), start, Len(data), 1)
  <2>1. PICK v : v = 1
    OBVIOUS
  <2>2. \A k \in 1 .. Len(data) : data[k] = v
    BY <1>2, <2>1
  <2>3. Filled(m, WriteBytes(m, start, data), start, Len(data), v)
    BY <1>2, <1>3, <2>2, RangeWritten
  <2>4. QED
    BY <2>1, <2>3
<1>5. ASSUME NEW a \in 0 .. MemorySize - 1
      PROVE  ReadByte(WriteBytes(m, start, data), a) = TablesImage(file)[a]
  <2>1. ReadByte(m, a) = IF InBss(file, a) THEN 0 ELSE Loaded(file, Len(file.segments), a)
    BY DEF Holds, BssImage, AfterBss
  <2>2. TablesImage(file)[a] = IF a \in MmuTable THEN 1
                               ELSE IF InBss(file, a) THEN 0
                               ELSE Loaded(file, Len(file.segments), a)
    BY DEF TablesImage, Image
  <2>3. QED
    BY <1>2, <1>4, <2>1, <2>2 DEF Filled
<1>6. QED
  BY <1>1, <1>5 DEF Holds

\* The line status is set.
LEMMA UartSet ==
  ASSUME NEW m, WellFormed(m), NEW file, Holds(m, TablesImage(file))
  PROVE  Holds(WriteByte(m, kUartLsr, UartReady(ReadByte(m, kUartLsr))), UartImage(file))
<1>1. PICK size \in Nat \ {0} : size = MemorySize
  BY Sizes
<1>2. kUartLsr \in Nat /\ kUartLsr \in 0 .. size - 1 /\ kUartLsr % size = kUartLsr
  BY <1>1, DevicePlaces
<1>3. PICK lsr : lsr = UartReady(ReadByte(m, kUartLsr))
  OBVIOUS
<1>4. lsr \in Byte
  BY <1>2, <1>3, ByteRead, LineStatus
<1>5. PICK o : o = WriteByte(m, kUartLsr, lsr)
  OBVIOUS
<1>6. \A a \in Nat : ReadByte(o, a) = IF a % MemorySize = kUartLsr % MemorySize THEN lsr
                                      ELSE ReadByte(m, a)
  BY <1>2, <1>4, <1>5, ByteWritten
<1>7. ReadByte(m, kUartLsr) = Image(file, kUartLsr)
  BY <1>1, <1>2 DEF Holds, TablesImage
<1>8. ASSUME NEW a \in 0 .. size - 1
      PROVE  ReadByte(o, a) = UartImage(file)[a]
  <2>1. a \in Nat /\ a % size = a
    BY <1>8
  <2>2. ReadByte(m, a) = Image(file, a)
    BY <1>1 DEF Holds, TablesImage
  <2>3. UartImage(file)[a] = IF a = kUartLsr THEN UartReady(Image(file, a)) ELSE Image(file, a)
    BY <1>1 DEF UartImage
  <2>4. ReadByte(o, a) = IF a = kUartLsr THEN lsr ELSE ReadByte(m, a)
    BY <1>1, <1>2, <1>6, <2>1
  <2>5. QED
    BY <1>3, <1>7, <2>2, <2>3, <2>4
<1>9. QED
  BY <1>1, <1>3, <1>5, <1>8 DEF Holds

\* The disk's identification is written.
LEMMA IdentitySet ==
  ASSUME NEW m, WellFormed(m), NEW file, Holds(m, UartImage(file))
  PROVE  Holds(Write32(Write32(m, kVirtioBase, 1), kVirtioBase + 4, 2), DeviceImage(file))
<1>1. PICK base \in Nat, size \in Nat \ {0} :
        base = kVirtioBase /\ size = MemorySize /\ base + 8 <= size
  BY Sizes, DevicePlaces
<1>2. PICK o, f : /\ o = Write32(Write32(m, kVirtioBase, 1), kVirtioBase + 4, 2)
                  /\ f = BytesOf(1, 4) \o BytesOf(2, 4)
  OBVIOUS
<1>3. /\ \A k \in 1 .. 4 : f[k] = ByteOf(1, k - 1) /\ f[4 + k] = ByteOf(2, k - 1)
      /\ Puts(m, o, base, f, 8)
  BY <1>1, <1>2, IdentityPut
<1>4. ASSUME NEW k \in 0 .. 7
      PROVE  f[k + 1] = ByteOf(VirtioWords[1 + k \div 4], k % 4)
  <2>1. CASE k < 4
    <3>1. k + 1 \in 1 .. 4 /\ k \div 4 = 0 /\ k % 4 = k /\ (k + 1) - 1 = k
      BY <2>1
    <3>2. VirtioWords[1] = 1
      BY DEF VirtioWords
    <3>3. f[k + 1] = ByteOf(1, k)
      BY <1>3, <3>1
    <3>4. QED
      BY <3>1, <3>2, <3>3
  <2>2. CASE k >= 4
    <3>1. PICK l \in 1 .. 4 : l = k - 3
      BY <2>2
    <3>2. 4 + l = k + 1 /\ k \div 4 = 1 /\ k % 4 = l - 1
      BY <2>2, <3>1
    <3>3. VirtioWords[2] = 2
      BY DEF VirtioWords
    <3>4. f[k + 1] = ByteOf(2, l - 1)
      BY <1>3, <3>2
    <3>5. QED
      BY <3>2, <3>3, <3>4
  <2>3. QED
    BY <2>1, <2>2
<1>5. ASSUME NEW a \in 0 .. MemorySize - 1
      PROVE  ReadByte(o, a) = DeviceImage(file)[a]
  <2>1. PICK n \in Nat : n = 8
    OBVIOUS
  <2>2. Puts(m, o, base, f, n) /\ base + n <= MemorySize
    BY <1>1, <1>3, <2>1
  <2>3. /\ Hits(base, n, a) = {} => ReadByte(o, a) = ReadByte(m, a)
        /\ Hits(base, n, a) # {} => ReadByte(o, a) = f[Latest(Hits(base, n, a))]
    BY <2>2, PutsPlace
  <2>4. /\ a \in base .. base + n - 1 => Hits(base, n, a) = {a - base + 1}
        /\ a \notin base .. base + n - 1 => Hits(base, n, a) = {}
    BY <2>2, HitsRange
  <2>5. base + n - 1 = base + 7
    BY <2>1
  <2>6. ReadByte(m, a) = UartImage(file)[a]
    BY DEF Holds
  <2>7. DeviceImage(file)[a] =
          IF a \in base .. base + 7
          THEN ByteOf(VirtioWords[1 + (a - base) \div 4], (a - base) % 4)
          ELSE UartImage(file)[a]
    BY <1>1 DEF DeviceImage
  <2>8. CASE a \in base .. base + 7
    <3>1. PICK k \in 0 .. 7 : k = a - base
      BY <2>8
    <3>2. Latest({k + 1}) = k + 1
      BY LatestOfOne
    <3>3. ReadByte(o, a) = f[k + 1]
      BY <2>3, <2>4, <2>5, <2>8, <3>1, <3>2
    <3>4. QED
      BY <1>4, <2>7, <2>8, <3>1, <3>3
  <2>9. CASE a \notin base .. base + 7
    BY <2>3, <2>4, <2>5, <2>6, <2>7, <2>9
  <2>10. QED
    BY <2>8, <2>9
<1>6. QED
  BY <1>2, <1>5 DEF Holds

\* The image at each place of run().
ImageInv ==
  /\ phase \in {"start", "segments"} => loading >= 1
  /\ phase = "start" => loading = 1 /\ \A a \in 0 .. MemorySize - 1 : ReadByte(mem, a) = 0
  /\ phase = "segments" =>
       loading - 1 <= Len(File.segments) /\ Holds(mem, LoadedImage(File, loading - 1))
  /\ phase \in {"tables", "uart", "virtio", "run"} => hart.entry = EntryPoint(File)
  /\ phase \notin {"start", "rejected"} /\ BssFits(File) =>
       /\ phase \in {"symbols", "tables"} => Holds(mem, BssImage(File))
       /\ phase = "uart" => options.device_enable /\ Holds(mem, TablesImage(File))
       /\ phase = "virtio" => options.device_enable /\ Holds(mem, UartImage(File))
       /\ phase = "run" =>
            Holds(mem, IF options.device_enable THEN DeviceImage(File) ELSE TablesImage(File))

LEMMA InitImage == Init => ImageInv
<1>1. SUFFICES ASSUME Init PROVE ImageInv
  OBVIOUS
<1>2. \A a \in 0 .. MemorySize - 1 : a \in Nat
  BY Sizes
<1>3. \A a \in 0 .. MemorySize - 1 : ReadByte(mem, a) = 0
  BY <1>1, <1>2, Constructed DEF Init
<1>4. phase = "start" /\ loading = 1
  BY <1>1 DEF Init
<1>5. QED
  BY <1>3, <1>4 DEF ImageInv

\* Nothing is loaded before the first segment.
LEMMA NothingLoaded ==
  ASSUME NEW file, NEW m, \A a \in 0 .. MemorySize - 1 : ReadByte(m, a) = 0
  PROVE  Holds(m, LoadedImage(file, 0))
<1>1. \A a \in 0 .. MemorySize - 1 : Covering(file, 0, a) = {}
  BY DEF Covering
<1>2. \A a \in 0 .. MemorySize - 1 : LoadedImage(file, 0)[a] = 0
  BY <1>1 DEF LoadedImage, Loaded
<1>3. QED
  BY <1>2 DEF Holds

\* Every step of run() keeps the image, and the loop is after it.
LEMMA StepImage == TypeInv /\ TimerInv /\ ImageInv /\ [Next]_vars => ImageInv'
<1>1. SUFFICES ASSUME TypeInv, TimerInv, ImageInv, [Next]_vars PROVE ImageInv'
  OBVIOUS
<1>2. DOMAIN hart = HartFields /\ WellFormed(mem) /\ loading \in Nat
  BY <1>1 DEF TypeInv, TimerInv
<1>3. ASSUME phase' \notin {"start", "segments", "symbols", "tables", "uart", "virtio", "run"}
      PROVE  ImageInv'
  BY <1>3 DEF ImageInv
<1>4. PICK file, name : name = options.filename /\ file = Files[name]
  OBVIOUS
<1>5. UNCHANGED options => File' = file
  BY <1>4 DEF File
<1>6. File = file
  BY <1>4 DEF File
<1>7. CASE ReadProgram
  <2>1. phase = "start" /\ UNCHANGED <<mem, loading>> /\ phase' \in {"segments", "rejected"}
    BY <1>7 DEF ReadProgram
  <2>2. loading = 1 /\ \A a \in 0 .. MemorySize - 1 : ReadByte(mem, a) = 0
    BY <1>1, <2>1 DEF ImageInv
  <2>3. PICK new : new = File'
    OBVIOUS
  <2>4. Holds(mem, LoadedImage(new, 0))
    BY <2>2, NothingLoaded
  <2>5. phase' = "segments" => Len(new.segments) \in Nat
    <3>1. TypeInv'
      BY <1>1, StepTyped
    <3>2. phase' = "segments" => options'.filename \in DOMAIN Files
      BY <3>1 DEF TypeInv, FileKnown
    <3>3. phase' = "segments" => new.segments \in Seq(Segments)
      BY <2>3, <3>2, FileParts DEF File
    <3>4. QED
      BY <3>3
  <2>6. loading' = 1 /\ loading' - 1 = 0 /\ mem' = mem
    BY <2>1, <2>2
  <2>7. QED
    BY <2>1, <2>3, <2>4, <2>5, <2>6 DEF ImageInv
<1>8. CASE LoadSegment
  <2>1. /\ phase = "segments" /\ phase' = "segments" /\ UNCHANGED options
        /\ loading' = loading + 1 /\ loading <= Len(file.segments)
    BY <1>6, <1>8 DEF LoadSegment
  <2>2. name \in DOMAIN Files
    BY <1>1, <1>4, <2>1 DEF TypeInv, FileKnown
  <2>3. file.segments \in Seq(Segments) /\ Len(file.segments) \in Nat
    BY <1>4, <2>2, FileParts
  <2>4. loading >= 1 /\ Holds(mem, LoadedImage(file, loading - 1))
    BY <1>1, <1>6, <2>1 DEF ImageInv
  <2>5. PICK n \in Nat : n = loading - 1
    BY <1>2, <2>4
  <2>6. n + 1 = loading /\ n < Len(file.segments) /\ Holds(mem, LoadedImage(file, n))
    <3>1. n + 1 = loading /\ n < loading
      BY <1>2, <2>5
    <3>2. n < Len(file.segments)
      BY <1>2, <2>1, <2>3, <3>1
    <3>3. Holds(mem, LoadedImage(file, n))
      BY <2>4, <2>5
    <3>4. QED
      BY <3>1, <3>2, <3>3
  <2>7. PICK segment, o : segment = file.segments[n + 1] /\ o = mem'
    OBVIOUS
  <2>8. /\ segment.load => o = WriteBytes(mem, segment.vaddr, segment.data)
        /\ ~segment.load => o = mem
    BY <1>6, <1>8, <2>6, <2>7 DEF LoadSegment
  <2>9. Holds(o, LoadedImage(file, n + 1))
    BY <1>2, <2>3, <2>6, <2>7, <2>8, SegmentLoaded
  <2>10. loading' >= 1 /\ loading' - 1 = n + 1 /\ n + 1 <= Len(file.segments)
    BY <2>1, <2>3, <2>5, <2>6
  <2>11. File' = file /\ mem' = o
    BY <1>5, <2>1, <2>7
  <2>12. QED
    BY <2>1, <2>9, <2>10, <2>11 DEF ImageInv
<1>9. CASE SetUpBss
  <2>1. /\ phase = "segments" /\ phase' \in {"hung", "symbols"} /\ UNCHANGED options
        /\ loading > Len(file.segments)
        /\ phase' = "symbols" => mem' = WriteBytes(mem, Bss(file).address, BssBytes(file))
    BY <1>6, <1>9 DEF SetUpBss
  <2>2. name \in DOMAIN Files
    BY <1>1, <1>4, <2>1 DEF TypeInv, FileKnown
  <2>3. Len(file.segments) \in Nat
    BY <1>4, <2>2, FileParts
  <2>4. loading - 1 <= Len(file.segments) /\ Holds(mem, LoadedImage(file, loading - 1))
    BY <1>1, <1>6, <2>1 DEF ImageInv
  <2>5. loading - 1 = Len(file.segments)
    BY <1>2, <2>1, <2>3, <2>4
  <2>6. Holds(mem, LoadedImage(file, Len(file.segments)))
    BY <2>4, <2>5
  <2>7. BssFits(file) =>
          Holds(WriteBytes(mem, Bss(file).address, BssBytes(file)), BssImage(file))
    BY <1>2, <1>4, <2>2, <2>6, BssZeroed
  <2>8. File' = file
    BY <1>5, <2>1
  <2>9. QED
    BY <2>1, <2>7, <2>8 DEF ImageInv
<1>10. CASE FindSymbols
  <2>1. /\ phase = "symbols" /\ phase' \in {"rejected", "tables"} /\ UNCHANGED <<options, mem>>
        /\ hart'.entry = EntryPoint(file)
    BY <1>2, <1>6, <1>10 DEF FindSymbols, HartFields
  <2>2. BssFits(file) => Holds(mem, BssImage(file))
    BY <1>1, <1>6, <2>1 DEF ImageInv
  <2>3. File' = file /\ mem' = mem
    BY <1>5, <2>1
  <2>4. QED
    BY <2>1, <2>2, <2>3 DEF ImageInv
<1>11. CASE SymbolsFail
  BY <1>3, <1>11 DEF SymbolsFail
<1>12. ASSUME phase \in {"tables", "uart", "virtio"}
       PROVE  hart.entry = EntryPoint(file)
  BY <1>1, <1>6, <1>12 DEF ImageInv
<1>13. CASE SetDefaultMmuTable
  <2>1. /\ phase = "tables" /\ UNCHANGED options
        /\ phase' = IF options.device_enable THEN "uart" ELSE "run"
        /\ hart'.entry = hart.entry /\ mem' = WriteBytes(mem, TableStart, DefaultTable)
    BY <1>2, <1>13 DEF SetDefaultMmuTable, HartFields
  <2>2. BssFits(file) => Holds(mem', TablesImage(file))
    <3>1. BssFits(file) => Holds(mem, BssImage(file))
      BY <1>1, <1>6, <2>1 DEF ImageInv
    <3>2. QED
      BY <1>2, <2>1, <3>1, TablesLaid
  <2>3. File' = file
    BY <1>5, <2>1
  <2>4. QED
    BY <1>12, <2>1, <2>2, <2>3 DEF ImageInv
<1>14. CASE UartInit
  <2>1. /\ phase = "uart" /\ UNCHANGED <<options, hart>> /\ phase' = "virtio"
        /\ mem' = WriteByte(mem, kUartLsr, UartReady(ReadByte(mem, kUartLsr)))
    BY <1>14 DEF UartInit, loopVars
  <2>2. BssFits(file) => options.device_enable /\ Holds(mem', UartImage(file))
    <3>1. BssFits(file) => options.device_enable /\ Holds(mem, TablesImage(file))
      BY <1>1, <1>6, <2>1 DEF ImageInv
    <3>2. QED
      BY <1>2, <2>1, <3>1, UartSet
  <2>3. File' = file
    BY <1>5, <2>1
  <2>4. QED
    BY <1>12, <2>1, <2>2, <2>3 DEF ImageInv
<1>15. CASE VirtioInit
  <2>1. /\ phase = "virtio" /\ UNCHANGED <<options, hart>> /\ phase' = "run"
        /\ mem' = Write32(Write32(mem, kVirtioBase, 1), kVirtioBase + 4, 2)
    BY <1>15 DEF VirtioInit, loopVars, VirtioWords
  <2>2. BssFits(file) => options.device_enable /\ Holds(mem', DeviceImage(file))
    <3>1. BssFits(file) => options.device_enable /\ Holds(mem, UartImage(file))
      BY <1>1, <1>6, <2>1 DEF ImageInv
    <3>2. QED
      BY <1>2, <2>1, <3>1, IdentitySet
  <2>3. File' = file
    BY <1>5, <2>1
  <2>4. QED
    BY <1>12, <2>1, <2>2, <2>3 DEF ImageInv
<1>16. CASE StartLoop
  BY <1>3, <1>16 DEF StartLoop
<1>17. CASE Loop
  <2>1. CASE TimerTick \/ TakeTimerInterrupt \/ PeripheralEmulations
    BY <1>3, <2>1 DEF TimerTick, TakeTimerInterrupt, PeripheralEmulations, LoopEnd
  <2>2. CASE BeginPiece \/ ContinuePiece
    <3>1. PICK i \in GuestInstructions, g \in GuestStates : Instruction(i, g)
      BY <1>1, <2>2, PieceStep
    <3>2. phase' = "devices"
      BY <1>1, <3>1, InstructionFrame
    <3>3. QED
      BY <1>3, <3>2
  <2>3. CASE OtherInstruction
    BY <1>3, <2>3 DEF OtherInstruction, NextInstruction
  <2>4. QED
    BY <1>17, <2>1, <2>2, <2>3 DEF Loop
<1>18. CASE UNCHANGED vars
  BY <1>1, <1>18 DEF vars, loopVars, ImageInv, File
<1>19. QED
  BY <1>1, <1>7, <1>8, <1>9, <1>10, <1>11, <1>13, <1>14, <1>15, <1>16, <1>17, <1>18
     DEF Next, Setup

\* When the hart starts, memory is the file's image, for every file, memory size
\* and place of the devices and tables.
THEOREM ImageAsFileHolds == Spec => []ImageAsFile
<1>1. TypeInv /\ ImageInv => ImageAsFile
  <2>1. SUFFICES ASSUME TypeInv, ImageInv, phase = "run", BssFits(File)
                 PROVE  /\ \A a \in 0 .. MemorySize - 1 :
                             /\ options.device_enable /\ a = kUartLsr =>
                                  ReadByte(mem, a) = UartReady(Image(File, a))
                             /\ options.device_enable /\ a \in kVirtioBase .. kVirtioBase + 7 =>
                                  ReadByte(mem, a) =
                                    ByteOf(VirtioWords[1 + (a - kVirtioBase) \div 4],
                                           (a - kVirtioBase) % 4)
                             /\ ~(options.device_enable
                                  /\ (a = kUartLsr \/ a \in kVirtioBase .. kVirtioBase + 7)) =>
                                  ReadByte(mem, a) = Image(File, a)
                        /\ File.entry < MemorySize => hart.entry = File.entry
    BY DEF ImageAsFile
  <2>2. File.entry < MemorySize => hart.entry = File.entry
    <3>1. options.filename \in DOMAIN Files /\ hart.entry = File.entry % MemorySize
      BY <2>1 DEF TypeInv, FileKnown, ImageInv, EntryPoint
    <3>2. PICK entry \in Nat, size \in Nat \ {0} : entry = File.entry /\ size = MemorySize
      BY <3>1, FileParts, Sizes DEF File
    <3>3. entry < size => entry % size = entry
      OBVIOUS
    <3>4. QED
      BY <3>1, <3>2, <3>3
  <2>3. CASE options.device_enable
    <3>1. Holds(mem, DeviceImage(File))
      BY <2>1, <2>3 DEF ImageInv
    <3>2. QED
      BY <2>2, <2>3, <3>1, DevicePlaces DEF Holds, DeviceImage, UartImage
  <2>4. CASE ~options.device_enable
    <3>1. Holds(mem, TablesImage(File))
      BY <2>1, <2>4 DEF ImageInv
    <3>2. QED
      BY <2>2, <2>4, <3>1 DEF Holds, TablesImage
  <2>5. QED
    BY <2>3, <2>4
<1>2. QED
  BY <1>1, InitImage, StepImage, InitTimer, StepTimer, TypesHold, PTL DEF Spec

-----------------------------------------------------------------------------
(* The command line.                                                       *)

\* A position is taken exactly when a -s that is not taken stands before it.
LEMMA Taken ==
  ASSUME NEW argv, NEW n \in Nat, Len(argv) = n, NEW j \in 1 .. n
  PROVE  j \in TakenByS(argv) <=>
           j > 1 /\ argv[j - 1] = "-s" /\ j - 1 \notin TakenByS(argv)
<1> DEFINE Run(k, m) == /\ k \in 1 .. m - 1
                        /\ \A l \in k .. m - 1 : argv[l] = "-s"
                        /\ k = 1 \/ argv[k - 1] # "-s"
<1>1. \A m \in 1 .. n : m \in TakenByS(argv) <=> \E k \in 1 .. m - 1 : Run(k, m) /\ (m - k) % 2 = 1
  BY DEF TakenByS
<1>2. ASSUME NEW m \in 2 .. n, argv[m - 1] = "-s" PROVE \E k \in 1 .. m - 1 : Run(k, m)
  <2> DEFINE T == {k \in 1 .. m - 1 : \A l \in k .. m - 1 : argv[l] = "-s"}
  <2>1. T \in SUBSET Nat /\ m - 1 \in T
    <3>1. \A l \in m - 1 .. m - 1 : l = m - 1
      OBVIOUS
    <3>2. QED
      BY <1>2, <3>1
  <2>2. PICK k \in T : \A y \in T : k <= y
    <3> HIDE DEF T
    <3>1. QED
      BY <2>1, Least
  <2>3. k # 1 => argv[k - 1] # "-s"
    <3>1. SUFFICES ASSUME k # 1, argv[k - 1] = "-s" PROVE FALSE
      OBVIOUS
    <3>2. k - 1 \in 1 .. m - 1 /\ \A l \in k - 1 .. m - 1 : l = k - 1 \/ l \in k .. m - 1
      BY <3>1
    <3>3. k - 1 \in T
      BY <3>1, <3>2
    <3>4. QED
      BY <2>2, <3>3
  <2>4. QED
    BY <2>2, <2>3
<1>3. ASSUME NEW m \in 2 .. n, NEW k, NEW h, Run(k, m), Run(h, m - 1) PROVE k = h
  <2>1. k \in Nat /\ h \in Nat /\ k < m /\ h < m - 1
    BY <1>3
  <2>2. ~(h < k)
    <3>1. SUFFICES ASSUME h < k PROVE FALSE
      OBVIOUS
    <3>2. k - 1 \in h .. m - 2 /\ k # 1
      BY <1>3, <2>1, <3>1
    <3>3. QED
      BY <1>3, <3>2
  <2>3. ~(k < h)
    <3>1. SUFFICES ASSUME k < h PROVE FALSE
      OBVIOUS
    <3>2. h - 1 \in k .. m - 1 /\ h # 1
      BY <1>3, <2>1, <3>1
    <3>3. QED
      BY <1>3, <3>2
  <2>4. QED
    BY <2>1, <2>2, <2>3
<1>4. ASSUME j \in TakenByS(argv)
      PROVE  j > 1 /\ argv[j - 1] = "-s" /\ j - 1 \notin TakenByS(argv)
  <2>1. PICK k \in 1 .. j - 1 : Run(k, j) /\ (j - k) % 2 = 1
    BY <1>1, <1>4
  <2>2. j > 1 /\ j \in 2 .. n /\ j - 1 \in 1 .. n /\ argv[j - 1] = "-s"
    BY <2>1
  <2>3. SUFFICES ASSUME j - 1 \in TakenByS(argv) PROVE FALSE
    BY <2>2
  <2>4. PICK h : Run(h, j - 1) /\ (j - 1 - h) % 2 = 1
    BY <1>1, <2>2, <2>3
  <2>5. k = h
    BY <1>3, <2>1, <2>2, <2>4
  <2>6. QED
    BY <2>1, <2>4, <2>5
<1>5. ASSUME j > 1, argv[j - 1] = "-s", j - 1 \notin TakenByS(argv)
      PROVE  j \in TakenByS(argv)
  <2>1. j \in 2 .. n /\ j - 1 \in 1 .. n
    BY <1>5
  <2>2. PICK k \in 1 .. j - 1 : Run(k, j)
    BY <1>2, <1>5, <2>1
  <2>3. CASE (j - k) % 2 = 1
    BY <1>1, <2>2, <2>3
  <2>4. CASE (j - k) % 2 # 1
    <3>1. k \in 1 .. (j - 1) - 1 /\ ((j - 1) - k) % 2 = 1
      BY <2>1, <2>4
    <3>2. Run(k, j - 1)
      BY <2>1, <2>2, <3>1
    <3>3. QED
      BY <1>1, <1>5, <2>1, <3>1, <3>2
  <2>5. QED
    BY <2>3, <2>4
<1>6. QED
  BY <1>4, <1>5

OptionNames ==
  {"error", "filename", "verbose", "address64bit", "paging", "ecall_emulation",
   "host_emulation", "device_enable", "disable_machine_interrupt_delegation",
   "diskimage_file"}

\* A switch has an option of its own.
LEMMA SwitchOptions ==
  /\ \A t \in Switches : SwitchOf(t) \in OptionNames \ {"error", "filename", "diskimage_file"}
  /\ \A t, u \in Switches : SwitchOf(t) = SwitchOf(u) => t = u
  /\ \A t : SwitchOf(t) # "none" <=> t \in Switches
  /\ "-s" \notin Switches /\ "-x" \notin Switches /\ "none" \notin OptionNames
<1>1. /\ SwitchOf("-v") = "verbose" /\ SwitchOf("-64") = "address64bit"
      /\ SwitchOf("-p") = "paging" /\ SwitchOf("-e") = "ecall_emulation"
      /\ SwitchOf("-h") = "host_emulation" /\ SwitchOf("-d") = "device_enable"
      /\ SwitchOf("-m") = "disable_machine_interrupt_delegation"
  BY DEF SwitchOf
<1>2. \A t : t \notin Switches => SwitchOf(t) = "none"
  BY DEF SwitchOf, Switches
<1>3. QED
  BY <1>1, <1>2 DEF Switches, OptionNames

\* What the first l tokens, and the name that -s takes after them, have set.
Refused(argv, l) ==
  \/ \E j \in Free(argv) :
       j <= l /\ (argv[j] = "-x" \/ (argv[j] = "-s" /\ j = Len(argv)))
  \/ \E j, k \in Named(argv) : j < k /\ k <= l /\ argv[j] # NoName
SwitchesGiven(argv, l, o) ==
  \A token \in Switches :
    o[SwitchOf(token)] <=> \E j \in Free(argv) : j <= l /\ argv[j] = token
ProgramGiven(argv, l, o) ==
  /\ \A j \in Named(argv) : j <= l /\ argv[j] # NoName => o.filename = argv[j]
  /\ o.filename # NoName => \E j \in Named(argv) : j <= l /\ o.filename = argv[j]
Images(argv, l) == {j \in TakenByS(argv) : j <= l + 1}
DiskGiven(argv, l, o) ==
  /\ Images(argv, l) = {} => o.diskimage_file = NoName
  /\ Images(argv, l) # {} => o.diskimage_file = argv[Latest(Images(argv, l))]

\* The state of the loop of ParseCmd after l tokens.
Progress(argv, l, s) ==
  /\ DOMAIN s = {"options", "i"} /\ DOMAIN s.options = OptionNames
  /\ s.options.error <=> Refused(argv, l)
  /\ ~s.options.error =>
       /\ s.i = IF l + 1 \in TakenByS(argv) THEN l + 2 ELSE l + 1
       /\ SwitchesGiven(argv, l, s.options)
       /\ ProgramGiven(argv, l, s.options)
       /\ DiskGiven(argv, l, s.options)

\* A round of the loop.
LEMMA TokenParsed ==
  ASSUME NEW argv, NEW n \in Nat, Len(argv) = n, NEW l \in 0 .. n - 1, NEW s,
         Progress(argv, l, s), NEW t, t = ParseToken(argv, s, l + 1)
  PROVE  Progress(argv, l + 1, t)
<1>0. PICK p \in 1 .. n : p = l + 1
  OBVIOUS
<1>1. PICK o, token : p = l + 1 /\ o = s.options /\ token = argv[p]
  BY <1>0
<1>2. /\ DOMAIN s = {"options", "i"} /\ DOMAIN o = OptionNames /\ (o.error <=> Refused(argv, l))
      /\ ~o.error => /\ s.i = IF p \in TakenByS(argv) THEN l + 2 ELSE l + 1
                     /\ SwitchesGiven(argv, l, o)
                     /\ ProgramGiven(argv, l, o)
                     /\ DiskGiven(argv, l, o)
  BY <1>1 DEF Progress
<1>3. /\ TakenByS(argv) \subseteq 1 .. n
      /\ Free(argv) = (1 .. n) \ TakenByS(argv)
      /\ Named(argv) \subseteq Free(argv)
      /\ p \in Named(argv) <=> p \in Free(argv) /\ ~IsDashed(token)
  BY <1>1 DEF TakenByS, Free, Named
<1>4. \A j \in 1 .. n : j <= p <=> j <= l \/ j = p
  BY <1>1
<1>5. l + 2 \in TakenByS(argv) <=> p < n /\ token = "-s" /\ p \notin TakenByS(argv)
  <2>1. CASE p < n
    <3>1. PICK q \in 1 .. n : q = l + 2 /\ q > 1 /\ q - 1 = p
      BY <1>1, <2>1
    <3>2. q \in TakenByS(argv) <=>
            q > 1 /\ argv[q - 1] = "-s" /\ q - 1 \notin TakenByS(argv)
      BY Taken
    <3>3. QED
      BY <1>1, <2>1, <3>1, <3>2
  <2>2. CASE p = n
    BY <1>1, <1>3, <2>2
  <2>3. QED
    BY <2>1, <2>2
<1>6. IsDashed(token) <=> token \in {"-s", "-x"} \/ token \in Switches
  BY SwitchOptions DEF IsDashed
<1>7. ~(token = "-s" /\ p < n /\ p \in Free(argv)) => Images(argv, p) = Images(argv, l)
  BY <1>1, <1>3, <1>5 DEF Images
<1>8. CASE o.error
  <2>1. t = s
    BY <1>1, <1>8 DEF ParseToken
  <2>2. Refused(argv, p)
    BY <1>1, <1>2, <1>3, <1>4, <1>8 DEF Refused
  <2>3. QED
    BY <1>1, <1>2, <1>8, <2>1, <2>2 DEF Progress
<1>9. CASE ~o.error /\ p \in TakenByS(argv)
  <2>1. s.i = l + 2 /\ p < s.i
    BY <1>1, <1>2, <1>9
  <2>2. t = s
    BY <1>1, <1>9, <2>1 DEF ParseToken
  <2>3. p \notin Free(argv) /\ p \notin Named(argv)
    BY <1>3, <1>9
  <2>4. ~Refused(argv, p)
    BY <1>2, <1>3, <1>4, <1>9, <2>3 DEF Refused
  <2>5. SwitchesGiven(argv, p, o) /\ ProgramGiven(argv, p, o)
    BY <1>2, <1>3, <1>4, <1>9, <2>3 DEF SwitchesGiven, ProgramGiven
  <2>6. DiskGiven(argv, p, o)
    BY <1>2, <1>7, <1>9, <2>3 DEF DiskGiven
  <2>7. s.i = IF p + 1 \in TakenByS(argv) THEN p + 2 ELSE p + 1
    BY <1>1, <1>5, <1>9, <2>1
  <2>8. QED
    BY <1>1, <1>2, <1>9, <2>2, <2>4, <2>5, <2>6, <2>7 DEF Progress
<1>10. CASE ~o.error /\ p \notin TakenByS(argv)
  <2>1. s.i = l + 1 /\ ~(p < s.i) /\ p \in Free(argv)
    BY <1>1, <1>2, <1>3, <1>10
  <2>2. ~s.options.error /\ ~(l + 1 < s.i) /\ argv[l + 1] = token
    BY <1>1, <1>10, <2>1
  <2>3. ASSUME t = [s EXCEPT !.options.error = TRUE], Refused(argv, p)
        PROVE  Progress(argv, l + 1, t)
    <3>1. PICK f : f = [o EXCEPT !.error = TRUE]
      OBVIOUS
    <3>2. DOMAIN t = {"options", "i"} /\ t.options = f
      BY <1>1, <1>2, <2>3, <3>1
    <3>3. DOMAIN f = OptionNames /\ f.error = TRUE
      BY <1>2, <3>1 DEF OptionNames
    <3>4. QED
      BY <1>1, <2>3, <3>2, <3>3 DEF Progress
  <2>4. ASSUME token \notin {"-s", "-x"}
        PROVE  \A j \in Free(argv) :
                 j <= p /\ (argv[j] = "-x" \/ (argv[j] = "-s" /\ j = Len(argv))) => j <= l
    BY <1>1, <1>3, <1>4, <2>4
  <2>5. ASSUME token \in Switches PROVE Progress(argv, l + 1, t)
    <3>1. t = [options |-> [o EXCEPT ![SwitchOf(token)] = TRUE], i |-> l + 2]
      <4>1. SwitchOf(token) # "none" /\ token # "-s" /\ token # "-x"
        BY <2>5, SwitchOptions
      <4>2. PICK switch : switch = SwitchOf(argv[l + 1])
        OBVIOUS
      <4>3. /\ switch # "none" /\ argv[l + 1] # "-s" /\ argv[l + 1] # "-x"
            /\ switch = SwitchOf(token)
        BY <2>2, <4>1, <4>2
      <4>4. t = [options |-> [s.options EXCEPT ![switch] = TRUE], i |-> (l + 1) + 1]
        BY <2>2, <4>2, <4>3 DEF ParseToken
      <4>5. (l + 1) + 1 = l + 2
        BY <1>1
      <4>6. QED
        BY <1>1, <4>3, <4>4, <4>5
    <3>2. PICK f : f = [o EXCEPT ![SwitchOf(token)] = TRUE]
      OBVIOUS
    <3>3. /\ DOMAIN f = OptionNames /\ f.error = o.error /\ f.filename = o.filename
          /\ f.diskimage_file = o.diskimage_file
          /\ f[SwitchOf(token)] = TRUE
          /\ \A u \in Switches : u # token => f[SwitchOf(u)] = o[SwitchOf(u)]
      BY <1>2, <2>5, <3>2, SwitchOptions DEF OptionNames
    <3>4. token \notin {"-s", "-x"} /\ p \notin Named(argv)
      BY <1>3, <1>6, <2>5, SwitchOptions
    <3>5. ~Refused(argv, p)
      BY <1>2, <1>3, <1>4, <1>10, <2>4, <3>4 DEF Refused
    <3>6. SwitchesGiven(argv, p, f)
      BY <1>1, <1>2, <1>3, <1>4, <1>10, <2>1, <2>5, <3>3 DEF SwitchesGiven
    <3>7. ProgramGiven(argv, p, f)
      BY <1>2, <1>3, <1>4, <1>10, <3>3, <3>4 DEF ProgramGiven
    <3>8. DiskGiven(argv, p, f)
      BY <1>2, <1>7, <1>10, <3>3, <3>4 DEF DiskGiven
    <3>9. /\ DOMAIN t = {"options", "i"} /\ t.options = f /\ t.i = p + 1
          /\ p + 1 \notin TakenByS(argv)
      <4>1. l + 2 = p + 1
        BY <1>1
      <4>2. t = [options |-> f, i |-> p + 1]
        BY <3>1, <3>2, <4>1
      <4>3. QED
        BY <1>5, <3>4, <4>1, <4>2
    <3>10. QED
      BY <1>1, <1>10, <3>3, <3>5, <3>6, <3>7, <3>8, <3>9 DEF Progress
  <2>6. ASSUME token = "-s", p < n PROVE Progress(argv, l + 1, t)
    <3>1. t = [options |-> [o EXCEPT !.diskimage_file = argv[p + 1]], i |-> l + 3]
      <4>1. SwitchOf(token) = "none"
        BY <2>6, SwitchOptions
      <4>2. (l + 1) + 2 = l + 3 /\ l + 1 < Len(argv) /\ l + 1 = p
        BY <1>1, <2>6
      <4>3. QED
        BY <1>1, <2>2, <2>6, <4>1, <4>2 DEF ParseToken
    <3>2. PICK f : f = [o EXCEPT !.diskimage_file = argv[p + 1]]
      OBVIOUS
    <3>3. /\ DOMAIN f = OptionNames /\ f.error = o.error /\ f.filename = o.filename
          /\ f.diskimage_file = argv[p + 1]
          /\ \A u \in Switches : f[SwitchOf(u)] = o[SwitchOf(u)]
      BY <1>2, <3>2, SwitchOptions DEF OptionNames
    <3>4. token # "-x" /\ token \notin Switches /\ p # Len(argv) /\ p \notin Named(argv)
      BY <1>3, <1>6, <2>6, SwitchOptions
    <3>5. ~Refused(argv, p)
      BY <1>1, <1>2, <1>3, <1>4, <1>10, <3>4 DEF Refused
    <3>6. SwitchesGiven(argv, p, f)
      BY <1>1, <1>2, <1>3, <1>4, <1>10, <3>3, <3>4 DEF SwitchesGiven
    <3>7. ProgramGiven(argv, p, f)
      BY <1>2, <1>3, <1>4, <1>10, <3>3, <3>4 DEF ProgramGiven
    <3>8. p + 1 = l + 2 /\ p + 1 \in TakenByS(argv)
      BY <1>1, <1>5, <1>10, <2>6
    <3>9. DiskGiven(argv, p, f)
      <4>1. PICK q \in 1 .. n : q = p + 1
        BY <2>6
      <4>2. PICK S : S = Images(argv, p)
        OBVIOUS
      <4>3. S \in SUBSET (1 .. n) /\ q \in S /\ \A j \in S : j <= q
        BY <1>3, <3>8, <4>1, <4>2 DEF Images
      <4>4. Latest(S) \in S /\ \A j \in S : j <= Latest(S)
        BY <4>3, LatestIs
      <4>5. Latest(S) = q
        <5>1. PICK x \in 1 .. n : x = Latest(S)
          BY <4>3, <4>4
        <5>2. x <= q /\ q <= x
          BY <4>3, <4>4, <5>1
        <5>3. QED
          BY <5>1, <5>2
      <4>6. QED
        BY <3>3, <4>1, <4>2, <4>3, <4>5 DEF DiskGiven
    <3>10. DOMAIN t = {"options", "i"} /\ t.options = f /\ t.i = p + 2
      <4>1. l + 3 = p + 2
        BY <1>1
      <4>2. t = [options |-> f, i |-> p + 2]
        BY <3>1, <3>2, <4>1
      <4>3. QED
        BY <4>2
    <3>11. QED
      BY <1>1, <1>10, <3>3, <3>5, <3>6, <3>7, <3>8, <3>9, <3>10 DEF Progress
  <2>7. ASSUME (token = "-s" /\ p = n) \/ token = "-x" PROVE Progress(argv, l + 1, t)
    <3>1. t = [s EXCEPT !.options.error = TRUE]
      <4>1. SwitchOf(token) = "none"
        BY <2>7, SwitchOptions
      <4>2. token = "-s" => ~(l + 1 < Len(argv))
        BY <1>1, <2>7
      <4>3. QED
        BY <1>1, <2>2, <2>7, <4>1, <4>2 DEF ParseToken
    <3>2. Refused(argv, p)
      BY <1>1, <2>1, <2>7 DEF Refused
    <3>3. QED
      BY <1>1, <2>3, <3>1, <3>2
  <2>8. ASSUME token \notin {"-s", "-x"}, token \notin Switches PROVE Progress(argv, l + 1, t)
    <3>1. p \in Named(argv)
      BY <1>3, <1>6, <2>1, <2>8
    <3>2. SwitchOf(token) = "none"
      BY <2>8, SwitchOptions
    <3>3. CASE o.filename = NoName
      <4>1. t = [options |-> [o EXCEPT !.filename = token], i |-> l + 2]
        <5>1. (l + 1) + 1 = l + 2
          BY <1>1
        <5>2. QED
          BY <1>1, <2>2, <2>8, <3>2, <3>3, <5>1 DEF ParseToken
      <4>2. PICK f : f = [o EXCEPT !.filename = token]
        OBVIOUS
      <4>3. /\ DOMAIN f = OptionNames /\ f.error = o.error /\ f.filename = token
            /\ f.diskimage_file = o.diskimage_file
            /\ \A u \in Switches : f[SwitchOf(u)] = o[SwitchOf(u)]
        BY <1>2, <4>2, SwitchOptions DEF OptionNames
      <4>4. \A j \in Named(argv) : j <= l => argv[j] = NoName
        BY <1>2, <1>10, <3>3 DEF ProgramGiven
      <4>5. ~Refused(argv, p)
        BY <1>1, <1>2, <1>3, <1>4, <1>10, <2>4, <2>8, <4>4 DEF Refused
      <4>6. SwitchesGiven(argv, p, f)
        BY <1>1, <1>2, <1>3, <1>4, <1>10, <2>8, <4>3 DEF SwitchesGiven
      <4>7. ProgramGiven(argv, p, f)
        BY <1>1, <1>3, <1>4, <3>1, <4>3, <4>4 DEF ProgramGiven
      <4>8. DiskGiven(argv, p, f)
        BY <1>2, <1>7, <1>10, <2>8, <4>3 DEF DiskGiven
      <4>9. /\ DOMAIN t = {"options", "i"} /\ t.options = f /\ t.i = p + 1
            /\ p + 1 \notin TakenByS(argv)
        <5>1. l + 2 = p + 1
          BY <1>1
        <5>2. t = [options |-> f, i |-> p + 1]
          BY <4>1, <4>2, <5>1
        <5>3. QED
          BY <1>5, <2>8, <5>1, <5>2
      <4>10. QED
        BY <1>1, <1>10, <4>3, <4>5, <4>6, <4>7, <4>8, <4>9 DEF Progress
    <3>4. CASE o.filename # NoName
      <4>1. t = [s EXCEPT !.options.error = TRUE]
        BY <1>1, <2>2, <2>8, <3>2, <3>4 DEF ParseToken
      <4>2. PICK j \in Named(argv) : j <= l /\ o.filename = argv[j]
        BY <1>2, <1>10, <3>4 DEF ProgramGiven
      <4>3. j < p
        BY <1>1, <1>3, <4>2
      <4>4. Refused(argv, p)
        <5>1. p <= p /\ argv[j] # NoName
          BY <3>4, <4>2
        <5>2. QED
          BY <3>1, <4>2, <4>3, <5>1, Zenon DEF Refused
      <4>5. QED
        BY <1>1, <2>3, <4>1, <4>4
    <3>5. QED
      BY <3>3, <3>4
  <2>9. p < n \/ p = n
    OBVIOUS
  <2>10. QED
    BY <2>5, <2>6, <2>7, <2>8, <2>9
<1>11. QED
  BY <1>8, <1>9, <1>10

\* The state f[k] of the loop of ParseCmd after k tokens.
ParseRounds(f, argv, n) ==
  f = [k \in 0 .. n |-> IF k = 0 THEN [options |-> NoOptions, i |-> 1]
                        ELSE ParseToken(argv, f[k - 1], k)]

\* The loop has a state after each token.
LEMMA ParseRoundsDefined ==
  ASSUME NEW argv, NEW n \in Nat
  PROVE  \E f : ParseRounds(f, argv, n)
<1>1. PICK first : first = [options |-> NoOptions, i |-> 1]
  OBVIOUS
<1> DEFINE Solves(f, l) ==
             f = [k \in 0 .. l |-> IF k = 0 THEN first ELSE ParseToken(argv, f[k - 1], k)]
           S == {l \in Nat : \E f : Solves(f, l)}
<1>2. 0 \in S
  <2>1. PICK f : f = [k \in 0 .. 0 |-> first]
    OBVIOUS
  <2>2. \A k \in 0 .. 0 : k = 0
    OBVIOUS
  <2>3. Solves(f, 0)
    BY <2>1, <2>2
  <2>4. QED
    BY <2>3
<1>3. ASSUME NEW l \in S
      PROVE  l + 1 \in S
  <2>1. PICK f : Solves(f, l)
    OBVIOUS
  <2>2. PICK x : x = ParseToken(argv, f[l], l + 1)
    OBVIOUS
  <2>3. PICK g : g = [k \in 0 .. l + 1 |-> IF k = l + 1 THEN x ELSE f[k]]
    OBVIOUS
  <2>4. l \in Nat /\ l + 1 \in Nat
    OBVIOUS
  <2>5. ASSUME NEW k \in 0 .. l + 1
        PROVE  g[k] = IF k = 0 THEN first ELSE ParseToken(argv, g[k - 1], k)
    <3>1. CASE k = l + 1
      <4>1. g[k] = x /\ k - 1 = l /\ l \in 0 .. l + 1 /\ l # l + 1 /\ k # 0
        BY <2>3, <2>4, <3>1
      <4>2. g[k - 1] = f[l]
        BY <2>3, <4>1
      <4>3. QED
        BY <2>2, <3>1, <4>1, <4>2
    <3>2. CASE k # l + 1 /\ k # 0
      <4>1. k \in 0 .. l /\ k - 1 \in 0 .. l + 1 /\ k - 1 # l + 1
        BY <2>4, <3>2
      <4>2. g[k] = f[k] /\ g[k - 1] = f[k - 1]
        BY <2>3, <3>2, <4>1
      <4>3. f[k] = ParseToken(argv, f[k - 1], k)
        BY <2>1, <3>2, <4>1
      <4>4. QED
        BY <3>2, <4>2, <4>3
    <3>3. CASE k = 0
      <4>1. k \in 0 .. l /\ k # l + 1
        BY <2>4, <3>3
      <4>2. g[k] = f[k] /\ f[k] = first
        BY <2>1, <2>3, <3>3, <4>1
      <4>3. QED
        BY <3>3, <4>2
    <3>4. QED
      BY <3>1, <3>2, <3>3
  <2>6. Solves(g, l + 1)
    BY <2>3, <2>5
  <2>7. QED
    BY <2>4, <2>6
<1>4. S = Nat
  <2>1. S \in SUBSET Nat
    OBVIOUS
  <2> HIDE DEF S
  <2>2. QED
    BY <1>2, <1>3, <2>1, Induction
<1>5. PICK f : Solves(f, n)
  BY <1>4
<1>6. QED
  BY <1>1, <1>5 DEF ParseRounds

\* The whole command line has been read.
LEMMA LineParsed ==
  ASSUME NEW argv \in Seq(STRING), argv # << >>
  PROVE  \E s : s.options = ParseCmd(argv) /\ Progress(argv, Len(argv), s)
<1>1. PICK n \in Nat : n = Len(argv)
  OBVIOUS
<1> DEFINE parsed == CHOOSE f : f = [k \in 0 .. n |->
                       IF k = 0 THEN [options |-> NoOptions, i |-> 1]
                       ELSE ParseToken(argv, f[k - 1], k)]
           S == {l \in Nat : l <= n => Progress(argv, l, parsed[l])}
<1>2. ParseCmd(argv) = parsed[n].options
  BY <1>1 DEF ParseCmd
<1>3. parsed = [k \in 0 .. n |-> IF k = 0 THEN [options |-> NoOptions, i |-> 1]
                                 ELSE ParseToken(argv, parsed[k - 1], k)]
  <2>1. \E f : ParseRounds(f, argv, n)
    BY ParseRoundsDefined
  <2>2. QED
    BY <2>1, Zenon DEF ParseRounds
<1> HIDE DEF parsed
<1>4. 0 \in S
  <2>1. PICK s : s = [options |-> NoOptions, i |-> 1]
    OBVIOUS
  <2>2. parsed[0] = s
    BY <1>3, <2>1
  <2>3. /\ DOMAIN s = {"options", "i"} /\ s.options = NoOptions /\ s.i = 1
        /\ DOMAIN NoOptions = OptionNames /\ NoOptions.error = FALSE
        /\ NoOptions.filename = NoName /\ NoOptions.diskimage_file = NoName
        /\ \A t \in Switches : NoOptions[SwitchOf(t)] = FALSE
    BY <2>1, SwitchOptions DEF NoOptions, OptionNames
  <2>4. Free(argv) \subseteq 1 .. n /\ Named(argv) \subseteq 1 .. n
    BY <1>1 DEF Free, Named
  <2>5. 1 \notin TakenByS(argv) /\ TakenByS(argv) \subseteq 1 .. n
    BY <1>1 DEF TakenByS
  <2>6. ~Refused(argv, 0)
    BY <2>4 DEF Refused
  <2>7. SwitchesGiven(argv, 0, NoOptions) /\ ProgramGiven(argv, 0, NoOptions)
    BY <2>3, <2>4 DEF SwitchesGiven, ProgramGiven
  <2>8. Images(argv, 0) = {}
    BY <2>5 DEF Images
  <2>9. DiskGiven(argv, 0, NoOptions)
    BY <2>3, <2>8 DEF DiskGiven
  <2>10. Progress(argv, 0, s)
    BY <2>3, <2>5, <2>6, <2>7, <2>9 DEF Progress
  <2>11. QED
    BY <2>2, <2>10
<1>5. ASSUME NEW l \in S
      PROVE  l + 1 \in S
  <2>1. SUFFICES ASSUME l + 1 <= n
                 PROVE  Progress(argv, l + 1, parsed[l + 1])
    OBVIOUS
  <2>2. l \in 0 .. n - 1 /\ l + 1 \in 0 .. n /\ l + 1 # 0 /\ l + 1 - 1 = l
    BY <2>1
  <2>3. PICK s, t : s = parsed[l] /\ t = parsed[l + 1]
    OBVIOUS
  <2>4. Progress(argv, l, s)
    BY <2>2, <2>3
  <2>5. t = ParseToken(argv, s, l + 1)
    BY <1>3, <2>2, <2>3
  <2>6. QED
    BY <1>1, <2>2, <2>3, <2>4, <2>5, TokenParsed
<1>6. S = Nat
  <2>1. S \in SUBSET Nat
    OBVIOUS
  <2> HIDE DEF S
  <2>2. QED
    BY <1>4, <1>5, <2>1, Induction
<1>7. Progress(argv, n, parsed[n])
  BY <1>6
<1>8. QED
  BY <1>1, <1>2, <1>7

\* The options are those that ParseCmd returned.
OptionsInv == phase # "start" => options = ParseCmd(job.argv)

LEMMA StepOptions == TypeInv /\ OptionsInv /\ [Next]_vars => OptionsInv'
<1>1. SUFFICES ASSUME TypeInv, OptionsInv, [Next]_vars PROVE OptionsInv'
  OBVIOUS
<1>2. ASSUME phase # "start", UNCHANGED <<job, options>> PROVE OptionsInv'
  BY <1>1, <1>2 DEF OptionsInv
<1>3. CASE ReadProgram
  BY <1>3 DEF ReadProgram, OptionsInv
<1>4. CASE LoadSegment \/ SetUpBss \/ FindSymbols \/ SymbolsFail
  BY <1>2, <1>4 DEF LoadSegment, SetUpBss, FindSymbols, SymbolsFail
<1>5. CASE SetDefaultMmuTable \/ UartInit \/ VirtioInit \/ StartLoop
  BY <1>2, <1>5 DEF SetDefaultMmuTable, UartInit, VirtioInit, StartLoop
<1>6. CASE TimerTick \/ TakeTimerInterrupt \/ PeripheralEmulations
  BY <1>2, <1>6 DEF TimerTick, TakeTimerInterrupt, PeripheralEmulations
<1>7. CASE BeginPiece \/ ContinuePiece
  <2>1. phase = "execute"
    BY <1>7 DEF BeginPiece, ContinuePiece
  <2>2. UNCHANGED <<job, options>>
    BY <1>1, <1>7, PieceStep, InstructionFrame
  <2>3. QED
    BY <1>2, <2>1, <2>2
<1>8. CASE OtherInstruction
  BY <1>2, <1>8 DEF OtherInstruction, NextInstruction
<1>9. CASE UNCHANGED vars
  BY <1>1, <1>9 DEF vars, OptionsInv
<1>10. QED
  BY <1>1, <1>3, <1>4, <1>5, <1>6, <1>7, <1>8, <1>9 DEF Next, Setup, Loop

\* Every token of an accepted command line has its effect and no other, and only
\* a line with an unknown option, a second program or a -s at its end is refused,
\* for command lines of every length.
THEOREM OptionsAsGivenHolds == Spec => []OptionsAsGiven
<1>1. TypeInv /\ OptionsInv => OptionsAsGiven
  <2>1. SUFFICES ASSUME TypeInv, OptionsInv, phase # "start" PROVE OptionsAsGiven
    BY DEF OptionsAsGiven
  <2>2. PICK argv : argv = job.argv
    OBVIOUS
  <2>3. argv \in Seq(STRING) /\ options = ParseCmd(argv)
    BY <2>1, <2>2, EmulatorAssumption DEF TypeInv, OptionsInv
  <2>4. CASE argv = << >>
    <3>1. options.error = TRUE
      BY <2>3, <2>4 DEF ParseCmd, NoOptions
    <3>2. QED
      BY <2>2, <2>4, <3>1 DEF OptionsAsGiven
  <2>5. CASE argv # << >>
    <3>1. PICK n \in Nat : n = Len(argv)
      BY <2>3
    <3>2. PICK s : s.options = options /\ Progress(argv, n, s)
      BY <2>3, <2>5, <3>1, LineParsed
    <3>3. /\ options.error <=> Refused(argv, n)
          /\ ~options.error => /\ SwitchesGiven(argv, n, options)
                               /\ ProgramGiven(argv, n, options)
                               /\ DiskGiven(argv, n, options)
      BY <3>2 DEF Progress
    <3>4. /\ \A j \in Free(argv) : j \in 1 .. n
          /\ \A j \in Named(argv) : j \in 1 .. n
          /\ \A j \in TakenByS(argv) : j \in 1 .. n
      BY <3>1 DEF Free, Named, TakenByS
    <3>5. /\ \A j \in Free(argv) : j <= n
          /\ \A j \in Named(argv) : j <= n
          /\ Images(argv, n) = TakenByS(argv)
      BY <3>4 DEF Images
    <3>6. options.error <=>
            \/ argv = << >>
            \/ \E j \in Free(argv) : argv[j] = "-x" \/ (argv[j] = "-s" /\ j = Len(argv))
            \/ \E j, k \in Named(argv) : j < k /\ argv[j] # NoName
      BY <2>5, <3>3, <3>5 DEF Refused
    <3>7. ASSUME ~options.error
          PROVE  /\ \A token \in Switches :
                      options[SwitchOf(token)] <=> \E j \in Free(argv) : argv[j] = token
                 /\ \A j \in Named(argv) : argv[j] # NoName => options.filename = argv[j]
                 /\ options.filename # NoName =>
                      \E j \in Named(argv) : options.filename = argv[j]
                 /\ TakenByS(argv) = {} => options.diskimage_file = NoName
                 /\ TakenByS(argv) # {} =>
                      options.diskimage_file = argv[Latest(TakenByS(argv))]
      BY <3>3, <3>5, <3>7 DEF SwitchesGiven, ProgramGiven, DiskGiven
    <3>8. QED
      BY <2>2, <3>6, <3>7 DEF OptionsAsGiven
  <2>6. QED
    BY <2>4, <2>5
<1>2. Init => OptionsInv
  BY DEF Init, OptionsInv
<1>3. QED
  BY <1>1, <1>2, StepOptions, TypesHold, PTL DEF Spec

-----------------------------------------------------------------------------
(* The safe orders of mtimecmp.                                            *)

\* A value and its halves.
LEMMA HalvesOf ==
  ASSUME NEW w \in Nat \ {0}, NEW d \in 0 .. w * w - 1
  PROVE  /\ d % w \in 0 .. w - 1 /\ d \div w \in 0 .. w - 1
         /\ d = (d % w) + (d \div w) * w
<1>1. PICK q \in Nat, r \in 0 .. w - 1 : q = d \div w /\ r = d % w /\ d = q * w + r
  <2>1. d \in Nat
    OBVIOUS
  <2>2. d \div w \in Nat /\ d % w \in 0 .. w - 1 /\ d = (d \div w) * w + (d % w)
    BY <2>1
  <2>3. QED
    BY <2>2
<1>2. q < w
  <2>1. SUFFICES ASSUME q >= w PROVE FALSE
    BY <1>1
  <2>2. q * w >= w * w
    BY <2>1
  <2>3. QED
    BY <1>1, <2>2
<1>3. QED
  BY <1>1, <1>2

\* A store to a half of mtimecmp leaves the other half.
LEMMA CmpStored ==
  ASSUME NEW m, WellFormed(m), NEW k \in {0, 4}, NEW v \in Word, NEW n,
         n = Write32(m, kTimerCmp + k, v)
  PROVE  /\ k = 0 => /\ Read32(n, kTimerCmp) = v
                     /\ Read32(n, kTimerCmp + 4) = Read32(m, kTimerCmp + 4)
         /\ k = 4 => /\ Read32(n, kTimerCmp + 4) = v
                     /\ Read32(n, kTimerCmp) = Read32(m, kTimerCmp)
<1>0. v \in Nat /\ v % Weight[4] = v
  <2>1. PICK w \in Nat \ {0} : w = Weight[4]
    BY Weights
  <2>2. v \in 0 .. w - 1
    BY <2>1 DEF Word
  <2>3. QED
    BY <2>1, <2>2
<1>1. PICK s \in Nat \ {0}, c \in Nat : s = MemorySize /\ c = kTimerCmp /\ c + 7 < s /\ c % 8 = 0
  BY Sizes, TimerPlaces
<1>2. PICK i \in Nat : i = c + k
  OBVIOUS
<1>3. \A a \in Nat : Read32(n, a) = IF Entry(a) = Entry(i) /\ WordOffset(a) = WordOffset(i)
                                    THEN v ELSE Read32(m, a)
  BY <1>0, <1>1, <1>2, WordWritten
<1>4. ASSUME NEW a \in Nat, a + 3 < s, a % 4 = 0, i + 3 < s, i % 4 = 0, a # i
      PROVE  Read32(n, a) = Read32(m, a)
  <2>1. a % s # i % s
    <3>1. a % s = a /\ i % s = i
      BY <1>4
    <3>2. QED
      BY <1>4, <3>1
  <2>2. ~(Entry(a) = Entry(i) /\ WordOffset(a) = WordOffset(i))
    BY <1>1, <1>4, <2>1, SameByte
  <2>3. QED
    BY <1>3, <2>2
<1>5. Read32(n, i) = v
  BY <1>3
<1>6. CASE k = 0
  <2>1. i = c /\ c + 4 \in Nat /\ (c + 4) + 3 < s /\ (c + 4) % 4 = 0 /\ c % 4 = 0 /\ c + 3 < s
    BY <1>1, <1>2, <1>6
  <2>2. Read32(n, c + 4) = Read32(m, c + 4)
    BY <1>4, <2>1
  <2>3. QED
    BY <1>1, <1>5, <1>6, <2>1, <2>2
<1>7. CASE k = 4
  <2>1. i = c + 4 /\ (c + 4) + 3 < s /\ (c + 4) % 4 = 0 /\ c % 4 = 0 /\ c + 3 < s
    BY <1>1, <1>2, <1>7
  <2>2. Read32(n, c) = Read32(m, c)
    BY <1>4, <2>1
  <2>3. QED
    BY <1>1, <1>5, <1>7, <2>1, <2>2
<1>8. QED
  BY <1>6, <1>7

\* The instruction that stores a half.
LEMMA CmpStoreStep ==
  ASSUME TypeInv, NEW k \in {0, 4}, NEW v \in Word, NEW g \in GuestStates,
         Instruction(CmpStore(k, v), g)
  PROVE  /\ mem' = Write32(mem, kTimerCmp + k, v)
         /\ phase' = "devices" /\ UNCHANGED job
         /\ guest'.unnoticed = FALSE /\ guest'.todo = g.todo
         /\ guest'.setting = g.setting /\ guest'.deadlines = g.deadlines
<1>1. PICK s \in Nat \ {0}, c \in Nat : s = MemorySize /\ c = kTimerCmp /\ c + 7 < s /\ c % 8 = 0
  BY Sizes, TimerPlaces
<1>2. PICK i : i = CmpStore(k, v)
  OBVIOUS
<1>3. i.op = "store" /\ i.address = c + k /\ i.width = 4 /\ i.data = v
  BY <1>1, <1>2 DEF CmpStore
<1>4. StoreInstruction(i, g)
  BY <1>2, <1>3, Zenon DEF Instruction
<1>5. mem' = Write32(mem, kTimerCmp + k, v)
  <2>1. (c + k) % 4 = 0
    BY <1>1
  <2>2. StoreWd(mem, c + k, v, 4) = Write32(mem, c + k, v)
    BY <2>1 DEF StoreWd
  <2>3. mem' = StoreWd(mem, c + k, v, 4)
    BY <1>3, <1>4 DEF StoreInstruction
  <2>4. QED
    BY <1>1, <2>2, <2>3
<1>6. Noted("store", i.address, i.width).unnoticed = FALSE
  <2>1. TouchesTimerCmp(i.address, i.width)
    <3>1. (c + k + 0) % s \in c .. (c + 7)
      <4>1. c + k + 0 \in c .. (c + 7) /\ c + k + 0 < s
        BY <1>1
      <4>2. QED
        BY <1>1, <4>1
    <3>2. QED
      BY <1>1, <1>3, <3>1 DEF TouchesTimerCmp
  <2>2. ~(i.address >= s)
    BY <1>1, <1>3
  <2>3. QED
    BY <1>1, <2>1, <2>2 DEF Noted, TypeInv, GuestStates
<1>7. guest' = [g EXCEPT !.unnoticed = FALSE]
  BY <1>4, <1>6 DEF StoreInstruction, NextInstruction
<1>8. QED
  BY <1>4, <1>5, <1>7 DEF StoreInstruction, NextInstruction, GuestStates

\* How a piece of three stores goes on: in its midst and at its end.
LEMMA SafeAdvance ==
  ASSUME guest \in GuestStates, NEW d \in Nat, NEW code, Len(code) # 1
  PROVE  /\ Advance(code, d).todo = Tail(code) /\ Advance(code, d).setting = d
         /\ Advance(code, d).deadlines = guest.deadlines \cup {d}
<1>1. d # NoDeadline
  BY DEF NoDeadline
<1>2. QED
  BY <1>1 DEF Advance, GuestStates

LEMMA SafeEnd ==
  ASSUME guest \in GuestStates, NEW d \in Nat, NEW z, NEW g, g = Advance(<<z>>, d)
  PROVE  g.todo = << >> /\ g.deadlines = {d}
<1>1. d # NoDeadline
  BY DEF NoDeadline
<1>2. Len(<<z>>) = 1 /\ Tail(<<z>>) = << >>
  OBVIOUS
<1>3. QED
  BY <1>1, <1>2 DEF Advance, GuestStates

\* mtimecmp is not below some deadline in force.
NotBefore(low, high) == \E e \in guest.deadlines : low + high * Weight[4] >= e

\* The piece of code that sets deadline d has one or two stores left.
Halfway(d) ==
  LET w == Weight[4]
      low == Read32(mem, kTimerCmp)
      high == Read32(mem, kTimerCmp + 4)
  IN \/ /\ guest.todo = <<CmpStore(4, d \div w), CmpStore(0, d % w)>>
        /\ low = w - 1
     \/ /\ guest.todo = <<CmpStore(0, d % w)>>
        /\ high = d \div w
     \/ /\ guest.todo = <<CmpStore(0, d % w), CmpStore(4, d \div w)>>
        /\ high = w - 1
     \/ /\ guest.todo = <<CmpStore(4, d \div w)>>
        /\ low = d % w

\* A guest that keeps to the safe orders is between two pieces or in one, and
\* mtimecmp is at no time below all deadlines in force.
SafeInv ==
  Timed =>
    /\ ~guest.unnoticed
    /\ phase \in SetupPhases => guest.todo = << >>
    /\ phase \in {"tick", "execute", "devices"} =>
         /\ NotBefore(Read32(mem, kTimerCmp), Read32(mem, kTimerCmp + 4))
         /\ \/ guest.todo = << >>
            \/ \E d \in 0 .. Weight[8] - 1 : guest.setting = d /\ Halfway(d)

\* Each of the three stores keeps mtimecmp at or after a deadline in force.
LEMMA SafeStore ==
  ASSUME TypeInv, SafeInv, Timed, BeginPiece \/ ContinuePiece
  PROVE  SafeInv'
<1>1. /\ WellFormed(mem) /\ guest \in GuestStates /\ job \in Jobs
      /\ phase = "execute" /\ guest.deadlines \in SUBSET Nat
  BY DEF TypeInv, BeginPiece, ContinuePiece, GuestStates
<1>2. PICK w \in Nat \ {0}, c \in Nat :
        w = Weight[4] /\ c = kTimerCmp /\ Weight[8] = w * w /\ Word = 0 .. w - 1
  <2>1. Weight[4] \in Nat \ {0} /\ kTimerCmp \in Nat
    BY Weights, TimerPlaces
  <2>2. QED
    BY <2>1, TwoWords DEF Word
<1>3. PICK l \in 0 .. w - 1, h \in 0 .. w - 1 :
        l = Read32(mem, kTimerCmp) /\ h = Read32(mem, kTimerCmp + 4)
  <2>1. Read32(mem, c) \in Word /\ Read32(mem, c + 4) \in Word
    <3>1. PICK i \in Nat : i = c + 4
      OBVIOUS
    <3>2. QED
      BY <1>1, <3>1, WordRead
  <2>2. QED
    BY <1>2, <2>1
<1>4. PICK e \in guest.deadlines : l + h * w >= e
  BY <1>1, <1>2, <1>3 DEF SafeInv, NotBefore
<1>5. e \in Nat
  BY <1>1, <1>4
<1>6. PICK l2, h2 : l2 = Read32(mem', kTimerCmp) /\ h2 = Read32(mem', kTimerCmp + 4)
  OBVIOUS
<1>7. ASSUME NEW d \in 0 .. w * w - 1, NEW f \in guest'.deadlines, l2 + h2 * w >= f,
             phase' = "devices", guest'.unnoticed = FALSE,
             guest'.todo = << >> \/ (guest'.setting = d /\ Halfway(d)')
      PROVE  SafeInv'
  <2>1. d \in 0 .. Weight[8] - 1
    BY <1>2
  <2>2. NotBefore(Read32(mem, kTimerCmp), Read32(mem, kTimerCmp + 4))'
    BY <1>2, <1>6, <1>7 DEF NotBefore
  <2>3. phase' \notin SetupPhases
    BY <1>7 DEF SetupPhases
  <2>4. QED
    BY <1>7, <2>1, <2>2, <2>3 DEF SafeInv
<1>8. ASSUME NEW k \in {0, 4}, NEW v \in 0 .. w - 1, NEW g \in GuestStates,
             Instruction(CmpStore(k, v), g)
      PROVE  /\ k = 0 => l2 = v /\ h2 = h
             /\ k = 4 => l2 = l /\ h2 = v
             /\ phase' = "devices" /\ guest'.unnoticed = FALSE /\ guest'.todo = g.todo
             /\ guest'.setting = g.setting /\ guest'.deadlines = g.deadlines
  <2>1. v \in Word
    BY <1>2
  <2>2. /\ mem' = Write32(mem, kTimerCmp + k, v)
        /\ phase' = "devices" /\ guest'.unnoticed = FALSE /\ guest'.todo = g.todo
        /\ guest'.setting = g.setting /\ guest'.deadlines = g.deadlines
    BY <1>8, <2>1, CmpStoreStep
  <2>3. PICK n : n = mem'
    OBVIOUS
  <2>4. /\ k = 0 => /\ Read32(n, kTimerCmp) = v
                    /\ Read32(n, kTimerCmp + 4) = Read32(mem, kTimerCmp + 4)
        /\ k = 4 => /\ Read32(n, kTimerCmp + 4) = v
                    /\ Read32(n, kTimerCmp) = Read32(mem, kTimerCmp)
    BY <1>1, <2>1, <2>2, <2>3, CmpStored
  <2>5. QED
    BY <1>3, <1>6, <2>2, <2>3, <2>4
<1>9. ASSUME NEW d \in 0 .. w * w - 1
      PROVE  /\ d \in Nat /\ d % w \in 0 .. w - 1 /\ d \div w \in 0 .. w - 1
             /\ w - 1 \in 0 .. w - 1
             /\ d = (d % w) + (d \div w) * w
             /\ (w - 1) + (d \div w) * w >= d
             /\ (d % w) + (w - 1) * w >= d
  <2>1. PICK q \in 0 .. w - 1, r \in 0 .. w - 1 : q = d \div w /\ r = d % w /\ d = r + q * w
    BY HalvesOf
  <2>2. q * w <= (w - 1) * w
    OBVIOUS
  <2>3. (w - 1) + q * w >= d /\ r + (w - 1) * w >= d
    BY <2>1, <2>2
  <2>4. QED
    BY <2>1, <2>3
<1>10. CASE BeginPiece
  <2>1. PICK piece \in job.pieces :
          Instruction(Head(piece.code),
                      [Advance(piece.code, piece.deadline) EXCEPT !.left = guest.left - 1])
    BY <1>10 DEF BeginPiece
  <2>2. PICK d \in 0 .. w * w - 1 : d = piece.deadline
    BY <1>2 DEF Timed, IsSafe
  <2>3. PICK x, y, z : /\ piece.code = <<x, y, z>>
                       /\ \/ /\ x = CmpStore(0, w - 1) /\ y = CmpStore(4, d \div w)
                             /\ z = CmpStore(0, d % w)
                          \/ /\ x = CmpStore(4, w - 1) /\ y = CmpStore(0, d % w)
                             /\ z = CmpStore(4, d \div w)
    <3>1. piece = LowerFirst(d) \/ piece = UpperFirst(d)
      BY <2>2 DEF Timed, IsSafe
    <3>2. CASE piece = LowerFirst(d)
      BY <1>2, <3>2 DEF LowerFirst
    <3>3. CASE piece = UpperFirst(d)
      BY <1>2, <3>3 DEF UpperFirst
    <3>4. QED
      BY <3>1, <3>2, <3>3
  <2>4. PICK a \in GuestStates : a = Advance(piece.code, piece.deadline)
    <3>1. piece \in Pieces
      BY <1>1, <2>1, EmulatorAssumption
    <3>2. piece.code \in Seq(GuestInstructions) \ {<< >>} /\ piece.deadline \in Nat \cup {NoDeadline}
      BY <3>1 DEF Pieces
    <3>3. QED
      BY <1>1, <3>2, Advanced
  <2>5. Head(piece.code) = x /\ a.todo = <<y, z>> /\ a.setting = d
        /\ a.deadlines = guest.deadlines \cup {d}
    <3>1. PICK code : code = <<x, y, z>>
      OBVIOUS
    <3>2. Head(code) = x /\ Tail(code) = <<y, z>> /\ Len(code) # 1
      BY <3>1
    <3>3. d \in Nat /\ a = Advance(code, d)
      BY <1>9, <2>2, <2>3, <2>4, <3>1
    <3>4. a.todo = Tail(code) /\ a.setting = d /\ a.deadlines = guest.deadlines \cup {d}
      <4>1. PICK f \in Nat : f = d
        BY <3>3
      <4>2. guest \in GuestStates /\ Len(code) # 1 /\ a = Advance(code, f)
        BY <1>1, <3>2, <3>3, <4>1
      <4>3. /\ Advance(code, f).todo = Tail(code) /\ Advance(code, f).setting = f
            /\ Advance(code, f).deadlines = guest.deadlines \cup {f}
        BY <4>2, SafeAdvance
      <4>4. QED
        BY <4>1, <4>2, <4>3
    <3>5. QED
      BY <2>3, <3>1, <3>2, <3>4
  <2>6. PICK g : g = [a EXCEPT !.left = guest.left - 1]
    OBVIOUS
  <2>7. /\ g \in GuestStates /\ g.todo = <<y, z>> /\ g.setting = d
        /\ g.deadlines = guest.deadlines \cup {d}
    <3>1. guest.left - 1 \in Int
      BY <1>1 DEF GuestStates
    <3>2. QED
      BY <2>4, <2>5, <2>6, <3>1 DEF GuestStates
  <2>8. Instruction(x, g)
    BY <2>1, <2>4, <2>5, <2>6
  <2>9. w - 1 \in 0 .. w - 1
    OBVIOUS
  <2>10. CASE x = CmpStore(0, w - 1) /\ y = CmpStore(4, d \div w) /\ z = CmpStore(0, d % w)
    <3>1. /\ l2 = w - 1 /\ h2 = h /\ phase' = "devices" /\ guest'.unnoticed = FALSE
          /\ guest'.todo = <<y, z>> /\ guest'.setting = d
          /\ guest'.deadlines = guest.deadlines \cup {d}
      BY <1>8, <2>7, <2>8, <2>9, <2>10
    <3>2. Halfway(d)'
      BY <1>2, <1>6, <2>10, <3>1 DEF Halfway
    <3>3. l2 + h2 * w >= e
      <4>1. PICK t \in Nat : t = h * w
        OBVIOUS
      <4>2. QED
        BY <1>4, <1>5, <3>1, <4>1
    <3>4. e \in guest'.deadlines
      BY <3>1
    <3>5. QED
      BY <1>7, <3>1, <3>2, <3>3, <3>4
  <2>11. CASE x = CmpStore(4, w - 1) /\ y = CmpStore(0, d % w) /\ z = CmpStore(4, d \div w)
    <3>1. /\ l2 = l /\ h2 = w - 1 /\ phase' = "devices" /\ guest'.unnoticed = FALSE
          /\ guest'.todo = <<y, z>> /\ guest'.setting = d
          /\ guest'.deadlines = guest.deadlines \cup {d}
      BY <1>8, <2>7, <2>8, <2>9, <2>11
    <3>2. Halfway(d)'
      BY <1>2, <1>6, <2>11, <3>1 DEF Halfway
    <3>3. l2 + h2 * w >= e
      <4>1. h * w <= (w - 1) * w
        OBVIOUS
      <4>2. PICK t \in Nat, u \in Nat : t = h * w /\ u = (w - 1) * w
        OBVIOUS
      <4>3. QED
        BY <1>4, <1>5, <3>1, <4>1, <4>2
    <3>4. e \in guest'.deadlines
      BY <3>1
    <3>5. QED
      BY <1>7, <3>1, <3>2, <3>3, <3>4
  <2>12. QED
    BY <2>3, <2>10, <2>11
<1>11. CASE ContinuePiece
  <2>1. Instruction(Head(guest.todo), Advance(guest.todo, guest.setting)) /\ guest.todo # << >>
    BY <1>11 DEF ContinuePiece
  <2>2. PICK d \in 0 .. w * w - 1 : guest.setting = d /\ Halfway(d)
    BY <1>1, <1>2, <2>1 DEF SafeInv
  <2>3. PICK g \in GuestStates : g = Advance(guest.todo, d)
    <3>1. guest.todo \in Seq(GuestInstructions) \ {<< >>} /\ d \in Nat \cup {NoDeadline}
      BY <1>1, <2>1, <2>2 DEF GuestStates
    <3>2. QED
      BY <1>1, <3>1, Advanced
  <2>4. PICK q \in 0 .. w - 1, r \in 0 .. w - 1 : q = d \div w /\ r = d % w
    BY <1>9
  <2>5. /\ d \in Nat /\ d = r + q * w /\ (w - 1) + q * w >= d /\ r + (w - 1) * w >= d
    BY <1>9, <2>4
  <2>6. \/ guest.todo = <<CmpStore(4, q), CmpStore(0, r)>> /\ l = w - 1
        \/ guest.todo = <<CmpStore(0, r)>> /\ h = q
        \/ guest.todo = <<CmpStore(0, r), CmpStore(4, q)>> /\ h = w - 1
        \/ guest.todo = <<CmpStore(4, q)>> /\ l = r
    BY <1>2, <1>3, <2>2, <2>4 DEF Halfway
  <2>7. ASSUME NEW b, NEW z, guest.todo = <<b, z>>
        PROVE  /\ Instruction(b, g) /\ g.todo = <<z>> /\ g.setting = d
               /\ g.deadlines = guest.deadlines \cup {d}
    <3>1. PICK code : code = <<b, z>>
      OBVIOUS
    <3>2. Head(code) = b /\ Tail(code) = <<z>> /\ Len(code) # 1
      BY <3>1
    <3>3. code = guest.todo /\ g = Advance(code, d) /\ d \in Nat
      BY <2>3, <2>5, <2>7, <3>1
    <3>4. g.todo = Tail(code) /\ g.setting = d /\ g.deadlines = guest.deadlines \cup {d}
      <4>1. PICK f \in Nat : f = d
        BY <3>3
      <4>2. guest \in GuestStates /\ Len(code) # 1 /\ g = Advance(code, f)
        BY <1>1, <3>2, <3>3, <4>1
      <4>3. /\ Advance(code, f).todo = Tail(code) /\ Advance(code, f).setting = f
            /\ Advance(code, f).deadlines = guest.deadlines \cup {f}
        BY <4>2, SafeAdvance
      <4>4. QED
        BY <4>1, <4>2, <4>3
    <3>5. Instruction(b, g)
      BY <2>1, <2>2, <3>2, <3>3
    <3>6. QED
      BY <3>2, <3>4, <3>5
  <2>8. ASSUME NEW z, guest.todo = <<z>>
        PROVE  Instruction(z, g) /\ g.todo = << >> /\ g.deadlines = {d}
    <3>1. Head(guest.todo) = z /\ g = Advance(<<z>>, d)
      BY <2>3, <2>8
    <3>2. g.todo = << >> /\ g.deadlines = {d}
      BY <1>1, <2>5, <3>1, SafeEnd
    <3>3. Instruction(z, g)
      BY <2>1, <2>2, <2>3, <3>1
    <3>4. QED
      BY <3>2, <3>3
  <2>9. CASE guest.todo = <<CmpStore(4, q), CmpStore(0, r)>> /\ l = w - 1
    <3>1. /\ Instruction(CmpStore(4, q), g) /\ g.todo = <<CmpStore(0, r)>> /\ g.setting = d
          /\ g.deadlines = guest.deadlines \cup {d}
      BY <2>7, <2>9
    <3>2. /\ l2 = w - 1 /\ h2 = q /\ phase' = "devices" /\ guest'.unnoticed = FALSE
          /\ guest'.todo = <<CmpStore(0, r)>> /\ guest'.setting = d /\ d \in guest'.deadlines
      BY <1>8, <2>9, <3>1
    <3>3. Halfway(d)'
      BY <1>2, <1>6, <2>4, <3>2 DEF Halfway
    <3>4. l2 + h2 * w >= d
      BY <2>5, <3>2
    <3>5. QED
      BY <1>7, <3>2, <3>3, <3>4
  <2>10. CASE guest.todo = <<CmpStore(0, r)>> /\ h = q
    <3>1. Instruction(CmpStore(0, r), g) /\ g.todo = << >> /\ g.deadlines = {d}
      BY <2>8, <2>10
    <3>2. /\ l2 = r /\ h2 = q /\ phase' = "devices" /\ guest'.unnoticed = FALSE
          /\ guest'.todo = << >> /\ d \in guest'.deadlines
      BY <1>8, <2>10, <3>1
    <3>3. l2 + h2 * w >= d
      BY <2>5, <3>2
    <3>4. QED
      BY <1>7, <3>2, <3>3
  <2>11. CASE guest.todo = <<CmpStore(0, r), CmpStore(4, q)>> /\ h = w - 1
    <3>1. /\ Instruction(CmpStore(0, r), g) /\ g.todo = <<CmpStore(4, q)>> /\ g.setting = d
          /\ g.deadlines = guest.deadlines \cup {d}
      BY <2>7, <2>11
    <3>2. /\ l2 = r /\ h2 = w - 1 /\ phase' = "devices" /\ guest'.unnoticed = FALSE
          /\ guest'.todo = <<CmpStore(4, q)>> /\ guest'.setting = d /\ d \in guest'.deadlines
      BY <1>8, <2>11, <3>1
    <3>3. Halfway(d)'
      BY <1>2, <1>6, <2>4, <3>2 DEF Halfway
    <3>4. l2 + h2 * w >= d
      BY <2>5, <3>2
    <3>5. QED
      BY <1>7, <3>2, <3>3, <3>4
  <2>12. CASE guest.todo = <<CmpStore(4, q)>> /\ l = r
    <3>1. Instruction(CmpStore(4, q), g) /\ g.todo = << >> /\ g.deadlines = {d}
      BY <2>8, <2>12
    <3>2. /\ l2 = r /\ h2 = q /\ phase' = "devices" /\ guest'.unnoticed = FALSE
          /\ guest'.todo = << >> /\ d \in guest'.deadlines
      BY <1>8, <2>12, <3>1
    <3>3. l2 + h2 * w >= d
      BY <2>5, <3>2
    <3>4. QED
      BY <1>7, <3>2, <3>3
  <2>13. QED
    BY <2>6, <2>9, <2>10, <2>11, <2>12
<1>12. QED
  BY <1>10, <1>11

\* Every step of such a guest and of the emulator keeps it so.
LEMMA StepSafe == TypeInv /\ TimerInv /\ SafeInv /\ [Next]_vars => SafeInv'
<1>1. SUFFICES ASSUME TypeInv, TimerInv, SafeInv, [Next]_vars, Timed' PROVE SafeInv'
  BY DEF SafeInv
<1>2. WellFormed(mem) /\ guest \in GuestStates
  BY <1>1 DEF TypeInv
<1>3. UNCHANGED job => Timed
  BY <1>1 DEF Timed
<1>4. ASSUME phase \in {"tick", "execute", "devices"}, UNCHANGED <<job, mem, guest>>,
             phase' \notin SetupPhases
      PROVE  SafeInv'
  BY <1>1, <1>3, <1>4 DEF SafeInv, NotBefore, Halfway
<1>5. CASE StartLoop
  <2>1. /\ phase \in SetupPhases /\ UNCHANGED <<job, mem>> /\ phase' = "tick"
        /\ guest' = [guest EXCEPT !.deadlines = {Read64(mem, kTimerCmp)}]
    BY <1>5 DEF StartLoop, SetupPhases
  <2>2. PICK v : v = Read64(mem, kTimerCmp)
    OBVIOUS
  <2>3. /\ guest'.deadlines = {v} /\ guest'.todo = guest.todo
        /\ guest'.unnoticed = guest.unnoticed
    BY <1>2, <2>1, <2>2 DEF GuestStates
  <2>4. guest.todo = << >> /\ ~guest.unnoticed
    BY <1>1, <1>3, <2>1 DEF SafeInv
  <2>5. PICK w \in Nat, l \in Nat, h \in Nat :
          w = Weight[4] /\ l = Read32(mem, kTimerCmp) /\ h = Read32(mem, kTimerCmp + 4)
    <3>1. PICK i \in Nat, j \in Nat : i = kTimerCmp /\ j = kTimerCmp + 4
      BY TimerPlaces
    <3>2. Read32(mem, i) \in Nat /\ Read32(mem, j) \in Nat
      BY <1>2, WordRead
    <3>3. QED
      BY <3>1, <3>2, Weights
  <2>6. v = l + h * w /\ l + h * w \in Nat
    BY <2>2, <2>5 DEF Read64
  <2>7. NotBefore(Read32(mem, kTimerCmp), Read32(mem, kTimerCmp + 4))'
    <3>1. v \in guest'.deadlines /\ l + h * w >= v
      BY <2>3, <2>6
    <3>2. Read32(mem', kTimerCmp) = l /\ Read32(mem', kTimerCmp + 4) = h
      BY <2>1, <2>5
    <3>3. QED
      BY <2>5, <3>1, <3>2 DEF NotBefore
  <2>8. phase' \notin SetupPhases
    BY <2>1 DEF SetupPhases
  <2>9. QED
    BY <2>3, <2>4, <2>7, <2>8 DEF SafeInv
<1>6. CASE Setup /\ ~StartLoop
  <2>1. phase \in SetupPhases /\ UNCHANGED <<job, guest>>
    BY <1>6 DEF Setup, ReadProgram, LoadSegment, SetUpBss, FindSymbols, SymbolsFail,
                SetDefaultMmuTable, UartInit, VirtioInit, loopVars, SetupPhases
  <2>2. phase' \notin {"tick", "execute", "devices"}
    BY <1>6 DEF Setup, ReadProgram, LoadSegment, SetUpBss, FindSymbols, SymbolsFail,
                SetDefaultMmuTable, UartInit, VirtioInit
  <2>3. guest.todo = << >> /\ ~guest.unnoticed
    BY <1>1, <1>3, <2>1 DEF SafeInv
  <2>4. QED
    BY <2>1, <2>2, <2>3 DEF SafeInv
<1>7. CASE TimerTick \/ TakeTimerInterrupt \/ PeripheralEmulations \/ OtherInstruction
  BY <1>4, <1>7 DEF TimerTick, TakeTimerInterrupt, PeripheralEmulations, OtherInstruction,
                    NextInstruction, LoopEnd, SetupPhases
<1>8. CASE BeginPiece \/ ContinuePiece
  <2>1. UNCHANGED job
    BY <1>1, <1>8, PieceStep, InstructionFrame
  <2>2. QED
    BY <1>1, <1>3, <1>8, <2>1, SafeStore
<1>9. CASE UNCHANGED vars
  BY <1>1, <1>3, <1>9 DEF vars, loopVars, SafeInv, NotBefore, Halfway
<1>10. QED
  BY <1>1, <1>5, <1>6, <1>7, <1>8, <1>9 DEF Next, Loop

\* A guest that keeps to the safe orders has no interrupt before a deadline in
\* force, for every word size, value and interleaving with the timer.
THEOREM NoEarlyTimerHolds == Spec => NoEarlyTimer
<1>1. Init => SafeInv
  <2>1. Init => guest.todo = << >> /\ ~guest.unnoticed /\ phase = "start"
    BY DEF Init
  <2>2. QED
    BY <2>1 DEF SafeInv
<1>2. ASSUME TypeInv, TimerInv, SafeInv,
             Timed, TimerTick, ~hart.mtip, hart'.mtip
      PROVE  \E d \in guest.deadlines : timer'.elapsed_cycles >= d
  <2>1. WellFormed(mem) /\ ~guest.unnoticed /\ phase = "tick"
    BY <1>2 DEF TypeInv, SafeInv, TimerTick
  <2>2. timer'.elapsed_cycles = ValueOf(Flat!Contents(kTimerCmp, 8))
    BY <1>2, <2>1, TickCompares
  <2>3. ValueOf(Flat!Contents(kTimerCmp, 8)) = Read64(mem, kTimerCmp)
    BY <2>1, CmpContents
  <2>4. NotBefore(Read32(mem, kTimerCmp), Read32(mem, kTimerCmp + 4))
    BY <1>2, <2>1 DEF SafeInv
  <2>5. QED
    BY <2>2, <2>3, <2>4 DEF NotBefore, Read64
<1>3. TypeInv /\ TimerInv /\ SafeInv /\ [Next]_vars =>
        [Timed /\ TimerTick /\ ~hart.mtip /\ hart'.mtip =>
           \E d \in guest.deadlines : timer'.elapsed_cycles >= d]_vars
  BY <1>2
<1>4. QED
  BY <1>1, <1>3, StepSafe, InitTimer, StepTimer, TypesHold, PTL DEF Spec, NoEarlyTimer

=============================================================================
