------------------------------ MODULE Emulator ------------------------------
(***************************************************************************)
(* One run of the emulator, from its command line to its end: run() of     *)
(* RISCV_Emulator.cc and the loop of RiscvCpu::RunCpu with the memory, the *)
(* machine timer, the host interface and the system calls it shares with   *)
(* the guest program.                                                      *)
(*                                                                         *)
(* The guest is a set of pieces of straight code that it may run in any    *)
(* order.  It runs in machine mode, where addresses are physical; traps    *)
(* are the subject of RiscvCpu, translation of Mmu, accesses across units  *)
(* of 8 bytes of MemoryAccess, the UART and the disk of ExternalInterrupts *)
(* and VirtioDisk.                                                         *)
(***************************************************************************)
EXTENDS Loader, SystemCalls, HostInterface, MachineTimer

CONSTANTS
  kUartLsr,        (* the UART's line status byte                          *)
  kVirtioBase,     (* the disk's registers                                 *)
  PathMax,         (* kMax of the open call                                *)
  Jobs             (* bound: the command lines and guests of the model:    *)
                   (*   argv    the tokens after the program's name        *)
                   (*   pieces  the guest's pieces of code: [code, deadline]*)
                   (*   limit   how many of them it runs                   *)
                   (*   idle    it may also execute other instructions     *)

VARIABLES
  job,             (* the member of Jobs                                   *)
  phase,           (* where run() and RunCpu are                           *)
  loading,         (* the program header that is loaded next               *)
  options,         (* the result of ParseCmd                               *)
  mem,             (* memory_                                              *)
  hart,            (* registers and flags of RiscvCpu                      *)
  timer,           (* MachineTimer's members                               *)
  host,            (* HostInterface's members                              *)
  system,          (* the host's descriptors and openHandles               *)
  access,          (* history: the last write to memory and its writer     *)
  guest            (* the guest's position and histories about it          *)

\* A deadline that a piece of code does not set.
NoDeadline == -1

GuestInstructions ==
  [op : {"load"}, address : Nat, width : {1, 2, 4, 8}]
    \cup [op : {"store", "amo"}, address : Nat, width : {1, 2, 4, 8}, data : Nat]
    \cup [op : {"ecall"}, a7 : Nat, a0 : Nat, a1 : Nat, a2 : Nat]
    \cup [op : {"error"}]

Pieces == [code : Seq(GuestInstructions) \ {<< >>}, deadline : Nat \cup {NoDeadline}]

ASSUME EmulatorAssumption ==
  /\ ByteSize % 2 = 0
  /\ kUartLsr \in 0 .. MemorySize - 1
  /\ kVirtioBase \in 0 .. MemorySize - 8 /\ kVirtioBase % 4 = 0
  /\ kUartLsr \notin kVirtioBase .. kVirtioBase + 7
  /\ PathMax \in Nat
  /\ \A j \in Jobs :
       j \in [argv : Seq(STRING), pieces : SUBSET Pieces, limit : Nat, idle : BOOLEAN]

loopVars == <<hart, timer, host, system, guest>>
vars == <<job, phase, loading, options, mem, access, loopVars>>

mxl == IF options.address64bit THEN 2 ELSE 1
File == Files[options.filename]

\* How run() can be over: refused by the command line or a file, failed in the
\* symbol table, hanging in .bss, or returned from the hart.
Final == {"rejected", "failed", "hung", "ended"}

Nobody == [by |-> "nobody", address |-> 0, data |-> << >>]
Writes(by, address, data) ==
  access' = [by |-> by, address |-> address, data |-> data]

Init ==
  /\ job \in Jobs
  /\ phase = "start"
  /\ loading = 1
  /\ options = NoOptions
  /\ mem = MemoryWrapper
  /\ hart = [entry |-> 0, gp |-> 0, sp |-> 0, satp |-> FALSE, a0 |-> 0,
             brk |-> Bottom, mtip |-> FALSE, error |-> FALSE, end |-> FALSE]
  /\ timer = TimerInit
  /\ host = HostInit
  /\ system = [fds |-> [fd \in Streams |-> "stream"], openHandles |-> 0]
  /\ access = Nobody
  /\ guest = [todo |-> << >>, left |-> job.limit, setting |-> NoDeadline,
              deadlines |-> {}, unnoticed |-> FALSE, orderly |-> TRUE]

-----------------------------------------------------------------------------
(* run(), up to the hart's start.                                          *)

ReadProgram ==
  /\ phase = "start"
  /\ options' = ParseCmd(job.argv)
  /\ phase' = IF options'.error \/ ~CanReadFile(options'.filename)
              THEN "rejected" ELSE "segments"
  /\ UNCHANGED <<job, loading, mem, access, loopVars>>

\* One program header of Load32BitElfFile or Load64BitElfFile.
LoadSegment ==
  /\ phase = "segments"
  /\ loading <= Len(File.segments)
  /\ loading' = loading + 1
  /\ LET segment == File.segments[loading]
     IN IF segment.load
        THEN /\ mem' = WriteBytes(mem, segment.vaddr, segment.data)
             /\ Writes("loader", segment.vaddr, segment.data)
        ELSE UNCHANGED <<mem, access>>
  /\ UNCHANGED <<job, phase, options, loopVars>>

\* The end of those functions.
SetUpBss ==
  /\ phase = "segments"
  /\ loading > Len(File.segments)
  /\ mem' = WriteBytes(mem, Bss(File).address, BssBytes(File))
  /\ Writes("loader", Bss(File).address, BssBytes(File))
  /\ phase' = IF BssIsEndless(File) THEN "hung" ELSE "symbols"
  /\ UNCHANGED <<job, loading, options, loopVars>>

\* Entry, global pointer, stack pointer and the disk image.
FindSymbols ==
  /\ phase = "symbols"
  /\ hart' = [hart EXCEPT !.entry = EntryPoint(File), !.gp = NotFound,
                          !.sp = Top]
  /\ phase' = IF options.diskimage_file # NoName
                   /\ ~CanReadFile(options.diskimage_file)
              THEN "rejected" ELSE "tables"
  /\ UNCHANGED <<job, loading, options, mem, access, timer, host, system, guest>>

\* The header of a 32 bit file, read as that of a 64 bit file, can lead
\* outside the image.
SymbolsFail ==
  /\ phase = "symbols"
  /\ ~File.class64
  /\ phase' = "failed"
  /\ UNCHANGED <<job, loading, options, mem, access, loopVars>>

SetDefaultMmuTable ==
  /\ phase = "tables"
  /\ mem' = WriteBytes(mem, TableStart, DefaultTable)
  /\ Writes("loader", TableStart, DefaultTable)
  /\ hart' = [hart EXCEPT !.satp = options.paging]
  /\ phase' = IF options.device_enable THEN "uart" ELSE "run"
  /\ UNCHANGED <<job, loading, options, timer, host, system, guest>>

\* UartInit sets a bit of the line status, here the lowest.
UartReady(lsr) == lsr + 1 - (lsr % 2)

UartInit ==
  /\ phase = "uart"
  /\ LET lsr == UartReady(ReadByte(mem, kUartLsr))
     IN mem' = WriteByte(mem, kUartLsr, lsr) /\ Writes("device", kUartLsr, <<lsr>>)
  /\ phase' = "virtio"
  /\ UNCHANGED <<job, loading, options, loopVars>>

\* The identification words and the queue's length, next to each other here.
VirtioWords == <<1, 2>>

VirtioInit ==
  /\ phase = "virtio"
  /\ mem' = Write32(Write32(mem, kVirtioBase, VirtioWords[1]),
                    kVirtioBase + 4, VirtioWords[2])
  /\ Writes("device", kVirtioBase,
            BytesOf(VirtioWords[1], 4) \o BytesOf(VirtioWords[2], 4))
  /\ phase' = "run"
  /\ UNCHANGED <<job, loading, options, loopVars>>

-----------------------------------------------------------------------------
(* RunCpu.                                                                 *)

\* The image may bring the first deadline with it.
StartLoop ==
  /\ phase = "run"
  /\ phase' = "tick"
  /\ hart' = [hart EXCEPT !.error = FALSE, !.end = FALSE]
  /\ guest' = [guest EXCEPT !.deadlines = {Read64(mem, kTimerCmp)}]
  /\ UNCHANGED <<job, loading, options, mem, access, timer, host, system>>

\* The condition at the end of the loop.
LoopEnd(h) == IF h.error \/ h.end THEN "ended" ELSE "tick"

\* A faulty variant: no counting while the interrupt is pending.
TimerTickPaused ==
  /\ phase = "tick"
  /\ IF hart.mtip THEN UNCHANGED <<timer, hart>>
     ELSE LET t == Ticked(timer, mem)
          IN /\ timer' = [t EXCEPT !.timer_interrupt = FALSE]
             /\ hart' = [hart EXCEPT !.mtip = t.timer_interrupt]
  /\ phase' = "execute"
  /\ UNCHANGED <<job, loading, options, mem, access, host, system, guest>>

\* RiscvCpu::TimerTick.
TimerTick ==
  /\ phase = "tick"
  /\ LET t == Ticked(timer, mem)
     IN /\ timer' = [t EXCEPT !.timer_interrupt = FALSE]
        /\ hart' = [hart EXCEPT !.mtip = hart.mtip \/ t.timer_interrupt]
  /\ phase' = "execute"
  /\ UNCHANGED <<job, loading, options, mem, access, host, system, guest>>

\* CheckPendingInterrupt finds the timer's interrupt enabled: the iteration ends
\* before any instruction, and before the peripherals.
TakeTimerInterrupt ==
  /\ phase = "execute"
  /\ hart.mtip
  /\ hart' = [hart EXCEPT !.mtip = FALSE]
  /\ phase' = LoopEnd(hart)
  /\ UNCHANGED <<job, loading, options, mem, access, timer, host, system, guest>>

LoadWd(m, address, width) ==
  CASE width = 4 /\ address % 4 = 0 -> Read32(m, address)
    [] width = 8 /\ address % 8 = 0 -> Read64(m, address)
    [] OTHER -> ValueOf(ReadBytes(m, address, width))

StoreWd(m, address, data, width) ==
  CASE width = 4 /\ address % 4 = 0 -> Write32(m, address, data)
    [] width = 8 /\ address % 8 = 0 -> Write64(m, address, data)
    [] OTHER -> WriteBytes(m, address, BytesOf(data, width))

SignExtend(value, width) ==
  IF value >= Weight[width] \div 2
  THEN value + Weight[8] - Weight[width] ELSE value

\* The writes that reach mtimecmp, and those of them that the timer notices.
TouchesTimerCmp(address, width) ==
  \E k \in 0 .. (width - 1) :
    (address + k) % MemorySize \in kTimerCmp .. (kTimerCmp + 7)

Noted(by, address, width) ==
  [guest EXCEPT !.unnoticed =
     IF TouchesTimerCmp(address, width)
     THEN by # "store" \/ address >= MemorySize ELSE guest.unnoticed]

\* An instruction of the guest is over: g is the guest's state after it.
NextInstruction(g) ==
  /\ guest' = g
  /\ phase' = "devices"
  /\ UNCHANGED <<job, loading, options>>

\* A faulty variant: mtime is brought up to date after the load.
LoadInstructionStale(i, g) ==
  /\ mem' = MemoryMappedValueUpdate(timer, mem)
  /\ Writes("timer", kTimerMtime, BytesOf(timer.elapsed_cycles, 8))
  /\ hart' = [hart EXCEPT !.a0 =
                SignExtend(LoadWd(mem, i.address, i.width), i.width)]
  /\ NextInstruction(g)
  /\ UNCHANGED <<timer, host, system>>

LoadInstruction(i, g) ==
  /\ mem' = MemoryMappedValueUpdate(timer, mem)
  /\ Writes("timer", kTimerMtime, BytesOf(timer.elapsed_cycles, 8))
  /\ hart' = [hart EXCEPT !.a0 =
                SignExtend(LoadWd(mem', i.address, i.width), i.width)]
  /\ NextInstruction(g)
  /\ UNCHANGED <<timer, host, system>>

\* CheckDeviceWrite for the host and the timer.
CheckDeviceWrite(address, width) ==
  /\ host' = [host EXCEPT
                !.host_write = host.host_write \cup HostWords(address, mxl)]
  /\ timer' = [timer EXCEPT
                 !.timercmp_update = timer.timercmp_update
                                       \/ TimerCmpWritten(address, width)]

StoreInstruction(i, g) ==
  /\ mem' = StoreWd(mem, i.address, i.data, i.width)
  /\ Writes("store", i.address, BytesOf(i.data, i.width))
  /\ CheckDeviceWrite(i.address, i.width)
  /\ NextInstruction([g EXCEPT
       !.unnoticed = Noted("store", i.address, i.width).unnoticed])
  /\ UNCHANGED <<hart, system>>

\* AMOSWAP: it stores without telling the devices.
AmoInstruction(i, g) ==
  /\ mem' = StoreWd(mem, i.address, i.data, i.width)
  /\ Writes("amo", i.address, BytesOf(i.data, i.width))
  /\ hart' = [hart EXCEPT !.a0 =
                SignExtend(LoadWd(mem, i.address, i.width), i.width)]
  /\ NextInstruction([g EXCEPT
       !.unnoticed = Noted("amo", i.address, i.width).unnoticed])
  /\ UNCHANGED <<timer, host, system>>

\* A close that uses up the count of another file.
Disorderly(i) ==
  i.a7 = 57 /\ system.openHandles > 0 /\ i.a0 \notin FilesOf(system.fds)

\* SystemInstruction with ECALL under -e; without it, the trap of RiscvCpu.
EcallInstruction(i, g) ==
  /\ IF ~options.ecall_emulation
     THEN UNCHANGED <<mem, access, hart, system>> /\ NextInstruction(g)
     ELSE \E s \in SystemCallEmulation(
                     [mem |-> mem, a0 |-> i.a0, brk |-> hart.brk,
                      fds |-> system.fds, openHandles |-> system.openHandles,
                      end |-> FALSE, written |-> NothingWritten], i, Top, PathMax) :
            /\ mem' = s.mem
            /\ IF s.written = NothingWritten THEN UNCHANGED access
               ELSE Writes("call", s.written.address, s.written.data)
            /\ hart' = [hart EXCEPT !.a0 = s.a0, !.brk = s.brk,
                                    !.error = FALSE, !.end = s.end]
            /\ system' = [fds |-> s.fds, openHandles |-> s.openHandles]
            /\ NextInstruction([g EXCEPT
                 !.unnoticed = Noted("call", s.written.address,
                                     Len(s.written.data)).unnoticed,
                 !.orderly = g.orderly /\ ~Disorderly(i)])
  /\ UNCHANGED <<timer, host>>

\* An illegal instruction, or a jump to itself.
ErrorInstruction(i, g) ==
  /\ hart' = [hart EXCEPT !.error = TRUE]
  /\ NextInstruction(g)
  /\ UNCHANGED <<mem, access, timer, host, system>>

Instruction(i, g) ==
  \/ i.op = "load"  /\ LoadInstruction(i, g)
  \/ i.op = "store" /\ StoreInstruction(i, g)
  \/ i.op = "amo"   /\ AmoInstruction(i, g)
  \/ i.op = "ecall" /\ EcallInstruction(i, g)
  \/ i.op = "error" /\ ErrorInstruction(i, g)

\* The guest executes the first instruction of code, which sets a deadline.
\* Until the code's end the old deadline and its own are both in force.
Advance(code, deadline) ==
  [guest EXCEPT
     !.todo = Tail(code),
     !.setting = IF Len(code) = 1 THEN NoDeadline ELSE deadline,
     !.deadlines = IF deadline = NoDeadline THEN guest.deadlines
                   ELSE IF Len(code) = 1 THEN {deadline}
                   ELSE guest.deadlines \cup {deadline}]

BeginPiece ==
  /\ phase = "execute" /\ guest.todo = << >> /\ guest.left > 0
  /\ \E piece \in job.pieces :
       Instruction(Head(piece.code),
                   [Advance(piece.code, piece.deadline) EXCEPT
                      !.left = guest.left - 1])

ContinuePiece ==
  /\ phase = "execute" /\ guest.todo # << >>
  /\ Instruction(Head(guest.todo), Advance(guest.todo, guest.setting))

\* Any other instruction, between two pieces or in a handler.
OtherInstruction ==
  /\ phase = "execute" /\ job.idle
  /\ NextInstruction(guest)
  /\ UNCHANGED <<mem, access, hart, timer, host, system>>

\* PeripheralEmulations, with the host's part of Emulation.
PeripheralEmulations ==
  /\ phase = "devices"
  /\ IF options.host_emulation
     THEN /\ host' = HostEmulation(host, mem, mxl)
          /\ hart' = IF host'.end_flag
                     THEN [hart EXCEPT !.a0 = host'.host_value, !.end = TRUE,
                                       !.error = hart.error \/ host'.error_flag]
                     ELSE hart
     ELSE UNCHANGED <<host, hart>>
  /\ phase' = LoopEnd(hart')
  /\ UNCHANGED <<job, loading, options, mem, access, timer, system, guest>>

Setup ==
  \/ ReadProgram \/ LoadSegment \/ SetUpBss \/ FindSymbols \/ SymbolsFail
  \/ SetDefaultMmuTable \/ UartInit \/ VirtioInit \/ StartLoop

Loop ==
  \/ TimerTick \/ TakeTimerInterrupt
  \/ BeginPiece \/ ContinuePiece \/ OtherInstruction
  \/ PeripheralEmulations

Next == Setup \/ Loop

\* The loop of RunCpu goes on as long as it can: it waits for nothing.
Spec == Init /\ [][Next]_vars /\ WF_vars(Loop)

-----------------------------------------------------------------------------
(* Properties.                                                             *)

Flat == INSTANCE FlatMemory WITH
          Size <- MemorySize,
          bytes <- [a \in 0 .. (MemorySize - 1) |-> ReadByte(mem, a)]

\* The sparse word memory is a flat byte memory: whoever writes, a loader, a
\* device, a system call or an instruction of any width, and whether or not the
\* entry was assigned before, exactly the written bytes change, modulo 4 GiB.
IsFlatMemory == Flat!Spec

\* The 16 bit accesses of the rings agree with the bytes in every memory that
\* the loader or a finished program leaves.
HalvesAsBytes ==
  phase \in Final \cup {"run"} =>
    \A i \in {EntrySize - 4, EntrySize - 2, EntrySize, EntrySize + 2} :
      /\ Read16(mem, i) = ValueOf(ReadBytes(mem, i, 2))
      /\ \A value \in 0 .. Weight[2] - 1 :
           LET after == Write16(mem, i, value)
           IN /\ ReadBytes(after, i, 2) = BytesOf(value, 2)
              /\ \A a \in (0 .. MemorySize - 1) \ {i, i + 1} :
                   ReadByte(after, a) = ReadByte(mem, a)

\* The positions that -s takes as a name: those after an odd number of -s in a
\* row, since a -s that is taken takes nothing itself.
TakenByS(argv) ==
  {j \in 1 .. Len(argv) :
     \E k \in 1 .. j - 1 :
       /\ (j - k) % 2 = 1
       /\ \A l \in k .. j - 1 : argv[l] = "-s"
       /\ k = 1 \/ argv[k - 1] # "-s"}

\* The other positions, and those of them with a program's name.
Free(argv) == (1 .. Len(argv)) \ TakenByS(argv)
Named(argv) == {j \in Free(argv) : ~IsDashed(argv[j])}

Switches == {"-v", "-64", "-p", "-e", "-h", "-d", "-m"}
Latest(S) == CHOOSE j \in S : \A k \in S : k <= j

\* Every token of an accepted command line has its effect and only that, in any
\* order: a switch is on if and only if it is given, the program is the one
\* named and the disk image that of the last -s.  A line is refused for an
\* unknown option, a second program or a -s without a name, and for nothing
\* else.  A name after -s is never an option, and an empty one is no program.
OptionsAsGiven ==
  phase # "start" =>
    LET argv == job.argv
    IN /\ options.error <=>
            \/ argv = << >>
            \/ \E j \in Free(argv) : argv[j] = "-x" \/ (argv[j] = "-s" /\ j = Len(argv))
            \/ \E j, k \in Named(argv) : j < k /\ argv[j] # NoName
       /\ ~options.error =>
            /\ \A token \in Switches :
                 options[SwitchOf(token)] <=> \E j \in Free(argv) : argv[j] = token
            /\ \A j \in Named(argv) : argv[j] # NoName => options.filename = argv[j]
            /\ options.filename # NoName => \E j \in Named(argv) : options.filename = argv[j]
            /\ options.diskimage_file = IF TakenByS(argv) = {} THEN NoName
                                        ELSE argv[Latest(TakenByS(argv))]

\* The bytes of a segment that are for address a, and which of the first n
\* segments have one.
BytesFor(segment, a) ==
  {k \in 1 .. Len(segment.data) : (segment.vaddr + k - 1) % MemorySize = a}
Covering(file, n, a) ==
  {j \in 1 .. n : file.segments[j].load /\ BytesFor(file.segments[j], a) # {}}

\* What the first n segments bring to address a: the last byte of the last one.
Loaded(file, n, a) ==
  IF Covering(file, n, a) = {} THEN 0
  ELSE LET segment == file.segments[Latest(Covering(file, n, a))]
       IN segment.data[Latest(BytesFor(segment, a))]

BssFits(file) == Bss(file).address + Bss(file).size < MemorySize
InBss(file, a) ==
  /\ Bss(file) # NoSection
  /\ a \in Bss(file).address .. Bss(file).address + Bss(file).size - 1

Image(file, a) ==
  IF a \in MmuTable THEN 1
  ELSE IF InBss(file, a) THEN 0
  ELSE Loaded(file, Len(file.segments), a)

\* When the hart starts, memory holds the default page tables, the device's
\* identification under -d, zeros in .bss and elsewhere the last segment that
\* covers the place, whatever the order and overlap of the file's parts.
\* (A .bss that ends beyond 4 GiB is not zeroed, see BssEnd.)
ImageAsFile ==
  phase = "run" /\ BssFits(File) =>
    /\ \A a \in 0 .. MemorySize - 1 :
         LET found == ReadByte(mem, a)
         IN IF options.device_enable /\ a = kUartLsr
            THEN found = UartReady(Image(File, a))
            ELSE IF options.device_enable /\ a \in kVirtioBase .. kVirtioBase + 7
            THEN found = ByteOf(VirtioWords[1 + (a - kVirtioBase) \div 4],
                                (a - kVirtioBase) % 4)
            ELSE found = Image(File, a)
    /\ File.entry < MemorySize => hart.entry = File.entry

\* The timer's interrupt is raised at exactly the tick at which the count equals
\* mtimecmp as it is in memory then, however the halves were written: the
\* cached next_cycle_ is never out of date.  Excepted are writes the timer is
\* not told of: by an AMO, by a read or fstat call, or through an address above
\* 4 GiB.
TimerMatchesMemory ==
  [][TimerTick /\ ~hart.mtip /\ ~guest.unnoticed =>
       (hart'.mtip <=> timer'.elapsed_cycles = ValueOf(Flat!Contents(kTimerCmp, 8)))
    ]_vars

\* The two safe orders in which a guest writes the halves of mtimecmp: one half
\* is the largest value while the other changes.
CmpStore(k, value) ==
  [op |-> "store", address |-> kTimerCmp + k, width |-> 4, data |-> value]
LowerFirst(d) ==
  [code |-> <<CmpStore(0, Weight[4] - 1), CmpStore(4, d \div Weight[4]),
              CmpStore(0, d % Weight[4])>>,
   deadline |-> d]
UpperFirst(d) ==
  [code |-> <<CmpStore(4, Weight[4] - 1), CmpStore(0, d % Weight[4]),
              CmpStore(4, d \div Weight[4])>>,
   deadline |-> d]
IsSafe(piece) ==
  LET d == piece.deadline
  IN d \in 0 .. Weight[8] - 1 /\ piece \in {LowerFirst(d), UpperFirst(d)}

\* The guest sets all its deadlines by safe pieces of code.
Timed == job.pieces # {} /\ \A piece \in job.pieces : IsSafe(piece)

Deadlines == {piece.deadline : piece \in UNION {j.pieces : j \in Jobs}}

\* A guest that keeps to the safe orders gets no interrupt before one of the
\* deadlines in force, although the comparison uses half of a new value in
\* between and interrupts may delay any of the three stores.
NoEarlyTimer ==
  [][Timed /\ TimerTick /\ ~hart.mtip /\ hart'.mtip =>
       \E d \in guest.deadlines : timer'.elapsed_cycles >= d]_vars

\* A deadline that is still ahead when it is set gets its interrupt at its
\* cycle, unless the guest replaces it or the program ends.
DeadlineReached ==
  \A d \in Deadlines :
    (Timed /\ phase = "execute" /\ guest.todo = << >> /\ guest.deadlines = {d}
       /\ timer.elapsed_cycles < d)
      ~> \/ hart.mtip /\ timer.elapsed_cycles = d
         \/ guest.todo # << >> \/ guest.deadlines # {d}
         \/ phase \in Final

\* What the guest loads is what memory held before, except for mtime, of which
\* every load sees the present count.
LoadsSeeMtime ==
  [][\A piece \in job.pieces : \A n \in DOMAIN piece.code :
       LET i == piece.code[n]
           seen(k) ==
             LET a == Flat!Place(i.address, k)
             IN IF a \in kTimerMtime .. kTimerMtime + 7
                THEN ByteOf(timer.elapsed_cycles, a - kTimerMtime)
                ELSE ReadByte(mem, a)
       IN i.op = "load" /\ phase = "execute" /\ LoadInstruction(i, guest') =>
            hart'.a0 = SignExtend(ValueOf([k \in 1 .. i.width |-> seen(k)]), i.width)
    ]_vars

\* The word of the host interface that the last store was to, as the hart
\* addresses it, and what that store asks for.
StoredWord == {w \in {kToHost0, kToHost1} :
                 access.by = "store" /\ HostAddress(access.address, mxl) = w}
Asked == ValueOf(access.data)
AskedError(w) == w = kToHost0 /\ mxl = 2 /\ ByteOf(Asked, 7) = 0 /\ ByteOf(Asked, 6) # 0
AskedExit(w) ==
  \/ w = kToHost1
  \/ w = kToHost0 /\ Asked % 2 = 1
       /\ (mxl = 1 \/ (ByteOf(Asked, 7) = 0 /\ ByteOf(Asked, 6) = 0))

\* Under -h the program ends in the iteration of the store that asks for it and
\* in no other, with the value that this store carries, and with an error only
\* for an unknown command: no request is left over for a later iteration, so
\* that two words never compete.  Excepted is a store to a part of a word whose
\* rest is not zero.
HostEndsAsAsked ==
  options.host_emulation /\ phase \in {"tick", "ended"} =>
    /\ host.host_write = {}
    /\ host.end_flag => phase = "ended" /\ StoredWord # {}
    /\ \A w \in StoredWord :
         HostPayload(mem, w, mxl) = Asked =>
           /\ host.end_flag <=> AskedExit(w) \/ AskedError(w)
           /\ host.end_flag => (hart.error <=> AskedError(w))
           /\ AskedExit(w) => hart.a0 = Asked \div 2

\* The count that close consults never exceeds the files the guest has open,
\* and equals their number, with the emulator's own streams still open, as long
\* as every close that is carried out names one of them: a failed open or a
\* close before any open does not disturb it.
HandlesCounted ==
  LET open == FilesOf(system.fds)
  IN /\ system.openHandles \in 0 .. Cardinality(open)
     /\ guest.orderly =>
          /\ system.openHandles = Cardinality(open)
          /\ Streams \subseteq DOMAIN system.fds \ open

=============================================================================
