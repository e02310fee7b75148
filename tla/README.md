# m99_riscv_emulator: TLA+ verification project

A TLA+ model of the RISC-V emulator in `src/`: its CPU loop, traps and CSRs,
instruction decoding and disassembly, integer arithmetic, address translation,
memory and the accesses to it, the virtio disk, the keyboard, the machine timer,
the host interface, the emulated system calls, and the loader. TLC checks the
models on small instances; TLAPS proves every safety property that a passing run
checks, for every configuration and guest. `PROJECT.json` maps each definition to the source lines
it stands for.

## 1. The system

The emulator runs one hart in one thread. `RiscvCpu::RunCpu` repeats: poll
the timer and the devices, take a pending interrupt, fetch, execute, let the
peripherals act. The concurrency is between the guest program, which
may be preempted at every instruction, and the devices, whose requests travel
through plain memory and a handful of flags.

| Component | State | Operations | What makes it correct |
|---|---|---|---|
| CPU loop, traps, CSRs (`RISCV_cpu.cc`) | `pc_`, `privilege_`, `mstatus_`/`mip_`/`mie_` and the CSRs that repeat them, xEPC, xTVEC, xCAUSE, xTVAL, page fault flags | interrupt polling, `Trap`, `Mret`, `Sret`, CSR instructions, fetch, system calls | a return resumes what the trap interrupted; copies of a register agree; no fault is lost or attributed to another instruction |
| MMU (`Mmu.cpp`, `pte.cpp`) and default tables (`RISCV_Emulator.cc`) | page tables in memory, satp, accessed and dirty bits | Sv32 and Sv39 walks, write-back of the bits | a walk finds what the tables say; write-back never changes a mapping |
| Loads, stores, AMOs (`RISCV_cpu.cc`) | memory, `page_fault_`, `faulting_address_` | translate, split at the 8 byte unit, partial access, fault | every byte goes where the tables map it; a faulting access can be restarted |
| Integer instructions (`RISCV_cpu.cc`) | `reg_` (64 bits in both modes) | arithmetic, shifts, comparisons, branches, multiplication, division, AMO operations | results are those of the instruction set; what a 32 bit hart computes is sign extended |
| Virtio disk (`PeripheralEmulator.cpp`) | device registers, descriptor table and rings in guest memory, disk image | register writes, notification, chain walk, transfer, used ring, interrupt | each request is carried out once and answered |
| UART, interrupt controller, terminal (`PeripheralEmulator.cpp`, `ScreenEmulation.cpp`) | receive byte, line status, claim word, flags | poll a key, echo, claim, complete | no key is lost, repeated or changed |
| Machine timer (`PeripheralEmulator.cpp`) | `elapsed_cycles_`, `next_cycle_`, `timercmp_update_`; mtime and mtimecmp in memory | tick, notice a store, bring mtime up to date | the interrupt comes when the count reaches mtimecmp, not earlier |
| Host interface (`PeripheralEmulator.cpp`) | `host_write_`, `host_value_`, end and error flag; tohost words in memory | notice a store, decode the request | the program ends when the guest asks, with its value |
| Memory (`memory_wrapper.cpp`) | sparse table of 1 MiB entries of 32 bit words | accesses of four widths | behaves as a flat byte array |
| Decoder, disassembler (`RISCV_cpu.cc`, `instruction_encdec.cc`, `Disassembler.cpp`) | none | word to instruction, word to log line | fields and immediates are those of the formats; the log names what is executed |
| System calls (`system_call_emulator.cpp`) | program break, `openHandles`, the host's descriptors | newlib calls on host files | what is opened is counted; the program break stays below the top |
| Loader, command line (`RISCV_Emulator.cc`) | options, ELF file, memory image, initial registers | parse, load, zero .bss, build tables | memory is what the file says; options mean what was given |

How they interact: the CPU calls the MMU for every address; stores and loads
tell the peripherals (`CheckDeviceWrite`, `CheckDeviceRead`), which act once at
the end of the iteration; they report back through `virtio_interrupt_` and
`uart_interrupt_`, which the next iteration turns into bit 9 of `mip_`. Device
registers, rings and page tables are ordinary guest memory, so guest and device
overwrite each other's values.

Hard behaviours: traps nested in handlers; several copies of one register; flags
read an iteration after they are set; an access that fails halfway; two devices
sharing one claim word; ring indices that wrap; operands at the edge of a type;
a 64 bit comparison value written in halves; cached copies of memory.
`PROJECT.json` lists each hazard at its line.

## 2. Modules

| Module | Models | Checked by |
|---|---|---|
| `RiscvCpu` | the hart | through `TrapFrames` |
| `TrapFrames` | `RiscvCpu` with a history of what each trap interrupted, and the properties | `MCTrapFrames`: `frames`, `paging`, `delegated_timer` |
| `TrapFramesProofs` | theorems about `TrapFrames` | TLAPS |
| `Mmu` | translation and page tables | `MCMmu`: `translation` |
| `MmuProofs` | theorems about `Mmu` | TLAPS |
| `MemoryAccess` | loads, stores, AMOs | `MCMemoryAccess`: `accesses`, `split_load` |
| `MemoryAccessProofs` | theorems about `MemoryAccess` | TLAPS |
| `Arithmetic` | integer instructions | through `Instructions` |
| `Decode` | words to instructions, the encoders | through `Instructions` |
| `Disassembler` | words to log lines | through `Instructions` |
| `Instructions` | fetch of a word or an arithmetic step, and the references for both | `MCInstructions`: `instructions` |
| `InstructionsProofs` | theorems about `Instructions` | TLAPS |
| `Memory` | the sparse word memory | through `Emulator` |
| `MemoryProofs` | lemmas: what the accesses of `Memory` do to its bytes | TLAPS |
| `FlatMemory` | abstract specification: a byte array | refined by `Emulator` |
| `Loader` | options, ELF file, .bss, entry | through `Emulator` |
| `SystemCalls` | the emulated calls and the host's answers | through `Emulator` |
| `HostInterface` | the tohost words | through `Emulator` |
| `MachineTimer` | mtime and mtimecmp | through `Emulator` |
| `Emulator` | a run from the command line to the end: the five modules above composed by `run()` and `RunCpu` | `MCEmulator`: `program` |
| `EmulatorProofs` | theorems about `Emulator` | TLAPS |
| `BlockDevice` | abstract specification: what a disk promises | refined by `VirtioDisk` |
| `VirtioDisk` | the disk and an external driver | `MCVirtioDisk`: `disk`, `two_requests` |
| `VirtioDiskProofs` | theorems about `VirtioDisk` | TLAPS |
| `ExternalInterrupts` | UART, claim word, interrupt flags, an external handler | `MCExternalInterrupts`: `devices`, `lost_key` |
| `ExternalInterruptsProofs` | theorems about `ExternalInterrupts` | TLAPS |

**RiscvCpu.** A register made of masks and single bits is the set of its bits
that are 1. `phase` is the place in the loop (poll, check, fetch, execute,
peripheral, done) and each call of the loop is an action:
`PollInterruptSources` (`TimerTick`, `InterruptCheck`), `TakeInterrupt` and
`NoPendingInterrupt` (`CheckPendingInterrupt`), `Fetch` and its fault cases,
`CsrsInstruction` with the whole of `UpdateStatus`, `Mret`, `Sret`, `Ecall`,
`AccessFault`, `AmoFault`, `PeripheralEmulations`. The guest's instruction,
whether a translation faults and whether a device raises its flag are choices
of the step. A failed assert or an uncaught exception sets `aborted`. `SATP`,
scratch registers and general registers are left out.

**TrapFrames.** `live` is the set of levels (supervisor, machine) with a trap
not yet returned from, `frame[l]` the pc, privilege and interrupt enable it
interrupted. A guest write to the saved fields ends the frame: from then on
the guest decides where a return goes.

**Mmu.** Pages instead of bytes; a table has `K` entries and a virtual page is
two (Sv32) or three (Sv39) digits to the base `K`. The reference `MappedTo` has
no walk: it asks for a chain of linked tables down to a valid leaf. `Laid` says of
an installation what the constants of `RISCV_Emulator.h` say of the default
tables: the tables of a level lie behind those above it, and memory is large enough
for the tables and the pages they map.

**MemoryAccess.** Uses what `Mmu` establishes, a page maps to a page or
faults, and keeps the order of `LoadInstruction`, `StoreInstruction` and
`AmoInstruction`: first half, second translation, second half. Values are
functions from byte positions to bytes, so a misplaced byte is visible.

**Arithmetic.** Registers of `2 * H` bits, words of `H` bits, wrapping explicit.
Two registers are enough, since every instruction reads two and writes one. They
start as `run()` leaves them: 0, the stack pointer `kTop` or the global pointer,
the latter two not sign extended. `Inputs` are the values that come from elsewhere:
code addresses, CSRs, memory, results of system calls. The reference definitions
work on unbounded integers. `And`, `Or` and `Xor` put the result together bit by
bit. An AMO is split: its value is here, its addresses and faults in `MemoryAccess`.

**Decode, Disassembler, Instructions.** A word is the set of its one bits, with the
real bit numbers, so that each shift and mask of the source is one operator. The
disassembler has case analyses of its own; a log line is a mnemonic, registers and
an immediate. The references in `Instructions` are tables: per format, the place
of each bit of an immediate (`FullLayout`), and per 16 bit instruction its opcode,
the bits it fixes, and what it stands for (`CForms`).

**Memory, FlatMemory.** Every width goes through reads and writes of 32 bit words,
as in the code, and entries appear when they are first written. `FlatMemory` knows
bytes only; `Emulator` maps to it by reading each byte back. A write that is longer
than the address space wraps, and the last byte for a place stays.

**Emulator.** `phase` is the place in `run()` (start, segments, symbols, tables,
uart, virtio) and then in the loop (tick, execute, devices), or how the run is over
(rejected, failed, hung, ended). A job is a command line and a guest. A guest is a
set of pieces of straight code which it executes in any order, with interrupts
between any two instructions; it runs in machine mode, where addresses are
physical. Loads, stores, AMOs and system calls act on the one memory, together
with the loader, the devices and the timer; `access` records the last write.

**VirtioDisk.** `VirtioEmulation` is the whole handler: register bookkeeping or,
on a notification, its asserts, `get_desc_index`, the chain, the transfer,
status, used ring and interrupt. The guest's driver is not in the repository
and is modelled, as external, from the layout the device reads. `overwritten`
holds the places behind the used ring's page that the device has written; what a
guest keeps there is unknown, and the driver goes on as if it kept nothing of its
own there. Its refinement of `BlockDevice` maps a request to issued until its status byte is written.

**ExternalInterrupts.** One guest instruction per iteration. The receive and
transmit registers are one byte, and one word serves as claim and completion of
both sources, as in the code. The guest's handler is external.

## 3. What the runs show

- `frames`: a 64 bit guest with `-m`, timer and device interrupts, delegation and
  nested traps. What a trap saved is in xEPC, xPP and xPIE until its return,
  returns resume it, no interrupt enters a handler that is still running, no
  assert fails, and the CSRs that show pending interrupts show none that is not.
- `paging`: a demand-paging guest with MPRV, delegated faults, failing AMOs,
  instructions that straddle two words, and writes of reserved values. The views
  of `mstatus_` and `mie_` agree, hardwired fields stay, a failed AMO is reported
  at the next fetch unless that fetch fails itself, and a fetch fault carries an
  address of its own instruction or of the AMO that failed right before it.
- `delegated_timer` (violation): without `-m` a delegated machine timer
  interrupt is admitted by the machine's enable and taken to supervisor mode
  while SIE is 0, overwriting SEPC and SPP of the running handler.
- `disk`: two kinds of driver. With one request in flight the device is a block
  device, never aborts and answers every request, also after the used index has
  left the ring and its page and after both indices have wrapped; nothing is
  written behind the page before its entries are used up. With two in flight it serves stale ring entries, yet
  moves data only for requests in flight.
- `two_requests` (violation): the device reads the ring entry after the published
  one and serves another request than the one announced.
- `devices`: keys are neither lost nor repeated, the line status is right when
  the guest looks, and each source alone always gets through.
- `lost_key` (violation): a disk completion overwrites the keyboard's claim; the
  UART stays full and no further key is ever read.
- `translation`: on Sv32 and Sv39, with superpages, misaligned and reserved
  entries, shared and self-referring tables, every translation agrees with the
  declarative reading; write-back keeps mappings and dirty bits.
- `accesses`: stores follow the tables byte by byte and can be restarted after a
  fault; loads do so within a unit; changed memory is on a dirty page.
- `split_load` (violation): the second half of a load is translated from an
  address that is already physical.
- `instructions`: on 32 and 64 bit harts every result is the defined one for every
  pair of register values that instructions reach from those that `run()` sets,
  with one exception: a 32 bit hart holds values from elsewhere that are not sign
  extended (section 6), `RegistersExtended` says that only those and SRAI of
  them are not, and the instructions that look at the whole register are judged on
  extended operands. Only a divisor with a zero lower half can end the
  emulator. Every 16 bit word, and 32 bit
  words with every opcode and function code, decode to the instruction, registers
  and immediate of the formats; the encoders invert the decoders; and the log names
  what is executed, with the exceptions listed in section 6.
- `program`: whole runs. `IsFlatMemory`: whoever writes, with whatever width and
  through whatever address, exactly the written bytes change. `ImageAsFile`,
  `OptionsAsGiven`: what the hart starts with is what the file and the command line
  say. `TimerMatchesMemory`, `NoEarlyTimer`, `DeadlineReached`, `LoadsSeeMtime`: the
  cached comparison value follows memory, a guest that writes it in halves in a
  safe order gets no interrupt too early, a deadline ahead gets its interrupt at
  its cycle, and every load sees the present count. `HostEndsAsAsked`: the run ends
  in the iteration of the store that asks for it, with its value. `HandlesCounted`:
  failed opens and early closes do not disturb the count of open files.

Each property of a passing run has a faulty variant of a modelled definition
(marked as such in the modules) under which TLC finds it violated.

### Bounds

- `TrapFrames`: two code addresses and a handful of CSR writes. The guest may
  repeat them in any order for ever, so nesting, delegation and re-entry all
  happen; `paging` uses code at 2 and 6 so that a fetch straddles a word. No
  counter is bounded.
- `Mmu`: `K = 2` and eight pages hold complete default tables and tables to
  rewrite; up to two rewrites reach every shape listed above. Sv39 is followed by
  one and Sv32 by two translations after the last rewrite.
- `MemoryAccess`: units of 4 bytes and pages of two units, so that an access
  can cross a unit, a page, or end exactly at either; two accesses and two
  changes of the tables allow fault, map, retry.
- `Instructions`: `H = 4`: all 256 values of a register and carries out of
  each half. Values from elsewhere are small, a word with its top bit set but not
  extended, a multiple of a word and an extended word. All 16 bit words; of 32 bit words all opcodes, funct3 and funct7, and, for the values of
  funct7 that matter and single bits of it, operand patterns in which no two bit
  positions are alike.
- `VirtioDisk`: two processes, two blocks, two values. A queue of eight, a page of
  nine used entries (`UsedCapacity`, 511 in the code) and indices modulo 16
  (`IndexSize`, 65536): with 19 requests the serial driver leaves the ring, then
  the page, wraps both indices and reuses the ring three times over again.
- `Emulator`: a byte has two values, so a word has 16 and a double word 256, and
  the count of cycles wraps at 256. The address space of 4 GiB is 80 bytes in five
  entries of four words: every device word, the tables, .bss and the image overlap
  or touch somewhere, and addresses beyond the end alias. Values and addresses are
  scaled independently. Command lines have up to three tokens of six kinds, with
  the other switches in a few longer ones. Six guests exercise one subsystem each
  for two to five pieces; the timer's guest runs on through more than two wraps of
  the lower half of the count.
- `ExternalInterrupts`: four sessions, from typing alone to typing, echoing,
  printing and disk requests together, ended by Ctrl-a.

### Fairness

`VirtioDisk`: weak fairness of `VirtioEmulation`, which the loop calls in every
iteration, of the guest's interrupt handler, and of the scheduling of a woken
process. `ExternalInterrupts`: weak fairness of the loop; strong fairness of the
poll that finds a typed key (polling recurs, and a key does not go away) and of
the guest switching interrupts on again. The last is an assumption about
the guest: a guest that masks interrupts for ever is never interrupted.
`Emulator`: weak fairness of the loop of `RunCpu`, which waits for nothing; the guest
is assumed to go on executing some instruction.
`TrapFrames` states no fairness, as nothing temporal is asked of it.

### Deadlock

TLC checks for deadlock except where a bound ends the behaviour (`disk`,
`two_requests`, `accesses`, `split_load`) or the run is over (`program`).

## 4. What is proved

Each theorem holds for every value of the constants that satisfies the module's
named assumptions, and the same definition is checked by a run on a small
instance. The assumptions are the kinds of the constants and what the layout
constants of the code fix: sizes are positive and divide each other, the device
words are aligned, lie in memory and do not overlap (`HostAssumption`,
`TimerAssumption`, `EmulatorAssumption`), tables and queues fit where they are put
(`Laid`, `SizeAssumption`), memory that was never written holds 0
(`ZeroAssumption`), a file is what the loader takes from it and the default tables
are one range in memory (`FileAssumption`).
TLC evaluates all of them.

### TrapFramesProofs

For either word length, all options, any set of code and data addresses and any
guest writes: `TypeCorrect`, `ViewsAgree` (`StatusViews`), `HardwiredFields`,
`FramesIntact`, `ReturnsResume` (an action property), `NoNesting` (with `-m`),
`PendingShown`, `AmoFaultsReported` (an action property), `FetchFaultsNamed`,
`NoAbortHolds` (`NeverAborts`).

`TypeOK` is inductive and comes first, one lemma for each kind of
step (`TrappingType`, `RunningType`, `ReturnType`, `WriteType`). `StatusViews` and
`HardwiredStatus` are inductive given it, because every action that changes
`mstatus_` or `mie_` ends with the refresh of the CSRs. `FrameIntact` is the
inductive invariant of traps. That xEPC and xPP hold what was interrupted is not
inductive by itself: a second trap to the level would overwrite them. It needs the
two conjuncts that the level's interrupts are off and that the hart is at the
level or above; these hold after a trap, and a return removes from `live` the
level it leaves and every level above the privilege it returns to. Synchronous
traps to the same level replace the frame. That the interrupted privilege is not
above the level, and that below it interrupts count as enabled, is what lets
`ReturnsResume` conclude the enable from xPIE. `NoNesting` follows from
`FrameIntact`: an interrupt that is taken finds its level enabled, which no live
level is. Without `-m` that step fails exactly as `delegated_timer` shows.
`PendingViews` is inductive: whatever removes a bit from `mip_` refreshes all three
CSRs, and what does not refresh them only adds bits 7 and 9. `AmoFaultReported` and
`FetchFaultReported` rest on `Held`: `page_fault_` is up exactly while the AMO executed
last has failed and no fetch has trapped since, `faulting_address_` is then that of the
AMO, and no instruction executes meanwhile. `NeverAborts` is
about guests all of whose writes are legal (`LegalWrite`: never the reserved MPP,
never an enable of interrupts 3, 5 and 11): the invariant is that MPP is an
implemented mode and `mie_` has none of these bits, which every trap, return and
write keeps.

### MmuProofs

For every number of entries and pages, both walks and every sequence of table
writes: `DirtyIsKeptHolds`, `TranslationKeepsMappingHolds`,
`TranslatesAsMappedHolds`, `DefaultIsIdentityHolds`. The invariant is the types, the
dirty and accessed bits of every entry that was written through, and `Unwritten`:
until the guest rewrites a table, the tables differ from the default ones only in
accessed and dirty bits. The last is what `DefaultIsIdentity` needs, since
translations do change the tables. `TranslatesAsMapped` unrolls the two or three
levels of the walk and shows that a chain of linked tables is unique.

### MemoryAccessProofs

For every unit, page size, width, address and page table:
`StoreThroughTablesHolds`, `LoadWithinUnitHolds`, `ChangesAreDirtyHolds`. The
content is arithmetic: an access of at most a unit touches at most two pages, so
that translating the first and the first byte of the second unit translates every
byte (`SplitAt`, `Halves` and the lemmas on quotients before them). `ChangesAreDirty` needs
`Accounted`: each byte that differs from the start lies on a page whose entry is
dirty.

### VirtioDiskProofs

For any number of processes, any disk and queue size and every driver:
`OnlyRequestedTransfersHolds`; for the driver with one request in flight
`NoFailureHolds` and the refinement `ImplementsBlockDevice` (`Spec => IsBlockDevice`).
`Base` holds for all drivers: types, the device's registers, that descriptors are
taken and given back in groups of three (`Chains`), that only a request in flight
has descriptors (`Owners`), and that a chain never leaves its group and owner
(`Links`); from it a transfer is always that of a request in flight, also when a
stale ring entry is read. `SerialInv` adds, for one request at a time, that every
ring entry the device can read names the first descriptor, published or not
(`Rings`), which is why reading the wrong entry does no harm then, and that without a
request everything is at rest (`Calm`), and that the used index never exceeds the
requests served, so that only a request beyond the entries of the page writes
behind it (`UsedPage`). The number of requests is not bounded, so the theorems
cover wrapped indices; they share the assumption that the driver keeps nothing
behind the page. The refinement
then maps each step of the driver to a step or a stutter of `BlockDevice`, and the
whole of `VirtioEmulation` to the completion of a request.

### ExternalInterruptsProofs

For every session and guest output: `KeysAccountedHolds`, `StatusHonestHolds`,
`KeysFaithfulHolds`. The invariant relates the flags to each other at each place of
the loop (`Flags`), says that the guest reads only a full register (`Reader`), and
that the keys not yet taken are the rest of the session (`Rest`). For a guest that
prints nothing, `Bytes` gives the value of each received byte and of the one that
waits.

### InstructionsProofs

`RegistersExtendedHolds` and `ResultsAsDefinedHolds`, for every width `H` of a word
that is a power of 2 and all values of the registers; `DecodedAsDefinedHolds` and
`DisassembledAsExecutedHolds`, for every 16 and 32 bit word.

On a 64 bit hart, and for the instructions that use words only, the results are
right for all values of `2 * H` bits. Comparisons, branches, SRA, SRAI, DIV, REM,
MULH and MULHSU of a 32 bit hart use the whole register and are right if it is the
sign extension of its lower half (`Proper`), which is what every instruction that
computes leaves, whatever its operands. `HartInv` says what else a register can
hold: a value from elsewhere, or SRAI of one (`Settled`; a chain of SRAIs is one,
`ShiftTwice`, and one of `2 * H` bits or more is extended, `ShiftedAgain`). There
is no assumption on the values from elsewhere; section 6 says what the
code does with those that are not extended.

That 2^n doubles with n, from which all of the arithmetic follows, is derived from
the number of subsets of n elements (`SubsetsOf`, `PowerStep`), as the prover has
no arithmetic of powers. On top of it: sign extension and wrapping (`Sext32bit`,
`Wrap`), logic by induction on the bits, shifts, comparison of sign extended values
by their lower halves, the high half of a product from the four partial products
(`PartialProducts`, `HighHalfValue`: the carries of GetMulh64, GetMulhsu64 and
GetMulhu64 add up), and division (`SignedDivision`, `UnsignedDivision`: the
overflow that the code does not recognise on a 32 bit hart still gives the right
quotient after the extension), and the AMOs (`AmoDefined`).

Decoding needs of a state only that the word is a set of bits (`WordInv`). Every
extractor is characterised bit by bit (`Cropped`, `MovedBits`), every layout of the
reference likewise (`Run`, `RunDown`), and the two are compared for each immediate
(`JumpImmBits` and its neighbours); `CompressedDefined` has one case for each of the
33 formats, and the encoders are composed with the decoders (`BTypeInverts` and
its neighbours). The theorem on the log compares the tables of `Disassembler.cpp`
with those of the decoder row by row (`ArithLogNames` to `AmoNames`) and exhibits for
each 16 bit line the format it names (`FormNames`, `HalfLogged`, `FullLogged`).

### MemoryProofs and EmulatorProofs

`MemoryProofs` has the lemmas on `MemoryWrapper`, for every number of values of a
byte, of words in an entry and of entries. `Puts(m, n, i, data, k)` says that memory
`n` is `m` with the first `k` bytes of `data` at `i` onwards, modulo the address
space; every access of every width is shown to be one (`BytesWritten` for loops, by
induction on their length) and every read to be the value of its bytes
(`DoubleValue`, `HalfRead`). The induction is on the set of lengths for which the
claim holds (`Induction`), from the well-foundedness of the natural numbers.

`EmulatorProofs`, for every file, command line and guest:

- `TypesHold`: the memory is well formed (entries are whole and hold words) and the
  timer and the guest's histories have their kinds.
- `ImplementsFlatMemory`: `Spec => IsFlatMemory`. Each step is shown to put the bytes
  that `access` records, or to leave every byte (`StepWrites`): one lemma per writer,
  from the loader to the system calls.
- `TimerMatchesMemoryHolds`: the invariant is `CmpCurrent`, next_cycle_ is mtimecmp
  in memory unless an update is due or a write went unnoticed. The content is that a
  store which changes any byte of mtimecmp satisfies the overlap test of
  `CheckDeviceWrite` (`StoreNoticed`), and that one which does not satisfy it leaves all
  eight bytes.
- `LoadsSeeMtimeHolds`: the update of mtime changes its eight bytes and no other,
  for a load of any width and alignment, also across its ends.
- `HalvesAsBytesHolds`, from the lemmas on halves.
- `HandlesCountedHolds`: the invariant adds that the descriptors are finite, so that
  opening and closing changes their number by one.
- `HostEndsAsAskedHolds`: the invariant has three parts. Before the loop no word is
  noted and no store has happened. Between the peripherals and the next instruction
  no flag is up and the last store, if it was to a word, asks for nothing
  (`NothingAsked`). Between an instruction and the peripherals a noted word is that of
  the last store, and the hart has neither error nor end (`Requested`): that is why two
  requests never meet. The decoding of the fields is arithmetic on the bytes of the
  double word (`HostFields`).
- `ImageAsFileHolds`: the invariant `ImageInv` gives the whole memory at each place of
  run(), as a function of the file: after n program headers the last byte of the last
  of them for each address, modulo the memory (`LoadedImage`), then zeros in .bss, then
  the tables, then the devices' bytes. Each step is one lemma (`SegmentLoaded`,
  `BssZeroed`, `TablesLaid`, `UartSet`, `IdentitySet`), from what a `Puts` leaves at an
  address (`PutsPlace`). A .bss that does not end within the memory is excepted, as in
  the property.
- `OptionsAsGivenHolds`: by induction on the tokens. `Progress` says what the first l
  tokens have set and that i has passed l + 1 exactly if -s has taken it. The
  property counts -s in a row to say which positions are names; that this is
  what the loop does is `Taken`.
- `NoEarlyTimerHolds`: of guests all of whose pieces are `LowerFirst` or `UpperFirst`.
  That mtimecmp is not below some deadline in force is not inductive: `SafeInv` adds
  which half is the largest value, or already the new one, while one or two of the
  three stores are left (`Halfway`).

## 5. Only model-checked

- Liveness (`EveryRequestReturns`, `KeysReadWhileDiskIdle`, `EveryRequestWakes`,
  `DeadlineReached`) is outside the prover.
- The violations of the four runs that expect one are counterexamples, which only
  TLC shows.

## 6. Known divergences

Shown by a run: the delegated timer (`RISCV_cpu.cc:1150`), the ring entry
(`PeripheralEmulator.cpp:295`), the shared claim word
(`PeripheralEmulator.cpp:258`), the split load (`RISCV_cpu.cc:508`).

Met while modelling; the models behave like the code:

- `SetInterruptPending` refreshes the enable CSRs (`RISCV_cpu.cc:905`) where the
  pending ones change: UIP, SIP and MIP lag behind `mip_`, and a guest that reads,
  modifies and writes them can lose an interrupt.
- `prev_page_fault_` is never cleared (`RISCV_cpu.cc:181-187`): two faults at one
  address with successful work in between end the run with the message meant for
  a fault that could not be resolved.
- xPIE receives whether interrupts were effectively enabled, not the old xIE
  (`RISCV_cpu.cc:237`, `261`): below a level it is always 1.
- Causes 3, 5 and 11 can become pending and enabled, and `Trap` asserts that it
  never gets them (`RISCV_cpu.cc:165`). An MRET with the reserved MPP throws.
- An AMO does not look at `page_fault_` (`RISCV_cpu.cc:865-867`): its fault is taken at
  the next fetch, as an instruction page fault with xEPC behind the AMO, and is
  dropped if that fetch fails by itself.
- The used index is not reduced by the queue length
  (`PeripheralEmulator.cpp:376-377`): from the ninth request on entries are written
  behind the ring, and after 511 requests into the guest's memory behind the page,
  up to 512 KiB of it, until the 16 bit index wraps. A driver with one request in
  flight does not notice as long as it keeps nothing there: the entry it looks at
  is an old one with the same content.
- A character that the guest prints lands in the byte of the unread key
  (`PeripheralEmulator.cpp:187`): an echoing guest may read its own output.
- Root entries above the range of the default Sv39 tables stay valid and point
  at page 0 (`RISCV_Emulator.cc:519`, `528`).
- Registers of a 32 bit hart that are not sign extended: `run()` sets SP to
  0x80000000 and GP to a 32 bit value as they are (`RISCV_Emulator.cc:630`, `643`,
  `644`), JAL, JALR and CSR reads store addresses and values from 2^31 on as they
  are (`RISCV_cpu.cc:316`, `1015`, `1024`), LWU and LD are not refused and system
  calls store their results of 64 bits; SRAI does not extend
  (`RISCV_cpu.cc:461`). Comparisons, branches, SRA, SRAI, DIV, REM, MULH and
  MULHSU on such registers are wrong: after `mv t0, sp` the branch
  `beq t0, sp` is not taken, because ADDI has extended its result.
- DIVW, DIVUW, REMW and REMUW, and DIVU and REMU of a 32 bit hart, with a divisor
  whose lower half alone is zero divide by zero in the host
  (`RISCV_cpu.cc:702-766`).
- The result of `CheckShiftSign` is not used (`RISCV_cpu.cc:77-85`): a reserved
  shift amount is executed.
- Decoding: the alternative function code is accepted for AND, OR, XOR, SLL, SLT and
  SLTU, any funct7 for SLLI, and an AMO whose funct3 is not 3 is taken for one of
  words. LR and SC are not decoded. On a 32 bit hart C.LD and C.SD are. C.JR with
  register 0 is a jump.
- The log calls C.SW C.BEQZ (`Disassembler.cpp:119-122`) and AMOMINU.W AMOMAIN.W
  (`Disassembler.cpp:395`), shows the whole 12 bits for a shift amount, and prints
  the immediate of CSRRWI, CSRRSI and CSRRCI as a register name
  (`Disassembler.cpp:373`).
- The timer compares for equality (`PeripheralEmulator.cpp:211`): a value already
  passed waits for the 64 bit count to wrap. It always runs, with or without `-d`.
- AMOs, the read and fstat calls and addresses above 4 GiB reach device words
  without telling the devices (`RISCV_cpu.cc:866`).
- On a 64 bit hart a 32 bit store to tohost0 is decoded with the upper half that was
  there before, and the command field includes the device byte
  (`PeripheralEmulator.cpp:106`), so that a console write is never recognised.
- The global pointer of a 64 bit file is looked up as in a 32 bit file and the
  reverse (`RISCV_Emulator.cc:393`), and its "not found" is cut to 32 bits, so that
  the fallback to the entry (`RISCV_Emulator.cc:624`) is never taken.
- A `.bss` of a 64 bit file that ends at 4 GiB or beyond is zeroed for ever; that of a
  32 bit file that wraps is not zeroed (`RISCV_Emulator.cc:235`, `275`).
- `SearchElf32Shdr` returns the first match, its comment says the last
  (`RISCV_Emulator.cc:140`). The comment on the layout of the 32 bit tables does not
  match the constants below it (`RISCV_Emulator.h:22-28`).
- The result of read is cut to 32 bits (`system_call_emulator.cpp:186`): a failure is
  2^32 - 1. read and fstat copy their whole buffer also when the host call fails.
  A close consults only a count (`system_call_emulator.cpp:223`): once a file is
  open the guest may close any descriptor of the emulator.
- No privilege is checked for CSR instructions (`RISCV_cpu.cc:314`, a TODO) or
  for MRET and SRET, and no permission bit of a page is.

## 7. Not modelled

The replacement headers of the Windows build and the tests are not part of the
program. Drawing on the screen, the register dump and the formatting of register
names are output only. Of an ELF file the model has what the loader takes from it;
what the bytes of a symbol table look like when read with the other layout is
reduced to the outcomes. The conversion of the stat structure is data; lengths of
read and write are not negative. LR and SC are not in the code. Device asserts on
widths other than 4 bytes and requests outside the disk image are excluded by the
driver. In `RiscvCpu` timing is abstract: the timer may fire in any iteration;
`MachineTimer` has the count.

## 8. Plan

Done: all parts of the program as listed in section 1, and the proofs of section 4.
Left: the composition of `Mmu` and `MemoryAccess`, in which tables lie in the memory
that stores change.
