----------------------------- MODULE VirtioDisk -----------------------------
(***************************************************************************)
(* The virtio disk of PeripheralEmulator.cpp and the driver that uses it.  *)
(*                                                                         *)
(* The driver (setup, virtio_disk_rw and virtio_disk_intr of an xv6 style  *)
(* guest) is not part of the repository: it is modelled from the layout    *)
(* the device reads, one chain of three descriptors (header, data, status) *)
(* per request, lowest free descriptors first.                             *)
(*                                                                         *)
(* Only VirtioEmulation is enabled while a register write is noticed and   *)
(* not yet handled: PeripheralEmulations runs at the end of the very loop  *)
(* iteration that executed the store.  A block and its data are atoms.  A  *)
(* guest that has nothing to do, or waits for ever, leaves no step.        *)
(*                                                                         *)
(* The device keeps writing used entries behind their page until its index *)
(* wraps.  What the guest keeps there is not known: the model records the  *)
(* places that are overwritten, and goes on as if the driver kept nothing  *)
(* of its own there.                                                       *)
(***************************************************************************)
EXTENDS Integers, FiniteSets

CONSTANTS
  Process,         (* guest processes that use the disk                    *)
  NoProcess,       (* the owner of address 0                               *)
  Block,           (* bound: the blocks of the disk image                  *)
  Data,            (* bound: the contents of a block                       *)
  QueueNumMax,     (* kQueueNumMax, 8                                      *)
  QueueNum,        (* the queue length the driver chooses                  *)
  UsedCapacity,    (* used ring entries that fit in their page, 511        *)
  IndexSize,       (* values of a ring index, 65536                        *)
  Drivers          (* the guests: requests in flight at once, page sizes   *)
                   (* announced and, a bound, requests issued in all       *)

ASSUME SizeAssumption ==
  /\ QueueNumMax \in Nat /\ QueueNum \in 3 .. QueueNumMax
  /\ UsedCapacity \in Nat /\ QueueNum <= UsedCapacity
  /\ IndexSize \in Nat /\ UsedCapacity <= IndexSize

Driver == [outstanding: Nat, sizes: SUBSET Nat, requests: Nat]

ASSUME DriverAssumption == Drivers \subseteq Driver

\* Memory that was never written holds 0.
ASSUME ZeroAssumption ==
  /\ 0 \in Block
  /\ 0 \in Data
  /\ NoProcess \notin Process

Register == {"PAGE_SIZE", "QUEUE_SEL", "QUEUE_NUM_MAX", "QUEUE_NUM",
             "QUEUE_PFN", "QUEUE_NOTIFY"}
Owner == Process \cup {NoProcess}
\* Lengths, in units that keep the three parts of a request apart.
HeaderLen == 16
BlockLen == 1024
StatusLen == 1

VARIABLES
  driver,            (* the driver of this guest                           *)
  mmio,              (* the device registers, plain memory                 *)
  virtio_write,      (* virtio_write_ with virtio_address_: the register
                        just written, or "none"                            *)
  desc,              (* the descriptor table                               *)
  avail, avail_idx,  (* the available ring and its index                   *)
  used, used_idx,    (* the used ring, up to the end of its page           *)
  overwritten,       (* the entry places behind that page which the device
                        has written                                        *)
  header, data, status,  (* the request parts of each process in memory    *)
  disk,              (* disk_image_                                        *)
  virtio_interrupt,  (* virtio_interrupt_                                  *)
  aborted,           (* an assert of the emulator has failed               *)
  setup,             (* driver: setup writes still to do                   *)
  issued,            (* driver: requests issued so far                     *)
  free,              (* driver: free descriptors                           *)
  used_seen,         (* driver: used entries consumed                      *)
  stage,             (* driver: idle, waiting or woken, per process        *)
  chain,             (* driver: the descriptors of the process's request   *)
  panicked           (* driver: it met a status that is not 0              *)

ringVars == <<desc, avail, avail_idx, used, used_idx, overwritten>>
memVars == <<header, data, status>>
driverVars ==
  <<driver, setup, issued, free, used_seen, stage, chain, panicked>>
vars == <<mmio, virtio_write, ringVars, memVars, disk, virtio_interrupt,
          aborted, driverVars>>

Slot == 0 .. QueueNum - 1

-----------------------------------------------------------------------------
(* The device.                                                             *)

\* get_desc_index: the entry AT the driver's index, which is the one after
\* the entry that was published last.
GetDescIndex == avail[avail_idx % mmio["QUEUE_NUM"]]

\* The three descriptors process_disc_access walks from a head.
Walk(head) ==
  LET second == desc[head].next
  IN  <<desc[head], desc[second], desc[desc[second].next]>>

\* Faulty variant: "device write" is taken for "disk write".
FirstTwoConfused(w) ==
  /\ w[1].next_flag
  /\ w[2].write_flag <=> header[w[1].of].write

\* The checks of process_disc_access; the last one runs after the transfer.
FirstTwoWellFormed(w) ==
  /\ w[1].next_flag
  /\ ~w[2].write_flag <=> header[w[1].of].write
StatusWellFormed(w) ==
  w[3].len = StatusLen /\ ~w[3].next_flag /\ w[3].write_flag

\* Faulty variant: the direction of the transfer is swapped.
DiscAccessSwapped(w) ==
  LET block == header[w[1].of].block
      buffer == w[2].of
  IN  /\ disk' = IF header[w[1].of].write
                 THEN disk ELSE [disk EXCEPT ![block] = data[buffer]]
      /\ data' = IF header[w[1].of].write
                 THEN [data EXCEPT ![buffer] = disk[block]] ELSE data

\* Faulty variant: the buffer is that of descriptor 0, whatever the head.
DiscAccessFirstBuffer(w) ==
  LET block == header[w[1].of].block
      buffer == desc[0].of
  IN  /\ disk' = IF header[w[1].of].write
                 THEN [disk EXCEPT ![block] = data[buffer]] ELSE disk
      /\ data' = IF header[w[1].of].write
                 THEN data ELSE [data EXCEPT ![buffer] = disk[block]]

\* disc_access: between the block the header names and the data buffer.
DiscAccess(w) ==
  LET block == header[w[1].of].block
      buffer == w[2].of
  IN  /\ disk' = IF header[w[1].of].write
                 THEN [disk EXCEPT ![block] = data[buffer]] ELSE disk
      /\ data' = IF header[w[1].of].write
                 THEN data ELSE [data EXCEPT ![buffer] = disk[block]]

\* Faulty variant: the index of the used ring stays.
ProcessUsedBufferKeepsIndex(head) ==
  /\ used' = [k \in 0 .. UsedCapacity - 1 |->
                IF k = used_idx THEN head ELSE used[k]]
  /\ overwritten' = overwritten \cup ({used_idx} \ (0 .. UsedCapacity - 1))
  /\ used_idx' = used_idx

\* process_used_buffer: the index is not reduced by the queue length, so from
\* QueueNum on the entry is behind the ring, and from UsedCapacity on behind
\* the page.
ProcessUsedBuffer(head) ==
  /\ used' = [k \in 0 .. UsedCapacity - 1 |->
                IF k = used_idx THEN head ELSE used[k]]
  /\ overwritten' = overwritten \cup ({used_idx} \ (0 .. UsedCapacity - 1))
  /\ used_idx' = (used_idx + 1) % IndexSize

\* VirtioEmulation after a write to a register other than QUEUE_NOTIFY.
ConfigureQueue ==
  /\ virtio_write \in Register \ {"QUEUE_NOTIFY"}
  /\ virtio_write' = "none"
  /\ mmio' = IF virtio_write = "QUEUE_SEL"
             THEN [mmio EXCEPT !["QUEUE_NUM_MAX"] =
                     IF mmio["QUEUE_SEL"] = 0 THEN QueueNumMax ELSE 0]
             ELSE mmio
  /\ UNCHANGED <<ringVars, memVars, disk, virtio_interrupt, aborted,
                 driverVars>>

RegistersValid ==
  /\ mmio["QUEUE_NOTIFY"] = 0
  /\ mmio["QUEUE_NUM"] <= QueueNumMax
  /\ mmio["PAGE_SIZE"] = 4096

\* VirtioEmulation after a notification: serve one request.
ServeRequest ==
  LET head == GetDescIndex
      w == Walk(head)
  IN  /\ virtio_write = "QUEUE_NOTIFY"
      /\ RegistersValid
      /\ FirstTwoWellFormed(w)
      /\ StatusWellFormed(w)
      /\ DiscAccess(w)
      /\ status' = [status EXCEPT ![w[3].of] = "ok"]
      /\ ProcessUsedBuffer(head)
      /\ virtio_interrupt' = TRUE
      /\ virtio_write' = "none"
      /\ UNCHANGED <<mmio, desc, avail, avail_idx, header, aborted, driverVars>>

\* A failed assert, on a register or on a chain.
RefuseRequest ==
  LET w == Walk(GetDescIndex)
  IN  /\ virtio_write = "QUEUE_NOTIFY"
      /\ ~(RegistersValid /\ FirstTwoWellFormed(w) /\ StatusWellFormed(w))
      /\ IF RegistersValid /\ FirstTwoWellFormed(w)
         THEN DiscAccess(w) ELSE UNCHANGED <<disk, data>>
      /\ aborted' = TRUE
      /\ virtio_write' = "none"
      /\ UNCHANGED <<mmio, ringVars, header, status, virtio_interrupt,
                     driverVars>>

VirtioEmulation == ConfigureQueue \/ ServeRequest \/ RefuseRequest

-----------------------------------------------------------------------------
(* The driver.                                                             *)

GuestRuns == virtio_write = "none" /\ ~aborted /\ ~panicked

\* A store to a register: the memory, and what CheckDeviceWrite notes.
StoreRegister(register, value) ==
  /\ mmio' = [mmio EXCEPT ![register] = value]
  /\ virtio_write' = register

\* The driver looks for queue 0, takes it if it is there, and places it.
SetupWrite(register, value) ==
  /\ GuestRuns
  /\ setup # {}
  /\ register \in setup
  /\ register = "QUEUE_NUM" => mmio["QUEUE_NUM_MAX"] >= QueueNum
  /\ StoreRegister(register, value)
  /\ setup' = IF register = "QUEUE_SEL" /\ value # 0 THEN setup
              ELSE setup \ {register}
  /\ UNCHANGED <<ringVars, memVars, disk, virtio_interrupt, aborted, driver,
                 issued, free, used_seen, stage, chain, panicked>>

Outstanding == {p \in Process : stage[p] # "idle"}
Lowest(S) == CHOOSE i \in S : \A j \in S : i <= j

\* The chain of a request, and its head in the available ring.
Publish(p, write, first, second, third) ==
  /\ desc' = [desc EXCEPT
       ![first] = [of |-> p, len |-> HeaderLen, next_flag |-> TRUE,
                   write_flag |-> FALSE, next |-> second],
       ![second] = [of |-> p, len |-> BlockLen, next_flag |-> TRUE,
                    write_flag |-> ~write, next |-> third],
       ![third] = [of |-> p, len |-> StatusLen, next_flag |-> FALSE,
                   write_flag |-> TRUE, next |-> 0]]
  /\ avail' = [avail EXCEPT ![avail_idx % QueueNum] = first]
  /\ avail_idx' = (avail_idx + 1) % IndexSize
  /\ free' = free \ {first, second, third}
  /\ chain' = [chain EXCEPT ![p] = {first, second, third}]

Submit(p, write, block, value) ==
  LET first == Lowest(free)
      second == Lowest(free \ {first})
      third == Lowest(free \ {first, second})
  IN  /\ GuestRuns
      /\ setup = {}
      /\ stage[p] = "idle"
      /\ Cardinality(free) >= 3
      /\ Cardinality(Outstanding) < driver.outstanding
      /\ issued < driver.requests
      /\ issued' = issued + 1
      /\ header' = [header EXCEPT ![p] = [write |-> write, block |-> block]]
      /\ data' = [data EXCEPT ![p] = value]
      /\ status' = [status EXCEPT ![p] = "pending"]
      /\ Publish(p, write, first, second, third)
      /\ stage' = [stage EXCEPT ![p] = "waiting"]
      /\ StoreRegister("QUEUE_NOTIFY", 0)
      /\ UNCHANGED <<used, used_idx, overwritten, disk, virtio_interrupt,
                     aborted, driver, setup, used_seen, panicked>>

\* The handler wakes the process of a complete request, else it panics.
Wake(p) ==
  LET fine == p \in Process /\ status[p] = "ok"
  IN  /\ stage' = IF fine THEN [stage EXCEPT ![p] = "woken"] ELSE stage
      /\ panicked' = ~fine

\* The interrupt handler takes one used entry.
DiskInterrupt ==
  /\ GuestRuns
  /\ virtio_interrupt
  /\ used_seen # used_idx
  /\ used_seen' = (used_seen + 1) % IndexSize
  /\ virtio_interrupt' = (used_seen' # used_idx)
  /\ Wake(desc[used[used_seen % QueueNum]].of)
  /\ UNCHANGED <<mmio, virtio_write, ringVars, memVars, disk, aborted,
                 driver, setup, issued, free, chain>>

\* The woken process frees its chain.
Finish(p) ==
  /\ GuestRuns
  /\ stage[p] = "woken"
  /\ stage' = [stage EXCEPT ![p] = "idle"]
  /\ free' = free \cup chain[p]
  /\ desc' = [i \in Slot |->
                IF i \in chain[p] THEN [desc[i] EXCEPT !.of = NoProcess]
                ELSE desc[i]]
  /\ chain' = [chain EXCEPT ![p] = {}]
  /\ UNCHANGED <<mmio, virtio_write, avail, avail_idx, used, used_idx,
                 overwritten, memVars, disk, virtio_interrupt, aborted, driver,
                 setup, issued, used_seen, panicked>>

-----------------------------------------------------------------------------
NoDescriptor == [of |-> NoProcess, len |-> 0, next_flag |-> FALSE,
                 write_flag |-> FALSE, next |-> 0]

Init ==
  /\ driver \in Drivers
  /\ mmio = [r \in Register |-> IF r = "QUEUE_NUM_MAX" THEN QueueNumMax ELSE 0]
  /\ virtio_write = "none"
  /\ desc = [i \in Slot |-> NoDescriptor]
  /\ avail = [i \in Slot |-> 0]
  /\ avail_idx = 0
  /\ used = [k \in 0 .. UsedCapacity - 1 |-> 0]
  /\ used_idx = 0
  /\ overwritten = {}
  /\ header = [o \in Owner |-> [write |-> FALSE, block |-> 0]]
  /\ data = [o \in Owner |-> 0]
  /\ status = [o \in Owner |-> "ok"]
  /\ disk \in [Block -> Data]
  /\ virtio_interrupt = FALSE
  /\ aborted = FALSE
  /\ setup = {"PAGE_SIZE", "QUEUE_SEL", "QUEUE_NUM", "QUEUE_PFN"}
  /\ issued = 0
  /\ free = Slot
  /\ used_seen = 0
  /\ stage = [p \in Process |-> "idle"]
  /\ chain = [p \in Process |-> {}]
  /\ panicked = FALSE

Setup ==
  \/ \E size \in driver.sizes : SetupWrite("PAGE_SIZE", size)
  \/ \E queue \in {0, 1} : SetupWrite("QUEUE_SEL", queue)
  \/ "QUEUE_SEL" \notin setup /\ SetupWrite("QUEUE_NUM", QueueNum)
  \/ "QUEUE_NUM" \notin setup /\ SetupWrite("QUEUE_PFN", 1)

Next ==
  \/ VirtioEmulation
  \/ Setup
  \/ \E p \in Process, write \in BOOLEAN, block \in Block, value \in Data :
       Submit(p, write, block, value)
  \/ DiskInterrupt
  \/ \E p \in Process : Finish(p)

\* The loop always reaches PeripheralEmulations; the guest takes the pending
\* interrupt at some time, and schedules the woken process.
Fairness ==
  /\ WF_vars(VirtioEmulation)
  /\ WF_vars(DiskInterrupt)
  /\ \A p \in Process : WF_vars(Finish(p))

Spec == Init /\ [][Next]_vars
FairSpec == Spec /\ Fairness

-----------------------------------------------------------------------------
(* Properties.                                                             *)

\* A driver that has one request in flight and announces the page size the
\* device knows.  The others are shown to the block device as a guest that
\* never asks.
Serial == driver.outstanding = 1 /\ driver.sizes = {4096}
Quiet == CHOOSE d \in Data : TRUE
NoRequest == [write |-> FALSE, block |-> CHOOSE b \in Block : TRUE]

Store == [b \in Block |-> IF Serial THEN disk[b] ELSE Quiet]
Requested == [p \in Process |-> IF Serial THEN header[p] ELSE NoRequest]
Progress ==
  [p \in Process |-> IF stage[p] = "idle" \/ ~Serial THEN "idle"
                    ELSE IF status[p] = "ok" THEN "carried out" ELSE "issued"]
Buffer == [p \in Process |-> IF Serial THEN data[p] ELSE Quiet]

Device == INSTANCE BlockDevice WITH
  store <- Store, request <- Requested, stage <- Progress, buffer <- Buffer

\* VirtioDiskAccess, used by a driver with one request in flight, is a block
\* device: each request is carried out exactly once, on the block and buffer
\* it names, although the device reads a ring entry that was not published.
IsBlockDevice == Device!Spec

\* A driver with one request in flight never meets an assert of
\* VirtioEmulation or of process_disc_access, and its interrupt handler never
\* takes a used entry of a request that is not complete, also when the indices
\* have wrapped.  process_used_buffer writes nothing behind the page of the
\* used ring as long as the driver has issued no more requests than the page
\* holds entries.
NoFailure ==
  Serial => /\ ~aborted
            /\ ~panicked
            /\ issued <= UsedCapacity => overwritten = {}

\* Every request of such a driver is answered: the interrupt that
\* VirtioEmulation fires leads to the used entry of the waiting process, also
\* after the used index has left the ring and its page, and has wrapped.
EveryRequestReturns ==
  \A p \in Process : Serial /\ stage[p] = "waiting" ~> stage[p] = "idle"

\* Whatever ring entry the device serves, it only moves data for a request in
\* flight: a block changes to the data of a process that is writing it, and
\* the buffer of a process that reads a block changes to that block.
OnlyRequestedTransfers ==
  [][virtio_write = "QUEUE_NOTIFY" /\ virtio_write' = "none" =>
       /\ \A b \in Block : disk'[b] # disk[b] =>
            \E p \in Outstanding : /\ header[p] = [write |-> TRUE, block |-> b]
                                   /\ disk'[b] = data[p]
       /\ \A p \in Process : data'[p] # data[p] =>
            /\ p \in Outstanding
            /\ ~header[p].write
            /\ data'[p] = disk[header[p].block]]_vars

\* A notification makes the device process the request that was published
\* with it ("The rest processes the read/write request.").
ServesPublished ==
  [][virtio_write = "QUEUE_NOTIFY" /\ virtio_write' = "none" =>
       /\ ~aborted'
       /\ used'[used_idx] = avail[(avail_idx - 1) % QueueNum]]_vars
=============================================================================
