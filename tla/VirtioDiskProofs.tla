-------------------------- MODULE VirtioDiskProofs --------------------------
(***************************************************************************)
(* Proofs for any number of processes, any disk and queue size, and every  *)
(* driver: what VirtioDisk states about the device.                        *)
(***************************************************************************)
EXTENDS VirtioDisk, FiniteSetTheorems, WellFoundedInduction, TLAPS

-----------------------------------------------------------------------------
(* The invariant of every driver.                                          *)

Descriptor == [of: Owner, len: Nat, next_flag: BOOLEAN, write_flag: BOOLEAN,
               next: Slot]
Header == [write: BOOLEAN, block: Block]
UsedSlot == 0 .. UsedCapacity - 1
Index == 0 .. IndexSize - 1

RingTypes ==
  /\ desc \in [Slot -> Descriptor]
  /\ avail \in [Slot -> Slot]
  /\ avail_idx \in Index
  /\ used \in [UsedSlot -> Slot]
  /\ used_idx \in Index
  /\ used_seen \in Index

MemoryTypes ==
  /\ header \in [Owner -> Header]
  /\ data \in [Owner -> Data]
  /\ status \in [Owner -> {"ok", "pending"}]
  /\ disk \in [Block -> Data]

DriverTypes ==
  /\ driver \in Drivers
  /\ mmio \in [Register -> Nat]
  /\ virtio_write \in Register \cup {"none"}
  /\ issued \in Nat
  /\ free \in SUBSET Slot
  /\ stage \in [Process -> {"idle", "waiting", "woken"}]
  /\ chain \in [Process -> SUBSET Slot]

TypeOK == RingTypes /\ MemoryTypes /\ DriverTypes

\* What the driver has announced when setup is over.
Registers ==
  /\ setup \subseteq {"PAGE_SIZE", "QUEUE_SEL", "QUEUE_NUM", "QUEUE_PFN"}
  /\ "QUEUE_NUM" \notin setup => mmio["QUEUE_NUM"] = QueueNum
  /\ "PAGE_SIZE" \notin setup => mmio["PAGE_SIZE"] \in driver.sizes
  /\ mmio["QUEUE_NOTIFY"] = 0
  /\ virtio_write = "QUEUE_NOTIFY" => setup = {}

\* The lowest free descriptors always are three that start at a multiple of
\* three: descriptors are taken and given back by such groups.
Aligned(S) == \A i, j \in Slot : i \div 3 = j \div 3 => (i \in S <=> j \in S)

Chains ==
  /\ Aligned(free)
  /\ \A p \in Process : Aligned(chain[p])

\* Only a request in flight has descriptors, and address 0 holds no request.
Owners ==
  /\ \A i \in Slot, p \in Process :
       desc[i].of = p => i \in chain[p] /\ stage[p] # "idle"
  /\ header[NoProcess] = [write |-> FALSE, block |-> 0]

\* A descriptor that has a successor, in use or left over, leads to the next
\* one of its group, which belongs to the same owner.
Links ==
  \A i \in Slot : desc[i].next_flag =>
    /\ i + 1 \in Slot
    /\ (i + 1) \div 3 = i \div 3
    /\ desc[i].next = i + 1
    /\ desc[i + 1].of = desc[i].of

Base == TypeOK /\ Registers /\ Chains /\ Owners /\ Links

-----------------------------------------------------------------------------
(* The invariant of a driver with one request in flight.                   *)

\* The ring entries the device reads and writes are those of descriptor 0,
\* published or not.
Rings ==
  /\ \A i \in Slot : avail[i] = 0
  /\ \A k \in 0 .. UsedCapacity - 1 : used[k] = 0

\* The used index is at most the number of requests served: only a request
\* beyond the entries of the page can reach the memory behind it.
UsedPage ==
  /\ used_idx <= issued
  /\ virtio_write = "QUEUE_NOTIFY" => used_idx < issued
  /\ issued <= UsedCapacity => overwritten = {}

\* No request is in flight.
Calm ==
  /\ \A p \in Process : stage[p] = "idle"
  /\ free = Slot
  /\ used_seen = used_idx
  /\ virtio_write # "QUEUE_NOTIFY"

\* The request of p is published, served, or taken by the handler.
Submitted(p) ==
  /\ virtio_write = "QUEUE_NOTIFY"
  /\ stage[p] = "waiting"
  /\ status[p] = "pending"
  /\ used_seen = used_idx
Served(p) ==
  /\ virtio_write = "none"
  /\ stage[p] = "waiting"
  /\ status[p] = "ok"
  /\ used_idx = (used_seen + 1) % IndexSize
Taken(p) ==
  /\ virtio_write = "none"
  /\ stage[p] = "woken"
  /\ status[p] = "ok"
  /\ used_seen = used_idx

\* The request of p is the one in flight, in descriptors 0, 1 and 2.
InFlight(p) ==
  /\ \A q \in Process \ {p} : stage[q] = "idle"
  /\ setup = {}
  /\ chain[p] = {0, 1, 2}
  /\ free = Slot \ {0, 1, 2}
  /\ desc[0] = [of |-> p, len |-> HeaderLen, next_flag |-> TRUE,
                write_flag |-> FALSE, next |-> 1]
  /\ desc[1] = [of |-> p, len |-> BlockLen, next_flag |-> TRUE,
                write_flag |-> ~header[p].write, next |-> 2]
  /\ desc[2] = [of |-> p, len |-> StatusLen, next_flag |-> FALSE,
                write_flag |-> TRUE, next |-> 0]
  /\ Submitted(p) \/ Served(p) \/ Taken(p)

SerialInv ==
  Serial => /\ ~aborted
            /\ ~panicked
            /\ Rings
            /\ UsedPage
            /\ Calm \/ \E p \in Process : InFlight(p)

IInv == Base /\ SerialInv

-----------------------------------------------------------------------------
(* The lowest free descriptors.                                            *)

\* The sizes as numbers.
LEMMA Sizes ==
  /\ QueueNumMax \in Nat
  /\ QueueNum \in Nat
  /\ 3 <= QueueNum
  /\ QueueNum <= QueueNumMax
  /\ UsedCapacity \in Nat
  /\ QueueNum <= UsedCapacity
  /\ IndexSize \in Nat
  /\ UsedCapacity <= IndexSize
BY SizeAssumption

\* An index that is counted up stays one, and gets no larger than the count.
LEMMA CountedUp ==
  ASSUME NEW i \in Index
  PROVE  /\ i \in Nat
         /\ (i + 1) % IndexSize \in Index
         /\ (i + 1) % IndexSize <= i + 1
<1>1. i \in Nat /\ i < IndexSize /\ IndexSize \in Nat
  BY Sizes DEF Index
<1>2. CASE i + 1 = IndexSize
  BY <1>1, <1>2 DEF Index
<1>3. CASE i + 1 < IndexSize
  BY <1>1, <1>3 DEF Index
<1>4. QED
  BY <1>1, <1>2, <1>3

\* A set of numbers has a least one.
LEMMA LeastExists ==
  ASSUME NEW S \in SUBSET Nat, S # {}
  PROVE  \E m \in S : \A n \in S : m <= n
<1> DEFINE R == OpToRel(<, Nat)
<1>1. \E m \in S : \A n \in S : <<n, m>> \notin R
  <2>1. IsWellFoundedOn(R, Nat)
    BY NatLessThanWellFounded
  <2> HIDE DEF R
  <2>2. QED
    BY <2>1, WFMin
<1>2. \A m, n \in Nat : n < m => <<n, m>> \in R
  BY DEF OpToRel
<1> HIDE DEF R
<1>3. PICK m \in S : \A n \in S : <<n, m>> \notin R
  BY <1>1
<1>4. \A n \in S : m <= n
  <2> SUFFICES ASSUME NEW n \in S PROVE m <= n
    OBVIOUS
  <2>1. m \in Nat /\ n \in Nat /\ ~(n < m)
    BY <1>2, <1>3
  <2>2. QED
    BY <2>1
<1>5. QED
  BY <1>4

\* What the driver's search for a free descriptor returns.
LEMMA LowestIsLeast ==
  ASSUME NEW S \in SUBSET Nat, NEW m \in S, \A n \in S : m <= n
  PROVE  Lowest(S) = m
<1>1. Lowest(S) \in S /\ \A j \in S : Lowest(S) <= j
  BY DEF Lowest
<1>2. Lowest(S) \in Nat /\ m \in Nat /\ Lowest(S) <= m /\ m <= Lowest(S)
  BY <1>1
<1>3. QED
  BY <1>2

\* Every slot is in the group of its quotient.
LEMMA GroupOf ==
  ASSUME NEW i \in Nat
  PROVE  /\ i \div 3 \in Nat
         /\ 3 * (i \div 3) <= i
         /\ i <= 3 * (i \div 3) + 2
OBVIOUS

LEMMA GroupMembers ==
  ASSUME NEW k \in Nat
  PROVE  /\ (3 * k) \div 3 = k
         /\ (3 * k + 1) \div 3 = k
         /\ (3 * k + 2) \div 3 = k
OBVIOUS

\* A set of two elements is not a set of three.
LEMMA PairIsSmall ==
  ASSUME NEW S, NEW a, NEW b, S \subseteq {a, b}
  PROVE  ~(Cardinality(S) >= 3)
<1>1. IsFiniteSet({a}) /\ Cardinality({a}) = 1
  BY FS_Singleton
<1>2. /\ IsFiniteSet({a} \cup {b})
      /\ Cardinality({a} \cup {b}) = IF b \in {a} THEN 1 ELSE 1 + 1
  BY <1>1, FS_AddElement
<1>3. S \in SUBSET ({a} \cup {b})
  OBVIOUS
<1>4. /\ IsFiniteSet(S)
      /\ Cardinality(S) <= Cardinality({a} \cup {b})
  BY <1>2, <1>3, FS_Subset
<1>5. Cardinality(S) \in Nat
  BY <1>4, FS_CardinalityType
<1>6. QED
  BY <1>2, <1>4, <1>5

\* Three free descriptors, lowest first, are one group.
LEMMA LowestThree ==
  ASSUME NEW S \in SUBSET Slot, Aligned(S), Cardinality(S) >= 3
  PROVE  \E k \in Nat, a, b, c \in S :
           /\ a = 3 * k /\ b = 3 * k + 1 /\ c = 3 * k + 2
           /\ Lowest(S) = a
           /\ Lowest(S \ {a}) = b
           /\ Lowest(S \ {a, b}) = c
           /\ 0 \in S => k = 0
<1>0. QueueNum \in Nat /\ Slot \subseteq Nat
  BY Sizes DEF Slot
<1>1. S # {}
  BY PairIsSmall
<1>2. PICK m \in S : \A n \in S : m <= n
  BY <1>0, <1>1, LeastExists
<1>3. PICK k \in Nat : k = m \div 3
  BY <1>0, GroupOf
<1>4. m \in Nat /\ 3 * k <= m /\ m <= 3 * k + 2
  BY <1>0, <1>3, GroupOf
<1>5. 3 * k \in Slot
  BY <1>0, <1>4 DEF Slot
<1>6. 3 * k \in S
  BY <1>3, <1>5, GroupMembers DEF Aligned
<1>7. m = 3 * k
  BY <1>2, <1>4, <1>6
<1>8. 3 * k + 2 \in Slot
  <2> SUFFICES ASSUME 3 * k + 2 \notin Slot PROVE FALSE
    OBVIOUS
  <2>1. S \subseteq {3 * k, 3 * k + 1}
    <3> SUFFICES ASSUME NEW n \in S PROVE n \in {3 * k, 3 * k + 1}
      OBVIOUS
    <3>1. n \in Nat /\ n < QueueNum /\ 3 * k <= n
      BY <1>0, <1>2, <1>7 DEF Slot
    <3>2. ~(3 * k + 2 < QueueNum)
      BY <1>0 DEF Slot
    <3>3. QED
      BY <1>0, <3>1, <3>2
  <2>2. QED
    BY <2>1, PairIsSmall
<1>9. 3 * k + 1 \in Slot
  BY <1>0, <1>8 DEF Slot
<1>10. 3 * k + 1 \in S /\ 3 * k + 2 \in S
  BY <1>5, <1>6, <1>8, <1>9, GroupMembers DEF Aligned
<1>11. \A n \in S : n \in Nat /\ 3 * k <= n
  BY <1>0, <1>2, <1>7
<1>12. PICK a, b, c \in S : a = 3 * k /\ b = 3 * k + 1 /\ c = 3 * k + 2
  BY <1>6, <1>10
<1>13. Lowest(S) = a
  BY <1>0, <1>11, <1>12, LowestIsLeast
<1>14. Lowest(S \ {a}) = b
  <2>1. b \in S \ {a}
    BY <1>12
  <2>2. \A n \in S \ {a} : b <= n
    BY <1>11, <1>12
  <2>3. QED
    BY <1>0, <2>1, <2>2, LowestIsLeast
<1>15. Lowest(S \ {a, b}) = c
  <2>1. c \in S \ {a, b}
    BY <1>12
  <2>2. \A n \in S \ {a, b} : c <= n
    BY <1>11, <1>12
  <2>3. QED
    BY <1>0, <2>1, <2>2, LowestIsLeast
<1>16. 0 \in S => k = 0
  BY <1>11
<1>17. QED
  BY <1>12, <1>13, <1>14, <1>15, <1>16, Zenon

-----------------------------------------------------------------------------
(* The steps, for every driver.                                            *)

LEMMA InitBase == Init => Base
<1> SUFFICES ASSUME Init PROVE Base
  OBVIOUS
<1>1. 0 \in Slot /\ Slot \subseteq Nat
  BY Sizes DEF Slot
<1>2. NoDescriptor \in Descriptor
  BY <1>1 DEF NoDescriptor, Descriptor, Owner
<1>3. TypeOK
  <2>1. RingTypes
    BY <1>1, <1>2, Sizes DEF Init, RingTypes, UsedSlot, Index
  <2>2. MemoryTypes
    BY ZeroAssumption DEF Init, Header, MemoryTypes
  <2>3. DriverTypes
    BY Sizes DEF Init, DriverTypes
  <2>4. QED
    BY <2>1, <2>2, <2>3 DEF TypeOK
<1>4. Registers
  BY DEF Init, Registers, Register
<1>5. Chains
  BY DEF Init, Chains, Aligned
<1>6. Owners
  BY ZeroAssumption DEF Init, Owners, NoDescriptor, Owner
<1>7. Links
  BY DEF Init, Links, NoDescriptor
<1>8. QED
  BY <1>3, <1>4, <1>5, <1>6, <1>7 DEF Base

\* The entry the device takes from the available ring names a descriptor.
LEMMA HeadType ==
  ASSUME Base, virtio_write = "QUEUE_NOTIFY"
  PROVE  GetDescIndex \in Slot
<1>1. mmio["QUEUE_NUM"] = QueueNum
  BY DEF Base, Registers
<1>2. avail_idx \in Nat /\ avail \in [Slot -> Slot]
  BY CountedUp DEF Base, TypeOK, RingTypes
<1>3. avail_idx % QueueNum \in Slot
  BY <1>2, Sizes DEF Slot
<1>4. QED
  BY <1>1, <1>2, <1>3 DEF GetDescIndex

\* What disc_access moves when the checks before it pass: the data of one
\* owner, that of the head, to or from the block its header names.
LEMMA Transfer ==
  ASSUME Base, virtio_write = "QUEUE_NOTIFY",
         FirstTwoWellFormed(Walk(GetDescIndex)), DiscAccess(Walk(GetDescIndex))
  PROVE  \E o \in Owner :
           /\ o = desc[GetDescIndex].of
           /\ \/ /\ header[o].write
                 /\ disk' = [disk EXCEPT ![header[o].block] = data[o]]
                 /\ data' = data
              \/ /\ ~header[o].write
                 /\ disk' = disk
                 /\ data' = [data EXCEPT ![o] = disk[header[o].block]]
<1>1. PICK head \in Slot : head = GetDescIndex
  BY HeadType
<1>2. PICK w : w = Walk(head)
  OBVIOUS
<1>3. w[1] = desc[head] /\ w[2] = desc[desc[head].next]
  BY <1>2 DEF Walk
<1>4. FirstTwoWellFormed(w) /\ DiscAccess(w)
  BY <1>1, <1>2
<1>5. desc[head].next_flag
  BY <1>3, <1>4 DEF FirstTwoWellFormed
<1>6. desc[desc[head].next].of = desc[head].of
  BY <1>5 DEF Base, Links
<1>7. desc[head].of \in Owner
  BY DEF Base, TypeOK, RingTypes, Descriptor
<1>8. QED
  BY <1>1, <1>3, <1>4, <1>6, <1>7 DEF DiscAccess

\* What every step of the device and of the interrupt handler leaves alone.
LEMMA DeviceFrame ==
  ASSUME Base, VirtioEmulation \/ DiskInterrupt
  PROVE  /\ UNCHANGED <<desc, avail, avail_idx, header, driver, setup, issued, free,
                        chain>>
         /\ virtio_write' = "none"
BY DEF VirtioEmulation, ConfigureQueue, ServeRequest, RefuseRequest,
   DiskInterrupt, ringVars, memVars, driverVars, GuestRuns

LEMMA DeviceMemory ==
  ASSUME Base, VirtioEmulation \/ DiskInterrupt
  PROVE  MemoryTypes'
<1>1. MemoryTypes /\ header' = header
  BY DeviceFrame DEF Base, TypeOK
<1>2. ASSUME virtio_write = "QUEUE_NOTIFY",
             FirstTwoWellFormed(Walk(GetDescIndex)),
             DiscAccess(Walk(GetDescIndex))
      PROVE  disk' \in [Block -> Data] /\ data' \in [Owner -> Data]
  BY <1>1, <1>2, Transfer DEF MemoryTypes, Header
<1>3. CASE ConfigureQueue \/ DiskInterrupt
  BY <1>1, <1>3 DEF ConfigureQueue, DiskInterrupt, memVars, MemoryTypes
<1>4. CASE ServeRequest
  <2>1. disk' \in [Block -> Data] /\ data' \in [Owner -> Data]
    BY <1>2, <1>4 DEF ServeRequest
  <2>2. status' = [status EXCEPT ![Walk(GetDescIndex)[3].of] = "ok"]
    BY <1>4 DEF ServeRequest
  <2>3. status' \in [Owner -> {"ok", "pending"}]
    BY <1>1, <2>2 DEF MemoryTypes
  <2>4. QED
    BY <1>1, <2>1, <2>3 DEF MemoryTypes
<1>5. CASE RefuseRequest
  <2>1. disk' \in [Block -> Data] /\ data' \in [Owner -> Data]
    BY <1>1, <1>2, <1>5 DEF RefuseRequest, MemoryTypes
  <2>2. QED
    BY <1>1, <1>5, <2>1 DEF MemoryTypes, RefuseRequest
<1>6. QED
  BY <1>3, <1>4, <1>5 DEF VirtioEmulation

LEMMA DeviceRings ==
  ASSUME Base, VirtioEmulation \/ DiskInterrupt
  PROVE  RingTypes'
<1>1. /\ RingTypes
      /\ UNCHANGED <<desc, avail, avail_idx>>
  BY DeviceFrame DEF Base, TypeOK
<1>2. /\ used' \in [UsedSlot -> Slot]
      /\ used_idx' \in Index
      /\ used_seen' \in Index
  <2>1. CASE ConfigureQueue \/ RefuseRequest
    BY <1>1, <2>1 DEF ConfigureQueue, RefuseRequest, ringVars, driverVars,
       RingTypes
  <2>2. CASE DiskInterrupt
    <3>1. UNCHANGED <<used, used_idx>> /\ used_seen' = (used_seen + 1) % IndexSize
      BY <2>2 DEF DiskInterrupt, ringVars
    <3>2. used_seen' \in Index
      BY <1>1, <3>1, CountedUp DEF RingTypes
    <3>3. QED
      BY <1>1, <3>1, <3>2 DEF RingTypes
  <2>3. CASE ServeRequest
    <3>1. virtio_write = "QUEUE_NOTIFY" /\ ProcessUsedBuffer(GetDescIndex)
      BY <2>3 DEF ServeRequest
    <3>2. used_seen' = used_seen
      BY <2>3 DEF ServeRequest, driverVars
    <3>3. PICK head \in Slot : head = GetDescIndex
      BY <3>1, HeadType
    <3>4. /\ used' = [k \in UsedSlot |-> IF k = used_idx THEN head ELSE used[k]]
          /\ used_idx' = (used_idx + 1) % IndexSize
      BY <3>1, <3>3 DEF ProcessUsedBuffer, UsedSlot
    <3>5. used' \in [UsedSlot -> Slot]
      BY <1>1, <3>3, <3>4 DEF RingTypes
    <3>6. used_idx' \in Index
      BY <1>1, <3>4, CountedUp DEF RingTypes
    <3>7. QED
      BY <1>1, <3>2, <3>5, <3>6 DEF RingTypes
  <2>4. QED
    BY <2>1, <2>2, <2>3 DEF VirtioEmulation
<1>3. QED
  BY <1>1, <1>2 DEF RingTypes

LEMMA DeviceBase ==
  ASSUME Base, VirtioEmulation \/ DiskInterrupt
  PROVE  Base'
<1>1. /\ TypeOK /\ Registers /\ Chains /\ Owners /\ Links
      /\ UNCHANGED <<desc, avail, avail_idx, header, driver, setup, issued, free,
                     chain>>
      /\ virtio_write' = "none"
  BY DeviceFrame DEF Base
<1>2. /\ mmio' \in [Register -> Nat]
      /\ mmio'["QUEUE_NUM"] = mmio["QUEUE_NUM"]
      /\ mmio'["PAGE_SIZE"] = mmio["PAGE_SIZE"]
      /\ mmio'["QUEUE_NOTIFY"] = mmio["QUEUE_NOTIFY"]
  <2>1. mmio \in [Register -> Nat]
    BY <1>1 DEF TypeOK, DriverTypes
  <2>2. CASE ConfigureQueue
    BY <2>1, <2>2, Sizes DEF ConfigureQueue, Register
  <2>3. CASE ServeRequest \/ RefuseRequest \/ DiskInterrupt
    BY <2>1, <2>3 DEF ServeRequest, RefuseRequest, DiskInterrupt
  <2>4. QED
    BY <2>2, <2>3 DEF VirtioEmulation
<1>3. /\ stage' \in [Process -> {"idle", "waiting", "woken"}]
      /\ \A p \in Process : stage[p] # "idle" => stage'[p] # "idle"
  <2>1. stage \in [Process -> {"idle", "waiting", "woken"}]
    BY <1>1 DEF TypeOK, DriverTypes
  <2>2. CASE VirtioEmulation
    BY <2>1, <2>2 DEF VirtioEmulation, ConfigureQueue, ServeRequest,
       RefuseRequest, driverVars
  <2>3. CASE DiskInterrupt
    <3>1. PICK p : stage' = stage \/ stage' = [stage EXCEPT ![p] = "woken"]
      BY <2>3 DEF DiskInterrupt, Wake
    <3>2. QED
      BY <2>1, <3>1
  <2>4. QED
    BY <2>2, <2>3
<1>4. TypeOK'
  <2>1. DriverTypes'
    BY <1>1, <1>2, <1>3 DEF TypeOK, DriverTypes
  <2>2. QED
    BY <2>1, DeviceMemory, DeviceRings DEF TypeOK
<1>5. Registers'
  BY <1>1, <1>2 DEF Registers
<1>6. Chains' /\ Links'
  BY <1>1 DEF Chains, Links, Aligned
<1>7. Owners'
  BY <1>1, <1>3 DEF Owners
<1>8. QED
  BY <1>4, <1>5, <1>6, <1>7 DEF Base

\* A setup write of the driver announces the value that Registers expects.
LEMMA SetupBase ==
  ASSUME Base, Setup
  PROVE  Base'
<1>1. TypeOK /\ Registers /\ Chains /\ Owners /\ Links
  BY DEF Base
<1>2. PICK register, value :
        /\ SetupWrite(register, value)
        /\ \/ register = "PAGE_SIZE" /\ value \in driver.sizes
           \/ register = "QUEUE_SEL" /\ value \in {0, 1}
           \/ register = "QUEUE_NUM" /\ value = QueueNum
           \/ register = "QUEUE_PFN" /\ value = 1
  BY DEF Setup
<1>3. /\ register \in setup
      /\ mmio' = [mmio EXCEPT ![register] = value]
      /\ virtio_write' = register
      /\ setup' = setup \/ setup' = setup \ {register}
      /\ register # "QUEUE_SEL" => setup' = setup \ {register}
      /\ UNCHANGED <<desc, avail, avail_idx, used, used_idx, used_seen, header,
                     data, status, disk, driver, issued, free, stage, chain>>
  BY <1>2 DEF SetupWrite, StoreRegister, ringVars, memVars
<1>4. value \in Nat
  <2>1. driver.sizes \subseteq Nat
    <3>1. driver \in Driver
      BY <1>1, DriverAssumption DEF TypeOK, DriverTypes
    <3>2. driver.sizes \in SUBSET Nat
      BY <3>1 DEF Driver
    <3>3. QED
      BY <3>2
  <2>2. QED
    BY <1>2, <2>1, Sizes
<1>5. register \in Register /\ register # "QUEUE_NOTIFY"
  BY <1>2 DEF Register
<1>6. TypeOK'
  <2>1. RingTypes' /\ MemoryTypes'
    BY <1>1, <1>3 DEF TypeOK, RingTypes, MemoryTypes
  <2>2. mmio' \in [Register -> Nat]
    BY <1>1, <1>3, <1>4, <1>5 DEF TypeOK, DriverTypes
  <2>3. DriverTypes'
    BY <1>1, <1>3, <1>5, <2>2 DEF TypeOK, DriverTypes
  <2>4. QED
    BY <2>1, <2>3 DEF TypeOK
<1>7. Registers'
  <2>1. mmio \in [Register -> Nat]
    BY <1>1 DEF TypeOK, DriverTypes
  <2>2. QED
    BY <1>1, <1>2, <1>3, <1>5, <2>1 DEF Registers, Register
<1>8. Chains' /\ Owners' /\ Links'
  BY <1>1, <1>3 DEF Chains, Owners, Links, Aligned
<1>9. QED
  BY <1>6, <1>7, <1>8 DEF Base

\* Submit takes the lowest free group and fills it.
LEMMA SubmitEffect ==
  ASSUME Base, NEW p \in Process, NEW write \in BOOLEAN, NEW block \in Block,
         NEW value \in Data, Submit(p, write, block, value)
  PROVE  \E k \in Nat, a, b, c \in free :
           /\ a = 3 * k /\ b = 3 * k + 1 /\ c = 3 * k + 2
           /\ Publish(p, write, a, b, c)
           /\ 0 \in free => k = 0
<1>1. free \in SUBSET Slot /\ Aligned(free)
  BY DEF Base, TypeOK, DriverTypes, Chains
<1>2. Cardinality(free) >= 3
  BY DEF Submit
<1>3. PICK k \in Nat, a, b, c \in free :
        /\ a = 3 * k /\ b = 3 * k + 1 /\ c = 3 * k + 2
        /\ Lowest(free) = a
        /\ Lowest(free \ {a}) = b
        /\ Lowest(free \ {a, b}) = c
        /\ 0 \in free => k = 0
  BY <1>1, <1>2, LowestThree
<1>4. Publish(p, write, Lowest(free), Lowest(free \ {Lowest(free)}),
              Lowest(free \ {Lowest(free), Lowest(free \ {Lowest(free)})}))
  BY DEF Submit
<1>5. Publish(p, write, a, b, c)
  BY <1>3, <1>4, Zenon
<1>6. QED
  BY <1>3, <1>5, Zenon

LEMMA SubmitBase ==
  ASSUME Base, NEW p \in Process, NEW write \in BOOLEAN, NEW block \in Block,
         NEW value \in Data, Submit(p, write, block, value)
  PROVE  Base'
<1>1. TypeOK /\ Registers /\ Chains /\ Owners /\ Links
  BY DEF Base
<1>2. PICK k \in Nat, a, b, c \in free :
        /\ a = 3 * k /\ b = 3 * k + 1 /\ c = 3 * k + 2
        /\ Publish(p, write, a, b, c)
  BY SubmitEffect
<1>3. /\ setup = {} /\ stage[p] = "idle"
      /\ header' = [header EXCEPT ![p] = [write |-> write, block |-> block]]
      /\ data' = [data EXCEPT ![p] = value]
      /\ status' = [status EXCEPT ![p] = "pending"]
      /\ stage' = [stage EXCEPT ![p] = "waiting"]
      /\ mmio' = [mmio EXCEPT !["QUEUE_NOTIFY"] = 0]
      /\ virtio_write' = "QUEUE_NOTIFY"
      /\ issued' = issued + 1
      /\ UNCHANGED <<used, used_idx, used_seen, disk, driver, setup>>
  BY DEF Submit, StoreRegister
<1>4. /\ Slot \subseteq Nat /\ 0 \in Slot
      /\ a \in Slot /\ b \in Slot /\ c \in Slot
      /\ a # b /\ a # c /\ b # c
  BY <1>1, <1>2, Sizes DEF TypeOK, DriverTypes, Slot
<1>5. PICK d1, d2, d3 \in Descriptor :
        /\ d1.of = p /\ d1.next_flag /\ d1.next = b
        /\ d2.of = p /\ d2.next_flag /\ d2.next = c
        /\ d3.of = p /\ ~d3.next_flag
        /\ desc' = [desc EXCEPT ![a] = d1, ![b] = d2, ![c] = d3]
  <2>1. [of |-> p, len |-> HeaderLen, next_flag |-> TRUE, write_flag |-> FALSE,
         next |-> b] \in Descriptor
    BY <1>4 DEF Descriptor, Owner, HeaderLen
  <2>2. [of |-> p, len |-> BlockLen, next_flag |-> TRUE, write_flag |-> ~write,
         next |-> c] \in Descriptor
    BY <1>4 DEF Descriptor, Owner, BlockLen
  <2>3. [of |-> p, len |-> StatusLen, next_flag |-> FALSE, write_flag |-> TRUE,
         next |-> 0] \in Descriptor
    BY <1>4 DEF Descriptor, Owner, StatusLen
  <2>4. QED
    BY <1>2, <2>1, <2>2, <2>3 DEF Publish
<1>6. desc \in [Slot -> Descriptor]
  BY <1>1 DEF TypeOK, RingTypes
<1>7. /\ desc' \in [Slot -> Descriptor]
      /\ desc'[a] = d1 /\ desc'[b] = d2 /\ desc'[c] = d3
      /\ \A i \in Slot \ {a, b, c} : desc'[i] = desc[i]
  BY <1>4, <1>5, <1>6
<1>8. /\ avail' = [avail EXCEPT ![avail_idx % QueueNum] = a]
      /\ avail_idx' = (avail_idx + 1) % IndexSize
      /\ free' = free \ {a, b, c}
      /\ chain' = [chain EXCEPT ![p] = {a, b, c}]
  BY <1>2 DEF Publish
<1>9. TypeOK'
  <2>1. avail' \in [Slot -> Slot] /\ avail_idx' \in Index
    <3>1. avail \in [Slot -> Slot] /\ avail_idx \in Index
      BY <1>1 DEF TypeOK, RingTypes
    <3>2. PICK x : x = avail_idx % QueueNum
      OBVIOUS
    <3>3. avail' = [avail EXCEPT ![x] = a]
      BY <1>8, <3>2
    <3>4. avail' \in [Slot -> Slot]
      BY <1>4, <3>1, <3>3
    <3>5. avail_idx' \in Index
      BY <1>8, <3>1, CountedUp
    <3>6. QED
      BY <3>4, <3>5
  <2>2. RingTypes'
    BY <1>1, <1>3, <1>7, <2>1 DEF TypeOK, RingTypes
  <2>3. MemoryTypes'
    BY <1>1, <1>3 DEF TypeOK, MemoryTypes, Header, Owner
  <2>4. mmio' \in [Register -> Nat] /\ virtio_write' \in Register
    BY <1>1, <1>3 DEF TypeOK, DriverTypes, Register
  <2>5. DriverTypes'
    BY <1>1, <1>3, <1>4, <1>8, <2>4 DEF TypeOK, DriverTypes
  <2>6. QED
    BY <2>2, <2>3, <2>5 DEF TypeOK
<1>10. Registers'
  <2>1. mmio \in [Register -> Nat]
    BY <1>1 DEF TypeOK, DriverTypes
  <2>2. QED
    BY <1>1, <1>3, <2>1 DEF Registers, Register
<1>11. Chains'
  <2>1. Aligned({a, b, c})
    <3>1. \A i \in Slot : i \div 3 = k <=> i \in {a, b, c}
      <4> SUFFICES ASSUME NEW i \in Slot
                   PROVE  i \div 3 = k <=> i \in {a, b, c}
        OBVIOUS
      <4>1. i \in Nat
        BY <1>4
      <4>2. QED
        BY <1>2, <4>1
    <3>2. QED
      BY <3>1 DEF Aligned
  <2>2. Aligned(free \ {a, b, c})
    BY <1>1, <2>1 DEF Chains, Aligned
  <2>3. \A q \in Process : chain'[q] = IF q = p THEN {a, b, c} ELSE chain[q]
    BY <1>1, <1>8 DEF TypeOK, DriverTypes
  <2>4. QED
    BY <1>1, <1>8, <2>1, <2>2, <2>3 DEF Chains
<1>12. Owners'
  <2>1. /\ \A q \in Process : chain'[q] = IF q = p THEN {a, b, c} ELSE chain[q]
        /\ \A q \in Process : stage'[q] = IF q = p THEN "waiting" ELSE stage[q]
    BY <1>1, <1>3, <1>8 DEF TypeOK, DriverTypes
  <2>2. ASSUME NEW i \in Slot, NEW q \in Process, desc'[i].of = q
        PROVE  i \in chain'[q] /\ stage'[q] # "idle"
    <3>1. CASE i \in {a, b, c}
      BY <1>5, <1>7, <2>1, <2>2, <3>1
    <3>2. CASE i \notin {a, b, c}
      BY <1>1, <1>3, <1>7, <2>1, <2>2, <3>2 DEF Owners
    <3>3. QED
      BY <3>1, <3>2
  <2>3. header'[NoProcess] = header[NoProcess]
    BY <1>1, <1>3, ZeroAssumption DEF TypeOK, MemoryTypes, Owner
  <2>4. QED
    BY <1>1, <2>2, <2>3 DEF Owners
<1>13. Links'
  <2> SUFFICES ASSUME NEW i \in Slot, desc'[i].next_flag
               PROVE  /\ i + 1 \in Slot
                      /\ (i + 1) \div 3 = i \div 3
                      /\ desc'[i].next = i + 1
                      /\ desc'[i + 1].of = desc'[i].of
    BY DEF Links
  <2>1. CASE i = a
    BY <1>2, <1>4, <1>5, <1>7, <2>1
  <2>2. CASE i = b
    BY <1>2, <1>4, <1>5, <1>7, <2>2
  <2>3. CASE i = c
    BY <1>5, <1>7, <2>3
  <2>4. CASE i \notin {a, b, c}
    <3>1. /\ i + 1 \in Slot
          /\ (i + 1) \div 3 = i \div 3
          /\ desc[i].next = i + 1
          /\ desc[i + 1].of = desc[i].of
      BY <1>1, <1>7, <2>4 DEF Links
    <3>2. i + 1 \notin {a, b, c}
      <4>1. i \in Nat
        BY <1>4
      <4>2. QED
        BY <1>2, <2>4, <3>1, <4>1
    <3>3. QED
      BY <1>7, <2>4, <3>1, <3>2
  <2>5. QED
    BY <2>1, <2>2, <2>3, <2>4
<1>14. QED
  BY <1>9, <1>10, <1>11, <1>12, <1>13 DEF Base

\* Finish gives back the whole group.
LEMMA FinishBase ==
  ASSUME Base, NEW p \in Process, Finish(p)
  PROVE  Base'
<1>1. TypeOK /\ Registers /\ Chains /\ Owners /\ Links
  BY DEF Base
<1>2. /\ virtio_write = "none"
      /\ stage' = [stage EXCEPT ![p] = "idle"]
      /\ free' = free \cup chain[p]
      /\ desc' = [i \in Slot |->
                    IF i \in chain[p] THEN [desc[i] EXCEPT !.of = NoProcess]
                    ELSE desc[i]]
      /\ chain' = [chain EXCEPT ![p] = {}]
      /\ UNCHANGED <<mmio, virtio_write, avail, avail_idx, used, used_idx,
                     used_seen, header, data, status, disk, driver, setup,
                     issued>>
  BY DEF Finish, GuestRuns, memVars
<1>3. /\ desc \in [Slot -> Descriptor]
      /\ chain \in [Process -> SUBSET Slot]
      /\ stage \in [Process -> {"idle", "waiting", "woken"}]
      /\ free \in SUBSET Slot
  BY <1>1 DEF TypeOK, RingTypes, DriverTypes
<1>4. ASSUME NEW d \in Descriptor
      PROVE  /\ [d EXCEPT !.of = NoProcess] \in Descriptor
             /\ [d EXCEPT !.of = NoProcess].of = NoProcess
             /\ [d EXCEPT !.of = NoProcess].next = d.next
             /\ [d EXCEPT !.of = NoProcess].next_flag = d.next_flag
  BY DEF Descriptor, Owner
<1>5. /\ desc' \in [Slot -> Descriptor]
      /\ \A i \in Slot : /\ desc'[i].next = desc[i].next
                         /\ desc'[i].next_flag = desc[i].next_flag
                         /\ desc'[i].of = IF i \in chain[p] THEN NoProcess
                                          ELSE desc[i].of
  BY <1>2, <1>3, <1>4
<1>6. TypeOK'
  <2>1. RingTypes' /\ MemoryTypes'
    BY <1>1, <1>2, <1>5 DEF TypeOK, RingTypes, MemoryTypes
  <2>2. DriverTypes'
    BY <1>1, <1>2 DEF TypeOK, DriverTypes
  <2>3. QED
    BY <2>1, <2>2 DEF TypeOK
<1>7. Registers'
  BY <1>1, <1>2 DEF Registers
<1>8. Chains'
  <2>1. Aligned(free \cup chain[p]) /\ Aligned({})
    BY <1>1 DEF Chains, Aligned
  <2>2. \A q \in Process : chain'[q] = IF q = p THEN {} ELSE chain[q]
    BY <1>2, <1>3
  <2>3. QED
    BY <1>1, <1>2, <2>1, <2>2 DEF Chains
<1>9. Owners'
  <2>1. /\ \A q \in Process : chain'[q] = IF q = p THEN {} ELSE chain[q]
        /\ \A q \in Process : stage'[q] = IF q = p THEN "idle" ELSE stage[q]
    BY <1>2, <1>3
  <2>2. ASSUME NEW i \in Slot, NEW q \in Process, desc'[i].of = q
        PROVE  i \in chain'[q] /\ stage'[q] # "idle"
    <3>1. i \notin chain[p] /\ desc[i].of = q
      BY <1>5, <2>2, ZeroAssumption
    <3>2. i \in chain[q] /\ stage[q] # "idle"
      BY <1>1, <3>1 DEF Owners
    <3>3. QED
      BY <2>1, <3>1, <3>2
  <2>3. QED
    BY <1>1, <1>2, <2>2 DEF Owners
<1>10. Links'
  <2> SUFFICES ASSUME NEW i \in Slot, desc'[i].next_flag
               PROVE  /\ i + 1 \in Slot
                      /\ (i + 1) \div 3 = i \div 3
                      /\ desc'[i].next = i + 1
                      /\ desc'[i + 1].of = desc'[i].of
    BY DEF Links
  <2>1. /\ i + 1 \in Slot
        /\ (i + 1) \div 3 = i \div 3
        /\ desc[i].next = i + 1
        /\ desc[i + 1].of = desc[i].of
    BY <1>1, <1>5 DEF Links
  <2>2. i + 1 \in chain[p] <=> i \in chain[p]
    BY <1>1, <2>1 DEF Chains, Aligned
  <2>3. QED
    BY <1>5, <2>1, <2>2
<1>11. QED
  BY <1>6, <1>7, <1>8, <1>9, <1>10 DEF Base

LEMMA StepBase == Base /\ [Next]_vars => Base'
<1> SUFFICES ASSUME Base, [Next]_vars PROVE Base'
  OBVIOUS
<1>1. CASE Next
  BY <1>1, DeviceBase, SetupBase, SubmitBase, FinishBase DEF Next
<1>2. CASE UNCHANGED vars
  <2>1. UNCHANGED <<mmio, virtio_write, desc, avail, avail_idx, used, used_idx,
                    used_seen, header, data, status, disk, driver, setup,
                    issued, free, stage, chain>>
    BY <1>2 DEF vars, ringVars, memVars, driverVars
  <2>2. TypeOK'
    BY <2>1 DEF Base, TypeOK, RingTypes, MemoryTypes, DriverTypes
  <2>3. QED
    BY <2>1, <2>2 DEF Base, Registers, Chains, Owners, Links, Aligned
<1>3. QED
  BY <1>1, <1>2

LEMMA BaseHolds == Spec => []Base
BY InitBase, StepBase, PTL DEF Spec

\* Whatever ring entry VirtioDiskAccess serves, it only moves data for a
\* request in flight: also when the entry is stale, and when an assert fails
\* after the transfer.
THEOREM OnlyRequestedTransfersHolds == Spec => OnlyRequestedTransfers
<1> DEFINE Moved ==
      virtio_write = "QUEUE_NOTIFY" /\ virtio_write' = "none" =>
        /\ \A b \in Block : disk'[b] # disk[b] =>
             \E p \in Outstanding : /\ header[p] = [write |-> TRUE, block |-> b]
                                    /\ disk'[b] = data[p]
        /\ \A p \in Process : data'[p] # data[p] =>
             /\ p \in Outstanding
             /\ ~header[p].write
             /\ data'[p] = disk[header[p].block]
<1>1. ASSUME Base, [Next]_vars PROVE [Moved]_vars
  <2> SUFFICES ASSUME virtio_write = "QUEUE_NOTIFY", Next
               PROVE  Moved
    BY <1>1
  <2>1. ServeRequest \/ RefuseRequest
    BY DEF Next, VirtioEmulation, ConfigureQueue, Setup, SetupWrite, Submit,
       DiskInterrupt, Finish, GuestRuns
  <2>2. CASE disk' = disk /\ data' = data
    BY <2>2
  <2>3. CASE /\ FirstTwoWellFormed(Walk(GetDescIndex))
             /\ DiscAccess(Walk(GetDescIndex))
    <3>1. PICK o \in Owner :
            /\ o = desc[GetDescIndex].of
            /\ \/ /\ header[o].write
                  /\ disk' = [disk EXCEPT ![header[o].block] = data[o]]
                  /\ data' = data
               \/ /\ ~header[o].write
                  /\ disk' = disk
                  /\ data' = [data EXCEPT ![o] = disk[header[o].block]]
      BY <1>1, <2>3, Transfer
    <3>2. /\ header \in [Owner -> Header]
          /\ data \in [Owner -> Data]
          /\ disk \in [Block -> Data]
      BY <1>1 DEF Base, TypeOK, MemoryTypes
    <3>3. CASE o \in Process
      <4>1. o \in Outstanding
        BY <1>1, <3>1, <3>3, HeadType DEF Base, Owners, Outstanding
      <4>2. PICK h \in Header : h = header[o]
        BY <3>2
      <4>3. h.write => h = [write |-> TRUE, block |-> h.block]
        BY DEF Header
      <4>4. QED
        BY <3>1, <3>2, <4>1, <4>2, <4>3 DEF Owner
    <3>4. CASE o = NoProcess
      <4>1. ~header[o].write
        BY <1>1, <3>4 DEF Base, Owners
      <4>2. \A p \in Process : data'[p] = data[p]
        BY <3>1, <3>2, <3>4, <4>1, ZeroAssumption DEF Owner
      <4>3. QED
        BY <3>1, <4>1, <4>2
    <3>5. QED
      BY <3>3, <3>4 DEF Owner
  <2>4. QED
    BY <2>1, <2>2, <2>3 DEF ServeRequest, RefuseRequest
<1>2. Spec => [][Moved]_vars
  BY <1>1, BaseHolds, PTL DEF Spec
<1>3. QED
  BY <1>2 DEF OnlyRequestedTransfers

-----------------------------------------------------------------------------
(* The steps, for a driver with one request in flight.                     *)

LEMMA InitSerial == Init => SerialInv
BY DEF Init, SerialInv, Rings, UsedPage, Calm

\* The three descriptors exist.
LEMMA FirstSlots == 0 \in Slot /\ 1 \in Slot /\ 2 \in Slot
BY Sizes DEF Slot

\* A notification finds the request it announces in descriptors 0, 1 and 2,
\* though the entry the device reads is not the published one, and the device
\* carries it out.
LEMMA Serves ==
  ASSUME Base, SerialInv, Serial, VirtioEmulation, virtio_write = "QUEUE_NOTIFY"
  PROVE  \E p \in Process :
           /\ InFlight(p) /\ Submitted(p)
           /\ \/ /\ header[p].write
                 /\ disk' = [disk EXCEPT ![header[p].block] = data[p]]
                 /\ data' = data
              \/ /\ ~header[p].write
                 /\ disk' = disk
                 /\ data' = [data EXCEPT ![p] = disk[header[p].block]]
           /\ status' = [status EXCEPT ![p] = "ok"]
           /\ ProcessUsedBuffer(0)
           /\ virtio_write' = "none"
           /\ UNCHANGED <<header, desc, avail, stage, setup, issued, free, chain,
                          used_seen, driver, aborted, panicked>>
<1>1. PICK p \in Process : InFlight(p) /\ Submitted(p)
  BY DEF SerialInv, Calm, InFlight, Served, Taken
<1>2. GetDescIndex = 0
  <2>1. mmio["QUEUE_NUM"] = QueueNum
    BY DEF Base, Registers
  <2>2. avail_idx \in Nat
    BY CountedUp DEF Base, TypeOK, RingTypes
  <2>3. avail_idx % QueueNum \in Slot
    BY <2>2, Sizes DEF Slot
  <2>4. QED
    BY <2>1, <2>3 DEF GetDescIndex, SerialInv, Rings
<1>3. PICK w : w = Walk(GetDescIndex)
  OBVIOUS
<1>4. w[1] = desc[0] /\ w[2] = desc[1] /\ w[3] = desc[2]
  BY <1>1, <1>2, <1>3 DEF Walk, InFlight
<1>5. /\ w[1].of = p /\ w[2].of = p /\ w[3].of = p
      /\ w[1].next_flag /\ w[2].write_flag = ~header[p].write
      /\ w[3].len = StatusLen /\ ~w[3].next_flag /\ w[3].write_flag
  BY <1>1, <1>4 DEF InFlight
<1>6. header[p].write \in BOOLEAN
  BY DEF Base, TypeOK, MemoryTypes, Header, Owner
<1>7. FirstTwoWellFormed(w) /\ StatusWellFormed(w)
  BY <1>5, <1>6 DEF FirstTwoWellFormed, StatusWellFormed
<1>8. RegistersValid
  <2>1. setup = {} /\ driver.sizes = {4096}
    BY <1>1 DEF InFlight, Serial
  <2>2. mmio["QUEUE_NUM"] = QueueNum /\ mmio["PAGE_SIZE"] = 4096
    BY <2>1 DEF Base, Registers
  <2>3. QED
    BY <2>2, Sizes DEF RegistersValid, Base, Registers
<1>9. ServeRequest
  BY <1>3, <1>7, <1>8 DEF VirtioEmulation, ConfigureQueue, RefuseRequest
<1>10. /\ DiscAccess(w)
       /\ status' = [status EXCEPT ![p] = "ok"]
       /\ ProcessUsedBuffer(0)
       /\ virtio_write' = "none"
       /\ UNCHANGED <<header, desc, avail, stage, setup, issued, free, chain,
                      used_seen, driver, aborted, panicked>>
  BY <1>2, <1>3, <1>5, <1>9 DEF ServeRequest, driverVars
<1>11. \/ /\ header[p].write
          /\ disk' = [disk EXCEPT ![header[p].block] = data[p]]
          /\ data' = data
       \/ /\ ~header[p].write
          /\ disk' = disk
          /\ data' = [data EXCEPT ![p] = disk[header[p].block]]
  BY <1>5, <1>10 DEF DiscAccess
<1>12. QED
  BY <1>1, <1>10, <1>11

LEMMA ServeSerial ==
  ASSUME Base, SerialInv, Serial, VirtioEmulation, virtio_write = "QUEUE_NOTIFY"
  PROVE  SerialInv'
<1>1. PICK p \in Process :
        /\ InFlight(p) /\ Submitted(p)
        /\ status' = [status EXCEPT ![p] = "ok"]
        /\ ProcessUsedBuffer(0)
        /\ virtio_write' = "none"
        /\ UNCHANGED <<header, desc, avail, stage, setup, issued, free, chain,
                       used_seen, driver, aborted, panicked>>
  BY Serves
<1>2. Rings'
  BY <1>1 DEF SerialInv, Rings, ProcessUsedBuffer
<1>3. status'[p] = "ok"
  BY <1>1 DEF Base, TypeOK, MemoryTypes, Owner
<1>4. Served(p)'
  BY <1>1, <1>3 DEF Served, Submitted, ProcessUsedBuffer
<1>5. InFlight(p)'
  BY <1>1, <1>4 DEF InFlight
<1>6. UsedPage'
  <2>1. used_idx \in Index /\ issued \in Nat
    BY DEF Base, TypeOK, RingTypes, DriverTypes
  <2>2. used_idx < issued /\ issued' = issued
    BY <1>1 DEF SerialInv, UsedPage, Submitted
  <2>3. used_idx' \in Index /\ used_idx' <= used_idx + 1
    BY <1>1, <2>1, CountedUp DEF ProcessUsedBuffer
  <2>4. used_idx' <= issued'
    BY <2>1, <2>2, <2>3, Sizes DEF Index
  <2>5. ASSUME issued <= UsedCapacity PROVE overwritten' = {}
    <3>1. used_idx \in 0 .. UsedCapacity - 1
      BY <2>1, <2>2, <2>5, Sizes DEF Index
    <3>2. overwritten = {}
      BY <2>5 DEF SerialInv, UsedPage
    <3>3. QED
      BY <1>1, <3>1, <3>2 DEF ProcessUsedBuffer
  <2>6. QED
    BY <1>1, <2>2, <2>4, <2>5 DEF UsedPage
<1>7. QED
  BY <1>1, <1>2, <1>5, <1>6 DEF SerialInv, Serial

LEMMA ConfigureSerial ==
  ASSUME Base, SerialInv, Serial, VirtioEmulation, virtio_write # "QUEUE_NOTIFY"
  PROVE  /\ SerialInv'
         /\ UNCHANGED <<header, data, status, disk, stage, driver>>
<1>1. /\ virtio_write \in Register
      /\ virtio_write' = "none"
      /\ UNCHANGED <<header, data, status, disk, stage, driver, avail, used,
                     used_idx, used_seen, issued, overwritten, free, aborted,
                     panicked>>
  BY DEF VirtioEmulation, ConfigureQueue, ServeRequest, RefuseRequest, ringVars,
     memVars, driverVars
<1>2. Calm
  <2>1. virtio_write # "none"
    BY <1>1 DEF Register
  <2>2. \A p \in Process : ~InFlight(p)
    BY <2>1 DEF InFlight, Submitted, Served, Taken
  <2>3. QED
    BY <2>2 DEF SerialInv
<1>3. QED
  BY <1>1, <1>2 DEF SerialInv, Serial, Rings, UsedPage, Calm

LEMMA SetupSerial ==
  ASSUME Base, SerialInv, Serial, Setup
  PROVE  /\ SerialInv'
         /\ UNCHANGED <<header, data, status, disk, stage, driver>>
<1>1. /\ setup # {}
      /\ virtio_write' # "QUEUE_NOTIFY"
      /\ UNCHANGED <<header, data, status, disk, stage, driver, avail, used,
                     used_idx, used_seen, issued, overwritten, free, aborted,
                     panicked>>
  BY DEF Setup, SetupWrite, StoreRegister, ringVars, memVars
<1>2. Calm
  BY <1>1 DEF SerialInv, InFlight
<1>3. QED
  BY <1>1, <1>2 DEF SerialInv, Serial, Rings, UsedPage, Calm

\* The handler finds the process of the request that was served.
LEMMA InterruptSerial ==
  ASSUME Base, SerialInv, Serial, DiskInterrupt
  PROVE  /\ SerialInv'
         /\ \E p \in Process :
              /\ stage[p] = "waiting"
              /\ stage' = [stage EXCEPT ![p] = "woken"]
         /\ UNCHANGED <<header, data, status, disk, driver>>
<1>1. used_seen # used_idx
  BY DEF DiskInterrupt
<1>2. PICK p \in Process : InFlight(p) /\ Served(p)
  BY <1>1 DEF SerialInv, Calm, InFlight, Submitted, Taken
<1>3. used[used_seen % QueueNum] = 0
  <2>1. used_seen \in Nat
    BY CountedUp DEF Base, TypeOK, RingTypes
  <2>2. used_seen % QueueNum \in 0 .. UsedCapacity - 1
    BY <2>1, Sizes
  <2>3. QED
    BY <2>2 DEF SerialInv, Rings
<1>4. desc[0].of = p /\ status[p] = "ok"
  BY <1>2 DEF InFlight, Served
<1>5. /\ used_seen' = (used_seen + 1) % IndexSize
      /\ stage' = [stage EXCEPT ![p] = "woken"]
      /\ panicked' = FALSE
      /\ UNCHANGED <<virtio_write, header, data, status, disk, driver, aborted,
                     desc, avail, used, used_idx, overwritten, setup, issued,
                     free, chain>>
  <2>1. Wake(p)
    BY <1>3, <1>4 DEF DiskInterrupt
  <2>2. stage' = [stage EXCEPT ![p] = "woken"] /\ panicked' = FALSE
    BY <1>4, <2>1 DEF Wake
  <2>3. used_seen' = (used_seen + 1) % IndexSize
    BY DEF DiskInterrupt
  <2>4. UNCHANGED <<virtio_write, header, data, status, disk, driver, aborted,
                    desc, avail, used, used_idx, overwritten, setup, issued,
                    free, chain>>
    BY DEF DiskInterrupt, ringVars, memVars
  <2>5. QED
    BY <2>2, <2>3, <2>4
<1>6. stage \in [Process -> {"idle", "waiting", "woken"}]
  BY DEF Base, TypeOK, DriverTypes
<1>7. Taken(p)'
  BY <1>2, <1>5, <1>6 DEF Taken, Served
<1>8. InFlight(p)'
  BY <1>2, <1>5, <1>6, <1>7 DEF InFlight
<1>9. SerialInv'
  BY <1>5, <1>8 DEF SerialInv, Serial, Rings, UsedPage
<1>10. stage[p] = "waiting"
  BY <1>2 DEF Served
<1>11. \E q \in Process : /\ stage[q] = "waiting"
                          /\ stage' = [stage EXCEPT ![q] = "woken"]
  <2> WITNESS p \in Process
  <2> QED
    BY <1>5, <1>10
<1>12. UNCHANGED <<header, data, status, disk, driver>>
  BY <1>5
<1>13. QED
  BY <1>9, <1>11, <1>12

LEMMA FinishSerial ==
  ASSUME Base, SerialInv, Serial, NEW p \in Process, Finish(p)
  PROVE  /\ SerialInv'
         /\ stage[p] = "woken" /\ status[p] = "ok"
         /\ stage' = [stage EXCEPT ![p] = "idle"]
         /\ UNCHANGED <<header, data, status, disk, driver>>
<1>1. /\ stage[p] = "woken"
      /\ stage' = [stage EXCEPT ![p] = "idle"]
      /\ free' = free \cup chain[p]
      /\ UNCHANGED <<virtio_write, header, data, status, disk, driver, aborted,
                     panicked, avail, used, used_idx, overwritten, used_seen,
                     issued>>
  BY DEF Finish, memVars
<1>2. InFlight(p) /\ Taken(p)
  <2>1. PICK q \in Process : InFlight(q)
    BY <1>1 DEF SerialInv, Calm
  <2>2. p = q
    BY <1>1, <2>1 DEF InFlight
  <2>3. QED
    BY <1>1, <2>1, <2>2 DEF InFlight, Submitted, Served
<1>3. free' = Slot
  BY <1>1, <1>2, FirstSlots DEF InFlight
<1>4. \A q \in Process : stage'[q] = "idle"
  BY <1>1, <1>2 DEF InFlight, Base, TypeOK, DriverTypes
<1>5. Calm'
  BY <1>1, <1>2, <1>3, <1>4 DEF Calm, Taken
<1>6. QED
  BY <1>1, <1>2, <1>5 DEF SerialInv, Serial, Rings, UsedPage, Taken

\* A driver with one request in flight publishes only when none is, so it
\* takes descriptors 0, 1 and 2.
LEMMA SubmitSerial ==
  ASSUME Base, SerialInv, Serial, NEW p \in Process, NEW write \in BOOLEAN,
         NEW block \in Block, NEW value \in Data, Submit(p, write, block, value)
  PROVE  /\ SerialInv'
         /\ stage[p] = "idle"
         /\ header' = [header EXCEPT ![p] = [write |-> write, block |-> block]]
         /\ data' = [data EXCEPT ![p] = value]
         /\ status' = [status EXCEPT ![p] = "pending"]
         /\ stage' = [stage EXCEPT ![p] = "waiting"]
         /\ UNCHANGED <<disk, driver>>
<1>1. /\ stage[p] = "idle"
      /\ setup = {}
      /\ Cardinality(Outstanding) < 1
      /\ header' = [header EXCEPT ![p] = [write |-> write, block |-> block]]
      /\ data' = [data EXCEPT ![p] = value]
      /\ status' = [status EXCEPT ![p] = "pending"]
      /\ stage' = [stage EXCEPT ![p] = "waiting"]
      /\ virtio_write' = "QUEUE_NOTIFY"
      /\ issued' = issued + 1
      /\ UNCHANGED <<disk, driver, aborted, panicked, used, used_idx, overwritten,
                     used_seen, setup>>
  BY DEF Submit, StoreRegister, Serial
<1>2. Calm
  <2> SUFFICES ASSUME NEW q \in Process, InFlight(q) PROVE FALSE
    BY DEF SerialInv
  <2>1. Outstanding = {q}
    BY DEF Outstanding, InFlight, Submitted, Served, Taken
  <2>2. Cardinality({q}) = 1
    BY FS_Singleton
  <2>3. QED
    BY <1>1, <2>1, <2>2
<1>3. Publish(p, write, 0, 1, 2)
  <2>1. PICK k \in Nat, a, b, c \in free :
          /\ a = 3 * k /\ b = 3 * k + 1 /\ c = 3 * k + 2
          /\ Publish(p, write, a, b, c)
          /\ 0 \in free => k = 0
    BY SubmitEffect
  <2>2. a = 0 /\ b = 1 /\ c = 2
    BY <1>2, <2>1, FirstSlots DEF Calm
  <2>3. QED
    BY <2>1, <2>2
<1>4. Rings'
  BY <1>1, <1>3 DEF SerialInv, Rings, Publish, Base, TypeOK, RingTypes
<1>5. Submitted(p)'
  BY <1>1, <1>2 DEF Submitted, Calm, Base, TypeOK, DriverTypes, MemoryTypes, Owner
<1>6. InFlight(p)'
  <2>1. \A q \in Process \ {p} : stage'[q] = "idle"
    BY <1>1, <1>2 DEF Calm, Base, TypeOK, DriverTypes
  <2>2. chain'[p] = {0, 1, 2} /\ free' = Slot \ {0, 1, 2}
    BY <1>2, <1>3 DEF Publish, Calm, Base, TypeOK, DriverTypes
  <2>3. header'[p].write = write
    BY <1>1 DEF Base, TypeOK, MemoryTypes, Owner
  <2>4. desc \in [Slot -> Descriptor]
    BY DEF Base, TypeOK, RingTypes
  <2>5. /\ desc'[0] = [of |-> p, len |-> HeaderLen, next_flag |-> TRUE,
                       write_flag |-> FALSE, next |-> 1]
        /\ desc'[1] = [of |-> p, len |-> BlockLen, next_flag |-> TRUE,
                       write_flag |-> ~write, next |-> 2]
        /\ desc'[2] = [of |-> p, len |-> StatusLen, next_flag |-> FALSE,
                       write_flag |-> TRUE, next |-> 0]
    <3>1. PICK d1, d2, d3 :
            /\ d1 = [of |-> p, len |-> HeaderLen, next_flag |-> TRUE,
                     write_flag |-> FALSE, next |-> 1]
            /\ d2 = [of |-> p, len |-> BlockLen, next_flag |-> TRUE,
                     write_flag |-> ~write, next |-> 2]
            /\ d3 = [of |-> p, len |-> StatusLen, next_flag |-> FALSE,
                     write_flag |-> TRUE, next |-> 0]
      OBVIOUS
    <3>2. desc' = [desc EXCEPT ![0] = d1, ![1] = d2, ![2] = d3]
      BY <1>3, <3>1, Zenon DEF Publish
    <3>3. desc'[0] = d1 /\ desc'[1] = d2 /\ desc'[2] = d3
      BY <2>4, <3>2, FirstSlots
    <3>4. QED
      BY <3>1, <3>3
  <2>6. QED
    BY <1>1, <1>5, <2>1, <2>2, <2>3, <2>5 DEF InFlight
<1>7. UsedPage'
  <2>1. used_idx \in Nat /\ issued \in Nat
    BY CountedUp DEF Base, TypeOK, RingTypes, DriverTypes
  <2>2. QED
    BY <1>1, <2>1, Sizes DEF SerialInv, UsedPage
<1>8. QED
  BY <1>1, <1>4, <1>6, <1>7 DEF SerialInv, Serial

\* The driver of a guest stays.
LEMMA DriverStays ==
  ASSUME Base, [Next]_vars
  PROVE  driver' = driver
BY DeviceFrame DEF Next, Setup, SetupWrite, Submit, Finish, vars, driverVars

LEMMA StepSerial == Base /\ SerialInv /\ [Next]_vars => SerialInv'
<1> SUFFICES ASSUME Base, SerialInv, [Next]_vars PROVE SerialInv'
  OBVIOUS
<1>1. CASE ~Serial
  BY <1>1, DriverStays DEF SerialInv, Serial
<1>2. CASE Serial /\ Next
  <2>1. CASE VirtioEmulation
    BY <1>2, <2>1, ServeSerial, ConfigureSerial
  <2>2. CASE Setup
    BY <1>2, <2>2, SetupSerial
  <2>3. CASE \E p \in Process, write \in BOOLEAN, block \in Block, value \in Data :
               Submit(p, write, block, value)
    BY <1>2, <2>3, SubmitSerial
  <2>4. CASE DiskInterrupt
    BY <1>2, <2>4, InterruptSerial
  <2>5. CASE \E p \in Process : Finish(p)
    BY <1>2, <2>5, FinishSerial
  <2>6. QED
    BY <1>2, <2>1, <2>2, <2>3, <2>4, <2>5 DEF Next
<1>3. CASE UNCHANGED vars
  <2>1. UNCHANGED <<virtio_write, desc, avail, used, used_idx, overwritten,
                    used_seen, header, status, driver, setup, issued, free, stage,
                    chain, aborted, panicked>>
    BY <1>3 DEF vars, ringVars, memVars, driverVars
  <2>2. Calm' = Calm /\ Rings' = Rings /\ UsedPage' = UsedPage /\ Serial' = Serial
    BY <2>1 DEF Calm, Rings, UsedPage, Serial
  <2>3. \A p : InFlight(p)' <=> InFlight(p)
    BY <2>1 DEF InFlight, Submitted, Served, Taken
  <2>4. QED
    BY <2>1, <2>2, <2>3 DEF SerialInv
<1>4. QED
  BY <1>1, <1>2, <1>3

LEMMA Invariance == Spec => []IInv
<1>1. Init => IInv
  BY InitBase, InitSerial DEF IInv
<1>2. IInv /\ [Next]_vars => IInv'
  BY StepBase, StepSerial DEF IInv
<1>3. QED
  BY <1>1, <1>2, PTL DEF Spec

\* A driver with one request in flight never meets an assert of
\* VirtioEmulation or of process_disc_access, and its handler never takes a
\* used entry that is not its own: whatever the queue size and the number of
\* requests, so also after the used index has left the ring and its page, and
\* has wrapped.  process_used_buffer writes behind the page only for a request
\* beyond the number of entries that fit in it.
THEOREM NoFailureHolds == Spec => []NoFailure
<1>1. IInv => NoFailure
  BY DEF IInv, SerialInv, UsedPage, NoFailure
<1>2. QED
  BY <1>1, Invariance, PTL

-----------------------------------------------------------------------------
(* The refinement.                                                         *)

LEMMA DefaultTypes == Quiet \in Data /\ NoRequest \in Header
<1>1. Quiet \in Data
  BY ZeroAssumption DEF Quiet
<1>2. (CHOOSE b \in Block : TRUE) \in Block
  BY ZeroAssumption
<1>3. QED
  BY <1>1, <1>2 DEF NoRequest, Header

LEMMA InitDevice == Init => Device!Init
<1> SUFFICES ASSUME Init PROVE Device!Init
  OBVIOUS
<1>1. /\ disk \in [Block -> Data]
      /\ header \in [Owner -> Header]
      /\ data \in [Owner -> Data]
      /\ Process \subseteq Owner
      /\ \A p \in Process : stage[p] = "idle"
  BY InitBase DEF Base, TypeOK, MemoryTypes, Init, Owner
<1>2. Store \in [Block -> Data] /\ Buffer \in [Process -> Data]
  BY <1>1, DefaultTypes DEF Store, Buffer
<1>3. Requested \in [Process -> Header]
  BY <1>1, DefaultTypes DEF Requested
<1>4. Progress = [p \in Process |-> "idle"]
  BY <1>1 DEF Progress
<1>5. QED
  BY <1>2, <1>3, <1>4 DEF Device!Init, Device!Request, Header

\* What each step of the disk is to a block device.
LEMMA StepDevice ==
  ASSUME IInv, IInv', [Next]_vars
  PROVE  [Device!Next]_(Device!vars)
<1>1. Base /\ SerialInv /\ Base' /\ driver' = driver
  BY DriverStays DEF IInv
<1>2. ASSUME Store' = Store, Requested' = Requested, Progress' = Progress,
             Buffer' = Buffer
      PROVE  UNCHANGED Device!vars
  BY <1>2 DEF Device!vars
<1>3. CASE ~Serial
  BY <1>1, <1>2, <1>3 DEF Store, Requested, Progress, Buffer, Serial
<1>4. ASSUME UNCHANGED <<disk, header, data, status, stage>>
      PROVE  UNCHANGED Device!vars
  BY <1>1, <1>2, <1>4 DEF Store, Requested, Progress, Buffer, Serial
<1>5. CASE Serial /\ Next
  <2>1. Serial' /\ Serial
    BY <1>1, <1>5 DEF Serial
  <2>2. /\ disk \in [Block -> Data] /\ header \in [Owner -> Header]
        /\ data \in [Owner -> Data] /\ status \in [Owner -> {"ok", "pending"}]
        /\ stage \in [Process -> {"idle", "waiting", "woken"}]
        /\ Process \subseteq Owner
    BY <1>1 DEF Base, TypeOK, MemoryTypes, DriverTypes, Owner
  <2>3. /\ Store = disk
        /\ Requested = [p \in Process |-> header[p]]
        /\ Buffer = [p \in Process |-> data[p]]
        /\ Progress = [p \in Process |->
                         IF stage[p] = "idle" THEN "idle"
                         ELSE IF status[p] = "ok" THEN "carried out"
                         ELSE "issued"]
    BY <2>1, <2>2 DEF Store, Requested, Buffer, Progress
  <2>4. /\ Store' = disk'
        /\ Requested' = [p \in Process |-> header'[p]]
        /\ Buffer' = [p \in Process |-> data'[p]]
        /\ Progress' = [p \in Process |->
                          IF stage'[p] = "idle" THEN "idle"
                          ELSE IF status'[p] = "ok" THEN "carried out"
                          ELSE "issued"]
    <3>1. disk' \in [Block -> Data]
      BY <1>1 DEF Base, TypeOK, MemoryTypes
    <3>2. QED
      BY <2>1, <3>1 DEF Store, Requested, Buffer, Progress
  <2>5. CASE Setup \/ (VirtioEmulation /\ virtio_write # "QUEUE_NOTIFY")
    BY <1>1, <1>4, <2>1, <2>5, SetupSerial, ConfigureSerial
  <2>6. CASE DiskInterrupt
    <3>1. PICK p \in Process : /\ stage[p] = "waiting"
                              /\ stage' = [stage EXCEPT ![p] = "woken"]
      BY <1>1, <2>1, <2>6, InterruptSerial
    <3>2. UNCHANGED <<header, data, status, disk>>
      BY <1>1, <2>1, <2>6, InterruptSerial
    <3>3. \A q \in Process : stage'[q] = "idle" <=> stage[q] = "idle"
      BY <2>2, <3>1
    <3>4. QED
      BY <1>2, <2>3, <2>4, <3>2, <3>3
  <2>7. CASE VirtioEmulation /\ virtio_write = "QUEUE_NOTIFY"
    <3>1. PICK p \in Process :
            /\ InFlight(p) /\ Submitted(p)
            /\ \/ /\ header[p].write
                  /\ disk' = [disk EXCEPT ![header[p].block] = data[p]]
                  /\ data' = data
               \/ /\ ~header[p].write
                  /\ disk' = disk
                  /\ data' = [data EXCEPT ![p] = disk[header[p].block]]
            /\ status' = [status EXCEPT ![p] = "ok"]
            /\ UNCHANGED <<header, stage>>
      BY <1>1, <2>1, <2>7, Serves
    <3>2. Progress[p] = "issued"
      BY <2>3, <3>1 DEF Submitted
    <3>3. Progress' = [Progress EXCEPT ![p] = "carried out"]
      BY <2>2, <2>3, <2>4, <3>1 DEF Submitted
    <3>4. Requested' = Requested /\ Requested[p] = header[p]
      BY <2>3, <2>4, <3>1
    <3>5. CASE header[p].write
      <4>1. Store' = [Store EXCEPT ![Requested[p].block] = Buffer[p]]
        BY <2>3, <2>4, <3>1, <3>4, <3>5
      <4>2. Buffer' = Buffer
        BY <2>3, <2>4, <3>1, <3>5
      <4>3. Device!CarryOut(p)
        BY <3>2, <3>3, <3>4, <3>5, <4>1, <4>2 DEF Device!CarryOut
      <4>4. QED
        BY <4>3 DEF Device!Next
    <3>6. CASE ~header[p].write
      <4>1. Buffer' = [Buffer EXCEPT ![p] = Store[Requested[p].block]]
        BY <2>2, <2>3, <2>4, <3>1, <3>4, <3>6
      <4>2. Store' = Store
        BY <2>3, <2>4, <3>1, <3>6
      <4>3. Device!CarryOut(p)
        BY <3>2, <3>3, <3>4, <3>6, <4>1, <4>2 DEF Device!CarryOut
      <4>4. QED
        BY <4>3 DEF Device!Next
    <3>7. QED
      BY <3>5, <3>6
  <2>8. CASE \E p \in Process, write \in BOOLEAN, block \in Block, value \in Data :
               Submit(p, write, block, value)
    <3>1. PICK p \in Process, write \in BOOLEAN, block \in Block, value \in Data :
            Submit(p, write, block, value)
      BY <2>8
    <3>2. PICK r \in Device!Request : r = [write |-> write, block |-> block]
      BY DEF Device!Request
    <3>3. /\ stage[p] = "idle"
          /\ header' = [header EXCEPT ![p] = r]
          /\ data' = [data EXCEPT ![p] = value]
          /\ status' = [status EXCEPT ![p] = "pending"]
          /\ stage' = [stage EXCEPT ![p] = "waiting"]
          /\ UNCHANGED disk
      BY <1>1, <2>1, <3>1, <3>2, SubmitSerial
    <3>4. Progress[p] = "idle"
      BY <2>3, <3>3
    <3>5. Progress' = [Progress EXCEPT ![p] = "issued"]
      BY <2>2, <2>3, <2>4, <3>3
    <3>6. Requested' = [Requested EXCEPT ![p] = r]
      BY <2>2, <2>3, <2>4, <3>3
    <3>7. Buffer' = [Buffer EXCEPT ![p] = value]
      BY <2>2, <2>3, <2>4, <3>3
    <3>8. Device!Issue(p)
      BY <2>3, <2>4, <3>3, <3>4, <3>5, <3>6, <3>7 DEF Device!Issue
    <3>9. QED
      BY <3>8 DEF Device!Next
  <2>9. CASE \E p \in Process : Finish(p)
    <3>1. PICK p \in Process : Finish(p)
      BY <2>9
    <3>2. /\ stage[p] = "woken" /\ status[p] = "ok"
          /\ stage' = [stage EXCEPT ![p] = "idle"]
          /\ UNCHANGED <<header, data, status, disk>>
      BY <1>1, <2>1, <3>1, FinishSerial
    <3>3. Progress[p] = "carried out"
      BY <2>3, <3>2
    <3>4. Progress' = [Progress EXCEPT ![p] = "idle"]
      BY <2>2, <2>3, <2>4, <3>2
    <3>5. Store' = Store /\ Requested' = Requested /\ Buffer' = Buffer
      BY <2>3, <2>4, <3>2
    <3>6. Device!Return(p)
      BY <3>3, <3>4, <3>5 DEF Device!Return
    <3>7. QED
      BY <3>6 DEF Device!Next
  <2>10. QED
    BY <1>5, <2>5, <2>6, <2>7, <2>8, <2>9 DEF Next
<1>6. CASE UNCHANGED vars
  <2>1. UNCHANGED <<disk, header, data, status, stage>>
    BY <1>6 DEF vars, memVars, driverVars
  <2>2. QED
    BY <1>4, <2>1
<1>7. QED
  BY <1>3, <1>5, <1>6

\* VirtioDiskAccess, used by a driver with one request in flight, is a block
\* device: each request is carried out exactly once, on the block and the
\* buffer it names, for any number of processes and any disk.
THEOREM ImplementsBlockDevice == Spec => IsBlockDevice
<1>1. Spec => [][Next]_vars
  BY PTL DEF Spec
<1>2. IInv /\ IInv' /\ [Next]_vars => [Device!Next]_(Device!vars)
  BY StepDevice
<1>3. Init => Device!Init
  BY InitDevice
<1>4. QED
  BY <1>1, <1>2, <1>3, Invariance, PTL DEF Spec, IsBlockDevice, Device!Spec
=============================================================================
