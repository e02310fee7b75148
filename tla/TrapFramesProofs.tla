-------------------------- MODULE TrapFramesProofs --------------------------
(***************************************************************************)
(* Proofs for every word length, every option and every guest: what        *)
(* TrapFrames states about traps and returns.                              *)
(***************************************************************************)
EXTENDS TrapFrames, TLAPS

-----------------------------------------------------------------------------
(* What the operators on registers return.                                 *)

\* bitset() on a single bit of a register gives a register.
LEMMA WithBitType ==
  ASSUME NEW reg \in SUBSET Bit, NEW bit \in Bit, NEW on
  PROVE  WithBit(reg, bit, on) \in SUBSET Bit
BY DEF WithBit

\* The masks of the restricted views are sets of bits.
LEMMA MaskTypes ==
  /\ UstatusMask \subseteq Bit
  /\ SstatusMask \subseteq Bit
  /\ UipMask \subseteq Bit
  /\ SipMask \subseteq Bit
  /\ XlBits \subseteq Bit
BY DEF UstatusMask, SstatusMask, UipMask, SipMask, XlBits, Bit

\* ApplyMstatusToCsr, ApplyInterruptPending and ApplyInterruptEnable keep the
\* CSR file a CSR file.
LEMMA ApplyTypes ==
  ASSUME NEW c \in [BitCsr -> SUBSET Bit], NEW m \in SUBSET Bit
  PROVE  /\ ApplyMstatusToCsr(c, m) \in [BitCsr -> SUBSET Bit]
         /\ ApplyInterruptPending(c, m) \in [BitCsr -> SUBSET Bit]
         /\ ApplyInterruptEnable(c, m) \in [BitCsr -> SUBSET Bit]
BY DEF ApplyMstatusToCsr, ApplyInterruptPending, ApplyInterruptEnable, BitCsr,
       StatusCsr, PendingCsr, EnableCsr

\* A guest write through a view of mstatus_, mip_ or mie_ gives a register.
LEMMA UpdateTypes ==
  ASSUME TypeOK, NEW csr, NEW written \in SUBSET Bit
  PROVE  /\ UpdateMstatus(csr, written) \in SUBSET Bit
         /\ UpdateInterruptPending(csr, written) \in SUBSET Bit
         /\ UpdateInterruptEnable(csr, written) \in SUBSET Bit
<1>1. \A r, x \in SUBSET Bit : \A k : Merge(r, x, k) \in SUBSET Bit
  BY DEF Merge
<1>2. \A r \in SUBSET Bit : Legalize(r) \in SUBSET Bit
  BY MaskTypes DEF Legalize
<1>3. QED
  BY <1>1, <1>2 DEF UpdateMstatus, UpdateInterruptPending,
     UpdateInterruptEnable, TypeOK

\* Trap, MRET and SRET turn the status register into a status register.
LEMMA StatusTypes ==
  ASSUME TypeOK
  PROVE  /\ \A level \in Level : TrapStatus(level) \in SUBSET Bit
         /\ MretStatus \in SUBSET Bit
         /\ SretStatus \in SUBSET Bit
<1>1. {1, 3, 5, 7, 8, 11, 12} \subseteq Bit
  BY DEF Bit
<1>2. QED
  BY <1>1, WithBitType DEF TrapStatus, MretStatus, SretStatus, TypeOK
-----------------------------------------------------------------------------
(* Type correctness.                                                       *)

\* A trap is taken to a level at or above the current privilege.
LEMMA TrapLevelType ==
  ASSUME TypeOK, NEW c, NEW interrupt
  PROVE  /\ TrapLevel(c, interrupt) \in Level
         /\ privilege <= TrapLevel(c, interrupt)
BY DEF TrapLevel, TypeOK, Privileges, Level, USER_MODE, SUPERVISOR_MODE,
       MACHINE_MODE

\* Trap leaves every register it writes with a value of its kind.
LEMMA TrapType ==
  ASSUME TypeOK, NEW c \in Nat, NEW interrupt \in BOOLEAN, NEW address \in Nat,
         Trap(c, interrupt, address)
  PROVE  /\ pc' \in Nat /\ next_pc' \in Nat
         /\ privilege' \in Level
         /\ mstatus' \in SUBSET Bit /\ mip' \in SUBSET Bit /\ mie' \in SUBSET Bit
         /\ csrs' \in [BitCsr -> SUBSET Bit]
         /\ epc' \in [Level -> Nat] /\ tvec' \in [Level -> Nat]
         /\ cause' \in [Level -> [code: Nat, interrupt: BOOLEAN]]
         /\ tval' \in [Level -> Nat]
<1> DEFINE level == TrapLevel(c, interrupt)
<1>1. level \in Level
  BY TrapLevelType
<1>2. next_pc' \in Nat
  <2>1. tvec[level] \in Nat
    BY <1>1 DEF TypeOK
  <2>2. \A t \in Nat : 4 * (t \div 4) \in Nat /\ 4 * (t \div 4) + 4 * c \in Nat
    OBVIOUS
  <2>3. QED
    BY <2>1, <2>2 DEF Trap, TrapVector
<1>3. mstatus' \in SUBSET Bit /\ mip' \in SUBSET Bit
  BY <1>1, StatusTypes DEF Trap, TypeOK
<1>4. csrs' \in [BitCsr -> SUBSET Bit]
  BY <1>3, ApplyTypes DEF Trap, TypeOK
<1>5. /\ privilege' \in Level
      /\ epc' \in [Level -> Nat]
      /\ tval' \in [Level -> Nat]
      /\ pc' \in Nat /\ mie' \in SUBSET Bit /\ tvec' \in [Level -> Nat]
  BY <1>1 DEF Trap, TypeOK
<1>6. cause' \in [Level -> [code: Nat, interrupt: BOOLEAN]]
  BY <1>1 DEF Trap, TypeOK
<1>7. QED
  BY <1>2, <1>3, <1>4, <1>5, <1>6

\* The value a guest CSR instruction stores is a register value.
LEMMA CsrValueType ==
  ASSUME TypeOK, NEW w \in CsrWrites
  PROVE  /\ w.csr \in BitCsr
         /\ CsrValue(w) \in SUBSET Bit
<1>1. w \in CsrWrite
  BY GuestAssumption
<1>2. /\ w.csr \in BitCsr
      /\ csrs[w.csr] \in SUBSET Bit
      /\ w.operand \in SUBSET Bit
      /\ w.instruction \in CsrInstruction
  BY <1>1 DEF CsrWrite, TypeOK
<1>3. QED
  BY <1>2 DEF CsrValue, CsrInstruction

\* The loop test always names a phase.
LEMMA LoopTestType ==
  \A error, end : LoopTest(error, end) \in {"done", "poll"}
BY DEF LoopTest

\* Every step that traps preserves the types.
LEMMA TrappingType ==
  ASSUME TypeOK, Trapping, RecordTrap
  PROVE  TypeOK'
<1> DEFINE Registers ==
      /\ pc' \in Nat /\ next_pc' \in Nat
      /\ privilege' \in Level
      /\ mstatus' \in SUBSET Bit /\ mip' \in SUBSET Bit /\ mie' \in SUBSET Bit
      /\ csrs' \in [BitCsr -> SUBSET Bit]
      /\ epc' \in [Level -> Nat] /\ tvec' \in [Level -> Nat]
      /\ cause' \in [Level -> [code: Nat, interrupt: BOOLEAN]]
      /\ tval' \in [Level -> Nat]
    Rest ==
      /\ phase' \in {"poll", "check", "fetch", "execute", "peripheral", "done"}
      /\ page_fault' \in BOOLEAN /\ faulting_address' \in Nat
      /\ prev_page_fault' \in BOOLEAN /\ prev_faulting_address' \in Nat
      /\ virtio_interrupt' \in BOOLEAN /\ uart_interrupt' \in BOOLEAN
      /\ error_flag' \in BOOLEAN /\ end_flag' \in BOOLEAN /\ aborted' \in BOOLEAN
<1>1. Registers /\ Rest
  <2>1. ASSUME NEW c \in SupportedInterrupts, TakeInterrupt(c)
        PROVE  Registers /\ Rest
    <3>1. c \in Nat
      BY DEF SupportedInterrupts
    <3>2. Registers
      BY <2>1, <3>1, TrapType, 0 \in Nat, TRUE \in BOOLEAN DEF TakeInterrupt
    <3>3. Rest
      BY <2>1, LoopTestType DEF TakeInterrupt, faultVars, deviceVars, flagVars,
         TypeOK
    <3>4. QED
      BY <3>2, <3>3
  <2>2. ASSUME NEW a \in Nat, FetchTrap(a)
        PROVE  Registers /\ Rest
    <3>1. Registers
      BY <2>2, TrapType, 12 \in Nat DEF FetchTrap, PageFaultTrap
    <3>2. Rest
      BY <2>2, LoopTestType DEF FetchTrap, PageFaultTrap, deviceVars, TypeOK
    <3>3. QED
      BY <3>1, <3>2
  <2>3. ASSUME NEW a \in {pc, pc + 2}, FetchFault(a)
        PROVE  Registers /\ Rest
    BY <2>2, <2>3 DEF FetchFault, TypeOK
  <2>4. CASE FetchStaleFault
    BY <2>2, <2>4 DEF FetchStaleFault, TypeOK
  <2>5. CASE Ecall
    <3>1. 8 + privilege \in Nat
      BY DEF TypeOK, Privileges, USER_MODE, SUPERVISOR_MODE, MACHINE_MODE
    <3>2. Registers
      BY <2>5, <3>1, TrapType, 0 \in Nat, FALSE \in BOOLEAN DEF Ecall
    <3>3. Rest
      BY <2>5, LoopTestType DEF Ecall, Retire, faultVars, deviceVars, TypeOK
    <3>4. QED
      BY <3>2, <3>3
  <2>6. ASSUME NEW c \in {13, 15}, NEW a \in DataAddress, AccessFault(c, a)
        PROVE  Registers /\ Rest
    <3>1. a \in Nat
      BY GuestAssumption
    <3>2. Registers
      BY <2>6, <3>1, TrapType DEF AccessFault, PageFaultTrap
    <3>3. Rest
      BY <2>6, <3>1, LoopTestType
      DEF AccessFault, PageFaultTrap, Retire, deviceVars, TypeOK
    <3>4. QED
      BY <3>2, <3>3
  <2>7. QED
    BY <2>1, <2>3, <2>4, <2>5, <2>6 DEF Trapping
<1>2. privilege' \in Privileges
  BY <1>1 DEF Level, Privileges
<1>3. GlobalEnable(privilege') \in BOOLEAN
  BY DEF GlobalEnable
<1>4. /\ live' \in SUBSET Level
      /\ frame' \in [Level -> Frame]
      /\ failed' \in SUBSET Nat
  BY <1>1, <1>3 DEF RecordTrap, TypeOK, Frame
<1>5. QED
  BY <1>1, <1>2, <1>4 DEF TypeOK

\* Every step that neither traps nor returns nor writes a CSR preserves the
\* types.
LEMMA RunningType ==
  ASSUME TypeOK, Running, RecordRunning
  PROVE  TypeOK'
<1>0. UNCHANGED <<live, frame>> /\ failed' \in SUBSET Nat
  BY GuestAssumption DEF RecordRunning, TypeOK
<1> USE <1>0 DEF vars, statusVars, trapVars, faultVars, deviceVars, flagVars
<1>1. ASSUME NEW timerFired \in BOOLEAN, PollInterruptSources(timerFired)
      PROVE  TypeOK'
  <2>1. mip' \in SUBSET Bit
    BY <1>1 DEF PollInterruptSources, TypeOK, Bit
  <2>2. csrs' \in [BitCsr -> SUBSET Bit]
    BY <1>1, ApplyTypes DEF PollInterruptSources, TypeOK
  <2>3. QED
    BY <1>1, <2>1, <2>2 DEF PollInterruptSources, TypeOK
<1>2. CASE NoPendingInterrupt \/ Fetch \/ Terminated
  BY <1>2 DEF NoPendingInterrupt, Fetch, Terminated, TypeOK
<1>3. CASE FetchThrows \/ MretThrows \/ \E c \in {3, 5, 11} : UnsupportedInterrupt(c)
  BY <1>3 DEF FetchThrows, MretThrows, UnsupportedInterrupt, Abort, TypeOK
<1>4. ASSUME NEW target \in Code, Compute(target)
      PROVE  TypeOK'
  BY <1>4, GuestAssumption, LoopTestType DEF Compute, Retire, TypeOK
<1>5. CASE ReturnToHost
  BY <1>5, LoopTestType DEF ReturnToHost, Retire, TypeOK
<1>6. ASSUME NEW width \in {2, 4}, InstructionError(width)
      PROVE  TypeOK'
  BY <1>6, GuestAssumption, LoopTestType
  DEF InstructionError, Sequential, Retire, TypeOK
<1>7. ASSUME NEW end \in BOOLEAN, SystemCall(end)
      PROVE  TypeOK'
  BY <1>7, GuestAssumption, LoopTestType
  DEF SystemCall, Sequential, Retire, TypeOK
<1>8. ASSUME NEW a \in AmoAddress, AmoFault(a)
      PROVE  TypeOK'
  BY <1>8, GuestAssumption, LoopTestType
  DEF AmoFault, Sequential, Retire, TypeOK
<1>9. ASSUME NEW raised, NEW end \in BOOLEAN, NEW error \in {FALSE, end},
             PeripheralEmulations(raised, end, error)
      PROVE  TypeOK'
  BY <1>9, LoopTestType DEF PeripheralEmulations, TypeOK
<1>10. QED
  BY <1>1, <1>2, <1>3, <1>4, <1>5, <1>6, <1>7, <1>8, <1>9 DEF Running

\* A return from a trap preserves the types.
LEMMA ReturnType ==
  ASSUME TypeOK,
         \/ Mret /\ RecordReturn(MACHINE_MODE)
         \/ Sret /\ RecordReturn(SUPERVISOR_MODE)
  PROVE  TypeOK'
<1>1. /\ mstatus' \in SUBSET Bit
      /\ csrs' = ApplyMstatusToCsr(csrs, mstatus')
  BY StatusTypes DEF Mret, Sret
<1>2. csrs' \in [BitCsr -> SUBSET Bit]
  BY <1>1, ApplyTypes DEF TypeOK
<1>3. privilege' \in Privileges
  BY DEF Mret, Sret, Spp, Privileges, USER_MODE, SUPERVISOR_MODE
<1>4. next_pc' \in Nat
  BY DEF Mret, Sret, TypeOK, Level
<1>5. live' \in SUBSET Level
  BY DEF RecordReturn, TypeOK
<1>6. phase' \in {"peripheral", "done", "poll"}
  BY LoopTestType DEF Mret, Sret, Retire
<1>7. error_flag' \in BOOLEAN /\ end_flag' \in BOOLEAN
  BY DEF Mret, Sret, Retire
<1>8. QED
  BY <1>1, <1>2, <1>3, <1>4, <1>5, <1>6, <1>7
  DEF Mret, Sret, Retire, RecordReturn, trapVars, faultVars, deviceVars, TypeOK

\* A guest write to a CSR preserves the types.
LEMMA WriteType ==
  ASSUME TypeOK,
         NEW levels, RecordWrite(levels),
         \/ \E w \in CsrWrites : CsrsInstruction(w)
         \/ \E w \in AddressWrites : AddressCsrInstruction(w)
  PROVE  TypeOK'
<1> USE DEF RecordWrite, trapVars, faultVars, deviceVars
<1>1. ASSUME NEW w \in CsrWrites, CsrsInstruction(w)
      PROVE  TypeOK'
  <2>1. CsrValue(w) \in SUBSET Bit /\ w.csr \in BitCsr
    BY CsrValueType
  <2>2. /\ mstatus' \in SUBSET Bit
        /\ mip' \in SUBSET Bit
        /\ mie' \in SUBSET Bit
    BY <1>1, <2>1, UpdateTypes DEF CsrsInstruction, UpdateStatus, TypeOK
  <2>3. csrs' \in [BitCsr -> SUBSET Bit]
    BY <1>1, <2>1, <2>2, ApplyTypes DEF CsrsInstruction, UpdateStatus, TypeOK
  <2>4. QED
    BY <1>1, <2>2, <2>3, GuestAssumption, LoopTestType
    DEF CsrsInstruction, Sequential, Retire, TypeOK
<1>2. ASSUME NEW w \in AddressWrites, AddressCsrInstruction(w)
      PROVE  TypeOK'
  <2>1. w.level \in Level /\ w.value \in Nat
    BY GuestAssumption DEF AddressWrite
  <2>2. epc' \in [Level -> Nat] /\ tvec' \in [Level -> Nat]
    BY <1>2, <2>1 DEF AddressCsrInstruction, TypeOK
  <2>3. QED
    BY <1>2, <2>2, GuestAssumption, LoopTestType
    DEF AddressCsrInstruction, Sequential, Retire, TypeOK
<1>3. QED
  BY <1>1, <1>2

\* Every step preserves the types.
LEMMA TypeStep ==
  TypeOK /\ [FrameNext]_allVars => TypeOK'
<1> SUFFICES ASSUME TypeOK, [FrameNext]_allVars
             PROVE  TypeOK'
  OBVIOUS
<1>1. CASE Trapping /\ RecordTrap
  BY <1>1, TrappingType
<1>2. CASE Mret /\ RecordReturn(MACHINE_MODE)
  BY <1>2, ReturnType
<1>3. CASE Sret /\ RecordReturn(SUPERVISOR_MODE)
  BY <1>3, ReturnType
<1>4. ASSUME NEW w \in CsrWrites, CsrsInstruction(w),
             RecordWrite(Overwritten(w.csr))
      PROVE  TypeOK'
  BY <1>4, WriteType
<1>5. ASSUME NEW w \in AddressWrites, AddressCsrInstruction(w),
             RecordWrite(IF w.csr = "EPC" THEN {w.level} ELSE {})
      PROVE  TypeOK'
  BY <1>5, WriteType
<1>6. CASE Running /\ RecordRunning
  BY <1>6, RunningType
<1>7. CASE UNCHANGED allVars
  BY <1>7 DEF allVars, historyVars, vars, statusVars, trapVars, faultVars,
     deviceVars, flagVars, TypeOK
<1>8. QED
  BY <1>1, <1>2, <1>3, <1>4, <1>5, <1>6, <1>7 DEF FrameNext

\* The registers and flags of RunCpu always hold values of their kinds.
THEOREM TypeCorrect == FrameSpec => []TypeOK
<1>1. FrameInit => TypeOK
  <2> SUFFICES ASSUME FrameInit PROVE TypeOK
    OBVIOUS
  <2>1. mstatus \in SUBSET Bit
    BY MaskTypes DEF FrameInit, Init
  <2>2. csrs \in [BitCsr -> SUBSET Bit]
    BY <2>1, ApplyTypes DEF FrameInit, Init
  <2>3. next_pc \in Nat
    BY GuestAssumption DEF FrameInit, Init
  <2>4. frame \in [Level -> Frame]
    BY DEF FrameInit, HistoryInit, Frame, Privileges
  <2>5. QED
    BY <2>1, <2>2, <2>3, <2>4 DEF FrameInit, Init, HistoryInit, TypeOK,
       Privileges
<1>2. QED
  BY <1>1, TypeStep, PTL DEF FrameSpec
-----------------------------------------------------------------------------
(* The two copies of the status and enable registers.                      *)

\* What the steps outside Trapping, Mret, Sret and the CSR instructions leave
\* alone.
LEMMA RunningKeeps ==
  ASSUME Running
  PROVE  /\ UNCHANGED <<privilege, mstatus, mie, tvec, epc, cause, tval>>
         /\ csrs' = csrs \/ csrs' = ApplyInterruptEnable(csrs, mie)
BY DEF Running, PollInterruptSources, NoPendingInterrupt, UnsupportedInterrupt,
       Abort, Fetch, FetchThrows, Compute, ReturnToHost, InstructionError,
       SystemCall, MretThrows, AmoFault, PeripheralEmulations, Terminated,
       vars, statusVars, trapVars

\* Every step that traps goes through Trap once.
LEMMA TrappingTraps ==
  ASSUME TypeOK, Trapping
  PROVE  \E c \in Nat, interrupt \in BOOLEAN, address \in Nat :
           Trap(c, interrupt, address)
<1>1. ASSUME NEW c \in SupportedInterrupts, TakeInterrupt(c)
      PROVE  c \in Nat /\ Trap(c, TRUE, 0)
  <2>1. c \in Nat
    BY DEF SupportedInterrupts
  <2>2. QED
    BY <1>1, <2>1 DEF TakeInterrupt
<1>2. ASSUME NEW a \in {pc, pc + 2}, FetchFault(a)
      PROVE  a \in Nat /\ Trap(12, FALSE, a)
  <2>1. a \in Nat
    BY DEF TypeOK
  <2>2. QED
    BY <1>2, <2>1 DEF FetchFault, FetchTrap, PageFaultTrap
<1>3. ASSUME FetchStaleFault
      PROVE  faulting_address \in Nat /\ Trap(12, FALSE, faulting_address)
  BY <1>3 DEF FetchStaleFault, FetchTrap, PageFaultTrap, TypeOK
<1>4. ASSUME Ecall
      PROVE  8 + privilege \in Nat /\ Trap(8 + privilege, FALSE, 0)
  <2>1. 8 + privilege \in Nat
    BY DEF TypeOK, Privileges, USER_MODE, SUPERVISOR_MODE, MACHINE_MODE
  <2>2. QED
    BY <1>4, <2>1 DEF Ecall
<1>5. ASSUME NEW c \in {13, 15}, NEW a \in DataAddress, AccessFault(c, a)
      PROVE  c \in Nat /\ a \in Nat /\ Trap(c, FALSE, a)
  <2>1. c \in Nat /\ a \in Nat
    BY GuestAssumption
  <2>2. QED
    BY <1>5, <2>1 DEF AccessFault, PageFaultTrap
<1>6. 0 \in Nat /\ 12 \in Nat
  OBVIOUS
<1>7. QED
  BY <1>1, <1>2, <1>3, <1>4, <1>5, <1>6 DEF Trapping

\* The views after each of the three refreshes.
LEMMA AppliedViews ==
  ASSUME NEW c \in [BitCsr -> SUBSET Bit], NEW m \in SUBSET Bit
  PROVE  /\ ApplyMstatusToCsr(c, m)["MSTATUS"] = m
         /\ ApplyMstatusToCsr(c, m)["SSTATUS"] = m \cap SstatusMask
         /\ ApplyMstatusToCsr(c, m)["USTATUS"] = m \cap UstatusMask
         /\ ApplyInterruptEnable(c, m)["MIE"] = m
         /\ ApplyInterruptEnable(c, m)["SIE"] = m \cap SipMask
         /\ ApplyInterruptEnable(c, m)["UIE"] = m \cap UipMask
         /\ \A r \in BitCsr \ StatusCsr : ApplyMstatusToCsr(c, m)[r] = c[r]
         /\ \A r \in BitCsr \ PendingCsr : ApplyInterruptPending(c, m)[r] = c[r]
         /\ \A r \in BitCsr \ EnableCsr : ApplyInterruptEnable(c, m)[r] = c[r]
BY DEF ApplyMstatusToCsr, ApplyInterruptPending, ApplyInterruptEnable, BitCsr,
       StatusCsr, PendingCsr, EnableCsr

\* The members mstatus_ and mie_ and the six CSRs that show them agree in
\* every state, so that the privilege VirtualToPhysical derives from
\* csrs_[MSTATUS] is the one Trap, MRET and SRET maintain.
THEOREM ViewsAgree == FrameSpec => []StatusViews
<1> DEFINE StatusAgrees(c, m) ==
      /\ c["MSTATUS"] = m
      /\ c["SSTATUS"] = m \cap SstatusMask
      /\ c["USTATUS"] = m \cap UstatusMask
    EnableAgrees(c, e) ==
      /\ c["MIE"] = e
      /\ c["SIE"] = e \cap SipMask
      /\ c["UIE"] = e \cap UipMask
<1>0. StatusViews <=> StatusAgrees(csrs, mstatus) /\ EnableAgrees(csrs, mie)
  BY DEF StatusViews
<1>0a. StatusViews' <=> StatusAgrees(csrs', mstatus') /\ EnableAgrees(csrs', mie')
  BY DEF StatusViews
<1>a. ASSUME NEW c \in [BitCsr -> SUBSET Bit], NEW m \in SUBSET Bit, NEW e
      PROVE  /\ StatusAgrees(ApplyMstatusToCsr(c, m), m)
             /\ EnableAgrees(ApplyMstatusToCsr(c, m), e) <=> EnableAgrees(c, e)
  BY AppliedViews DEF BitCsr, StatusCsr, EnableCsr
<1>b. ASSUME NEW c \in [BitCsr -> SUBSET Bit], NEW e \in SUBSET Bit, NEW m
      PROVE  /\ EnableAgrees(ApplyInterruptEnable(c, e), e)
             /\ StatusAgrees(ApplyInterruptEnable(c, e), m) <=> StatusAgrees(c, m)
  BY AppliedViews DEF BitCsr, StatusCsr, EnableCsr
<1>c. ASSUME NEW c \in [BitCsr -> SUBSET Bit], NEW p \in SUBSET Bit, NEW m, NEW e
      PROVE  /\ StatusAgrees(ApplyInterruptPending(c, p), m) <=> StatusAgrees(c, m)
             /\ EnableAgrees(ApplyInterruptPending(c, p), e) <=> EnableAgrees(c, e)
  BY AppliedViews DEF BitCsr, StatusCsr, EnableCsr, PendingCsr
<1>1. FrameInit => StatusViews
  <2> SUFFICES ASSUME FrameInit PROVE StatusViews
    OBVIOUS
  <2> DEFINE zero == [r \in BitCsr |-> {}]
  <2>1. zero \in [BitCsr -> SUBSET Bit] /\ mstatus \in SUBSET Bit
    BY MaskTypes DEF FrameInit, Init
  <2>2. EnableAgrees(zero, mie)
    BY DEF FrameInit, Init, BitCsr, EnableCsr
  <2>3. csrs = ApplyMstatusToCsr(zero, mstatus)
    BY DEF FrameInit, Init
  <2> HIDE DEF zero, StatusAgrees, EnableAgrees
  <2>4. QED
    BY <1>0, <1>a, <2>1, <2>2, <2>3
<1>2. TypeOK /\ TypeOK' /\ StatusViews /\ [FrameNext]_allVars => StatusViews'
  <2> SUFFICES ASSUME TypeOK, TypeOK', StatusViews, [FrameNext]_allVars
               PROVE  StatusViews'
    OBVIOUS
  <2>0. /\ csrs \in [BitCsr -> SUBSET Bit]
        /\ mstatus' \in SUBSET Bit /\ mip' \in SUBSET Bit /\ mie' \in SUBSET Bit
        /\ mie \in SUBSET Bit
    BY DEF TypeOK
  <2> HIDE DEF StatusAgrees, EnableAgrees
  <2>1. CASE Trapping /\ RecordTrap
    <3>1. PICK c \in Nat, interrupt \in BOOLEAN, address \in Nat :
            Trap(c, interrupt, address)
      BY <2>1, TrappingTraps
    <3> DEFINE pending == IF interrupt /\ c \notin {1, 3}
                          THEN ApplyInterruptPending(csrs, mip') ELSE csrs
    <3>2. /\ csrs' = ApplyMstatusToCsr(pending, mstatus')
          /\ mie' = mie
      BY <3>1 DEF Trap
    <3>3. pending \in [BitCsr -> SUBSET Bit] /\ EnableAgrees(pending, mie)
      BY <2>0, <1>0, <1>c, ApplyTypes
    <3> HIDE DEF pending
    <3>4. QED
      BY <3>2, <3>3, <2>0, <1>0a, <1>a
  <2>2. CASE Mret \/ Sret
    <3>1. csrs' = ApplyMstatusToCsr(csrs, mstatus') /\ mie' = mie
      BY <2>2 DEF Mret, Sret
    <3>2. QED
      BY <3>1, <2>0, <1>0, <1>0a, <1>a
  <2>3. ASSUME NEW w \in CsrWrites, CsrsInstruction(w)
        PROVE  StatusViews'
    <3>1. UpdateStatus(w.csr, CsrValue(w))
      BY <2>3 DEF CsrsInstruction
    <3>2. CASE csrs' = ApplyMstatusToCsr(csrs, mstatus') /\ mie' = mie
      BY <3>2, <2>0, <1>0, <1>0a, <1>a
    <3>3. CASE /\ csrs' = ApplyInterruptPending(csrs, mip')
               /\ mstatus' = mstatus /\ mie' = mie
      BY <3>3, <2>0, <1>0, <1>0a, <1>c
    <3>4. CASE csrs' = ApplyInterruptEnable(csrs, mie') /\ mstatus' = mstatus
      BY <3>4, <2>0, <1>0, <1>0a, <1>b
    <3>5. CASE /\ \/ csrs' = [csrs EXCEPT !["MEDELEG"] = CsrValue(w)]
                  \/ csrs' = [csrs EXCEPT !["MIDELEG"] = CsrValue(w)]
               /\ mstatus' = mstatus /\ mie' = mie
      BY <3>5, <2>0, <1>0, <1>0a
      DEF StatusAgrees, EnableAgrees, BitCsr, StatusCsr, EnableCsr
    <3>6. QED
      BY <3>1, <3>2, <3>3, <3>4, <3>5 DEF UpdateStatus
  <2>4. ASSUME NEW w \in AddressWrites, AddressCsrInstruction(w)
        PROVE  StatusViews'
    BY <2>4 DEF AddressCsrInstruction, StatusViews
  <2>5. CASE Running /\ RecordRunning
    <3>1. /\ mstatus' = mstatus /\ mie' = mie
          /\ csrs' = csrs \/ csrs' = ApplyInterruptEnable(csrs, mie)
      BY <2>5, RunningKeeps
    <3>2. QED
      BY <3>1, <2>0, <1>0, <1>0a, <1>b
  <2>6. CASE UNCHANGED allVars
    BY <2>6 DEF allVars, vars, statusVars, StatusViews
  <2>7. QED
    BY <2>1, <2>2, <2>3, <2>4, <2>5, <2>6 DEF FrameNext
<1>3. QED
  BY <1>1, <1>2, TypeCorrect, PTL DEF FrameSpec
-----------------------------------------------------------------------------
(* The CSRs that show mip_.                                                *)

\* UIP, SIP and MIP agree with each other and show no interrupt that is not
\* pending; what they miss are interrupts that the timer or a device raised.
THEOREM PendingShown == FrameSpec => []PendingViews
<1> DEFINE Shown(c, p) ==
      /\ c["MIP"] \subseteq p
      /\ p \ c["MIP"] \subseteq {7, 9}
      /\ c["SIP"] = c["MIP"] \cap SipMask
      /\ c["UIP"] = c["MIP"] \cap UipMask
<1>0. PendingViews <=> Shown(csrs, mip)
  BY DEF PendingViews
<1>0a. PendingViews' <=> Shown(csrs', mip')
  BY DEF PendingViews
<1>a. ASSUME NEW c \in [BitCsr -> SUBSET Bit], NEW m \in SUBSET Bit, NEW p
      PROVE  /\ Shown(ApplyMstatusToCsr(c, m), p) <=> Shown(c, p)
             /\ Shown(ApplyInterruptEnable(c, m), p) <=> Shown(c, p)
  BY AppliedViews DEF BitCsr, StatusCsr, EnableCsr, PendingCsr
<1>b. ASSUME NEW c \in [BitCsr -> SUBSET Bit], NEW p \in SUBSET Bit
      PROVE  Shown(ApplyInterruptPending(c, p), p)
  BY DEF ApplyInterruptPending, BitCsr, PendingCsr
<1>1. FrameInit => PendingViews
  <2> SUFFICES ASSUME FrameInit PROVE PendingViews
    OBVIOUS
  <2> DEFINE zero == [r \in BitCsr |-> {}]
  <2>1. zero \in [BitCsr -> SUBSET Bit] /\ mstatus \in SUBSET Bit
    BY MaskTypes DEF FrameInit, Init
  <2>2. Shown(zero, mip)
    BY DEF FrameInit, Init, BitCsr, PendingCsr
  <2>3. csrs = ApplyMstatusToCsr(zero, mstatus)
    BY DEF FrameInit, Init
  <2> HIDE DEF zero, Shown
  <2>4. QED
    BY <1>0, <1>a, <2>1, <2>2, <2>3
<1>2. TypeOK /\ TypeOK' /\ PendingViews /\ [FrameNext]_allVars => PendingViews'
  <2> SUFFICES ASSUME TypeOK, TypeOK', PendingViews, [FrameNext]_allVars
               PROVE  PendingViews'
    OBVIOUS
  <2>0. /\ csrs \in [BitCsr -> SUBSET Bit]
        /\ mstatus' \in SUBSET Bit /\ mip' \in SUBSET Bit /\ mie' \in SUBSET Bit
        /\ mie \in SUBSET Bit
    BY DEF TypeOK
  <2>a. ASSUME NEW more \in SUBSET {7, 9}, mip' = mip \cup more
        PROVE  Shown(csrs, mip')
    BY <2>a, <1>0
  <2> HIDE DEF Shown
  <2>1. CASE Trapping /\ RecordTrap
    <3>1. PICK c \in Nat, interrupt \in BOOLEAN, address \in Nat :
            Trap(c, interrupt, address)
      BY <2>1, TrappingTraps
    <3>2. CASE interrupt /\ c \notin {1, 3}
      <4>1. csrs' = ApplyMstatusToCsr(ApplyInterruptPending(csrs, mip'), mstatus')
        BY <3>1, <3>2 DEF Trap
      <4>2. ApplyInterruptPending(csrs, mip') \in [BitCsr -> SUBSET Bit]
        BY <2>0, ApplyTypes
      <4>3. QED
        BY <4>1, <4>2, <2>0, <1>0a, <1>a, <1>b
    <3>3. CASE ~(interrupt /\ c \notin {1, 3})
      <4>1. csrs' = ApplyMstatusToCsr(csrs, mstatus') /\ mip' = mip
        BY <3>1, <3>3 DEF Trap
      <4>2. QED
        BY <4>1, <2>0, <1>0, <1>0a, <1>a
    <3>4. QED
      BY <3>2, <3>3
  <2>2. CASE Mret \/ Sret
    <3>1. csrs' = ApplyMstatusToCsr(csrs, mstatus') /\ mip' = mip
      BY <2>2 DEF Mret, Sret
    <3>2. QED
      BY <3>1, <2>0, <1>0, <1>0a, <1>a
  <2>3. ASSUME NEW w \in CsrWrites, CsrsInstruction(w)
        PROVE  PendingViews'
    <3>1. UpdateStatus(w.csr, CsrValue(w))
      BY <2>3 DEF CsrsInstruction
    <3>2. CASE csrs' = ApplyMstatusToCsr(csrs, mstatus') /\ mip' = mip
      BY <3>2, <2>0, <1>0, <1>0a, <1>a
    <3>3. CASE csrs' = ApplyInterruptPending(csrs, mip')
      BY <3>3, <2>0, <1>0a, <1>b
    <3>4. CASE csrs' = ApplyInterruptEnable(csrs, mie') /\ mip' = mip
      BY <3>4, <2>0, <1>0, <1>0a, <1>a
    <3>5. CASE /\ \/ csrs' = [csrs EXCEPT !["MEDELEG"] = CsrValue(w)]
                  \/ csrs' = [csrs EXCEPT !["MIDELEG"] = CsrValue(w)]
               /\ mip' = mip
      BY <3>5, <2>0, <1>0, <1>0a DEF Shown, BitCsr, PendingCsr
    <3>6. QED
      BY <3>1, <3>2, <3>3, <3>4, <3>5 DEF UpdateStatus
  <2>4. ASSUME NEW w \in AddressWrites, AddressCsrInstruction(w)
        PROVE  PendingViews'
    BY <2>4 DEF AddressCsrInstruction, PendingViews
  <2>5. CASE Running /\ RecordRunning
    <3>1. csrs' = csrs \/ csrs' = ApplyInterruptEnable(csrs, mie)
      BY <2>5, RunningKeeps
    <3>2. PICK more \in SUBSET {7, 9} : mip' = mip \cup more
      <4>1. ASSUME NEW timerFired \in BOOLEAN, PollInterruptSources(timerFired)
            PROVE  \E more \in SUBSET {7, 9} : mip' = mip \cup more
        <5>1. mip' = mip \cup ((IF timerFired THEN {7} ELSE {})
                       \cup (IF virtio_interrupt \/ uart_interrupt THEN {9} ELSE {}))
          BY <4>1 DEF PollInterruptSources
        <5>2. QED
          BY <5>1
      <4>2. CASE mip' = mip
        <5>1. {} \in SUBSET {7, 9} /\ mip' = mip \cup {}
          BY <4>2
        <5>2. QED
          BY <5>1
      <4>3. QED
        BY <2>5, <4>1, <4>2
        DEF Running, NoPendingInterrupt, UnsupportedInterrupt, Abort, Fetch,
            FetchThrows, Compute, ReturnToHost, InstructionError, SystemCall,
            MretThrows, AmoFault, PeripheralEmulations, Terminated, vars,
            statusVars
    <3>3. QED
      BY <3>1, <3>2, <2>0, <2>a, <1>0a, <1>a
  <2>6. CASE UNCHANGED allVars
    BY <2>6 DEF allVars, vars, statusVars, PendingViews
  <2>7. QED
    BY <2>1, <2>2, <2>3, <2>4, <2>5, <2>6 DEF FrameNext
<1>3. QED
  BY <1>1, <1>2, TypeCorrect, PTL DEF FrameSpec
-----------------------------------------------------------------------------
(* The hardwired fields of mstatus_.                                       *)

\* Trap, MRET and SRET touch only the bits 1, 3, 5, 7, 8, 9, 11 and 12.
LEMMA StatusBits ==
  ASSUME NEW b, b \notin {1, 3, 5, 7, 8, 9, 11, 12}
  PROVE  /\ \A level : b \in TrapStatus(level) <=> b \in mstatus
         /\ b \in MretStatus <=> b \in mstatus
         /\ b \in SretStatus <=> b \in mstatus
BY DEF TrapStatus, MretStatus, SretStatus, WithBit

\* SD, XS and FS stay zero and SXL and UXL of a 64 bit hart stay 2, whatever
\* the guest writes to MSTATUS, SSTATUS and USTATUS and however often it traps
\* and returns.
THEOREM HardwiredFields == FrameSpec => []HardwiredStatus
<1> DEFINE Fixed == {XLEN - 1, 13, 14, 15, 16}
                    \cup (IF XLEN = 64 THEN 32 .. 35 ELSE {})
    Ok(m) == /\ m \cap SdXsFs = {}
             /\ XLEN = 64 => m \cap 32 .. 35 = {33, 35}
<1>1. \A b \in Fixed : b \notin {1, 3, 5, 7, 8, 9, 11, 12}
  BY ConfigurationAssumption
<1>2. ASSUME NEW m, NEW n, \A b \in Fixed : b \in m <=> b \in n, Ok(m)
      PROVE  Ok(n)
  <2>1. SdXsFs \subseteq Fixed /\ (XLEN = 64 => 32 .. 35 \subseteq Fixed)
    BY DEF SdXsFs
  <2>2. n \cap SdXsFs = m \cap SdXsFs
    BY <1>2, <2>1
  <2>3. XLEN = 64 => n \cap 32 .. 35 = m \cap 32 .. 35
    BY <1>2, <2>1
  <2>4. QED
    BY <1>2, <2>2, <2>3
<1>3. \A m : Ok(Legalize(m))
  BY ConfigurationAssumption DEF Legalize, SdXsFs, XlBits
<1>4. FrameInit => HardwiredStatus
  BY ConfigurationAssumption DEF FrameInit, Init, XlBits, HardwiredStatus, SdXsFs
<1>5. TypeOK /\ HardwiredStatus /\ [FrameNext]_allVars => HardwiredStatus'
  <2> SUFFICES ASSUME TypeOK, HardwiredStatus, [FrameNext]_allVars
               PROVE  Ok(mstatus')
    BY DEF HardwiredStatus
  <2>0. Ok(mstatus)
    BY DEF HardwiredStatus
  <2> HIDE DEF Ok, Fixed
  <2>1. CASE Trapping /\ RecordTrap
    <3>1. \E level : mstatus' = TrapStatus(level)
      BY <2>1, TrappingTraps DEF Trap
    <3>2. QED
      BY <3>1, <2>0, <1>1, <1>2, StatusBits
  <2>2. CASE Mret \/ Sret
    <3>1. mstatus' = MretStatus \/ mstatus' = SretStatus
      BY <2>2 DEF Mret, Sret
    <3>2. QED
      BY <3>1, <2>0, <1>1, <1>2, StatusBits
  <2>3. ASSUME NEW w \in CsrWrites, CsrsInstruction(w)
        PROVE  Ok(mstatus')
    <3>1. mstatus' = mstatus \/ \E m : mstatus' = Legalize(m)
      BY <2>3 DEF CsrsInstruction, UpdateStatus, UpdateMstatus
    <3>2. QED
      BY <3>1, <2>0, <1>3
  <2>4. ASSUME NEW w \in AddressWrites, AddressCsrInstruction(w)
        PROVE  Ok(mstatus')
    BY <2>0, <2>4 DEF AddressCsrInstruction
  <2>5. CASE Running /\ RecordRunning
    BY <2>0, <2>5, RunningKeeps
  <2>6. CASE UNCHANGED allVars
    BY <2>0, <2>6 DEF allVars, vars, statusVars
  <2>7. QED
    BY <2>1, <2>2, <2>3, <2>4, <2>5, <2>6 DEF FrameNext
<1>6. QED
  BY <1>4, <1>5, TypeCorrect, PTL DEF FrameSpec

-----------------------------------------------------------------------------
(* Frames.                                                                 *)

\* The bits of mstatus_ that hold the frame of a level and its enable.
FrameBits(l) == IF l = MACHINE_MODE THEN {3, 7, 11, 12} ELSE {1, 5, 8}

\* FrameIntact for one level.
Intact(l) ==
  /\ epc[l] = frame[l].pc
  /\ SavedPrivilege(l) = frame[l].privilege
  /\ PreviousEnable(l) = frame[l].enabled
  /\ ~EnableBit(l)
  /\ privilege >= l
  /\ frame[l].privilege <= l
  /\ frame[l].privilege < l => frame[l].enabled

\* A step that leaves a level's bits, xEPC and history alone, at that level or
\* above, leaves its frame intact.
LEMMA FrameKept ==
  ASSUME TypeOK, NEW l \in Level, Intact(l),
         \A b \in FrameBits(l) : b \in mstatus' <=> b \in mstatus,
         epc'[l] = epc[l], frame'[l] = frame[l], privilege' >= l
  PROVE  Intact(l)'
<1>1. CASE l = MACHINE_MODE
  BY <1>1 DEF Intact, FrameBits, SavedPrivilege, PreviousEnable, EnableBit, Mpp
<1>2. CASE l = SUPERVISOR_MODE
  BY <1>2 DEF Intact, FrameBits, SavedPrivilege, PreviousEnable, EnableBit, Spp,
     SUPERVISOR_MODE, MACHINE_MODE
<1>3. QED
  BY <1>1, <1>2 DEF Level

\* Trap makes an intact frame at the level it is taken to.
LEMMA TrapMakesFrame ==
  ASSUME TypeOK, NEW c, NEW interrupt, NEW address,
         Trap(c, interrupt, address), RecordTrap,
         NEW level, level = TrapLevel(c, interrupt)
  PROVE  Intact(level)'
<1>1. /\ level \in Level /\ privilege <= level
      /\ privilege' = level
      /\ mstatus' = TrapStatus(level)
  BY TrapLevelType DEF Trap
<1>2. /\ epc'[level] = pc
      /\ frame'[level] = [pc |-> pc, privilege |-> privilege,
                          enabled |-> GlobalEnable(level), failed |-> failed]
  BY <1>1 DEF Trap, RecordTrap, TypeOK
<1> USE DEF USER_MODE, SUPERVISOR_MODE, MACHINE_MODE
<1>3. CASE level = MACHINE_MODE
  <2>1. 3 \notin mstatus' /\ (7 \in mstatus' <=> GlobalEnable(level))
    BY <1>1, <1>3 DEF TrapStatus, WithBit
  <2>2. /\ 11 \in mstatus' <=> privilege # USER_MODE
        /\ 12 \in mstatus' <=> privilege = MACHINE_MODE
    BY <1>1, <1>3 DEF TrapStatus, WithBit
  <2>3. Mpp(mstatus') = privilege
    BY <2>2 DEF Mpp, TypeOK, Privileges
  <2>4. GlobalEnable(level) \in BOOLEAN
    BY DEF GlobalEnable
  <2>5. privilege < level => GlobalEnable(level)
    BY <1>3 DEF GlobalEnable, TypeOK, Privileges
  <2>6. QED
    BY <1>1, <1>2, <1>3, <2>1, <2>3, <2>4, <2>5
    DEF Intact, SavedPrivilege, PreviousEnable, EnableBit, Mpp
<1>4. CASE level = SUPERVISOR_MODE
  <2>1. 1 \notin mstatus' /\ (5 \in mstatus' <=> GlobalEnable(level))
    BY <1>1, <1>4 DEF TrapStatus, WithBit
  <2>2. 8 \in mstatus' <=> privilege = SUPERVISOR_MODE
    BY <1>1, <1>4 DEF TrapStatus, WithBit
  <2>3. Spp(mstatus') = privilege
    BY <1>1, <1>4, <2>2 DEF Spp, TypeOK, Privileges
  <2>4. GlobalEnable(level) \in BOOLEAN
    BY DEF GlobalEnable
  <2>5. privilege < level => GlobalEnable(level)
    BY <1>4 DEF GlobalEnable, TypeOK, Privileges
  <2>6. QED
    BY <1>1, <1>2, <1>4, <2>1, <2>3, <2>4, <2>5
    DEF Intact, SavedPrivilege, PreviousEnable, EnableBit, Spp
<1>5. QED
  BY <1>1, <1>3, <1>4 DEF Level

\* Every step leaves the frames intact.
LEMMA FrameStep ==
  ASSUME TypeOK, TypeOK', FrameIntact, [FrameNext]_allVars
  PROVE  FrameIntact'
<1> USE DEF USER_MODE, SUPERVISOR_MODE, MACHINE_MODE
<1>0. \A l \in live : l \in Level /\ Intact(l)
  BY DEF FrameIntact, Intact, TypeOK
<1> SUFFICES ASSUME NEW l \in live' PROVE Intact(l)'
  BY DEF FrameIntact, Intact
<1>a. l \in Level
  BY DEF TypeOK
<1>1. CASE Trapping /\ RecordTrap
  <2>1. PICK c \in Nat, interrupt \in BOOLEAN, address \in Nat :
          Trap(c, interrupt, address)
    BY <1>1, TrappingTraps
  <2>2. PICK level : level = TrapLevel(c, interrupt)
    OBVIOUS
  <2>3. /\ privilege' = level /\ level \in Level /\ privilege <= level
        /\ mstatus' = TrapStatus(level)
    BY <2>1, <2>2, TrapLevelType DEF Trap
  <2>4. CASE l = level
    BY <2>1, <2>2, <2>4, <1>1, TrapMakesFrame
  <2>5. CASE l # level
    <3>1. l \in live
      BY <1>1, <2>3, <2>5 DEF RecordTrap
    <3>2. epc'[l] = epc[l] /\ frame'[l] = frame[l]
      BY <1>1, <1>a, <2>1, <2>2, <2>3, <2>5 DEF Trap, RecordTrap, TypeOK
    <3>3. level = MACHINE_MODE /\ l = SUPERVISOR_MODE
      <4>1. CASE level = SUPERVISOR_MODE
        <5>1. l = MACHINE_MODE
          BY <1>a, <2>5, <4>1 DEF Level
        <5>2. privilege >= l
          BY <1>0, <3>1 DEF Intact
        <5>3. QED
          BY <2>3, <4>1, <5>1, <5>2 DEF TypeOK, Privileges
      <4>2. QED
        BY <1>a, <2>3, <2>5, <4>1 DEF Level
    <3>4. \A b \in FrameBits(l) : b \in mstatus' <=> b \in mstatus
      BY <2>3, <3>3 DEF FrameBits, TrapStatus, WithBit
    <3>5. privilege' >= l
      BY <2>3, <3>3
    <3>6. QED
      BY <1>0, <1>a, <3>1, <3>2, <3>4, <3>5, FrameKept
  <2>6. QED
    BY <2>4, <2>5
<1>2. CASE Mret /\ RecordReturn(MACHINE_MODE)
  <2>1. /\ l \in live /\ l = SUPERVISOR_MODE /\ l <= privilege'
        /\ epc' = epc /\ frame' = frame /\ mstatus' = MretStatus
    BY <1>2, <1>a DEF Mret, RecordReturn, Level, trapVars
  <2>2. \A b \in FrameBits(l) : b \in mstatus' <=> b \in mstatus
    BY <2>1 DEF FrameBits, MretStatus, WithBit
  <2>3. privilege' >= l
    BY <2>1 DEF TypeOK, Privileges
  <2>4. QED
    BY <1>0, <1>a, <2>1, <2>2, <2>3, FrameKept
<1>3. CASE Sret /\ RecordReturn(SUPERVISOR_MODE)
  <2>1. l = MACHINE_MODE /\ l <= privilege' /\ privilege' = Spp(mstatus)
    BY <1>3, <1>a DEF Sret, RecordReturn, Level
  <2>2. QED
    BY <2>1 DEF Spp
<1>4. ASSUME NEW w \in CsrWrites, CsrsInstruction(w),
             RecordWrite(Overwritten(w.csr))
      PROVE  Intact(l)'
  <2>1. /\ l \in live /\ l \notin Overwritten(w.csr)
        /\ epc' = epc /\ frame' = frame /\ privilege' = privilege
    BY <1>4 DEF CsrsInstruction, RecordWrite, trapVars
  <2>2. \A b \in FrameBits(l) : b \in mstatus' <=> b \in mstatus
    <3>1. CASE mstatus' = mstatus
      BY <3>1
    <3>2. CASE mstatus' # mstatus
      <4>1. /\ w.csr \in StatusCsr
            /\ mstatus' = UpdateMstatus(w.csr, CsrValue(w))
        BY <1>4, <3>2 DEF CsrsInstruction, UpdateStatus
      <4>2. w.csr = "SSTATUS" \/ w.csr = "USTATUS"
        <5>1. CASE w.csr = "MSTATUS"
          BY <1>a, <2>1, <5>1 DEF Overwritten
        <5>2. QED
          BY <4>1, <5>1 DEF StatusCsr
      <4>3. \A b \in FrameBits(l) :
              /\ b \notin SdXsFs /\ b \notin 32 .. 35 /\ b \notin XlBits
        BY ConfigurationAssumption DEF FrameBits, SdXsFs, XlBits
      <4>4. \A m : \A b \in FrameBits(l) : b \in Legalize(m) <=> b \in m
        BY <4>3 DEF Legalize
      <4>5. CASE w.csr = "SSTATUS"
        <5>1. l = MACHINE_MODE
          BY <1>a, <2>1, <4>5 DEF Overwritten, Level
        <5>2. \A b \in FrameBits(l) : b \notin SstatusMask
          BY <5>1, ConfigurationAssumption DEF FrameBits, SstatusMask
        <5>3. mstatus' = Legalize(Merge(mstatus, CsrValue(w), SstatusMask))
          BY <4>1, <4>5 DEF UpdateMstatus
        <5>4. QED
          BY <4>4, <5>2, <5>3 DEF Merge
      <4>6. CASE w.csr = "USTATUS"
        <5>1. \A b \in FrameBits(l) : b \notin UstatusMask
          BY DEF FrameBits, UstatusMask
        <5>2. mstatus' = Legalize(Merge(mstatus, CsrValue(w), UstatusMask))
          BY <4>1, <4>6 DEF UpdateMstatus
        <5>3. QED
          BY <4>4, <5>1, <5>2 DEF Merge
      <4>7. QED
        BY <4>2, <4>5, <4>6
    <3>3. QED
      BY <3>1, <3>2
  <2>3. QED
    BY <1>0, <1>a, <2>1, <2>2, FrameKept DEF Intact
<1>5. ASSUME NEW w \in AddressWrites, AddressCsrInstruction(w),
             RecordWrite(IF w.csr = "EPC" THEN {w.level} ELSE {})
      PROVE  Intact(l)'
  <2>1. /\ l \in live /\ frame' = frame /\ privilege' = privilege
        /\ mstatus' = mstatus
    BY <1>5 DEF AddressCsrInstruction, RecordWrite
  <2>2. w.level \in Level
    BY GuestAssumption DEF AddressWrite
  <2>3. epc'[l] = epc[l]
    BY <1>5, <1>a, <2>2 DEF AddressCsrInstruction, RecordWrite, TypeOK
  <2>4. QED
    BY <1>0, <1>a, <2>1, <2>3, FrameKept DEF Intact
<1>6. CASE Running /\ RecordRunning
  BY <1>0, <1>a, <1>6, RunningKeeps, FrameKept DEF RecordRunning, Intact
<1>7. CASE UNCHANGED allVars
  BY <1>0, <1>a, <1>7, FrameKept
  DEF allVars, historyVars, vars, statusVars, trapVars, Intact
<1>8. QED
  BY <1>1, <1>2, <1>3, <1>4, <1>5, <1>6, <1>7 DEF FrameNext

\* While a trap has not been returned from and the guest has not overwritten
\* its saved state, xEPC, xPP and xPIE describe the interrupted code, whatever
\* traps, returns and writes through narrower views come in between.
THEOREM FramesIntact == FrameSpec => []FrameIntact
<1>1. FrameInit => FrameIntact
  BY DEF FrameInit, HistoryInit, FrameIntact
<1>2. TypeOK /\ TypeOK' /\ FrameIntact /\ [FrameNext]_allVars => FrameIntact'
  BY FrameStep
<1>3. QED
  BY <1>1, <1>2, TypeCorrect, PTL DEF FrameSpec

-----------------------------------------------------------------------------
(* What a step may never do.                                               *)

\* MRET and SRET resume exactly what their trap interrupted.
THEOREM ReturnsResume == FrameSpec => ReturnResumes
<1> USE DEF USER_MODE, SUPERVISOR_MODE, MACHINE_MODE
<1>1. ASSUME TypeOK, FrameIntact, Mret, MACHINE_MODE \in live
      PROVE  /\ next_pc' = frame[MACHINE_MODE].pc
             /\ privilege' = frame[MACHINE_MODE].privilege
             /\ GlobalEnable(MACHINE_MODE)' = frame[MACHINE_MODE].enabled
  <2>1. /\ epc[3] = frame[3].pc
        /\ Mpp(mstatus) = frame[3].privilege
        /\ (7 \in mstatus) = frame[3].enabled
        /\ frame[3].privilege < 3 => frame[3].enabled
    BY <1>1 DEF FrameIntact, SavedPrivilege, PreviousEnable
  <2>2. /\ next_pc' = epc[3] /\ privilege' = Mpp(mstatus)
        /\ 3 \in mstatus' <=> 7 \in mstatus
    BY <1>1 DEF Mret, MretStatus, WithBit
  <2>3. privilege' \in Privileges
    BY <1>1 DEF Mret
  <2>4. frame[3].enabled \in BOOLEAN
    BY <1>1 DEF TypeOK, Frame, Level
  <2>5. QED
    BY <2>1, <2>2, <2>3, <2>4 DEF GlobalEnable, Privileges
<1>2. ASSUME TypeOK, FrameIntact, Sret, SUPERVISOR_MODE \in live
      PROVE  /\ next_pc' = frame[SUPERVISOR_MODE].pc
             /\ privilege' = frame[SUPERVISOR_MODE].privilege
             /\ GlobalEnable(SUPERVISOR_MODE)' = frame[SUPERVISOR_MODE].enabled
  <2>1. /\ epc[1] = frame[1].pc
        /\ Spp(mstatus) = frame[1].privilege
        /\ (5 \in mstatus) = frame[1].enabled
        /\ frame[1].privilege < 1 => frame[1].enabled
    BY <1>2 DEF FrameIntact, SavedPrivilege, PreviousEnable
  <2>2. /\ next_pc' = epc[1] /\ privilege' = Spp(mstatus)
        /\ 1 \in mstatus' <=> 5 \in mstatus
    BY <1>2 DEF Sret, SretStatus, WithBit
  <2>3. privilege' \in {0, 1}
    BY <2>2 DEF Spp
  <2>4. frame[1].enabled \in BOOLEAN
    BY <1>2 DEF TypeOK, Frame, Level
  <2>5. QED
    BY <2>1, <2>2, <2>3, <2>4 DEF GlobalEnable
<1> DEFINE Step ==
      /\ Mret /\ MACHINE_MODE \in live =>
           /\ next_pc' = frame[MACHINE_MODE].pc
           /\ privilege' = frame[MACHINE_MODE].privilege
           /\ GlobalEnable(MACHINE_MODE)' = frame[MACHINE_MODE].enabled
      /\ Sret /\ SUPERVISOR_MODE \in live =>
           /\ next_pc' = frame[SUPERVISOR_MODE].pc
           /\ privilege' = frame[SUPERVISOR_MODE].privilege
           /\ GlobalEnable(SUPERVISOR_MODE)' = frame[SUPERVISOR_MODE].enabled
<1>3. TypeOK /\ FrameIntact => Step
  BY <1>1, <1>2
<1>4. FrameSpec => [][Step]_allVars
  BY <1>3, TypeCorrect, FramesIntact, PTL
<1>5. QED
  BY <1>4 DEF ReturnResumes

\* With option -m, an interrupt that is taken finds the interrupts of its
\* level enabled.
LEMMA EnabledWhenTaken ==
  ASSUME DisableMachineInterruptDelegation, TypeOK,
         NEW c \in SupportedInterrupts, TakeInterrupt(c)
  PROVE  GlobalEnable(TrapLevel(c, TRUE))
<1> USE DEF USER_MODE, SUPERVISOR_MODE, MACHINE_MODE
<1>1. \/ c \in {1, 9} /\ GlobalEnable(1)
      \/ c = 7 /\ GlobalEnable(3)
  BY DEF TakeInterrupt, Chosen, Deliverable, SupportedInterrupts
<1>2. privilege \in {0, 1, 3}
  BY DEF TypeOK, Privileges
<1>3. c = 7 => TrapLevel(c, TRUE) = 3
  BY DEF TrapLevel, MidelegMask
<1>4. GlobalEnable(1) => GlobalEnable(3)
  BY <1>2 DEF GlobalEnable
<1>5. TrapLevel(c, TRUE) \in {1, 3}
  BY DEF TrapLevel
<1>6. QED
  BY <1>1, <1>3, <1>4, <1>5

\* With option -m no interrupt is taken to a level that has a frame: handlers
\* are entered again only after they return or re-enable interrupts.
THEOREM NoNesting ==
  ASSUME DisableMachineInterruptDelegation
  PROVE  FrameSpec => NoNestedInterrupt
<1> USE DEF USER_MODE, SUPERVISOR_MODE, MACHINE_MODE
<1>1. ASSUME TypeOK, FrameIntact,
             NEW c \in SupportedInterrupts, TakeInterrupt(c)
      PROVE  privilege' \notin live
  <2>1. /\ privilege' = TrapLevel(c, TRUE)
        /\ GlobalEnable(privilege')
    BY <1>1, EnabledWhenTaken DEF TakeInterrupt, Trap
  <2>2. SUFFICES ASSUME privilege' \in live PROVE FALSE
    OBVIOUS
  <2>3. PICK l \in live : l = privilege'
    BY <2>2
  <2>4. ~EnableBit(l) /\ privilege >= l
    BY <1>1 DEF FrameIntact
  <2>5. l \in {1, 3} /\ privilege \in {0, 1, 3}
    BY <1>1 DEF TypeOK, Level, Privileges
  <2>6. l = 1 => privilege # 3
    BY <2>1, <2>3 DEF TrapLevel
  <2>7. GlobalEnable(l)
    BY <2>1, <2>3
  <2>8. CASE l = 3
    BY <2>4, <2>5, <2>7, <2>8 DEF GlobalEnable, EnableBit
  <2>9. CASE l = 1
    BY <2>4, <2>5, <2>6, <2>7, <2>9 DEF GlobalEnable, EnableBit
  <2>10. QED
    BY <2>5, <2>8, <2>9
<1> DEFINE Step == \A c \in SupportedInterrupts :
                     TakeInterrupt(c) => privilege' \notin live
<1>2. TypeOK /\ FrameIntact => Step
  BY <1>1
<1>3. FrameSpec => [][Step]_allVars
  BY <1>2, TypeCorrect, FramesIntact, PTL
<1>4. QED
  BY <1>3 DEF NoNestedInterrupt
-----------------------------------------------------------------------------
(* Page faults: none is overlooked, and none is taken for another.         *)

\* Only an AMO leaves page_fault_ up behind it, with its address; and no
\* instruction executes while the flag is up.
Held ==
  /\ failed = IF page_fault THEN {faulting_address} ELSE {}
  /\ phase = "execute" => ~page_fault

\* A step that runs Trap lowers the flag, unless it is an interrupt, which
\* leaves the fault to the next fetch.
LEMMA HeldByTraps ==
  ASSUME Held, Trapping, RecordTrap
  PROVE  Held'
<1>1. phase' # "execute"
  BY DEF Trapping, TakeInterrupt, FetchFault, FetchStaleFault, FetchTrap,
     Ecall, AccessFault, Retire, LoopTest
<1>2. CASE \E c \in SupportedInterrupts : TakeInterrupt(c)
  BY <1>1, <1>2 DEF TakeInterrupt, RecordTrap, Held, faultVars
<1>3. CASE FetchStaleFault \/ \E a \in {pc, pc + 2} : FetchFault(a)
  BY <1>1, <1>3 DEF FetchFault, FetchStaleFault, FetchTrap, PageFaultTrap,
     RecordTrap, Held
<1>4. CASE Ecall
  BY <1>1, <1>4 DEF Ecall, RecordTrap, Held, faultVars
<1>5. CASE \E c \in {13, 15}, a \in DataAddress : AccessFault(c, a)
  BY <1>1, <1>5 DEF AccessFault, PageFaultTrap, RecordTrap, Held
<1>6. QED
  BY <1>2, <1>3, <1>4, <1>5 DEF Trapping

\* A step that neither traps, returns nor writes a CSR: the AMO that fails
\* raises the flag, the fetch passes only while it is down.
LEMMA HeldWhileRunning ==
  ASSUME Held, Running, RecordRunning
  PROVE  Held'
<1>1. ASSUME NEW a \in AmoAddress, AmoFault(a)
      PROVE  Held'
  <2>1. /\ page_fault' /\ faulting_address' = a /\ phase = "execute"
        /\ phase' # "execute"
    BY <1>1 DEF AmoFault, Retire, LoopTest
  <2>2. {b \in AmoAddress : AmoFault(b)} = {a}
    BY <1>1 DEF AmoFault
  <2>3. failed' = {a}
    BY <2>1, <2>2 DEF RecordRunning
  <2>4. QED
    BY <2>1, <2>3 DEF Held
<1>2. CASE ~ \E a \in AmoAddress : AmoFault(a)
  <2>1. UNCHANGED <<page_fault, faulting_address>>
    BY <1>2 DEF Running, PollInterruptSources, NoPendingInterrupt,
       UnsupportedInterrupt, Abort, Fetch, FetchThrows, Compute, ReturnToHost,
       InstructionError, SystemCall, MretThrows, PeripheralEmulations,
       Terminated, vars, faultVars
  <2>2. {b \in AmoAddress : AmoFault(b)} = {}
    BY <1>2
  <2>3. failed' = failed
    BY <2>2 DEF RecordRunning, Held
  <2>4. CASE Fetch
    BY <2>1, <2>3, <2>4 DEF Fetch, Held
  <2>5. CASE Terminated
    BY <2>1, <2>3, <2>5 DEF Terminated, vars, Held
  <2>6. CASE ~Fetch /\ ~Terminated
    <3>1. phase' # "execute"
      BY <1>2, <2>6 DEF Running, PollInterruptSources, NoPendingInterrupt,
         UnsupportedInterrupt, Abort, FetchThrows, Compute, ReturnToHost,
         InstructionError, SystemCall, MretThrows, PeripheralEmulations,
         Retire, LoopTest
    <3>2. QED
      BY <2>1, <2>3, <3>1 DEF Held
  <2>7. QED
    BY <2>4, <2>5, <2>6
<1>3. QED
  BY <1>1, <1>2

\* The flag and the AMO that raised it agree after every step.
LEMMA FaultHeld == FrameSpec => []Held
<1>1. FrameInit => Held
  BY DEF FrameInit, Init, HistoryInit, Held
<1>2. Held /\ [FrameNext]_allVars => Held'
  <2> SUFFICES ASSUME Held, [FrameNext]_allVars PROVE Held'
    OBVIOUS
  <2>1. CASE Trapping /\ RecordTrap
    BY <2>1, HeldByTraps
  <2>2. ASSUME phase = "execute", phase' # "execute", UNCHANGED faultVars,
               failed' = {}
        PROVE  Held'
    BY <2>2 DEF Held, faultVars
  <2>3. CASE \/ Mret /\ RecordReturn(MACHINE_MODE)
             \/ Sret /\ RecordReturn(SUPERVISOR_MODE)
    BY <2>2, <2>3 DEF Mret, Sret, RecordReturn, Retire, LoopTest
  <2>4. ASSUME NEW w, NEW levels,
               CsrsInstruction(w) \/ AddressCsrInstruction(w),
               RecordWrite(levels)
        PROVE  Held'
    BY <2>2, <2>4 DEF CsrsInstruction, AddressCsrInstruction, RecordWrite,
       Retire, LoopTest
  <2>5. CASE Running /\ RecordRunning
    BY <2>5, HeldWhileRunning
  <2>6. CASE UNCHANGED allVars
    BY <2>6 DEF allVars, vars, faultVars, historyVars, Held
  <2>7. QED
    BY <2>1, <2>3, <2>4, <2>5, <2>6 DEF FrameNext
<1>3. QED
  BY <1>1, <1>2, PTL DEF FrameSpec

\* The fault of an AMO is not lost, although AmoInstruction does not look at
\* page_fault_: interrupts may come first, but no instruction executes before
\* the hart takes an instruction page fault that names the address of the AMO,
\* or that of the next instruction if it cannot be fetched either.
THEOREM AmoFaultsReported == FrameSpec => AmoFaultReported
<1> DEFINE Step ==
      failed # {} =>
        /\ phase # "execute"
        /\ failed' # failed =>
             /\ cause'[privilege'] = [code |-> 12, interrupt |-> FALSE]
             /\ tval'[privilege'] \in failed \cup {pc}
<1>1. TypeOK /\ Held /\ [FrameNext]_allVars => Step
  <2> SUFFICES ASSUME TypeOK, Held, [FrameNext]_allVars, failed # {}
               PROVE  Step
    OBVIOUS
  <2>1. phase # "execute" /\ page_fault /\ failed = {faulting_address}
    BY DEF Held
  <2>2. ASSUME NEW a, FetchTrap(a), a \in failed \cup {pc}
        PROVE  Step
    <3>1. Trap(12, FALSE, a)
      BY <2>2 DEF FetchTrap, PageFaultTrap
    <3>2. PICK level \in Level : privilege' = level /\ level = TrapLevel(12, FALSE)
      BY <3>1, TrapLevelType DEF Trap
    <3>3. /\ cause'[level] = [code |-> 12, interrupt |-> FALSE]
          /\ tval'[level] = a
      BY <3>1, <3>2 DEF Trap, TypeOK
    <3>4. QED
      BY <2>1, <2>2, <3>2, <3>3
  <2>3. CASE Trapping /\ RecordTrap
    <3>1. CASE \E c \in SupportedInterrupts : TakeInterrupt(c)
      BY <2>1, <2>3, <3>1 DEF TakeInterrupt, RecordTrap
    <3>2. CASE FetchStaleFault
      BY <2>1, <2>2, <3>2 DEF FetchStaleFault
    <3>3. ASSUME NEW a \in {pc, pc + 2}, FetchFault(a)
          PROVE  Step
      <4>1. a = pc /\ FetchTrap(a)
        BY <2>1, <3>3 DEF FetchFault
      <4>2. QED
        BY <2>2, <4>1
    <3>4. QED
      BY <2>1, <2>3, <3>1, <3>2, <3>3 DEF Trapping, Ecall, AccessFault
  <2>4. CASE \/ Mret \/ Sret
             \/ \E w \in CsrWrites : CsrsInstruction(w)
             \/ \E w \in AddressWrites : AddressCsrInstruction(w)
    BY <2>1, <2>4 DEF Mret, Sret, CsrsInstruction, AddressCsrInstruction
  <2>5. CASE Running /\ RecordRunning
    BY <2>1, <2>5 DEF RecordRunning
  <2>6. CASE UNCHANGED allVars
    BY <2>1, <2>6 DEF allVars, historyVars
  <2>7. QED
    BY <2>3, <2>4, <2>5, <2>6 DEF FrameNext
<1>2. FrameSpec => [][Step]_allVars
  BY <1>1, TypeCorrect, FaultHeld, PTL DEF FrameSpec
<1>3. QED
  BY <1>2 DEF AmoFaultReported

\* xTVAL of a level's handler for an instruction page fault.
Reported(l) ==
  cause[l] = [code |-> 12, interrupt |-> FALSE] =>
    tval[l] \in {frame[l].pc, frame[l].pc + 2} \cup frame[l].failed

\* What each step that traps reports: its cause and the address with it.
LEMMA TrapReports ==
  ASSUME TypeOK, Held, Trapping
  PROVE  \E c \in Nat, interrupt \in BOOLEAN, address \in Nat :
           /\ Trap(c, interrupt, address)
           /\ c = 12 /\ ~interrupt => address \in {pc, pc + 2} \cup failed
<1> DEFINE Report(c, interrupt, address) ==
      /\ Trap(c, interrupt, address)
      /\ c = 12 /\ ~interrupt => address \in {pc, pc + 2} \cup failed
<1>1. ASSUME NEW c \in SupportedInterrupts, TakeInterrupt(c)
      PROVE  c \in Nat /\ Report(c, TRUE, 0)
  <2>1. c \in Nat /\ c # 12
    BY DEF SupportedInterrupts
  <2>2. Trap(c, TRUE, 0)
    BY <1>1 DEF TakeInterrupt
  <2>3. QED
    BY <2>1, <2>2
<1>2. ASSUME NEW a \in {pc, pc + 2}, FetchFault(a)
      PROVE  a \in Nat /\ Report(12, FALSE, a)
  <2>1. a \in Nat
    BY DEF TypeOK
  <2>2. Trap(12, FALSE, a)
    BY <1>2 DEF FetchFault, FetchTrap, PageFaultTrap
  <2>3. QED
    BY <2>1, <2>2
<1>3. ASSUME FetchStaleFault
      PROVE  /\ faulting_address \in Nat
             /\ Report(12, FALSE, faulting_address)
  <2>1. Trap(12, FALSE, faulting_address) /\ page_fault
    BY <1>3 DEF FetchStaleFault, FetchTrap, PageFaultTrap
  <2>2. faulting_address \in failed /\ faulting_address \in Nat
    BY <2>1 DEF Held, TypeOK
  <2>3. QED
    BY <2>1, <2>2
<1>4. ASSUME Ecall
      PROVE  8 + privilege \in Nat /\ Report(8 + privilege, FALSE, 0)
  <2>1. 8 + privilege \in Nat /\ 8 + privilege # 12
    BY DEF TypeOK, Privileges, USER_MODE, SUPERVISOR_MODE, MACHINE_MODE
  <2>2. Trap(8 + privilege, FALSE, 0)
    BY <1>4 DEF Ecall
  <2>3. QED
    BY <2>1, <2>2
<1>5. ASSUME NEW c \in {13, 15}, NEW a \in DataAddress, AccessFault(c, a)
      PROVE  c \in Nat /\ a \in Nat /\ Report(c, FALSE, a)
  <2>1. c \in Nat /\ a \in Nat /\ c # 12
    BY GuestAssumption
  <2>2. Trap(c, FALSE, a)
    BY <1>5 DEF AccessFault, PageFaultTrap
  <2>3. QED
    BY <2>1, <2>2
<1>6. 0 \in Nat /\ 12 \in Nat
  OBVIOUS
<1> HIDE DEF Report
<1>7. \E c \in Nat, interrupt \in BOOLEAN, address \in Nat :
        Report(c, interrupt, address)
  BY <1>1, <1>2, <1>3, <1>4, <1>5, <1>6 DEF Trapping
<1>8. QED
  BY <1>7 DEF Report

\* A handler for an instruction page fault finds in xTVAL an address of the
\* instruction at xEPC, or that of the AMO that failed right before it.
THEOREM FetchFaultsNamed == FrameSpec => []FetchFaultReported
<1>0. /\ FetchFaultReported <=> \A l \in live : Reported(l)
      /\ FetchFaultReported' <=> \A l \in live' : Reported(l)'
  BY DEF FetchFaultReported, Reported
<1>1. FrameInit => FetchFaultReported
  BY DEF FrameInit, HistoryInit, FetchFaultReported
<1>2. /\ TypeOK /\ Held /\ FetchFaultReported /\ [FrameNext]_allVars
      => FetchFaultReported'
  <2> SUFFICES ASSUME TypeOK, Held, FetchFaultReported, [FrameNext]_allVars
               PROVE  FetchFaultReported'
    OBVIOUS
  <2>1. CASE Trapping /\ RecordTrap
    <3>1. PICK c \in Nat, interrupt \in BOOLEAN, address \in Nat :
            /\ Trap(c, interrupt, address)
            /\ c = 12 /\ ~interrupt => address \in {pc, pc + 2} \cup failed
      BY <2>1, TrapReports
    <3>2. PICK level \in Level : /\ level = TrapLevel(c, interrupt)
                                 /\ privilege' = level
      BY <3>1, TrapLevelType DEF Trap
    <3>3. /\ cause' = [cause EXCEPT ![level] = [code |-> c, interrupt |-> interrupt]]
          /\ tval' = [tval EXCEPT ![level] = address]
      BY <3>1, <3>2 DEF Trap
    <3>4. Reported(level)'
      <4>1. frame'[level].pc = pc /\ frame'[level].failed = failed
        BY <2>1, <3>2 DEF RecordTrap, TypeOK
      <4>2. /\ cause'[level] = [code |-> c, interrupt |-> interrupt]
            /\ tval'[level] = address
        BY <3>2, <3>3 DEF TypeOK
      <4>3. ASSUME cause'[level] = [code |-> 12, interrupt |-> FALSE]
            PROVE  c = 12 /\ ~interrupt
        BY <4>2, <4>3
      <4>4. QED
        BY <3>1, <4>1, <4>2, <4>3 DEF Reported
    <3>5. ASSUME NEW l \in live', l # level
          PROVE  Reported(l)'
      <4>1. l \in live /\ l \in Level
        BY <2>1, <3>2, <3>5 DEF RecordTrap, TypeOK
      <4>2. Reported(l)
        BY <4>1, <1>0
      <4>3. cause'[l] = cause[l] /\ tval'[l] = tval[l] /\ frame'[l] = frame[l]
        BY <2>1, <3>2, <3>3, <3>5, <4>1 DEF RecordTrap, TypeOK
      <4>4. QED
        BY <4>2, <4>3 DEF Reported
    <3>6. QED
      BY <3>4, <3>5, <1>0
  <2>2. ASSUME UNCHANGED <<cause, tval, frame>>, live' \subseteq live
        PROVE  FetchFaultReported'
    BY <2>2 DEF FetchFaultReported
  <2>3. CASE \/ Mret /\ RecordReturn(MACHINE_MODE)
             \/ Sret /\ RecordReturn(SUPERVISOR_MODE)
    BY <2>2, <2>3 DEF Mret, Sret, RecordReturn, trapVars
  <2>4. ASSUME NEW w, NEW levels,
               CsrsInstruction(w) \/ AddressCsrInstruction(w),
               RecordWrite(levels)
        PROVE  FetchFaultReported'
    BY <2>2, <2>4 DEF CsrsInstruction, AddressCsrInstruction, RecordWrite,
       trapVars
  <2>5. CASE Running /\ RecordRunning
    BY <2>2, <2>5, RunningKeeps DEF RecordRunning
  <2>6. CASE UNCHANGED allVars
    BY <2>2, <2>6 DEF allVars, vars, trapVars, historyVars
  <2>7. QED
    BY <2>1, <2>3, <2>4, <2>5, <2>6 DEF FrameNext
<1>3. QED
  BY <1>1, <1>2, TypeCorrect, FaultHeld, PTL DEF FrameSpec

-----------------------------------------------------------------------------
(* The assert of Trap and the exception of IntToPrivilegeMode.             *)

\* MPP is not the reserved encoding, and no interrupt is enabled that Trap does
\* not support.
Implemented(m, e) ==
  /\ 12 \in m => 11 \in m
  /\ e \cap {3, 5, 11} = {}

\* MPP then encodes a privilege.
LEMMA MppLegal ==
  ASSUME NEW m, 12 \in m => 11 \in m
  PROVE  Mpp(m) \in Privileges
BY DEF Mpp, Privileges, USER_MODE, SUPERVISOR_MODE, MACHINE_MODE

\* Legalize, and with it a write through SSTATUS or USTATUS, leaves MPP alone.
LEMMA MppKept ==
  ASSUME NEW b \in {11, 12}, NEW written
  PROVE  /\ \A m : b \in Legalize(m) <=> b \in m
         /\ b \in UpdateMstatus("SSTATUS", written) <=> b \in mstatus
         /\ b \in UpdateMstatus("USTATUS", written) <=> b \in mstatus
         /\ b \in UpdateMstatus("MSTATUS", written) <=> b \in written
<1>1. \A m : b \in Legalize(m) <=> b \in m
  BY ConfigurationAssumption DEF Legalize, SdXsFs, XlBits
<1>2. b \notin SstatusMask /\ b \notin UstatusMask
  BY DEF SstatusMask, UstatusMask
<1>3. QED
  BY <1>1, <1>2 DEF UpdateMstatus, Merge

\* A legal write to MSTATUS stores a legal MPP.
LEMMA MppStored ==
  ASSUME TypeOK, StatusViews, 12 \in mstatus => 11 \in mstatus,
         NEW w \in CsrWrites, LegalWrite(w), w.csr = "MSTATUS"
  PROVE  12 \in CsrValue(w) => 11 \in CsrValue(w)
<1>1. csrs[w.csr] = mstatus
  BY DEF StatusViews
<1>2. 11 \notin 0 .. 4 /\ 12 \notin 0 .. 4 /\ 11 \in 0 .. 31 /\ 12 \in 0 .. 31
  OBVIOUS
<1>3. w.instruction \in CsrInstruction
  BY GuestAssumption DEF CsrWrite
<1>4. QED
  BY <1>1, <1>2, <1>3 DEF CsrValue, CsrInstruction, LegalWrite

\* A legal write to an enable register enables nothing that Trap refuses.
LEMMA EnableStored ==
  ASSUME TypeOK, StatusViews, mie \cap {3, 5, 11} = {},
         NEW w \in CsrWrites, LegalWrite(w), w.csr \in EnableCsr
  PROVE  UpdateInterruptEnable(w.csr, CsrValue(w)) \cap {3, 5, 11} = {}
<1>1. csrs[w.csr] \subseteq mie
  BY DEF StatusViews, EnableCsr
<1>2. w.instruction \in CsrInstruction
  BY GuestAssumption DEF CsrWrite
<1>3. CsrValue(w) \cap {3, 5, 11} = {}
  BY <1>1, <1>2 DEF CsrValue, CsrInstruction, LegalWrite
<1>4. QED
  BY <1>3 DEF UpdateInterruptEnable, Merge

\* While MPP and mie_ are legal no step stops the emulator.
LEMMA NoAbort ==
  ASSUME TypeOK, StatusViews, Implemented(mstatus, mie), FrameNext
  PROVE  aborted' = aborted
<1>1. Mpp(mstatus) \in Privileges
  BY MppLegal DEF Implemented
<1>2. ~MretThrows
  BY <1>1 DEF MretThrows
<1>3. EffectivePrivilege \in Privileges
  BY <1>1 DEF EffectivePrivilege, StatusViews, TypeOK
<1>4. ~FetchThrows
  BY <1>3 DEF FetchThrows
<1>5. \A c \in {3, 5, 11} : ~UnsupportedInterrupt(c)
  BY DEF UnsupportedInterrupt, Chosen, Deliverable, Implemented
<1>6. CASE Trapping
  BY <1>6 DEF Trapping, TakeInterrupt, FetchFault, FetchStaleFault, FetchTrap,
     Ecall, AccessFault, Retire, flagVars
<1>7. CASE Running
  BY <1>2, <1>4, <1>5, <1>7
  DEF Running, PollInterruptSources, NoPendingInterrupt, Fetch, Compute,
      ReturnToHost, InstructionError, SystemCall, AmoFault,
      PeripheralEmulations, Terminated, Retire, flagVars, vars
<1>8. CASE Mret \/ Sret
  BY <1>8 DEF Mret, Sret, Retire
<1>9. CASE \/ \E w \in CsrWrites : CsrsInstruction(w)
           \/ \E w \in AddressWrites : AddressCsrInstruction(w)
  BY <1>9 DEF CsrsInstruction, AddressCsrInstruction, Retire
<1>10. QED
  BY <1>6, <1>7, <1>8, <1>9 DEF FrameNext

\* Every step of a guest whose writes are legal keeps MPP and mie_ legal.
LEMMA ImplementedStep ==
  ASSUME TypeOK, StatusViews, Implemented(mstatus, mie), FrameNext,
         \A w \in CsrWrites : LegalWrite(w)
  PROVE  Implemented(mstatus', mie')
<1>0. (12 \in mstatus => 11 \in mstatus) /\ mie \cap {3, 5, 11} = {}
  BY DEF Implemented
<1>1. CASE Trapping
  <2>1. PICK level \in Level : mstatus' = TrapStatus(level) /\ mie' = mie
    BY <1>1, TrappingTraps, TrapLevelType DEF Trap
  <2>2. 12 \in TrapStatus(level) => 11 \in TrapStatus(level)
    BY <1>0 DEF TrapStatus, WithBit, USER_MODE, MACHINE_MODE
  <2>3. QED
    BY <1>0, <2>1, <2>2 DEF Implemented
<1>2. CASE Mret \/ Sret
  <2>1. mie' = mie /\ (mstatus' = MretStatus \/ mstatus' = SretStatus)
    BY <1>2 DEF Mret, Sret
  <2>2. 12 \notin MretStatus
    BY DEF MretStatus
  <2>3. /\ 11 \in SretStatus <=> 11 \in mstatus
        /\ 12 \in SretStatus <=> 12 \in mstatus
    BY DEF SretStatus, WithBit
  <2>4. QED
    BY <1>0, <2>1, <2>2, <2>3 DEF Implemented
<1>3. ASSUME NEW w \in CsrWrites, CsrsInstruction(w)
      PROVE  Implemented(mstatus', mie')
  <2>1. UpdateStatus(w.csr, CsrValue(w))
    BY <1>3 DEF CsrsInstruction
  <2>2. CASE /\ w.csr \in StatusCsr /\ mie' = mie
             /\ mstatus' = UpdateMstatus(w.csr, CsrValue(w))
    <3>1. w.csr = "MSTATUS" => (12 \in CsrValue(w) => 11 \in CsrValue(w))
      BY <1>0, MppStored
    <3>2. 12 \in mstatus' => 11 \in mstatus'
      BY <1>0, <2>2, <3>1, MppKept DEF StatusCsr
    <3>3. QED
      BY <1>0, <2>2, <3>2 DEF Implemented
  <2>3. CASE /\ w.csr \in EnableCsr /\ mstatus' = mstatus
             /\ mie' = UpdateInterruptEnable(w.csr, CsrValue(w))
    BY <1>0, <2>3, EnableStored DEF Implemented
  <2>4. CASE mstatus' = mstatus /\ mie' = mie
    BY <1>0, <2>4 DEF Implemented
  <2>5. QED
    BY <2>1, <2>2, <2>3, <2>4 DEF UpdateStatus
<1>4. CASE \E w \in AddressWrites : AddressCsrInstruction(w)
  BY <1>0, <1>4 DEF AddressCsrInstruction, Implemented
<1>5. CASE Running
  BY <1>0, <1>5, RunningKeeps DEF Implemented
<1>6. QED
  BY <1>1, <1>2, <1>3, <1>4, <1>5 DEF FrameNext

\* A guest that never writes the reserved MPP and never enables an interrupt
\* the hart does not support cannot reach the assert of Trap or the exception
\* of IntToPrivilegeMode.
THEOREM NoAbortHolds == FrameSpec => []NeverAborts
<1> DEFINE Legal == \A w \in CsrWrites : LegalWrite(w)
    Inv == Legal => Implemented(mstatus, mie) /\ ~aborted
<1>1. FrameInit => Inv
  BY ConfigurationAssumption DEF FrameInit, Init, XlBits, Implemented
<1>2. TypeOK /\ StatusViews /\ Inv /\ [FrameNext]_allVars => Inv'
  <2>1. TypeOK /\ StatusViews /\ Inv /\ FrameNext => Inv'
    BY NoAbort, ImplementedStep
  <2>2. Inv /\ UNCHANGED allVars => Inv'
    BY DEF allVars, vars, statusVars, flagVars
  <2>3. QED
    BY <2>1, <2>2
<1>3. Inv => NeverAborts
  BY DEF NeverAborts
<1>4. QED
  BY <1>1, <1>2, <1>3, TypeCorrect, ViewsAgree, PTL DEF FrameSpec
=============================================================================
