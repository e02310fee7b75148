------------------------------ MODULE RiscvCpu ------------------------------
(***************************************************************************)
(* The hart of the emulator: the RunCpu loop of RISCV_cpu.cc with its      *)
(* privilege modes, the status / pending / enable registers, traps and     *)
(* returns from traps.                                                     *)
(*                                                                         *)
(* A register whose code is only masks and single bits (mstatus_, mip_,    *)
(* mie_ and the CSRs that show them) is the SET of its bits that are 1, so *)
(* an AND with a mask is an intersection and bitset() adds or removes an   *)
(* element.  Program counters and addresses are natural numbers.           *)
(*                                                                         *)
(* One iteration of the do-while loop of RunCpu is the walk                *)
(*     poll -> check -> fetch -> execute -> peripheral -> poll             *)
(* of the variable phase; every call the loop makes is one action.  The    *)
(* guest program, the page tables and the devices are the environment:     *)
(* which instruction is at pc, whether a translation faults and which      *)
(* device raises its flag are choices of the step.                         *)
(***************************************************************************)
EXTENDS Integers

CONSTANTS
  XLEN,                (* xlen_: 32 or 64                                  *)
  DisableMachineInterruptDelegation,  (* option -m                         *)
  EcallEmulation,      (* option -e                                        *)
  PeripheralEmulation, (* options -h or -d                                 *)
  Code,                (* bound: the addresses the guest executes at       *)
  DataAddress,         (* bound: the addresses of the guest's loads/stores *)
  AmoAddress,          (* bound: the addresses of the guest's AMOs         *)
  CsrWrites,           (* bound: the guest's writes to bit-valued CSRs     *)
  AddressWrites        (* bound: the guest's writes to xEPC and xTVEC      *)

USER_MODE       == 0
SUPERVISOR_MODE == 1
MACHINE_MODE    == 3
Privileges == {USER_MODE, SUPERVISOR_MODE, MACHINE_MODE}
\* The levels a trap can be taken to.
Level == {SUPERVISOR_MODE, MACHINE_MODE}

Bit == 0 .. 63

StatusCsr  == {"USTATUS", "SSTATUS", "MSTATUS"}
PendingCsr == {"UIP", "SIP", "MIP"}
EnableCsr  == {"UIE", "SIE", "MIE"}
BitCsr == StatusCsr \cup PendingCsr \cup EnableCsr \cup {"MEDELEG", "MIDELEG"}

CsrInstruction ==
  {"CSRRC", "CSRRCI", "CSRRS", "CSRRSI", "CSRRW", "CSRRWI"}

\* What a guest CSR instruction on a bit-valued register can be.
CsrWrite == [instruction: CsrInstruction, csr: BitCsr, operand: SUBSET Bit]
\* What a guest write to a trap vector or to a saved pc can be.
AddressWrite == [csr: {"EPC", "TVEC"}, level: Level, value: Nat]

ASSUME ConfigurationAssumption ==
  /\ XLEN \in {32, 64}
  /\ DisableMachineInterruptDelegation \in BOOLEAN
  /\ EcallEmulation \in BOOLEAN
  /\ PeripheralEmulation \in BOOLEAN

ASSUME GuestAssumption ==
  /\ Code \subseteq Nat
  /\ DataAddress \subseteq Nat
  /\ AmoAddress \subseteq Nat
  /\ \A w \in CsrWrites : w \in CsrWrite
  /\ \A w \in AddressWrites : w \in AddressWrite

VARIABLES
  phase,                 (* where the RunCpu loop is                       *)
  pc, next_pc,           (* pc_, next_pc_                                  *)
  privilege,             (* privilege_                                     *)
  mstatus, mip, mie,     (* mstatus_, mip_, mie_                           *)
  csrs,                  (* csrs_, the bit-valued ones                     *)
  epc, tvec, cause, tval,(* csrs_[xEPC], [xTVEC], [xCAUSE], [xTVAL]        *)
  page_fault, faulting_address,            (* page_fault_, ...             *)
  prev_page_fault, prev_faulting_address,  (* prev_page_fault_, ...        *)
  virtio_interrupt, uart_interrupt,        (* virtio_interrupt_, ...       *)
  error_flag, end_flag,  (* error_flag_, end_flag_                         *)
  aborted                (* a failed assert or an uncaught exception       *)

faultVars  == <<page_fault, faulting_address,
                prev_page_fault, prev_faulting_address>>
deviceVars == <<virtio_interrupt, uart_interrupt>>
flagVars   == <<error_flag, end_flag, aborted>>
trapVars   == <<epc, cause, tval>>
statusVars == <<privilege, mstatus, mip, mie, csrs, tvec>>
vars == <<phase, pc, next_pc, statusVars, trapVars, faultVars, deviceVars,
          flagVars>>

-----------------------------------------------------------------------------
(* Bits, masks and the CSRs that are views of mstatus_, mip_ and mie_.     *)

WithBit(reg, bit, on) == IF on THEN reg \cup {bit} ELSE reg \ {bit}

UstatusMask == {0, 4, 13, 14, 15, 16, 18, 19}
SstatusMask == {0, 1, 4, 5, 8, 13, 14, 15, 16, 18, 19}
               \cup (IF XLEN = 64 THEN {32, 33} ELSE {})
UipMask == {0, 4, 8}
SipMask == {0, 1, 4, 5, 8, 9}

ApplyMstatusToCsr(c, m) ==
  [c EXCEPT !["USTATUS"] = m \cap UstatusMask,
            !["SSTATUS"] = m \cap SstatusMask,
            !["MSTATUS"] = m]

\* Faulty variant: only the machine's view is refreshed.
ApplyInterruptPendingMachine(c, p) == [c EXCEPT !["MIP"] = p]

ApplyInterruptPending(c, p) ==
  [c EXCEPT !["UIP"] = p \cap UipMask,
            !["SIP"] = p \cap SipMask,
            !["MIP"] = p]

ApplyInterruptEnable(c, e) ==
  [c EXCEPT !["UIE"] = e \cap UipMask,
            !["SIE"] = e \cap SipMask,
            !["MIE"] = e]

\* Faulty variant: a write through a view replaces the whole register.
MergeForgetsRest(reg, written, mask) == written \cap mask

\* A write through a restricted view replaces the masked bits only.
Merge(reg, written, mask) == (reg \ mask) \cup (written \cap mask)

\* Faulty variant: SXL and UXL can be written.
LegalizeKeepsXl(m) == m \ {XLEN - 1, 13, 14, 15, 16}

\* SD, XS and FS; then SXL and UXL of a 64 bit hart are forced to 2.
SdXsFs == {XLEN - 1, 13, 14, 15, 16}
XlBits == IF XLEN = 64 THEN {33, 35} ELSE {}
Legalize(m) ==
  ((m \ SdXsFs) \ (IF XLEN = 64 THEN 32 .. 35 ELSE {})) \cup XlBits

UpdateMstatus(csr, written) ==
  Legalize(CASE csr = "USTATUS" -> Merge(mstatus, written, UstatusMask)
             [] csr = "SSTATUS" -> Merge(mstatus, written, SstatusMask)
             [] OTHER           -> written)

UpdateInterruptPending(csr, written) ==
  CASE csr = "UIP" -> Merge(mip, written, UipMask)
    [] csr = "SIP" -> Merge(mip, written, SipMask)
    [] OTHER       -> written

UpdateInterruptEnable(csr, written) ==
  CASE csr = "UIE" -> Merge(mie, written, UipMask)
    [] csr = "SIE" -> Merge(mie, written, SipMask)
    [] OTHER       -> written

\* The MPP field, and the SPP field, as the integers the code reads.
Mpp(m) == (IF 11 \in m THEN 1 ELSE 0) + (IF 12 \in m THEN 2 ELSE 0)
Spp(m) == IF 8 \in m THEN 1 ELSE 0

-----------------------------------------------------------------------------
(* The RunCpu loop.                                                        *)

LoopTest(error, end) == IF error \/ end THEN "done" ELSE "poll"

\* A failed assert, or an exception nobody catches: the emulator dies.
Abort ==
  /\ aborted' = TRUE
  /\ phase' = "done"
  /\ UNCHANGED <<pc, next_pc, statusVars, trapVars, faultVars, deviceVars,
                 error_flag, end_flag>>

\* Faulty variant: supervisor mode does not test SIE.
GlobalEnableIgnoresSie(level) ==
  IF level = MACHINE_MODE
  THEN privilege # MACHINE_MODE \/ 3 \in mstatus
  ELSE privilege # MACHINE_MODE

\* The global interrupt enable of a level, as Trap (global_mie, global_sie)
\* and CheckPendingInterrupt (mstatus_mie, mstatus_sie) compute it.
GlobalEnable(level) ==
  IF level = MACHINE_MODE
  THEN privilege # MACHINE_MODE \/ 3 \in mstatus
  ELSE privilege = USER_MODE \/ (privilege = SUPERVISOR_MODE /\ 1 \in mstatus)

\* TimerTick and InterruptCheck.  SetInterruptPending refreshes the enable
\* views, not the pending views.
PollInterruptSources(timerFired) ==
  /\ phase = "poll"
  /\ phase' = "check"
  /\ pc' = next_pc
  /\ mip' = mip \cup (IF timerFired THEN {7} ELSE {})
                 \cup (IF virtio_interrupt \/ uart_interrupt THEN {9} ELSE {})
  /\ csrs' = IF timerFired \/ virtio_interrupt \/ uart_interrupt
             THEN ApplyInterruptEnable(csrs, mie) ELSE csrs
  /\ virtio_interrupt' = FALSE
  /\ uart_interrupt' = FALSE
  /\ UNCHANGED <<next_pc, privilege, mstatus, mie, tvec, trapVars, faultVars,
                 flagVars>>

-----------------------------------------------------------------------------
(* Traps.                                                                  *)

PageFaultCauses == {12, 13, 15}
SupportedInterrupts == {1, 7, 9}
\* Under -m the machine-level interrupts 3, 7 and 11 cannot be delegated.
MidelegMask ==
  IF DisableMachineInterruptDelegation THEN {1, 2, 5, 6, 9, 10} ELSE 0 .. 11

TrapLevel(c, interrupt) ==
  IF /\ privilege # MACHINE_MODE
     /\ c \in IF interrupt THEN csrs["MIDELEG"] \cap MidelegMask
                          ELSE csrs["MEDELEG"]
  THEN SUPERVISOR_MODE ELSE MACHINE_MODE

\* Exceptions, not interrupts, are spread over the vector.
TrapVector(level, c, interrupt) ==
  LET base == 4 * (tvec[level] \div 4)
  IN  IF tvec[level] % 4 = 0 \/ interrupt THEN base ELSE base + 4 * c

\* xPIE := global xIE; xIE := 0; xPP := privilege.
TrapStatus(level) ==
  IF level = SUPERVISOR_MODE
  THEN WithBit(WithBit(mstatus, 5, GlobalEnable(level)) \ {1},
               8, privilege = SUPERVISOR_MODE)
  ELSE WithBit(WithBit(WithBit(mstatus, 7, GlobalEnable(level)) \ {3},
                       11, privilege # USER_MODE),
               12, privilege = MACHINE_MODE)

\* Trap, all but its page fault bookkeeping.
Trap(c, interrupt, address) ==
  LET level == TrapLevel(c, interrupt)
      clear == interrupt /\ c \notin {1, 3}
  IN  /\ epc' = [epc EXCEPT ![level] = pc]
      /\ cause' = [cause EXCEPT ![level] = [code |-> c, interrupt |-> interrupt]]
      /\ tval' = [tval EXCEPT ![level] = address]
      /\ next_pc' = TrapVector(level, c, interrupt)
      /\ mstatus' = TrapStatus(level)
      /\ privilege' = level
      /\ mip' = IF clear THEN mip \ {c} ELSE mip
      /\ csrs' = ApplyMstatusToCsr(
                   IF clear THEN ApplyInterruptPending(csrs, mip') ELSE csrs,
                   mstatus')
      /\ UNCHANGED <<pc, mie, tvec>>

RepeatedFault(address) ==
  prev_page_fault /\ prev_faulting_address = address

\* Faulty variant: page_fault_ is not reset.
PageFaultTrapKeepsFlag(c, address) ==
  /\ Trap(c, FALSE, address)
  /\ faulting_address' = address
  /\ prev_page_fault' = TRUE
  /\ prev_faulting_address' = address
  /\ page_fault' = TRUE

\* Trap with its page fault bookkeeping.
PageFaultTrap(c, address) ==
  /\ Trap(c, FALSE, address)
  /\ faulting_address' = address
  /\ prev_page_fault' = TRUE
  /\ prev_faulting_address' = address
  /\ page_fault' = FALSE

\* The interrupts that CheckPendingInterrupt tests for and finds enabled.
Deliverable ==
  {c \in mip \cap mie : \/ c \in {1, 5, 9} /\ GlobalEnable(SUPERVISOR_MODE)
                        \/ c \in {3, 7, 11} /\ GlobalEnable(MACHINE_MODE)}

\* The if-else chain tests the causes in ascending order.
Chosen(c) == c \in Deliverable /\ \A d \in Deliverable : c <= d

NoPendingInterrupt ==
  /\ phase = "check"
  /\ Deliverable = {}
  /\ phase' = "fetch"
  /\ UNCHANGED <<pc, next_pc, statusVars, trapVars, faultVars, deviceVars,
                 flagVars>>

TakeInterrupt(c) ==
  /\ phase = "check"
  /\ Chosen(c)
  /\ c \in SupportedInterrupts
  /\ Trap(c, TRUE, 0)
  /\ phase' = LoopTest(error_flag, end_flag)
  /\ UNCHANGED <<faultVars, deviceVars, flagVars>>

\* The assert at the top of Trap.
UnsupportedInterrupt(c) ==
  /\ phase = "check"
  /\ Chosen(c)
  /\ c \notin SupportedInterrupts
  /\ Abort

-----------------------------------------------------------------------------
(* Instruction fetch.                                                      *)

\* The privilege VirtualToPhysical hands to the MMU; MPRV is honoured for
\* instruction fetches as well.
EffectivePrivilege ==
  IF privilege = MACHINE_MODE /\ 17 \in csrs["MSTATUS"]
  THEN Mpp(csrs["MSTATUS"]) ELSE privilege

Translated == EffectivePrivilege \in {USER_MODE, SUPERVISOR_MODE}

FetchTrap(address) ==
  /\ PageFaultTrap(12, address)
  /\ error_flag' = (error_flag \/ RepeatedFault(address))
  /\ phase' = LoopTest(error_flag', end_flag)
  /\ UNCHANGED <<deviceVars, end_flag, aborted>>

\* The translation of pc fails, or that of the second half of a 32 bit
\* instruction which LoadCmd fetches separately.
FetchFault(address) ==
  /\ phase = "fetch"
  /\ Translated
  /\ \/ address = pc
     \/ address = pc + 2 /\ pc % 4 \in {2, 3} /\ ~page_fault
  /\ FetchTrap(address)

\* page_fault_ was left set by an AMO instruction.
FetchStaleFault ==
  /\ phase = "fetch"
  /\ EffectivePrivilege \in Privileges
  /\ page_fault
  /\ FetchTrap(faulting_address)

Fetch ==
  /\ phase = "fetch"
  /\ EffectivePrivilege \in Privileges
  /\ ~page_fault
  /\ phase' = "execute"
  /\ UNCHANGED <<pc, next_pc, statusVars, trapVars, faultVars, deviceVars,
                 flagVars>>

\* IntToPrivilegeMode throws on the reserved encoding of MPP.
FetchThrows ==
  /\ phase = "fetch"
  /\ EffectivePrivilege \notin Privileges
  /\ Abort

-----------------------------------------------------------------------------
(* Execution.                                                              *)

\* What the loop does after the switch: the endless loop test, and then the
\* devices or the loop condition.
Retire(error, end) ==
  /\ error_flag' = (error \/ next_pc' = pc)
  /\ end_flag' = end
  /\ phase' = IF PeripheralEmulation THEN "peripheral"
              ELSE LoopTest(error_flag', end_flag')
  /\ UNCHANGED <<deviceVars, aborted>>

\* The instruction after this one; staying in Code is a bound.
Sequential(width) ==
  /\ next_pc' = pc + width
  /\ next_pc' \in Code

\* Arithmetic, FENCE, EBREAK, SFENCE.VMA, branches and jumps, and the loads,
\* stores and AMOs whose translation succeeds.
Compute(target) ==
  /\ phase = "execute"
  /\ next_pc' = target
  /\ Retire(FALSE, FALSE)
  /\ UNCHANGED <<pc, statusVars, trapVars, faultVars>>

\* JALR ZERO, 0(RA) with RA = 0 returns to the host.
ReturnToHost ==
  /\ phase = "execute"
  /\ next_pc' = 0
  /\ Retire(FALSE, TRUE)
  /\ UNCHANGED <<pc, statusVars, trapVars, faultVars>>

\* An undecodable or undefined instruction.
InstructionError(width) ==
  /\ phase = "execute"
  /\ Sequential(width)
  /\ Retire(TRUE, FALSE)
  /\ UNCHANGED <<pc, statusVars, trapVars, faultVars>>

\* The value a CSR instruction stores.  The 5 bit immediate of CSRRCI is
\* inverted as a 32 bit number, so the upper half is cleared too.
CsrValue(w) ==
  LET t == csrs[w.csr]
      immediate == w.operand \cap 0 .. 4
  IN  CASE w.instruction = "CSRRC"  -> t \ w.operand
        [] w.instruction = "CSRRCI" -> (t \ immediate) \cap 0 .. 31
        [] w.instruction = "CSRRS"  -> t \cup w.operand
        [] w.instruction = "CSRRSI" -> t \cup immediate
        [] w.instruction = "CSRRW"  -> w.operand
        [] w.instruction = "CSRRWI" -> immediate

UpdateStatus(csr, value) ==
  \/ /\ csr \in StatusCsr
     /\ mstatus' = UpdateMstatus(csr, value)
     /\ csrs' = ApplyMstatusToCsr(csrs, mstatus')
     /\ UNCHANGED <<mip, mie>>
  \/ /\ csr \in PendingCsr
     /\ mip' = UpdateInterruptPending(csr, value)
     /\ csrs' = ApplyInterruptPending(csrs, mip')
     /\ UNCHANGED <<mstatus, mie>>
  \/ /\ csr \in EnableCsr
     /\ mie' = UpdateInterruptEnable(csr, value)
     /\ csrs' = ApplyInterruptEnable(csrs, mie')
     /\ UNCHANGED <<mstatus, mip>>
  \/ /\ csr \in {"MEDELEG", "MIDELEG"}
     /\ csrs' = [csrs EXCEPT ![csr] = value]
     /\ UNCHANGED <<mstatus, mip, mie>>

\* No mode is refused any CSR.
CsrsInstruction(w) ==
  /\ phase = "execute"
  /\ Sequential(4)
  /\ UpdateStatus(w.csr, CsrValue(w))
  /\ Retire(FALSE, FALSE)
  /\ UNCHANGED <<pc, privilege, tvec, trapVars, faultVars>>

AddressCsrInstruction(w) ==
  /\ phase = "execute"
  /\ Sequential(4)
  /\ epc' = IF w.csr = "EPC" THEN [epc EXCEPT ![w.level] = w.value] ELSE epc
  /\ tvec' = IF w.csr = "TVEC" THEN [tvec EXCEPT ![w.level] = w.value] ELSE tvec
  /\ Retire(FALSE, FALSE)
  /\ UNCHANGED <<pc, privilege, mstatus, mip, mie, csrs, cause, tval, faultVars>>

Ecall ==
  /\ phase = "execute"
  /\ ~EcallEmulation
  /\ Trap(8 + privilege, FALSE, 0)
  /\ Retire(FALSE, FALSE)
  /\ UNCHANGED faultVars

\* ECALL handed to SystemCallEmulation, which never reports an
\* error and ends the run on exit and on calls it does not know.
SystemCall(end) ==
  /\ phase = "execute"
  /\ EcallEmulation
  /\ Sequential(4)
  /\ Retire(FALSE, end)
  /\ UNCHANGED <<pc, statusVars, trapVars, faultVars>>

\* Faulty variant: MIE is not restored from MPIE.
MretStatusForgetsMie == (mstatus \cup {7}) \ {11, 12}

\* Faulty variant: only the low bit of MPP is cleared.
MretStatusClearsOneBit ==
  (WithBit(mstatus, 3, 7 \in mstatus) \cup {7}) \ {11}

MretStatus ==
  (WithBit(mstatus, 3, 7 \in mstatus) \cup {7}) \ {11, 12}

\* Faulty variant: the CSRs are not refreshed.
MretKeepsViews ==
  /\ phase = "execute"
  /\ Mpp(mstatus) \in Privileges
  /\ privilege' = Mpp(mstatus)
  /\ mstatus' = MretStatus
  /\ csrs' = csrs
  /\ next_pc' = epc[MACHINE_MODE]
  /\ Retire(FALSE, FALSE)
  /\ UNCHANGED <<pc, mip, mie, tvec, trapVars, faultVars>>

\* Faulty variant: the reserved encoding of MPP is not refused.
MretUnchecked ==
  /\ phase = "execute"
  /\ privilege' = Mpp(mstatus)
  /\ mstatus' = MretStatus
  /\ csrs' = ApplyMstatusToCsr(csrs, mstatus')
  /\ next_pc' = epc[MACHINE_MODE]
  /\ Retire(FALSE, FALSE)
  /\ UNCHANGED <<pc, mip, mie, tvec, trapVars, faultVars>>

Mret ==
  /\ phase = "execute"
  /\ Mpp(mstatus) \in Privileges
  /\ privilege' = Mpp(mstatus)
  /\ mstatus' = MretStatus
  /\ csrs' = ApplyMstatusToCsr(csrs, mstatus')
  /\ next_pc' = epc[MACHINE_MODE]
  /\ Retire(FALSE, FALSE)
  /\ UNCHANGED <<pc, mip, mie, tvec, trapVars, faultVars>>

MretThrows ==
  /\ phase = "execute"
  /\ Mpp(mstatus) \notin Privileges
  /\ Abort

\* bitset(mstatus_, 2, 8, 0) clears bit 9 with SPP.
SretStatus ==
  (WithBit(mstatus, 1, 5 \in mstatus) \cup {5}) \ {8, 9}

Sret ==
  /\ phase = "execute"
  /\ privilege' = Spp(mstatus)
  /\ mstatus' = SretStatus
  /\ csrs' = ApplyMstatusToCsr(csrs, mstatus')
  /\ next_pc' = epc[SUPERVISOR_MODE]
  /\ Retire(FALSE, FALSE)
  /\ UNCHANGED <<pc, mip, mie, tvec, trapVars, faultVars>>

\* A load or a store one of whose translations fails.
AccessFault(c, address) ==
  /\ phase = "execute"
  /\ Translated
  /\ PageFaultTrap(c, address)
  /\ Retire(RepeatedFault(address), FALSE)

\* Faulty variant: the flag is set, and the address is not.
AmoFaultUnnamed(address) ==
  /\ phase = "execute"
  /\ Translated
  /\ Sequential(4)
  /\ page_fault' = TRUE
  /\ Retire(FALSE, FALSE)
  /\ UNCHANGED <<pc, statusVars, trapVars, faulting_address, prev_page_fault,
                 prev_faulting_address>>

\* An AMO whose translations fail records the fault, and goes on.
AmoFault(address) ==
  /\ phase = "execute"
  /\ Translated
  /\ Sequential(4)
  /\ page_fault' = TRUE
  /\ faulting_address' = address
  /\ Retire(FALSE, FALSE)
  /\ UNCHANGED <<pc, statusVars, trapVars, prev_page_fault,
                 prev_faulting_address>>

-----------------------------------------------------------------------------
(* The devices, as far as the loop sees them.                              *)

PeripheralEmulations(raised, end, error) ==
  /\ phase = "peripheral"
  /\ virtio_interrupt' = (virtio_interrupt \/ "virtio" \in raised)
  /\ uart_interrupt' = (uart_interrupt \/ "uart" \in raised)
  /\ end_flag' = (end_flag \/ end)
  /\ error_flag' = (error_flag \/ error)
  /\ phase' = LoopTest(error_flag', end_flag')
  /\ UNCHANGED <<pc, next_pc, statusVars, trapVars, faultVars, aborted>>

\* RunCpu has returned, or the process is gone.
Terminated == phase = "done" /\ UNCHANGED vars

-----------------------------------------------------------------------------
Init ==
  /\ phase = "poll"
  /\ next_pc \in Code
  /\ pc = next_pc
  /\ privilege = MACHINE_MODE
  /\ mstatus = XlBits
  /\ mip = {}
  /\ mie = {}
  /\ csrs = ApplyMstatusToCsr([r \in BitCsr |-> {}], mstatus)
  /\ epc = [l \in Level |-> 0]
  /\ tvec = [l \in Level |-> 0]
  /\ cause = [l \in Level |-> [code |-> 0, interrupt |-> FALSE]]
  /\ tval = [l \in Level |-> 0]
  /\ page_fault = FALSE
  /\ faulting_address = 0
  /\ prev_page_fault = FALSE
  /\ prev_faulting_address = 0
  /\ virtio_interrupt = FALSE
  /\ uart_interrupt = FALSE
  /\ error_flag = FALSE
  /\ end_flag = FALSE
  /\ aborted = FALSE

\* The steps that run Trap to its end.
Trapping ==
  \/ \E c \in SupportedInterrupts : TakeInterrupt(c)
  \/ \E address \in {pc, pc + 2} : FetchFault(address)
  \/ FetchStaleFault
  \/ Ecall
  \/ \E c \in {13, 15}, address \in DataAddress : AccessFault(c, address)

\* The steps that neither trap, nor return from a trap, nor write a CSR.
Running ==
  \/ \E timerFired \in BOOLEAN : PollInterruptSources(timerFired)
  \/ NoPendingInterrupt
  \/ \E c \in {3, 5, 11} : UnsupportedInterrupt(c)
  \/ Fetch
  \/ FetchThrows
  \/ \E target \in Code : Compute(target)
  \/ ReturnToHost
  \/ \E width \in {2, 4} : InstructionError(width)
  \/ \E end \in BOOLEAN : SystemCall(end)
  \/ MretThrows
  \/ \E address \in AmoAddress : AmoFault(address)
  \/ \E raised \in SUBSET {"virtio", "uart"}, end \in BOOLEAN :
       \E error \in {FALSE, end} : PeripheralEmulations(raised, end, error)
  \/ Terminated

Next ==
  \/ Trapping
  \/ Mret
  \/ Sret
  \/ \E w \in CsrWrites : CsrsInstruction(w)
  \/ \E w \in AddressWrites : AddressCsrInstruction(w)
  \/ Running

Spec == Init /\ [][Next]_vars

=============================================================================
