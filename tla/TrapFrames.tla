----------------------------- MODULE TrapFrames -----------------------------
(***************************************************************************)
(* What software relies on when the hart traps.  The history variables     *)
(* remember, for each level a trap can be taken to, what was interrupted;  *)
(* the properties compare that with what the registers of the hart say     *)
(* then and with what MRET and SRET do later.                              *)
(*                                                                         *)
(* A level is in live from the trap to it until the hart returns from it   *)
(* or below it, or until the guest itself overwrites the saved state.      *)
(***************************************************************************)
EXTENDS RiscvCpu

VARIABLES
  live,       (* the levels with a trap that has not been returned from    *)
  frame,      (* what that trap interrupted                                *)
  failed      (* the address of the AMO that was executed last and failed, *)
              (* until a fetch traps: a set of at most one                 *)

historyVars == <<live, frame, failed>>
allVars == <<vars, historyVars>>

Frame == [pc: Nat, privilege: Privileges, enabled: BOOLEAN, failed: SUBSET Nat]

\* The frames a guest write to a status view can touch.  UIP and the like
\* hold no part of a frame, and neither do the bits of USTATUS.
Overwritten(csr) ==
  CASE csr = "MSTATUS" -> Level
    [] csr = "SSTATUS" -> {SUPERVISOR_MODE}
    [] OTHER           -> {}

HistoryInit ==
  /\ live = {}
  /\ frame = [l \in Level |-> [pc |-> 0, privilege |-> MACHINE_MODE,
                               enabled |-> FALSE, failed |-> {}]]
  /\ failed = {}

\* A trap for an interrupt comes before the fetch, any other trap ends it or
\* the instruction.
RecordTrap ==
  /\ live' = live \cup {privilege'}
  /\ frame' = [frame EXCEPT ![privilege'] =
                 [pc |-> pc, privilege |-> privilege,
                  enabled |-> GlobalEnable(privilege'), failed |-> failed]]
  /\ failed' = IF phase = "check" THEN failed ELSE {}

\* A return leaves every level above the privilege it returns to.
RecordReturn(level) ==
  /\ live' = {l \in live \ {level} : l <= privilege'}
  /\ failed' = {}
  /\ UNCHANGED frame

RecordWrite(levels) ==
  /\ live' = live \ levels
  /\ failed' = {}
  /\ UNCHANGED frame

RecordRunning ==
  /\ failed' = IF phase = "execute" THEN {a \in AmoAddress : AmoFault(a)}
               ELSE failed
  /\ UNCHANGED <<live, frame>>

FrameInit == Init /\ HistoryInit

FrameNext ==
  \/ Trapping /\ RecordTrap
  \/ Mret /\ RecordReturn(MACHINE_MODE)
  \/ Sret /\ RecordReturn(SUPERVISOR_MODE)
  \/ \E w \in CsrWrites :
       CsrsInstruction(w) /\ RecordWrite(Overwritten(w.csr))
  \/ \E w \in AddressWrites :
       /\ AddressCsrInstruction(w)
       /\ RecordWrite(IF w.csr = "EPC" THEN {w.level} ELSE {})
  \/ Running /\ RecordRunning

FrameSpec == FrameInit /\ [][FrameNext]_allVars

-----------------------------------------------------------------------------
(* Properties.                                                             *)

\* Type invariant: every register holds a value of its kind.  MIP shows mip_
\* or an older mip_, never anything else a register cannot hold.
TypeOK ==
  /\ phase \in {"poll", "check", "fetch", "execute", "peripheral", "done"}
  /\ pc \in Nat /\ next_pc \in Nat
  /\ privilege \in Privileges
  /\ mstatus \in SUBSET Bit /\ mip \in SUBSET Bit /\ mie \in SUBSET Bit
  /\ csrs \in [BitCsr -> SUBSET Bit]
  /\ epc \in [Level -> Nat] /\ tvec \in [Level -> Nat]
  /\ cause \in [Level -> [code: Nat, interrupt: BOOLEAN]]
  /\ tval \in [Level -> Nat]
  /\ page_fault \in BOOLEAN /\ faulting_address \in Nat
  /\ prev_page_fault \in BOOLEAN /\ prev_faulting_address \in Nat
  /\ virtio_interrupt \in BOOLEAN /\ uart_interrupt \in BOOLEAN
  /\ error_flag \in BOOLEAN /\ end_flag \in BOOLEAN /\ aborted \in BOOLEAN
  /\ live \in SUBSET Level
  /\ frame \in [Level -> Frame]
  /\ failed \in SUBSET Nat

\* mstatus_ and mie_ are kept twice: in the member and in the three CSRs that
\* show them.  VirtualToPhysical reads MPRV and MPP from csrs_[MSTATUS] while
\* Trap, MRET and SRET work on mstatus_: the copies never drift apart.
StatusViews ==
  /\ csrs["MSTATUS"] = mstatus
  /\ csrs["SSTATUS"] = mstatus \cap SstatusMask
  /\ csrs["USTATUS"] = mstatus \cap UstatusMask
  /\ csrs["MIE"] = mie
  /\ csrs["SIE"] = mie \cap SipMask
  /\ csrs["UIE"] = mie \cap UipMask

\* The CSRs that show mip_ lag behind it when a device raises an interrupt, since
\* SetInterruptPending refreshes the wrong ones, but only so: they never show an
\* interrupt that was taken or withdrawn, the ones they miss are the timer's and
\* the external one, and the three of them agree with each other.
PendingViews ==
  /\ csrs["MIP"] \subseteq mip
  /\ mip \ csrs["MIP"] \subseteq {7, 9}
  /\ csrs["SIP"] = csrs["MIP"] \cap SipMask
  /\ csrs["UIP"] = csrs["MIP"] \cap UipMask

\* "SD, FS, and XS are hardwired to zeros" and SXL = UXL = 2 on a 64 bit hart,
\* whatever the guest writes through whichever of the three views.
HardwiredStatus ==
  /\ mstatus \cap SdXsFs = {}
  /\ XLEN = 64 => mstatus \cap 32 .. 35 = {33, 35}

\* The fields of mstatus_ in which Trap saved the state of a level.
SavedPrivilege(level) ==
  IF level = MACHINE_MODE THEN Mpp(mstatus) ELSE Spp(mstatus)
PreviousEnable(level) ==
  IF level = MACHINE_MODE THEN 7 \in mstatus ELSE 5 \in mstatus
EnableBit(level) ==
  IF level = MACHINE_MODE THEN 3 \in mstatus ELSE 1 \in mstatus

\* While a level has a frame, the saved pc, privilege and interrupt enable
\* are those of the interrupted code (below the level its interrupts count as
\* enabled), the hart is at that level or above and the level's interrupts
\* are off.  In particular a machine-level trap out of
\* a supervisor handler, and the MRET that ends it, leave the supervisor's
\* frame alone, and no write through SSTATUS or USTATUS reaches a machine
\* frame.
FrameIntact ==
  \A l \in live :
    /\ epc[l] = frame[l].pc
    /\ SavedPrivilege(l) = frame[l].privilege
    /\ PreviousEnable(l) = frame[l].enabled
    /\ ~EnableBit(l)
    /\ privilege >= l
    /\ frame[l].privilege <= l
    /\ frame[l].privilege < l => frame[l].enabled

\* MRET and SRET resume what the trap interrupted: the pc, the privilege and
\* whether interrupts of that level are enabled, however many other traps
\* and returns came in between.
ReturnResumes ==
  [][/\ Mret /\ MACHINE_MODE \in live =>
          /\ next_pc' = frame[MACHINE_MODE].pc
          /\ privilege' = frame[MACHINE_MODE].privilege
          /\ GlobalEnable(MACHINE_MODE)' = frame[MACHINE_MODE].enabled
     /\ Sret /\ SUPERVISOR_MODE \in live =>
          /\ next_pc' = frame[SUPERVISOR_MODE].pc
          /\ privilege' = frame[SUPERVISOR_MODE].privilege
          /\ GlobalEnable(SUPERVISOR_MODE)' = frame[SUPERVISOR_MODE].enabled
    ]_allVars

\* CheckPendingInterrupt never enters a handler of a level whose handler is
\* still running with its saved state in the registers: the second trap
\* would overwrite xEPC and xPP and the first could never be resumed.
NoNestedInterrupt ==
  [][\A c \in SupportedInterrupts : TakeInterrupt(c) => privilege' \notin live]_allVars

\* "Interrupt enable condition should be checked before hand in
\* CheckPendingInterrupt()": an interrupt is only taken to a level whose
\* global interrupt enable allows it.
TakenWhenEnabled ==
  [][\A c \in SupportedInterrupts :
       TakeInterrupt(c) => GlobalEnable(TrapLevel(c, TRUE))]_allVars

\* A handler entered for an instruction page fault finds in xTVAL an address
\* of the instruction at xEPC, or the one of an AMO that failed and was the last
\* instruction executed: no other fault is ever reported as one of the fetch.
FetchFaultReported ==
  \A l \in live :
    cause[l] = [code |-> 12, interrupt |-> FALSE] =>
      tval[l] \in {frame[l].pc, frame[l].pc + 2} \cup frame[l].failed

\* AmoInstruction does not look at page_fault_, yet the fault of an AMO is not
\* lost: whatever interrupts are taken in between, no other instruction
\* executes before the hart takes an instruction page fault that names the
\* address of the AMO, or that of the next instruction if it cannot be fetched
\* either.
AmoFaultReported ==
  [][failed # {} =>
       /\ phase # "execute"
       /\ failed' # failed =>
            /\ cause'[privilege'] = [code |-> 12, interrupt |-> FALSE]
            /\ tval'[privilege'] \in failed \cup {pc}]_allVars

\* A guest write that keeps to what the hart implements: MPP never holds the
\* reserved encoding 2, and none of the interrupts 3, 5 and 11, which Trap does
\* not support, is enabled.
LegalWrite(w) ==
  /\ w.csr = "MSTATUS" /\ w.instruction \in {"CSRRS", "CSRRW"} =>
       (12 \in w.operand => 11 \in w.operand)
  /\ w.csr = "MSTATUS" /\ w.instruction = "CSRRC" =>
       (11 \in w.operand => 12 \in w.operand)
  /\ w.csr \in EnableCsr /\ w.instruction \notin {"CSRRC", "CSRRCI"} =>
       w.operand \cap {3, 5, 11} = {}

\* A guest whose writes are of that kind stops the emulator neither by the
\* assert of Trap nor by the exception of IntToPrivilegeMode, whatever traps,
\* returns and interrupts come in between.
NeverAborts == (\A w \in CsrWrites : LegalWrite(w)) => ~aborted
=============================================================================
