------------------------- MODULE ExternalInterrupts -------------------------
(***************************************************************************)
(* How the keyboard and the disk reach the guest: the UART and the claim   *)
(* word of the interrupt controller in PeripheralEmulator.cpp, the flags   *)
(* the CPU loop carries from PeripheralEmulations to InterruptCheck, and   *)
(* the supervisor external interrupt.                                      *)
(*                                                                         *)
(* Device registers are plain memory.  The receive and the transmit        *)
(* register are the same byte, and one claim word serves all sources.  The *)
(* disk is reduced to one request at a time, see VirtioDisk.               *)
(*                                                                         *)
(* The guest (an interrupt handler that claims, serves one source,         *)
(* completes and returns, and code that prints and starts disk requests)   *)
(* is external.  It executes one instruction per iteration of the loop.    *)
(***************************************************************************)
EXTENDS Integers, Sequences

CONSTANTS
  Sessions,      (* bound: the sessions, see Session                       *)
  Output         (* bound: the characters the guest prints on its own      *)

KEY_BACKSPACE == 263
KEY_DC == 330
CtrlA == 1
CtrlC == 3
UartIrq == 10
VirtioIrq == 1

\* What the user types, as getch returns it; whether the guest prints the
\* characters it reads; how many others it prints; its disk requests.
Session == [keys: Seq(Nat), echo: BOOLEAN, prints: Nat, requests: Nat]

ASSUME GuestAssumption ==
  /\ \A s \in Sessions : s \in Session
  /\ Output \subseteq 0 .. 255

VARIABLES
  phase,        (* where the loop is: poll, execute, peripheral or done    *)
  typing,       (* keys the terminal has not handed over yet               *)
  uart_base,    (* the byte at kUartBase: kUartRhr, and what stores write  *)
  lsr_ready,    (* kUartLsrReady in kUartLsr                               *)
  uart_full, uart_read, uart_write,   (* uart_full_, uart_read_, ...       *)
  claim,        (* the word at kPlicClaimAddress                           *)
  virtio_write,                       (* virtio_write_, a notification     *)
  virtio_interrupt, uart_interrupt,   (* the flags of RiscvCpu             *)
  seip,         (* bit 9 of mip_                                           *)
  end_flag,     (* end_flag_                                               *)
  guest,        (* the guest's next instruction                            *)
  sie,          (* the guest's interrupt enable                            *)
  irq, char,    (* guest registers: the claimed source, the character      *)
  received,     (* what the guest has read from the keyboard               *)
  request,      (* the guest's disk request: none, waiting or served       *)
  prints, requests,                   (* bounds: done so far               *)
  session       (* the session that runs                                   *)

uartVars == <<typing, uart_base, lsr_ready, uart_full, uart_read, uart_write>>
diskVars == <<virtio_write, request, requests>>
cpuVars == <<virtio_interrupt, uart_interrupt, seip, end_flag>>
guestVars == <<guest, sie, irq, char, received, prints>>
vars == <<phase, uartVars, claim, diskVars, cpuVars, guestVars, session>>

-----------------------------------------------------------------------------
(* The devices.                                                            *)

\* Faulty variant: the delete key is not translated.
KeyByteOnlyBackspace(key) == IF key = KEY_BACKSPACE THEN 8 ELSE key % 256

\* The byte UartEmulation stores for a key.
KeyByte(key) ==
  CASE key = KEY_BACKSPACE -> 8
    [] key = KEY_DC -> 127
    [] OTHER -> key % 256

\* Faulty variant: the next key is stored while the last one is unread.
KeyOverruns == typing # <<>>

\* CheckInput polls the terminal at every kThreshold-th call, and getch may
\* have nothing: whether a key arrives now is open.  GetKeyValue is called
\* right after, so no key waits inside ScreenEmulation.
KeyArrives == ~(uart_full /\ ~uart_read) /\ typing # <<>>

\* Faulty variant: ClearUartBuffer leaves the line status in memory.
LineStatusSticky(arrives) == arrives \/ lsr_ready

\* kUartLsrReady after ClearUartBuffer and SetUartBuffer.
LineStatus(arrives) == arrives \/ (lsr_ready /\ ~uart_read)

\* PeripheralEmulations: UartEmulation, then VirtioEmulation, then the flags.
PeripheralEmulations(arrives) ==
  /\ phase = "peripheral"
  /\ arrives => KeyArrives
  /\ uart_write' = FALSE
  /\ uart_read' = FALSE
  /\ uart_full' = (arrives \/ (uart_full /\ ~uart_read))
  /\ lsr_ready' = LineStatus(arrives)
  /\ uart_base' = IF arrives THEN KeyByte(Head(typing)) ELSE uart_base
  /\ typing' = IF arrives THEN Tail(typing) ELSE typing
  /\ uart_interrupt' = (uart_interrupt \/ arrives)
  /\ virtio_write' = FALSE
  /\ request' = IF virtio_write THEN "served" ELSE request
  /\ virtio_interrupt' = (virtio_interrupt \/ virtio_write)
  /\ claim' = IF virtio_write THEN VirtioIrq
              ELSE IF arrives THEN UartIrq ELSE claim
  /\ end_flag' = (end_flag \/ (arrives /\ Head(typing) \in {CtrlA, CtrlC}))
  /\ phase' = IF end_flag' THEN "done" ELSE "poll"
  /\ UNCHANGED <<seip, guestVars, requests>>

-----------------------------------------------------------------------------
(* The head of the loop: InterruptCheck and CheckPendingInterrupt.         *)

Raised == seip \/ virtio_interrupt \/ uart_interrupt

\* Faulty variant: an interrupt that is not enabled now is forgotten.
NoInterruptForgets ==
  /\ phase = "poll"
  /\ ~(Raised /\ sie)
  /\ seip' = FALSE
  /\ virtio_interrupt' = FALSE
  /\ uart_interrupt' = FALSE
  /\ phase' = "execute"
  /\ UNCHANGED <<uartVars, claim, diskVars, end_flag, guestVars>>

NoInterrupt ==
  /\ phase = "poll"
  /\ ~(Raised /\ sie)
  /\ seip' = Raised
  /\ virtio_interrupt' = FALSE
  /\ uart_interrupt' = FALSE
  /\ phase' = "execute"
  /\ UNCHANGED <<uartVars, claim, diskVars, end_flag, guestVars>>

\* Trap clears the pending bit; the loop continues without the devices.
TakeInterrupt ==
  /\ phase = "poll"
  /\ Raised /\ sie
  /\ seip' = FALSE
  /\ virtio_interrupt' = FALSE
  /\ uart_interrupt' = FALSE
  /\ sie' = FALSE
  /\ guest' = "claim"
  /\ UNCHANGED <<phase, uartVars, claim, diskVars, end_flag, irq, char,
                 received, prints>>

-----------------------------------------------------------------------------
(* Loads and stores of the guest that a device notices.                    *)

\* A store to kUartBase: the byte itself, and what CheckDeviceWrite notes.
StoreUart(c) ==
  /\ uart_base' = c
  /\ uart_write' = TRUE
  /\ UNCHANGED <<typing, lsr_ready, uart_full, uart_read>>

\* A load from kUartBase, and what CheckDeviceRead notes.
LoadUart ==
  /\ char' = uart_base
  /\ received' = Append(received, uart_base)
  /\ uart_read' = TRUE
  /\ UNCHANGED <<typing, uart_base, lsr_ready, uart_full, uart_write>>

Executing == phase = "execute" /\ phase' = "peripheral"

-----------------------------------------------------------------------------
(* The guest.                                                              *)

Idle ==
  /\ Executing
  /\ guest = "run"
  /\ UNCHANGED <<uartVars, claim, diskVars, cpuVars, guestVars>>

\* The guest turns interrupts off and on around its own critical sections.
SetEnable(on) ==
  /\ Executing
  /\ guest = "run"
  /\ sie = ~on
  /\ sie' = on
  /\ UNCHANGED <<uartVars, claim, diskVars, cpuVars, guest, irq, char,
                 received, prints>>

PutCharacter(c) ==
  /\ Executing
  /\ guest = "run"
  /\ prints < session.prints
  /\ prints' = prints + 1
  /\ StoreUart(c)
  /\ UNCHANGED <<claim, diskVars, cpuVars, guest, sie, irq, char, received>>

StartRequest ==
  /\ Executing
  /\ guest = "run"
  /\ request = "none"
  /\ requests < session.requests
  /\ requests' = requests + 1
  /\ request' = "waiting"
  /\ virtio_write' = TRUE
  /\ UNCHANGED <<uartVars, claim, cpuVars, guestVars>>

Claim ==
  /\ Executing
  /\ guest = "claim"
  /\ irq' = claim
  /\ guest' = CASE claim = UartIrq -> "status"
                [] claim = VirtioIrq -> "disk"
                [] OTHER -> "return"
  /\ UNCHANGED <<uartVars, claim, diskVars, cpuVars, sie, char, received,
                 prints>>

\* The UART handler reads characters while the line status says so.
ReadStatus ==
  /\ Executing
  /\ guest = "status"
  /\ guest' = IF lsr_ready THEN "character" ELSE "complete"
  /\ UNCHANGED <<uartVars, claim, diskVars, cpuVars, sie, irq, char, received,
                 prints>>

ReadCharacter ==
  /\ Executing
  /\ guest = "character"
  /\ LoadUart
  /\ guest' = IF session.echo THEN "echo" ELSE "status"
  /\ UNCHANGED <<claim, diskVars, cpuVars, sie, irq, prints>>

EchoCharacter ==
  /\ Executing
  /\ guest = "echo"
  /\ StoreUart(char)
  /\ guest' = "status"
  /\ UNCHANGED <<claim, diskVars, cpuVars, sie, irq, char, received, prints>>

DiskHandler ==
  /\ Executing
  /\ guest = "disk"
  /\ request' = IF request = "served" THEN "none" ELSE request
  /\ guest' = "complete"
  /\ UNCHANGED <<uartVars, claim, virtio_write, requests, cpuVars, sie, irq,
                 char, received, prints>>

\* The handler writes the source back; the claim word keeps it.
Complete ==
  /\ Executing
  /\ guest = "complete"
  /\ claim' = irq
  /\ guest' = "return"
  /\ UNCHANGED <<uartVars, diskVars, cpuVars, sie, irq, char, received, prints>>

Return ==
  /\ Executing
  /\ guest = "return"
  /\ sie' = TRUE
  /\ guest' = "run"
  /\ UNCHANGED <<uartVars, claim, diskVars, cpuVars, irq, char, received,
                 prints>>

GuestStep ==
  \/ Idle
  \/ \E on \in BOOLEAN : SetEnable(on)
  \/ \E c \in Output : PutCharacter(c)
  \/ StartRequest
  \/ Claim
  \/ ReadStatus
  \/ ReadCharacter
  \/ EchoCharacter
  \/ DiskHandler
  \/ Complete
  \/ Return

\* Ctrl-a and Ctrl-c end the run.
Ended == phase = "done" /\ UNCHANGED vars

-----------------------------------------------------------------------------
Init ==
  /\ phase = "poll"
  /\ session \in Sessions
  /\ typing = session.keys
  /\ uart_base = 0
  /\ lsr_ready = FALSE
  /\ uart_full = FALSE
  /\ uart_read = FALSE
  /\ uart_write = FALSE
  /\ claim = 0
  /\ virtio_write = FALSE
  /\ virtio_interrupt = FALSE
  /\ uart_interrupt = FALSE
  /\ seip = FALSE
  /\ end_flag = FALSE
  /\ guest = "run"
  /\ sie = FALSE
  /\ irq = 0
  /\ char = 0
  /\ received = <<>>
  /\ request = "none"
  /\ prints = 0
  /\ requests = 0

Step ==
  \/ NoInterrupt
  \/ TakeInterrupt
  \/ GuestStep
  \/ \E arrives \in BOOLEAN : PeripheralEmulations(arrives)
  \/ Ended

Next == Step /\ UNCHANGED session

\* The loop runs on; a typed key is polled at some time; the guest does not
\* keep interrupts off for ever.
Fairness ==
  /\ WF_vars(Next)
  /\ SF_vars(PeripheralEmulations(TRUE) /\ UNCHANGED session)
  /\ SF_vars(SetEnable(TRUE) /\ UNCHANGED session)

Spec == Init /\ [][Next]_vars
FairSpec == Spec /\ Fairness

-----------------------------------------------------------------------------
(* Properties.                                                             *)

\* What a typed key means to the guest.
Character(key) ==
  CASE key = 263 -> 8 [] key = 330 -> 127 [] OTHER -> key

\* The keys a guest can tell apart: those of one byte and the two that are
\* translated.  (Any other key of curses is cut to its low byte.)
NamedKey == (0 .. 255) \cup {263, 330}

\* UartEmulation neither loses nor repeats a key: each one is with the
\* terminal, in the receive register, or read, whatever the disk does.
KeysAccounted ==
  Len(typing) + (IF uart_full /\ ~uart_read THEN 1 ELSE 0) + Len(received)
    = Len(session.keys)

\* A guest that prints nothing reads the characters that were typed, each in
\* its place, also after a key it cannot name.  (A guest that prints stores into
\* the receive register, so it can read its own output instead of the key.)
KeysFaithful ==
  ~session.echo /\ session.prints = 0 =>
    /\ Len(received) <= Len(session.keys)
    /\ \A i \in 1 .. Len(received) :
         session.keys[i] \in NamedKey =>
           received[i] = Character(session.keys[i])

\* A guest that can read a character has a full UART: the line status in
\* memory and uart_full_ agree when the guest looks.
StatusHonest ==
  phase \in {"poll", "execute"} => (lsr_ready <=> uart_full)

\* Every typed key is read, unless one of them ends the run
\* (README: "You can run the commands, for example by typing").
EveryKeyRead == <>(phase = "done" \/ Len(received) = Len(session.keys))

\* While the disk is idle every typed key is read: no interrupt of
\* UartInterrupt is lost on its way through the claim word, the flags and the
\* pending bit, whatever the guest prints and however long it masks
\* interrupts.
KeysReadWhileDiskIdle == session.requests = 0 => EveryKeyRead

\* While nobody types every disk request wakes the guest: the interrupt
\* VirtioEmulation fires reaches the disk handler.
EveryRequestWakes ==
  session.keys = <<>> /\ request = "waiting" ~> request = "none"
=============================================================================
