---------------------- MODULE ExternalInterruptsProofs ----------------------
(***************************************************************************)
(* Proofs for every session and every guest output: what the UART hands    *)
(* over.                                                                   *)
(***************************************************************************)
EXTENDS ExternalInterrupts, TLAPS

-----------------------------------------------------------------------------
(* The invariant.                                                          *)

TypeOK ==
  /\ phase \in {"poll", "execute", "peripheral", "done"}
  /\ session \in Session
  /\ typing \in Seq(Nat)
  /\ uart_base \in 0 .. 255
  /\ char \in 0 .. 255
  /\ lsr_ready \in BOOLEAN
  /\ uart_full \in BOOLEAN
  /\ uart_read \in BOOLEAN
  /\ guest \in {"run", "claim", "status", "character", "echo", "disk",
                "complete", "return"}
  /\ received \in Seq(0 .. 255)
  /\ prints \in Nat

\* A key is in the receive register and not read yet.
Waiting == uart_full /\ ~uart_read
\* How many keys have left the terminal.
Taken == Len(received) + (IF Waiting THEN 1 ELSE 0)

\* The line status in memory follows uart_full_, and a read is pending for
\* the devices only between the load and PeripheralEmulations.
Flags ==
  /\ lsr_ready <=> uart_full
  /\ uart_read => phase = "peripheral"

\* A guest about to read a character has one to read.
Reader ==
  /\ guest = "character" => Waiting
  /\ guest = "echo" => session.echo

\* What the terminal still has is the rest of what was typed.
Rest ==
  /\ Taken + Len(typing) = Len(session.keys)
  /\ \A i \in 1 .. Len(typing) : typing[i] = session.keys[Taken + i]

\* The receive register and the characters read are those of the keys.
Bytes ==
  ~session.echo /\ session.prints = 0 =>
    /\ \A i \in 1 .. Len(received) : received[i] = KeyByte(session.keys[i])
    /\ Waiting => uart_base = KeyByte(session.keys[Taken])

IInv == TypeOK /\ Flags /\ Reader /\ Rest /\ Bytes

-----------------------------------------------------------------------------
(* The steps.                                                              *)

\* A key is stored as a byte.
LEMMA KeyByteType ==
  ASSUME NEW key \in Nat
  PROVE  KeyByte(key) \in 0 .. 255
BY DEF KeyByte, KEY_BACKSPACE, KEY_DC

\* Before the first key nothing is taken.
LEMMA InitIInv == Init => IInv
<1> SUFFICES ASSUME Init PROVE IInv
  OBVIOUS
<1>1. session \in Session
  BY GuestAssumption DEF Init
<1>2. session.keys \in Seq(Nat)
  BY <1>1 DEF Session
<1>3. TypeOK
  <2>1. received \in Seq(0 .. 255) /\ typing \in Seq(Nat)
    BY <1>2 DEF Init
  <2>2. uart_base \in 0 .. 255 /\ char \in 0 .. 255 /\ prints \in Nat
    BY DEF Init
  <2>3. QED
    BY <1>1, <2>1, <2>2, Zenon DEF Init, TypeOK
<1>4. Flags /\ Reader /\ ~Waiting
  BY DEF Init, Flags, Reader, Waiting
<1>5. Taken = 0
  BY <1>4 DEF Init, Taken
<1>6. QED
  BY <1>2, <1>3, <1>4, <1>5 DEF IInv, Init, Rest, Bytes

\* PeripheralEmulations moves one key from the terminal to the register, if
\* the register is free.
LEMMA PeripheralIInv ==
  ASSUME IInv, NEW arrives \in BOOLEAN, PeripheralEmulations(arrives),
         UNCHANGED session
  PROVE  IInv'
<1> USE DEF IInv
<1>1. session.keys \in Seq(Nat)
  BY DEF TypeOK, Session
<1>2. CASE arrives
  <2>1. typing # <<>> /\ ~Waiting
    BY <1>2 DEF PeripheralEmulations, KeyArrives, Waiting
  <2>2. /\ Head(typing) \in Nat
        /\ Head(typing) = typing[1]
        /\ Len(typing) \in Nat \ {0}
        /\ Tail(typing) \in Seq(Nat)
        /\ Len(Tail(typing)) = Len(typing) - 1
        /\ \A i \in 1 .. Len(Tail(typing)) : Tail(typing)[i] = typing[i + 1]
    BY <2>1 DEF TypeOK
  <2>3. /\ uart_full' = TRUE /\ uart_read' = FALSE /\ lsr_ready' = TRUE
        /\ typing' = Tail(typing)
        /\ uart_base' = KeyByte(Head(typing))
        /\ phase' \in {"poll", "done"}
        /\ UNCHANGED <<guest, received, char, prints>>
    BY <1>2 DEF PeripheralEmulations, LineStatus, guestVars
  <2>4. Waiting' /\ Taken' = Taken + 1 /\ Taken \in Nat /\ Taken = Len(received)
    <3>1. Waiting'
      BY <2>3 DEF Waiting
    <3>2. Len(received) \in Nat
      BY DEF TypeOK
    <3>3. QED
      BY <2>1, <2>3, <3>1, <3>2 DEF Taken
  <2>5. Flags' /\ Reader' /\ TypeOK'
    <3>1. uart_base' \in 0 .. 255
      BY <2>2, <2>3, KeyByteType
    <3>2. TypeOK'
      BY <2>2, <2>3, <3>1 DEF TypeOK
    <3>3. QED
      BY <2>3, <2>4, <3>2 DEF Flags, Reader
  <2>6. \A i \in 1 .. Len(typing') : i + 1 \in 1 .. Len(typing)
    BY <2>2, <2>3
  <2>7. Rest'
    <3>1. \A i \in 1 .. Len(typing') : typing'[i] = session.keys[Taken + (i + 1)]
      BY <2>2, <2>3, <2>6 DEF Rest
    <3>2. \A i \in 1 .. Len(typing') : Taken + (i + 1) = Taken' + i
      BY <2>4
    <3>3. Taken + Len(typing) = Len(session.keys)
      BY DEF Rest
    <3>4. Taken' + Len(typing') = Len(session.keys)
      BY <2>2, <2>3, <2>4, <3>3
    <3>5. QED
      BY <3>1, <3>2, <3>4 DEF Rest
  <2>8. uart_base' = KeyByte(session.keys[Taken + 1])
    BY <1>2, <2>2 DEF PeripheralEmulations, Rest
  <2>9. Bytes'
    BY <2>4, <2>8 DEF Bytes, PeripheralEmulations, guestVars
  <2>10. QED
    BY <2>5, <2>7, <2>9
<1>3. CASE ~arrives
  <2>2. /\ uart_full' = Waiting
        /\ uart_read' = FALSE
        /\ lsr_ready' = (lsr_ready /\ ~uart_read)
        /\ phase' \in {"poll", "done"}
        /\ UNCHANGED <<guest, received, typing, uart_base, char, prints>>
    BY <1>3 DEF PeripheralEmulations, Waiting, LineStatus, guestVars
  <2>1. TypeOK'
    BY <2>2 DEF TypeOK, Waiting
  <2>3. Waiting' = Waiting
    BY <2>2 DEF Waiting, TypeOK
  <2>4. Taken' = Taken
    BY <2>2, <2>3 DEF Taken
  <2>5. Flags' /\ Reader'
    BY <2>2, <2>3 DEF Flags, Reader, Waiting, TypeOK
  <2>6. Rest' /\ Bytes'
    BY <2>2, <2>3, <2>4 DEF Rest, Bytes
  <2>7. QED
    BY <2>1, <2>5, <2>6
<1>4. QED
  BY <1>2, <1>3

\* A load of the receive register takes the key that waits in it.
LEMMA ReadIInv ==
  ASSUME IInv, ReadCharacter, UNCHANGED session
  PROVE  IInv'
<1> USE DEF IInv
<1>1. session.keys \in Seq(Nat)
  BY DEF TypeOK, Session
<1>2. /\ guest = "character" /\ phase' = "peripheral"
      /\ guest' \in {"echo", "status"} /\ (guest' = "echo" => session.echo)
      /\ char' = uart_base
      /\ received' = Append(received, uart_base)
      /\ uart_read' = TRUE
      /\ UNCHANGED <<typing, uart_base, lsr_ready, uart_full, prints>>
  BY DEF ReadCharacter, Executing, LoadUart
<1>3. Waiting /\ ~Waiting'
  BY <1>2 DEF Reader, Waiting
<1>4. /\ received' \in Seq(0 .. 255)
      /\ Len(received') = Len(received) + 1
      /\ Len(received) \in Nat
      /\ \A i \in 1 .. Len(received) : received'[i] = received[i]
      /\ received'[Len(received) + 1] = uart_base
  BY <1>2 DEF TypeOK
<1>5. TypeOK'
  BY <1>2, <1>4 DEF TypeOK
<1>6. Taken' = Taken /\ Taken = Len(received) + 1
  BY <1>3, <1>4 DEF Taken
<1>7. Flags' /\ Reader' /\ Rest'
  BY <1>2, <1>6 DEF Flags, Reader, Rest
<1>8. Bytes'
  <2> SUFFICES ASSUME ~session.echo, session.prints = 0,
                      NEW i \in 1 .. Len(received')
               PROVE  received'[i] = KeyByte(session.keys[i])
    BY <1>3 DEF Bytes
  <2>1. CASE i <= Len(received)
    BY <2>1, <1>4 DEF Bytes
  <2>2. CASE i = Len(received) + 1
    BY <2>2, <1>3, <1>4, <1>6 DEF Bytes
  <2>3. QED
    BY <2>1, <2>2, <1>4
<1>9. QED
  BY <1>5, <1>7, <1>8

\* A store to the register, by PutCharacter or EchoCharacter, is made only by
\* a guest that prints.
LEMMA StoreIInv ==
  ASSUME IInv, UNCHANGED session,
         EchoCharacter \/ \E c \in Output : PutCharacter(c)
  PROVE  IInv'
<1> USE DEF IInv
<1>1. session.prints \in Nat /\ session.echo \in BOOLEAN
  BY DEF TypeOK, Session
<1>2. /\ uart_base' \in 0 .. 255
      /\ session.echo \/ session.prints # 0
      /\ phase' = "peripheral"
      /\ guest' \in {"run", "status"}
      /\ prints' \in Nat
      /\ UNCHANGED <<typing, lsr_ready, uart_full, uart_read, char, received>>
  <2>1. CASE EchoCharacter
    BY <2>1 DEF EchoCharacter, Executing, StoreUart, Reader, TypeOK
  <2>2. CASE \E c \in Output : PutCharacter(c)
    BY <2>2, <1>1, GuestAssumption DEF PutCharacter, Executing, StoreUart, TypeOK
  <2>3. QED
    BY <2>1, <2>2
<1>3. TypeOK'
  BY <1>2 DEF TypeOK
<1>4. Taken' = Taken /\ Waiting' = Waiting
  BY <1>2 DEF Taken, Waiting
<1>5. QED
  BY <1>2, <1>3, <1>4 DEF Flags, Reader, Rest, Bytes

\* Every other step leaves the keys where they are.
LEMMA OtherIInv ==
  ASSUME IInv, UNCHANGED session,
         \/ NoInterrupt \/ TakeInterrupt
         \/ Idle \/ (\E on \in BOOLEAN : SetEnable(on)) \/ StartRequest \/ Claim
         \/ ReadStatus \/ DiskHandler \/ Complete \/ Return
  PROVE  IInv'
<1> USE DEF IInv
<1>1. /\ phase \in {"poll", "execute"}
      /\ phase' \in {"poll", "execute", "peripheral"}
      /\ guest' \in {"run", "claim", "status", "character", "disk", "complete",
                     "return"} \cup {guest}
      /\ guest' = "character" => guest = "character" \/ lsr_ready
      /\ UNCHANGED <<uartVars, char, received, prints>>
  BY DEF NoInterrupt, TakeInterrupt, Idle, SetEnable, StartRequest, Claim,
     ReadStatus, DiskHandler, Complete, Return, Executing, guestVars
<1>2. TypeOK'
  BY <1>1 DEF TypeOK, uartVars
<1>3. Taken' = Taken /\ Waiting' = Waiting
  BY <1>1 DEF Taken, Waiting, uartVars
<1>4. Flags' /\ Reader'
  BY <1>1, <1>3 DEF Flags, Reader, Waiting, uartVars
<1>5. Rest' /\ Bytes'
  BY <1>1, <1>3 DEF Rest, Bytes, uartVars
<1>6. QED
  BY <1>2, <1>4, <1>5

LEMMA StepIInv == IInv /\ [Next]_vars => IInv'
<1> SUFFICES ASSUME IInv, [Next]_vars PROVE IInv'
  OBVIOUS
<1>1. CASE UNCHANGED vars
  <2>1. UNCHANGED <<phase, session, typing, uart_base, char, lsr_ready, uart_full,
                    uart_read, guest, received, prints>>
    BY <1>1 DEF vars, uartVars, guestVars
  <2>2. QED
    BY <2>1 DEF IInv, TypeOK, Flags, Reader, Rest, Bytes, Taken, Waiting
<1>2. CASE Next
  <2>1. UNCHANGED session
    BY <1>2 DEF Next
  <2>2. CASE \E arrives \in BOOLEAN : PeripheralEmulations(arrives)
    BY <2>1, <2>2, PeripheralIInv
  <2>3. CASE ReadCharacter
    BY <2>1, <2>3, ReadIInv
  <2>4. CASE EchoCharacter \/ \E c \in Output : PutCharacter(c)
    BY <2>1, <2>4, StoreIInv
  <2>5. CASE \/ NoInterrupt \/ TakeInterrupt
             \/ Idle \/ (\E on \in BOOLEAN : SetEnable(on)) \/ StartRequest
             \/ Claim \/ ReadStatus \/ DiskHandler \/ Complete \/ Return
    BY <2>1, <2>5, OtherIInv
  <2>6. CASE Ended
    BY <1>1, <2>6 DEF Ended
  <2>7. QED
    BY <1>2, <2>2, <2>3, <2>4, <2>5, <2>6 DEF Next, Step, GuestStep
<1>3. QED
  BY <1>1, <1>2

LEMMA Invariance == Spec => []IInv
BY InitIInv, StepIInv, PTL DEF Spec

-----------------------------------------------------------------------------
(* The theorems.                                                           *)

\* UartEmulation neither loses nor repeats a key, whatever is typed, whenever
\* the terminal is polled, and whatever the guest and the disk do meanwhile.
THEOREM KeysAccountedHolds == Spec => []KeysAccounted
<1>1. IInv => KeysAccounted
  <2> SUFFICES ASSUME IInv PROVE KeysAccounted
    OBVIOUS
  <2>1. /\ Len(typing) \in Nat
        /\ Len(received) \in Nat
        /\ Taken + Len(typing) = Len(session.keys)
    BY DEF IInv, TypeOK, Rest
  <2>2. QED
    BY <2>1 DEF KeysAccounted, Taken, Waiting
<1>2. QED
  BY <1>1, Invariance, PTL

\* The line status the guest polls in memory agrees with uart_full_ of the
\* device whenever the guest can look.
THEOREM StatusHonestHolds == Spec => []StatusHonest
<1>1. IInv => StatusHonest
  BY DEF IInv, Flags, StatusHonest
<1>2. QED
  BY <1>1, Invariance, PTL

\* A guest that prints nothing reads the characters that were typed, each in
\* its place: no store of SetUartBuffer overtakes an unread key.
THEOREM KeysFaithfulHolds == Spec => []KeysFaithful
<1>1. IInv => KeysFaithful
  <2> SUFFICES ASSUME IInv, ~session.echo, session.prints = 0
               PROVE  /\ Len(received) <= Len(session.keys)
                      /\ \A i \in 1 .. Len(received) :
                           session.keys[i] \in NamedKey =>
                             received[i] = Character(session.keys[i])
    BY DEF KeysFaithful
  <2>1. /\ Len(typing) \in Nat
        /\ Len(received) \in Nat
        /\ Taken + Len(typing) = Len(session.keys)
    BY DEF IInv, TypeOK, Rest
  <2>2. Len(received) <= Len(session.keys)
    BY <2>1 DEF Taken
  <2>3. \A key \in NamedKey : KeyByte(key) = Character(key)
    BY DEF NamedKey, KeyByte, Character, KEY_BACKSPACE, KEY_DC
  <2>4. \A i \in 1 .. Len(received) : received[i] = KeyByte(session.keys[i])
    BY DEF IInv, Bytes
  <2>5. QED
    BY <2>2, <2>3, <2>4
<1>2. QED
  BY <1>1, Invariance, PTL
=============================================================================
