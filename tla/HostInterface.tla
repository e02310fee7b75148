---------------------------- MODULE HostInterface ----------------------------
(***************************************************************************)
(* The tohost words of PeripheralEmulator.cpp, by which a test program     *)
(* ends the emulator and hands over its exit value (option -h).            *)
(*                                                                         *)
(* The state p: host_write is the set of words written since the last      *)
(* emulation, the others are the members of that name.  mxl is 1 on a 32   *)
(* bit and 2 on a 64 bit hart.                                             *)
(***************************************************************************)
EXTENDS Memory

CONSTANTS kToHost0, kToHost1

ASSUME HostAssumption ==
  /\ kToHost0 \in 0 .. MemorySize - 8 /\ kToHost0 % 8 = 0
  /\ kToHost1 \in 0 .. MemorySize - 8 /\ kToHost1 % 8 = 0
  /\ kToHost0 # kToHost1

HostInit ==
  [host_write |-> {}, host_value |-> 0, end_flag |-> FALSE, error_flag |-> FALSE]

\* The address as it is compared: of a 32 bit hart only the lower half.
HostAddress(address, mxl) == IF mxl = 1 THEN address % MemorySize ELSE address

\* A faulty variant: the upper half counts on a 32 bit hart as well.
HostWordsExact(address, mxl) ==
  (IF address = kToHost0 THEN {0} ELSE {})
    \cup (IF address = kToHost1 THEN {1} ELSE {})

\* The words that a store at address is noted for, whatever its width.
HostWords(address, mxl) ==
  (IF HostAddress(address, mxl) = kToHost0 THEN {0} ELSE {})
    \cup (IF HostAddress(address, mxl) = kToHost1 THEN {1} ELSE {})

HostPayload(mem, word, mxl) ==
  IF mxl = 1 THEN Read32(mem, word) ELSE Read64(mem, word)

\* The fields of tohost0.  The mask of the command is wide enough for the
\* device's byte above it to be a part of it.
HostDevice(payload, mxl) == IF mxl = 1 THEN 0 ELSE ByteOf(payload, 7)
HostCommand(payload, mxl) == IF mxl = 1 THEN 0 ELSE payload \div Weight[6]
HostValue(payload) == payload % Weight[6]

HostEmulation(p, mem, mxl) ==
  LET payload == HostPayload(mem, kToHost0, mxl)
      done == [p EXCEPT !.host_write = {}, !.end_flag = FALSE]
  IN CASE p.host_write = {} -> p
       [] 1 \in p.host_write ->
            [p EXCEPT !.host_write = {}, !.end_flag = TRUE,
                      !.host_value = HostPayload(mem, kToHost1, mxl) \div 2]
       [] OTHER ->
            IF HostDevice(payload, mxl) # 0 THEN done
            ELSE IF HostCommand(payload, mxl) # 0
                 THEN [done EXCEPT !.error_flag = TRUE, !.end_flag = TRUE]
            ELSE IF HostValue(payload) % 2 = 0 THEN done
            ELSE [done EXCEPT !.host_value = HostValue(payload) \div 2,
                              !.end_flag = TRUE]

=============================================================================
