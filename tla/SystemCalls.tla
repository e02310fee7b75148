---------------------------- MODULE SystemCalls ----------------------------
(***************************************************************************)
(* SystemCallEmulation of system_call_emulator.cpp: the calls of a newlib  *)
(* program, carried out on the files of the host.                          *)
(*                                                                         *)
(* The state s of a call:                                                  *)
(*   mem           the memory                                              *)
(*   a0            reg[A0], a double word                                  *)
(*   brk           the program break                                       *)
(*   fds           the host process's open descriptors and what they are:  *)
(*                 one of its own streams, or a file the guest opened,     *)
(*                 readable or also writable                               *)
(*   openHandles   the count that close consults                           *)
(*   end           end_flag                                                *)
(*   written       what the call wrote to memory                           *)
(* A call yields a set of states: what the host answers is its choice.     *)
(***************************************************************************)
EXTENDS Memory, FiniteSets

CONSTANTS
  StatSize,      (* sizeof(Riscv32NewlibStat)                              *)
  MaxFd          (* bound: the host's largest descriptor                   *)

ASSUME CallAssumption == StatSize \in Nat /\ MaxFd \in Nat

\* The host's -1 in a register, and as read() leaves it there.
Failed == Weight[8] - 1
kO_WRITE == 2

NothingWritten == [address |-> 0, data |-> << >>]
Streams == 0 .. 2
FilesOf(fds) == {fd \in DOMAIN fds : fds[fd] # "stream"}

-----------------------------------------------------------------------------
(* The host's calls.                                                       *)

HostTransfer(fds, kinds, fd, length) ==
  IF fd \in DOMAIN fds /\ fds[fd] \in kinds THEN (0 .. length) \cup {Failed}
  ELSE {Failed}

HostStatus(fds, fd) == IF fd \in DOMAIN fds THEN 0 ELSE Failed

\* The position in the file: the offset, or one that counts from the present
\* position or the end, which the host keeps.
HostSeek(fds, fd, offset, whence) ==
  {Failed} \cup
    {n \in 0 .. Weight[8] \div 2 - 1 :
       /\ fd \in DOMAIN fds
       /\ whence \in {0, 1, 2}
       /\ whence = 0 => n = offset}

\* The lowest free descriptor, or a failure.
HostOpen(fds) ==
  {fd \in 0 .. MaxFd : fd \notin DOMAIN fds /\ 0 .. (fd - 1) \subseteq DOMAIN fds}
    \cup {Failed}

-----------------------------------------------------------------------------
(* The calls.                                                              *)

ExitCall(s, c) == {[s EXCEPT !.end = TRUE]}

WriteCall(s, c) ==
  {[s EXCEPT !.a0 = n] :
     n \in HostTransfer(s.fds, {"stream", "rw"}, c.a0, c.a2)}

BrkCall(s, c, top) ==
  {IF c.a0 = 0 THEN [s EXCEPT !.a0 = s.brk]
   ELSE IF c.a0 < top THEN [s EXCEPT !.brk = c.a0]
   ELSE [s EXCEPT !.a0 = Failed]}

\* The whole buffer is copied, what the host did not fill included.
Received(s, c, n, buffer) ==
  [s EXCEPT !.a0 = n % Weight[4],
            !.mem = WriteBytes(s.mem, c.a1, buffer),
            !.written = [address |-> c.a1, data |-> buffer]]

ReadCall(s, c) ==
  UNION {{Received(s, c, n, buffer) : buffer \in [1 .. c.a2 -> Byte]} :
           n \in HostTransfer(s.fds, {"stream", "r", "rw"}, c.a0, c.a2)}

\* The structure is copied whether or not fstat filled it.
FstatCall(s, c) ==
  {[s EXCEPT !.a0 = HostStatus(s.fds, c.a0),
             !.mem = WriteBytes(s.mem, c.a1, stat),
             !.written = [address |-> c.a1, data |-> stat]] :
     stat \in [1 .. StatSize -> Byte]}

CloseCall(s, c) ==
  {IF s.openHandles > 0
   THEN [s EXCEPT
           !.a0 = HostStatus(s.fds, c.a0),
           !.fds = [fd \in DOMAIN s.fds \ {c.a0} |-> s.fds[fd]],
           !.openHandles = s.openHandles - 1]
   ELSE [s EXCEPT !.a0 = 0]}

\* Opened for reading and writing, or for reading only; the other flags are
\* translated one to one and belong to the host.
OpenMode(flags) == IF (flags \div kO_WRITE) % 2 = 1 THEN "rw" ELSE "r"

\* MemoryWrapperStrlen: bytes up to the first zero, at most max of them.
MemoryWrapperStrlen(mem, address, max) ==
  CHOOSE n \in 0 .. max :
    /\ \A k \in 0 .. (n - 1) : ReadByte(mem, address + k) # 0
    /\ n = max \/ ReadByte(mem, address + n) = 0

Opened(s, c, fd) ==
  IF fd = Failed THEN [s EXCEPT !.a0 = Failed]
  ELSE [s EXCEPT !.a0 = fd,
                 !.fds = [f \in DOMAIN s.fds \cup {fd} |->
                            IF f = fd THEN OpenMode(c.a1) ELSE s.fds[f]],
                 !.openHandles = s.openHandles + 1]

\* A faulty variant: an open that fails is counted as well.
OpenCallCounted(s, c, max) ==
  IF MemoryWrapperStrlen(s.mem, c.a0, max) = 0 THEN {[s EXCEPT !.a0 = Failed]}
  ELSE {[Opened(s, c, fd) EXCEPT !.openHandles = s.openHandles + 1] :
          fd \in HostOpen(s.fds)}

OpenCall(s, c, max) ==
  IF MemoryWrapperStrlen(s.mem, c.a0, max) = 0 THEN {[s EXCEPT !.a0 = Failed]}
  ELSE {Opened(s, c, fd) : fd \in HostOpen(s.fds)}

\* A value cut to an int, in a register of 64 bits.
IntInRegister(n) ==
  LET low == n % Weight[4]
  IN IF low < Weight[4] \div 2 THEN low ELSE Weight[8] - Weight[4] + low

LseekCall(s, c) ==
  {[s EXCEPT !.a0 = IntInRegister(n)] : n \in HostSeek(s.fds, c.a0, c.a1, c.a2)}

\* SystemCallEmulation: the call that reg[A7] asks for; others end the program.
SystemCallEmulation(s, c, top, max) ==
  CASE c.a7 = 93   -> ExitCall(s, c)
    [] c.a7 = 64   -> WriteCall(s, c)
    [] c.a7 = 214  -> BrkCall(s, c, top)
    [] c.a7 = 63   -> ReadCall(s, c)
    [] c.a7 = 80   -> FstatCall(s, c)
    [] c.a7 = 57   -> CloseCall(s, c)
    [] c.a7 = 1024 -> OpenCall(s, c, max)
    [] c.a7 = 62   -> LseekCall(s, c)
    [] OTHER       -> ExitCall(s, c)

=============================================================================
