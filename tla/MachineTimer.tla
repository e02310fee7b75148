---------------------------- MODULE MachineTimer ----------------------------
(***************************************************************************)
(* mtime and mtimecmp of PeripheralEmulator.cpp.  The count of cycles and  *)
(* the value it is compared with are members; memory holds copies of them  *)
(* that the guest reads and writes.                                        *)
(***************************************************************************)
EXTENDS Memory

CONSTANTS kTimerCmp, kTimerMtime

ASSUME TimerAssumption ==
  /\ kTimerCmp \in 0 .. MemorySize - 8 /\ kTimerCmp % 8 = 0
  /\ kTimerMtime \in 0 .. MemorySize - 8 /\ kTimerMtime % 8 = 0
  /\ kTimerCmp # 0 /\ kTimerCmp # kTimerMtime

TimerInit ==
  [elapsed_cycles |-> 0, next_cycle |-> 0, timercmp_update |-> TRUE,
   timer_interrupt |-> FALSE]

\* CheckDeviceWrite: the store overlaps mtimecmp.
TimerCmpWritten(address, width) ==
  kTimerCmp < address + width /\ address < kTimerCmp + 8

\* A faulty variant: the comparison value is read as a word.
TickedWord(t, mem) ==
  LET elapsed == (t.elapsed_cycles + 1) % Weight[8]
      next == IF t.timercmp_update THEN Read32(mem, kTimerCmp) ELSE t.next_cycle
  IN [elapsed_cycles |-> elapsed, next_cycle |-> next,
      timercmp_update |-> FALSE,
      timer_interrupt |-> t.timer_interrupt \/ elapsed = next]

\* A faulty variant: next_cycle_ is never read from memory again.
TickedOnce(t, mem) ==
  LET elapsed == (t.elapsed_cycles + 1) % Weight[8]
      next == IF t.elapsed_cycles = 0 THEN Read64(mem, kTimerCmp) ELSE t.next_cycle
  IN [elapsed_cycles |-> elapsed, next_cycle |-> next,
      timercmp_update |-> FALSE,
      timer_interrupt |-> t.timer_interrupt \/ elapsed = next]

\* PeripheralEmulator::TimerTick.
Ticked(t, mem) ==
  LET elapsed == (t.elapsed_cycles + 1) % Weight[8]
      next == IF t.timercmp_update THEN Read64(mem, kTimerCmp) ELSE t.next_cycle
  IN [elapsed_cycles |-> elapsed, next_cycle |-> next,
      timercmp_update |-> FALSE,
      timer_interrupt |-> t.timer_interrupt \/ elapsed = next]

\* MemoryMappedValueUpdate, which precedes every load.
MemoryMappedValueUpdate(t, mem) == Write64(mem, kTimerMtime, t.elapsed_cycles)

=============================================================================
