---------------------------- MODULE MCTrapFrames ----------------------------
(* Guests for the model checker: what each run lets the guest write.       *)
EXTENDS TrapFrames

Op(instruction, csr, operand) ==
  [instruction |-> instruction, csr |-> csr, operand |-> operand]

\* Mode changes by MPP, both global enables, the timer and the external
\* interrupt enabled, and everything delegated.
FrameWrites ==
  {Op("CSRRS", "MSTATUS", {3, 11}), Op("CSRRS", "SSTATUS", {1}),
   Op("CSRRW", "MIE", {7, 9}),
   Op("CSRRW", "MIDELEG", {7, 9}), Op("CSRRW", "MEDELEG", {8})}
FrameAddresses == {[csr |-> "EPC", level |-> 1, value |-> 4]}

\* A demand-paging guest that writes CSRs, with values that
\* include hardwired bits and the reserved MPP: page faults delegated,
\* accesses under MPRV, timer interrupts between an AMO and the next fetch, a
\* handler that returns into the second half of a word.
PagingWrites ==
  {Op("CSRRW", "MSTATUS", {12, 13, 17, 33, 63}),
   Op("CSRRCI", "SSTATUS", {1}), Op("CSRRW", "MIE", {3, 7}),
   Op("CSRRWI", "MIP", {3}),
   Op("CSRRW", "MEDELEG", {12, 13})}
PagingAddresses == {[csr |-> "EPC", level |-> 3, value |-> 2]}
\* Machine-mode firmware that drops to supervisor mode with the timer
\* interrupt enabled and delegated, and then passes the timer on as a
\* supervisor timer interrupt.
FirmwareWrites ==
  {Op("CSRRS", "MSTATUS", {11}), Op("CSRRS", "MIE", {5, 7}),
   Op("CSRRW", "MIDELEG", {5, 7}), Op("CSRRS", "MIP", {5})}
NoAddresses == {}
=============================================================================
