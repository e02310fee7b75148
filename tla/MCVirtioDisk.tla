---------------------------- MODULE MCVirtioDisk ----------------------------
(* Two processes on a disk of two blocks.                                  *)
EXTENDS VirtioDisk

CONSTANTS p1, p2

TwoProcesses == {p1, p2}

\* The first issues enough requests for the used index to leave the ring and
\* its page, for both indices to wrap, and for a third request after that.  The
\* second passes the queue length with two requests in flight, and may announce
\* a page size that the device does not know.
SerialDriver == [outstanding |-> 1, sizes |-> {4096}, requests |-> 19]
SharedDriver == [outstanding |-> 2, sizes |-> {4096, 8192}, requests |-> 9]
BothDrivers == {SerialDriver, SharedDriver}
ConcurrentDriver == {[outstanding |-> 2, sizes |-> {4096}, requests |-> 6]}
=============================================================================
