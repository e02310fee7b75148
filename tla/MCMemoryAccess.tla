--------------------------- MODULE MCMemoryAccess ---------------------------
(* Units of 4 bytes and pages of two units: the accesses start in the last *)
(* unit of page 0 and in page 1.                                           *)
EXTENDS MemoryAccess

AroundBoundary == {4, 5, 6, 7, 8, 10, 11, 12, 15}
=============================================================================
