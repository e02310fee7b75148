----------------------------- MODULE FlatMemory -----------------------------
(***************************************************************************)
(* What the memory promises: an array of bytes, initially zero, in which a *)
(* write of some bytes changes exactly them.  Addresses are taken modulo   *)
(* the size of the memory.                                                 *)
(***************************************************************************)
EXTENDS Integers, Sequences

CONSTANT Size        (* the bytes of the memory *)

VARIABLES
  bytes,         (* the memory                                             *)
  access         (* the last write: its address and its bytes              *)

Address == 0 .. Size - 1

\* The place of byte k of an access at address.
Place(address, k) == (address + k - 1) % Size

\* The bytes after a write: of several for one place the last one counts.
Overwritten(address, data) ==
  [a \in Address |->
     LET here == {k \in 1 .. Len(data) : Place(address, k) = a}
     IN  IF here = {} THEN bytes[a]
         ELSE data[CHOOSE k \in here : \A j \in here : j <= k]]

Init ==
  /\ bytes = [a \in Address |-> 0]
  /\ access.data = << >>

Write == bytes' = Overwritten(access'.address, access'.data)

Spec == Init /\ [][Write]_<<bytes, access>>

\* The bytes that a read of n bytes at address must return.
Contents(address, n) == [k \in 1 .. n |-> bytes[Place(address, k)]]

=============================================================================
