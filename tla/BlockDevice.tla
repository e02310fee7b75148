----------------------------- MODULE BlockDevice -----------------------------
(***************************************************************************)
(* What a disk promises to the processes that use it: a process issues a   *)
(* request, the request is carried out once, at one moment between its     *)
(* issue and its return, and a read returns what the block held then.      *)
(***************************************************************************)
CONSTANTS Process, Block, Data

VARIABLES
  store,    (* the contents of each block                                  *)
  request,  (* the request each process has issued last                    *)
  stage,    (* idle, issued or carried out                                 *)
  buffer    (* the data a process writes, or has read                      *)

vars == <<store, request, stage, buffer>>

Request == [write: BOOLEAN, block: Block]

Init ==
  /\ store \in [Block -> Data]
  /\ request \in [Process -> Request]
  /\ stage = [p \in Process |-> "idle"]
  /\ buffer \in [Process -> Data]

Issue(p) ==
  /\ stage[p] = "idle"
  /\ \E r \in Request : request' = [request EXCEPT ![p] = r]
  /\ \E d \in Data : buffer' = [buffer EXCEPT ![p] = d]
  /\ stage' = [stage EXCEPT ![p] = "issued"]
  /\ UNCHANGED store

CarryOut(p) ==
  LET b == request[p].block
  IN  /\ stage[p] = "issued"
      /\ stage' = [stage EXCEPT ![p] = "carried out"]
      /\ \/ /\ request[p].write
            /\ store' = [store EXCEPT ![b] = buffer[p]]
            /\ UNCHANGED buffer
         \/ /\ ~request[p].write
            /\ buffer' = [buffer EXCEPT ![p] = store[b]]
            /\ UNCHANGED store
      /\ UNCHANGED request

Return(p) ==
  /\ stage[p] = "carried out"
  /\ stage' = [stage EXCEPT ![p] = "idle"]
  /\ UNCHANGED <<store, request, buffer>>

Next == \E p \in Process : Issue(p) \/ CarryOut(p) \/ Return(p)

Spec == Init /\ [][Next]_vars
=============================================================================
