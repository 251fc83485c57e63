------------------------------ MODULE RawDisk -------------------------------
(***************************************************************************)
(* What virtio_disk_rw() promises: the block is moved once between the     *)
(* call and the return, between the caller's buffer and the caller's block *)
(* and in the direction that was asked for.                                *)
(***************************************************************************)
CONSTANTS Procs, Blocks, Data, NULL

VARIABLES
  platter,   \* the blocks
  mem,       \* the buffer of a process in a call
  request    \* [block, write, moved], or NULL

rawVars == <<platter, mem, request>>

RawInit ==
  /\ platter \in [Blocks -> Data]
  /\ mem = [p \in Procs |-> NULL]
  /\ request = [p \in Procs |-> NULL]

Call(p, k, w, v) ==
  /\ request[p] = NULL
  /\ request' = [request EXCEPT ![p] = [block |-> k, write |-> w, moved |-> FALSE]]
  /\ mem' = [mem EXCEPT ![p] = v]
  /\ UNCHANGED platter

Move(p) ==
  /\ request[p] # NULL /\ ~request[p].moved
  /\ request' = [request EXCEPT ![p].moved = TRUE]
  /\ IF request[p].write
     THEN platter' = [platter EXCEPT ![request[p].block] = mem[p]] /\ UNCHANGED mem
     ELSE mem' = [mem EXCEPT ![p] = platter[request[p].block]] /\ UNCHANGED platter

Return(p) ==
  /\ request[p] # NULL /\ request[p].moved
  /\ request' = [request EXCEPT ![p] = NULL]
  /\ mem' = [mem EXCEPT ![p] = NULL]
  /\ UNCHANGED platter

RawNext ==
  \E p \in Procs :
    \/ Move(p) \/ Return(p)
    \/ \E k \in Blocks, v \in Data : Call(p, k, TRUE, v)
    \/ \E k \in Blocks : Call(p, k, FALSE, NULL)

RawSpec == RawInit /\ [][RawNext]_rawVars

=============================================================================
