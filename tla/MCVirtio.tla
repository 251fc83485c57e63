------------------------------ MODULE MCVirtio ------------------------------
(* Small instances of Virtio for TLC: process p has a buffer of block p. *)
EXTENDS Virtio

MCblockno == [p \in Procs |-> p]

=============================================================================
