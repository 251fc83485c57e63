------------------------------- MODULE MCUart -------------------------------
(* Small instances of Uart for TLC. *)
EXTENDS Uart, TLC

Symmetry == Permutations(Writers) \cup Permutations(Echoes) \cup Permutations(Bytes)

=============================================================================
