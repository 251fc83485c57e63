------------------------------- MODULE MCPipe -------------------------------
(* Small instances of Pipe for TLC. *)
EXTENDS Pipe, TLC

Symmetry == Permutations(Writers) \cup Permutations(Readers) \cup Permutations(Bytes)

=============================================================================
