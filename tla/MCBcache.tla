------------------------------ MODULE MCBcache ------------------------------
(* Small instances of Bcache for TLC. *)
EXTENDS Bcache, TLC

Symmetry == Permutations(Procs) \cup Permutations(Blocks) \cup Permutations(Data)

=============================================================================
