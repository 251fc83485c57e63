---------------------------- MODULE MCCustomCalls ----------------------------
(* Small instances of CustomCalls for TLC. *)
EXTENDS CustomCalls, TLC

SlotSymmetry == Permutations(Slots \ {initproc})

=============================================================================
