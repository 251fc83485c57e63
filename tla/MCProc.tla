------------------------------- MODULE MCProc -------------------------------
(* Small instances of Proc for TLC. *)
EXTENDS Proc, TLC

\* All slots but init's are alike: the scans of the table take any slot.
SlotSymmetry == Permutations(Slots \ {initproc})

=============================================================================
