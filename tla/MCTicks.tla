------------------------------ MODULE MCTicks -------------------------------
(* Small instances of Ticks for TLC. *)
EXTENDS Ticks

SleepValues == {-1, 1, 3}

=============================================================================
