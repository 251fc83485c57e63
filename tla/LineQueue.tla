----------------------------- MODULE LineQueue ------------------------------
(***************************************************************************)
(* What the console promises its readers: the line being typed can be      *)
(* edited and is not seen by readers; a finished line, or a buffer that is *)
(* full, is handed over and can no longer be edited.                       *)
(***************************************************************************)
EXTENDS Sequences, SequencesExt, Naturals

CONSTANTS Chars, Enders, Capacity

VARIABLES
  ready,    \* characters handed over to the readers
  edit      \* the line being typed

lineVars == <<ready, edit>>

LineInit == ready = <<>> /\ edit = <<>>

Type(c) ==
  /\ Len(ready) + Len(edit) < Capacity
  /\ IF c \in Enders \/ Len(ready) + Len(edit) + 1 = Capacity
     THEN ready' = ready \o Append(edit, c) /\ edit' = <<>>
     ELSE edit' = Append(edit, c) /\ UNCHANGED ready

Erase ==
  /\ edit # <<>>
  /\ edit' = Front(edit)
  /\ UNCHANGED ready

EraseLine == edit' = <<>> /\ UNCHANGED ready

Take ==
  /\ ready # <<>>
  /\ ready' = Tail(ready)
  /\ UNCHANGED edit

LineNext == Erase \/ EraseLine \/ Take \/ \E c \in Chars : Type(c)

LineSpec == LineInit /\ [][LineNext]_lineVars

=============================================================================
