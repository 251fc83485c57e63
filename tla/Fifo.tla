-------------------------------- MODULE Fifo --------------------------------
(***************************************************************************)
(* What a pipe promises: a bounded queue of bytes.  A write may fail once  *)
(* no reader is left, and a reader sees the end of the file only when the  *)
(* queue is empty and no writer is left.                                   *)
(***************************************************************************)
EXTENDS Sequences, Naturals

CONSTANTS Bytes, Capacity

VARIABLES
  queue,     \* the bytes written and not yet read
  readers,   \* some reader is left
  writers,   \* some writer is left
  eof        \* a reader has seen the end of the file

fifoVars == <<queue, readers, writers, eof>>

FifoInit == queue = <<>> /\ readers = TRUE /\ writers = TRUE /\ eof = FALSE

Put(b) ==
  /\ Len(queue) < Capacity
  /\ writers
  /\ queue' = Append(queue, b)
  /\ UNCHANGED <<readers, writers, eof>>

Get ==
  /\ queue # <<>>
  /\ queue' = Tail(queue)
  /\ UNCHANGED <<readers, writers, eof>>

CloseRead == readers' = FALSE /\ UNCHANGED <<queue, writers, eof>>

CloseWrite == writers' = FALSE /\ UNCHANGED <<queue, readers, eof>>

SeeEof ==
  /\ queue = <<>> /\ ~writers
  /\ eof' = TRUE
  /\ UNCHANGED <<queue, readers, writers>>

FifoNext ==
  \/ \E b \in Bytes : Put(b)
  \/ Get \/ CloseRead \/ CloseWrite \/ SeeEof

FifoSpec == FifoInit /\ [][FifoNext]_fifoVars

=============================================================================
