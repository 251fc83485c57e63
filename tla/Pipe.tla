-------------------------------- MODULE Pipe --------------------------------
(***************************************************************************)
(* Pipes (kernel/pipe.c): pipewrite(), piperead() and pipeclose() on one   *)
(* pipe, by processes that hold its two ends.                              *)
(*                                                                         *)
(* pi->lock is a variable, held through the loops of pipewrite() and       *)
(* piperead() except in sleep(); a step is one turn of a loop.  Only       *)
(* kill() and the choice of the next call come between.  A process that is *)
(* in a call has the file open, so fileclose() cannot drop the last        *)
(* reference to its end before the call is over.                           *)
(***************************************************************************)
EXTENDS Integers, Sequences

CONSTANTS
  Writers, Readers,   \* processes that have the write end, the read end
  NULL,               \* no process
  Bytes,
  PIPESIZE,
  W,                  \* nread and nwrite wrap around at 2^W
  Counts              \* bound: how many bytes programs ask for in a call

ASSUME PipeAssumption ==
  /\ NULL \notin Writers \cup Readers \cup Bytes
  /\ Writers \cap Readers = {}
  /\ PIPESIZE \in Nat \ {0} /\ W \in Nat /\ 2 ^ W % PIPESIZE = 0
  /\ PIPESIZE < 2 ^ W
  /\ Counts \subseteq Nat

Procs == Writers \cup Readers

VARIABLES
  data, nread, nwrite, readopen, writeopen,   \* struct pipe
  lock,      \* who holds pi->lock
  pc,
  n, i,      \* the argument and the loop variable of the call
  killed,
  eof        \* history: some read() has returned 0 for a count above 0

pipe == <<data, nread, nwrite, readopen, writeopen>>
vars == <<pipe, lock, pc, n, i, killed, eof>>

Uint(x) == x % 2 ^ W

\* pipealloc(); what kalloc() leaves in the page is no byte of a program.
Init ==
  /\ data = [j \in 0 .. PIPESIZE - 1 |-> NULL]
  /\ nread = 0 /\ nwrite = 0
  /\ readopen = TRUE /\ writeopen = TRUE
  /\ lock = NULL
  /\ pc = [p \in Procs |-> "user"]
  /\ n = [p \in Procs |-> 0]
  /\ i = [p \in Procs |-> 0]
  /\ killed = [p \in Procs |-> FALSE]
  /\ eof = FALSE

-----------------------------------------------------------------------------
GoTo(p, place) == pc' = [pc EXCEPT ![p] = place]

\* wakeup(&pi->nread) and wakeup(&pi->nwrite), then p goes on at a place.
WakeReaders(p, place) ==
  pc' = [[q \in Procs |-> IF pc[q] = "read_asleep" THEN "read_loop" ELSE pc[q]]
           EXCEPT ![p] = place]

WakeWriters(p, place) ==
  pc' = [[q \in Procs |-> IF pc[q] = "write_asleep" THEN "write_loop" ELSE pc[q]]
           EXCEPT ![p] = place]

\* Mutant: the comparison misses the wrap-around of nread + PIPESIZE.
Full_nowrap == nwrite = nread + PIPESIZE

Full == nwrite = Uint(nread + PIPESIZE)
Empty == nread = nwrite

\* The caller has the lock, or takes it.
Acquire(p) == lock \in {NULL, p} /\ lock' = p

Release(p) == lock \in {NULL, p} /\ lock' = NULL

\* The call is over.
Done(p) ==
  /\ n' = [n EXCEPT ![p] = 0]
  /\ i' = [i EXCEPT ![p] = 0]

-----------------------------------------------------------------------------
(* pipewrite(). *)

write(p, k) ==
  /\ pc[p] = "user" /\ ~killed[p]
  /\ n' = [n EXCEPT ![p] = k]
  /\ GoTo(p, "write_loop")
  /\ UNCHANGED <<pipe, lock, i, killed, eof>>

\* Mutant: the loop tries again where it should give up.
write_fails_retries(p) ==
  /\ pc[p] = "write_loop"
  /\ i[p] < n[p]
  /\ ~readopen \/ killed[p]
  /\ Release(p)
  /\ UNCHANGED <<pipe, pc, n, i, killed, eof>>

\* No reader is left, or the caller is killed: -1.
write_fails(p) ==
  /\ pc[p] = "write_loop"
  /\ i[p] < n[p]
  /\ ~readopen \/ killed[p]
  /\ Release(p)
  /\ Done(p)
  /\ GoTo(p, "user")
  /\ UNCHANGED <<pipe, killed, eof>>

\* The pipe is full; killed() has been tested, sleep() comes next.
write_full(p) ==
  /\ pc[p] = "write_loop"
  /\ i[p] < n[p]
  /\ readopen /\ ~killed[p]
  /\ Full
  /\ Acquire(p)
  /\ WakeReaders(p, "write_nap")
  /\ UNCHANGED <<pipe, n, i, killed, eof>>

write_sleep(p) ==
  /\ pc[p] = "write_nap"
  /\ Release(p)
  /\ GoTo(p, "write_asleep")
  /\ UNCHANGED <<pipe, n, i, killed, eof>>

\* A byte goes into the pipe.
write_byte(p, b) ==
  /\ pc[p] = "write_loop"
  /\ i[p] < n[p]
  /\ readopen /\ ~killed[p]
  /\ ~Full
  /\ Acquire(p)
  /\ data' = [data EXCEPT ![nwrite % PIPESIZE] = b]
  /\ nwrite' = Uint(nwrite + 1)
  /\ i' = [i EXCEPT ![p] = @ + 1]
  /\ UNCHANGED <<nread, readopen, writeopen, pc, n, killed, eof>>

\* All bytes are in, or copyin() of the next one fails: the count.
write_done(p) ==
  /\ pc[p] = "write_loop"
  /\ i[p] < n[p] => readopen /\ ~killed[p] /\ ~Full
  /\ Release(p)
  /\ Done(p)
  /\ WakeReaders(p, "user")
  /\ UNCHANGED <<pipe, killed, eof>>

-----------------------------------------------------------------------------
(* piperead(). *)

read(p, k) ==
  /\ pc[p] = "user" /\ ~killed[p]
  /\ n' = [n EXCEPT ![p] = k]
  /\ GoTo(p, "read_loop")
  /\ UNCHANGED <<pipe, lock, i, killed, eof>>

\* The loop while the pipe is empty: -1 for a killed caller.
read_fails(p) ==
  /\ pc[p] = "read_loop"
  /\ Empty /\ writeopen
  /\ killed[p]
  /\ Release(p)
  /\ Done(p)
  /\ GoTo(p, "user")
  /\ UNCHANGED <<pipe, killed, eof>>

read_empty(p) ==
  /\ pc[p] = "read_loop"
  /\ Empty /\ writeopen
  /\ ~killed[p]
  /\ Acquire(p)
  /\ GoTo(p, "read_nap")
  /\ UNCHANGED <<pipe, n, i, killed, eof>>

read_sleep(p) ==
  /\ pc[p] = "read_nap"
  /\ Release(p)
  /\ GoTo(p, "read_asleep")
  /\ UNCHANGED <<pipe, n, i, killed, eof>>

\* The loop that waits is over.
read_ready(p) ==
  /\ pc[p] = "read_loop"
  /\ ~(Empty /\ writeopen)
  /\ Acquire(p)
  /\ GoTo(p, "read_copy")
  /\ UNCHANGED <<pipe, n, i, killed, eof>>

\* A byte is taken from the pipe; when copyout() fails it is lost, and not
\* counted.
read_byte(p) ==
  /\ pc[p] = "read_copy"
  /\ i[p] < n[p] /\ ~Empty
  /\ nread' = Uint(nread + 1)
  /\ \/ i' = [i EXCEPT ![p] = @ + 1] /\ UNCHANGED pc
     \/ GoTo(p, "read_end") /\ UNCHANGED i
  /\ UNCHANGED <<data, nwrite, readopen, writeopen, lock, n, killed, eof>>

\* Enough, or the pipe is empty.
read_enough(p) ==
  /\ pc[p] = "read_copy"
  /\ i[p] = n[p] \/ Empty
  /\ eof' = (eof \/ (i[p] = 0 /\ n[p] > 0))
  /\ GoTo(p, "read_end")
  /\ UNCHANGED <<pipe, lock, n, i, killed>>

read_done(p) ==
  /\ pc[p] = "read_end"
  /\ Release(p)
  /\ Done(p)
  /\ WakeWriters(p, "user")
  /\ UNCHANGED <<pipe, killed, eof>>

-----------------------------------------------------------------------------
(* pipeclose(), when the last process closes its end, and kill(). *)

Open(S) == {p \in S : pc[p] # "closed"}

\* A program closes its end, or exits.
close(p) ==
  /\ pc[p] = "user"
  /\ IF Open(IF p \in Writers THEN Writers ELSE Readers) # {p}
     THEN GoTo(p, "closed") /\ UNCHANGED <<readopen, writeopen>>
     ELSE /\ lock = NULL
          /\ IF p \in Writers
             THEN /\ writeopen' = FALSE /\ UNCHANGED readopen
                  /\ WakeReaders(p, "closed")
             ELSE /\ readopen' = FALSE /\ UNCHANGED writeopen
                  /\ WakeWriters(p, "closed")
  /\ UNCHANGED <<data, nread, nwrite, lock, n, i, killed, eof>>

kill(p) ==
  /\ ~killed[p] /\ pc[p] # "closed"
  /\ killed' = [killed EXCEPT ![p] = TRUE]
  /\ pc' = [pc EXCEPT ![p] = CASE @ = "read_asleep"  -> "read_loop"
                               [] @ = "write_asleep" -> "write_loop"
                               [] OTHER              -> @]
  /\ UNCHANGED <<pipe, lock, n, i, eof>>

-----------------------------------------------------------------------------
\* What a process does inside its call.
WriteStep(p) ==
  \/ write_fails(p) \/ write_full(p) \/ write_sleep(p) \/ write_done(p)
  \/ \E b \in Bytes : write_byte(p, b)

ReadStep(p) ==
  \/ read_fails(p) \/ read_empty(p) \/ read_sleep(p) \/ read_ready(p)
  \/ read_byte(p) \/ read_enough(p) \/ read_done(p)

Next ==
  \/ \E p \in Writers : WriteStep(p) \/ \E k \in Counts : write(p, k)
  \/ \E p \in Readers : ReadStep(p) \/ \E k \in Counts : read(p, k)
  \/ \E p \in Procs : close(p) \/ kill(p)
  \/ /\ \A p \in Procs : pc[p] = "closed"
     /\ UNCHANGED vars

Spec == Init /\ [][Next]_vars

\* A process inside a call gets a CPU, and the lock when it tries again and
\* again.  Programs go on: one that holds an end uses it or closes it.
Fairness ==
  /\ \A p \in Writers : SF_vars(WriteStep(p))
  /\ \A p \in Readers : SF_vars(ReadStep(p))
  /\ SF_vars(\E p \in Procs : close(p))

FairSpec == Spec /\ Fairness

-----------------------------------------------------------------------------
(* Properties. *)

Count == Uint(nwrite - nread)

F == INSTANCE Fifo WITH
  Capacity <- PIPESIZE,
  queue <- [j \in 1 .. Count |-> data[Uint(nread + j - 1) % PIPESIZE]],
  readers <- readopen,
  writers <- writeopen

\* The ring with its wrapping indices is a queue of at most PIPESIZE bytes:
\* none is overwritten, reordered or read twice, and read() reports the end
\* of the file only when all bytes are gone.
ImplementsFifo == F!FifoSpec

\* A call on a pipe ends if the processes at the ends do not hold
\* them for ever: a waiting reader gets bytes, the end of the file or the news
\* that it is killed, a waiting writer space or an error.
CallEnds ==
  \A p \in Procs : pc[p] \in {"read_asleep", "write_asleep"} ~> pc[p] = "user"

=============================================================================
