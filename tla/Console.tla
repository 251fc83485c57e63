------------------------------ MODULE Console -------------------------------
(***************************************************************************)
(* Console input (kernel/console.c): consoleintr(), which uartintr() calls *)
(* with every character that arrives, and consoleread() by several         *)
(* processes.                                                              *)
(*                                                                         *)
(* cons.lock is a variable: consoleintr() is one step with the lock free,  *)
(* consoleread() has one step per character and keeps the lock except in   *)
(* sleep().  Echoing is output, see Uart.                                  *)
(***************************************************************************)
EXTENDS Integers, Sequences

CONSTANTS
  Readers,
  NULL,
  Letters,           \* characters without a meaning of their own
  INPUT_BUF_SIZE,
  W,                 \* r, w and e wrap around at 2^W
  MaxCount           \* bound: characters asked for by one call

ASSUME ConsoleAssumption ==
  /\ NULL \notin Readers
  /\ INPUT_BUF_SIZE \in Nat \ {0} /\ W \in Nat
  /\ 2 ^ W % INPUT_BUF_SIZE = 0 /\ INPUT_BUF_SIZE < 2 ^ W
  /\ MaxCount \in Nat
  /\ Letters \cap {"newline", "return", "^D", "^U", "^H", "^P", "nul"} = {}

Stored == Letters \cup {"newline", "^D"}

VARIABLES
  buf, r, w, e,    \* cons
  lock,            \* who holds cons.lock
  pc,
  target, n,       \* consoleread()'s variables
  killed

cons == <<buf, r, w, e>>
vars == <<cons, lock, pc, target, n, killed>>

Uint(x) == x % 2 ^ W

\* consoleinit(); the buffer is zero, which is never stored.
Init ==
  /\ buf = [j \in 0 .. INPUT_BUF_SIZE - 1 |-> "nul"]
  /\ r = 0 /\ w = 0 /\ e = 0
  /\ lock = NULL
  /\ pc = [p \in Readers |-> "user"]
  /\ target = [p \in Readers |-> 0]
  /\ n = [p \in Readers |-> 0]
  /\ killed = [p \in Readers |-> FALSE]

At(j) == buf[Uint(j) % INPUT_BUF_SIZE]

-----------------------------------------------------------------------------
(* consoleintr(c). *)

\* ^U: back to the start of the line.
kill_line ==
  /\ lock = NULL
  /\ LET Ends == {k \in 0 .. Uint(e - w) :
                    k = Uint(e - w) \/ At(e - k - 1) = "newline"}
     IN  e' = Uint(e - (CHOOSE k \in Ends : \A j \in Ends : k <= j))
  /\ UNCHANGED <<buf, r, w, lock, pc, target, n, killed>>

\* Mutant: erases characters that are handed over already.
backspace_any ==
  /\ lock = NULL
  /\ e # r
  /\ e' = Uint(e - 1)
  /\ UNCHANGED <<buf, r, w, lock, pc, target, n, killed>>

\* ^H and delete.
backspace ==
  /\ lock = NULL
  /\ e # w
  /\ e' = Uint(e - 1)
  /\ UNCHANGED <<buf, r, w, lock, pc, target, n, killed>>

\* Mutant: a full buffer is not handed over.
store_nofull(ch) ==
  LET c == IF ch = "return" THEN "newline" ELSE ch
      end == Uint(e + 1)
  IN  /\ lock = NULL
      /\ ch # "nul" /\ Uint(e - r) < INPUT_BUF_SIZE
      /\ buf' = [buf EXCEPT ![e % INPUT_BUF_SIZE] = c]
      /\ e' = end
      /\ IF c \in {"newline", "^D"}
         THEN /\ w' = end
              /\ pc' = [p \in Readers |->
                          IF pc[p] = "asleep" THEN "loop" ELSE pc[p]]
         ELSE UNCHANGED <<w, pc>>
      /\ UNCHANGED <<r, lock, target, n, killed>>

\* Another character: dropped when it is zero or the buffer is full.
store(ch) ==
  LET c == IF ch = "return" THEN "newline" ELSE ch
      end == Uint(e + 1)
  IN  /\ lock = NULL
      /\ ch # "nul" /\ Uint(e - r) < INPUT_BUF_SIZE
      /\ buf' = [buf EXCEPT ![e % INPUT_BUF_SIZE] = c]
      /\ e' = end
      /\ IF c \in {"newline", "^D"} \/ Uint(end - r) = INPUT_BUF_SIZE
         THEN /\ w' = end
              /\ pc' = [p \in Readers |->
                          IF pc[p] = "asleep" THEN "loop" ELSE pc[p]]
         ELSE UNCHANGED <<w, pc>>
      /\ UNCHANGED <<r, lock, target, n, killed>>

\* ^P prints the process table; it and the dropped characters change nothing.
consoleintr ==
  \/ kill_line \/ backspace
  \/ \E ch \in Letters \cup {"newline", "return", "^D", "nul"} : store(ch)

-----------------------------------------------------------------------------
(* consoleread(). *)

GoTo(p, place) == pc' = [pc EXCEPT ![p] = place]

Acquire(p) == lock \in {NULL, p} /\ lock' = p

Release(p) == lock \in {NULL, p} /\ lock' = NULL

Return(p) ==
  /\ Release(p)
  /\ GoTo(p, "user")
  /\ target' = [target EXCEPT ![p] = 0]
  /\ n' = [n EXCEPT ![p] = 0]

consoleread(p, count) ==
  /\ pc[p] = "user" /\ ~killed[p]
  /\ target' = [target EXCEPT ![p] = count]
  /\ n' = [n EXCEPT ![p] = count]
  /\ GoTo(p, "loop")
  /\ UNCHANGED <<cons, lock, killed>>

\* All that was asked for.
read_done(p) ==
  /\ pc[p] = "loop"
  /\ n[p] = 0
  /\ Return(p)
  /\ UNCHANGED <<cons, killed>>

\* Killed while nothing is there: -1, whatever has been copied.
read_killed(p) ==
  /\ pc[p] = "loop"
  /\ n[p] > 0 /\ r = w
  /\ killed[p]
  /\ Return(p)
  /\ UNCHANGED <<cons, killed>>

read_wait(p) ==
  /\ pc[p] = "loop"
  /\ n[p] > 0 /\ r = w
  /\ ~killed[p]
  /\ Acquire(p)
  /\ GoTo(p, "nap")
  /\ UNCHANGED <<cons, target, n, killed>>

\* sleep(&cons.r, &cons.lock).
read_sleep(p) ==
  /\ pc[p] = "nap"
  /\ Release(p)
  /\ GoTo(p, "asleep")
  /\ UNCHANGED <<cons, target, n, killed>>

\* ^D ends the call; it stays in the buffer for the next call when this one
\* has characters to return.
read_eof(p) ==
  /\ pc[p] = "loop"
  /\ n[p] > 0 /\ r # w
  /\ At(r) = "^D"
  /\ r' = IF n[p] < target[p] THEN r ELSE Uint(r + 1)
  /\ Return(p)
  /\ UNCHANGED <<buf, w, e, killed>>

\* A character; the call ends after a newline, and when copyout() fails, for
\* which the character is lost.
read_char(p) ==
  /\ pc[p] = "loop"
  /\ n[p] > 0 /\ r # w
  /\ At(r) # "^D"
  /\ r' = Uint(r + 1)
  /\ \/ Return(p)
     \/ /\ At(r) # "newline"
        /\ Acquire(p)
        /\ n' = [n EXCEPT ![p] = @ - 1]
        /\ UNCHANGED <<pc, target>>
  /\ UNCHANGED <<buf, w, e, killed>>

kill(p) ==
  /\ ~killed[p]
  /\ killed' = [killed EXCEPT ![p] = TRUE]
  /\ pc' = [pc EXCEPT ![p] = IF @ = "asleep" THEN "loop" ELSE @]
  /\ UNCHANGED <<cons, lock, target, n>>

-----------------------------------------------------------------------------
ReadStep(p) ==
  \/ read_done(p) \/ read_killed(p) \/ read_wait(p) \/ read_sleep(p)
  \/ read_eof(p) \/ read_char(p)

Next ==
  \/ consoleintr
  \/ \E p \in Readers : ReadStep(p) \/ kill(p)
  \/ \E p \in Readers, count \in 0 .. MaxCount : consoleread(p, count)

Spec == Init /\ [][Next]_vars

\* A process inside consoleread() gets a CPU, and the lock when it tries again
\* and again.
FairSpec == Spec /\ \A p \in Readers : SF_vars(ReadStep(p))

-----------------------------------------------------------------------------
(* Properties. *)

Between(i, j) == [k \in 1 .. Uint(j - i) |-> At(i + k - 1)]

L == INSTANCE LineQueue WITH
  Chars <- Stored,
  Enders <- {"newline", "^D"},
  Capacity <- INPUT_BUF_SIZE,
  ready <- Between(r, w),
  edit <- Between(w, e)

\* The ring with its three wrapping indices hands over whole lines in order,
\* none of whose characters is overwritten, and ^H and ^U never reach a
\* character that a reader may already have seen.
ImplementsLineQueue == L!LineSpec

\* When a finished line is there and all readers are in a call, one of the
\* calls ends; ^D or the newline ends it even if it asked for more.  And a
\* buffer full of an unfinished line does not wedge the console: it is handed
\* over as it is, so that there is space again.
LineDelivered ==
  LET AllRead == \A p \in Readers : pc[p] # "user"
  IN  /\ (/\ AllRead
          /\ \E k \in 1 .. Uint(w - r) : At(r + k - 1) \in {"newline", "^D"})
           ~> ~AllRead
      /\ (AllRead /\ Uint(e - r) = INPUT_BUF_SIZE)
           ~> (~AllRead \/ Uint(e - r) < INPUT_BUF_SIZE)

=============================================================================
