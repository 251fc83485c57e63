------------------------------ MODULE Spinlock ------------------------------
(***************************************************************************)
(* Spinlocks and interrupts: kernel/spinlock.c, with what kernel/trap.c    *)
(* and the hardware do around an interrupt.                                *)
(*                                                                         *)
(* In the other modules a section of code under a spinlock is one step, or *)
(* the lock is a variable that one thread holds.  This module is why: it   *)
(* has acquire(), release(), push_off() and pop_off() one memory access at *)
(* a time, on any number of CPUs, and interrupts wherever a CPU takes      *)
(* them.                                                                   *)
(*                                                                         *)
(* The code around is any code that keeps to the rules: it releases only   *)
(* locks it has acquired and acquires only locks it has not, as far as it  *)
(* can know.  An interrupt handler knows nothing of the code it has        *)
(* interrupted.                                                            *)
(***************************************************************************)
EXTENDS Integers, FiniteSets

CONSTANTS CPUs, Locks

VARIABLES
  locked, cpu,          \* struct spinlock, for each lock (cpu is {} for 0)
  intr, noff, intena,   \* SSTATUS_SIE and struct cpu, for each CPU
  pc, lk, old,          \* where the CPU is, and the variables of its call
  trapped, saved,       \* is it in a handler, and the code it has interrupted
  mine, want            \* history: the locks that the running code has, and
                        \* whether it wants interrupts

vars == <<locked, cpu, intr, noff, intena, pc, lk, old, trapped, saved, mine, want>>

Contexts == [pc : {"run", "push"}, lk : Locks, old : BOOLEAN, mine : SUBSET Locks]

Init ==
  /\ locked = [l \in Locks |-> FALSE] /\ cpu = [l \in Locks |-> {}]
  /\ intr \in [CPUs -> BOOLEAN] /\ want = intr
  /\ noff = [c \in CPUs |-> 0] /\ intena \in [CPUs -> BOOLEAN]
  /\ pc = [c \in CPUs |-> "run"]
  /\ lk \in [CPUs -> Locks] /\ old \in [CPUs -> BOOLEAN]
  /\ trapped = [c \in CPUs |-> FALSE] /\ saved \in [CPUs -> Contexts]
  /\ mine = [c \in CPUs |-> {}]

GoTo(c, place) == pc' = [pc EXCEPT ![c] = place]

-----------------------------------------------------------------------------
(* acquire(). *)

\* push_off(): old = intr_get().  An interrupt may still come.
acquire(c, l) ==
  /\ pc[c] = "run" /\ l \notin mine[c]
  /\ lk' = [lk EXCEPT ![c] = l]
  /\ old' = [old EXCEPT ![c] = intr[c]]
  /\ GoTo(c, "push")
  /\ UNCHANGED <<locked, cpu, intr, noff, intena, trapped, saved, mine, want>>

\* The rest of push_off().
push_off(c) ==
  /\ pc[c] = "push"
  /\ intr' = [intr EXCEPT ![c] = FALSE]
  /\ intena' = [intena EXCEPT ![c] = IF noff[c] = 0 THEN old[c] ELSE @]
  /\ noff' = [noff EXCEPT ![c] = @ + 1]
  /\ GoTo(c, "locked")
  /\ UNCHANGED <<locked, cpu, lk, old, trapped, saved, mine, want>>

\* holding(): lk->locked and lk->cpu are read while other CPUs write them.
holding_locked(c) ==
  /\ pc[c] = "locked"
  /\ GoTo(c, IF locked[lk[c]] THEN "cpu" ELSE "spin")
  /\ UNCHANGED <<locked, cpu, intr, noff, intena, lk, old, trapped, saved, mine, want>>

holding_cpu(c) ==
  /\ pc[c] = "cpu"
  /\ GoTo(c, IF cpu[lk[c]] = {c} THEN "panic" ELSE "spin")
  /\ UNCHANGED <<locked, cpu, intr, noff, intena, lk, old, trapped, saved, mine, want>>

\* The swap that finds 0.
spin(c) ==
  /\ pc[c] = "spin" /\ ~locked[lk[c]]
  /\ locked' = [locked EXCEPT ![lk[c]] = TRUE]
  /\ GoTo(c, "got")
  /\ UNCHANGED <<cpu, intr, noff, intena, lk, old, trapped, saved, mine, want>>

got(c) ==
  /\ pc[c] = "got"
  /\ cpu' = [cpu EXCEPT ![lk[c]] = {c}]
  /\ mine' = [mine EXCEPT ![c] = @ \cup {lk[c]}]
  /\ GoTo(c, "run")
  /\ UNCHANGED <<locked, intr, noff, intena, lk, old, trapped, saved, want>>

-----------------------------------------------------------------------------
(* release(). *)

release(c, l) ==
  /\ pc[c] = "run" /\ l \in mine[c]
  /\ lk' = [lk EXCEPT ![c] = l]
  /\ mine' = [mine EXCEPT ![c] = @ \ {l}]
  /\ IF locked[l] /\ cpu[l] = {c}
     THEN cpu' = [cpu EXCEPT ![l] = {}] /\ GoTo(c, "unlock")
     ELSE UNCHANGED cpu /\ GoTo(c, "panic")
  /\ UNCHANGED <<locked, intr, noff, intena, old, trapped, saved, want>>

unlock(c) ==
  /\ pc[c] = "unlock"
  /\ locked' = [locked EXCEPT ![lk[c]] = FALSE]
  /\ GoTo(c, "pop")
  /\ UNCHANGED <<cpu, intr, noff, intena, lk, old, trapped, saved, mine, want>>

pop_off(c) ==
  /\ pc[c] = "pop"
  /\ IF intr[c] \/ noff[c] < 1
     THEN GoTo(c, "panic") /\ UNCHANGED <<noff, intr>>
     ELSE /\ noff' = [noff EXCEPT ![c] = @ - 1]
          /\ intr' = [intr EXCEPT ![c] = @ \/ (noff[c] = 1 /\ intena[c])]
          /\ GoTo(c, "run")
  /\ UNCHANGED <<locked, cpu, intena, lk, old, trapped, saved, mine, want>>

-----------------------------------------------------------------------------
(* Interrupts. *)

\* The hardware clears SSTATUS_SIE and kernelvec saves the registers.
interrupt(c) ==
  /\ intr[c] /\ pc[c] # "panic"
  /\ trapped' = [trapped EXCEPT ![c] = TRUE]
  /\ saved' = [saved EXCEPT ![c] = [pc |-> pc[c], lk |-> lk[c], old |-> old[c], mine |-> mine[c]]]
  /\ intr' = [intr EXCEPT ![c] = FALSE]
  /\ want' = [want EXCEPT ![c] = FALSE]
  /\ mine' = [mine EXCEPT ![c] = {}]
  /\ GoTo(c, "run")
  /\ UNCHANGED <<locked, cpu, noff, intena, lk, old>>

\* kerneltrap() returns: it has given back its locks, and sret puts
\* SSTATUS_SIE back.
kerneltrap_return(c) ==
  /\ trapped[c] /\ pc[c] = "run" /\ mine[c] = {}
  /\ trapped' = [trapped EXCEPT ![c] = FALSE]
  /\ GoTo(c, saved[c].pc)
  /\ lk' = [lk EXCEPT ![c] = saved[c].lk]
  /\ old' = [old EXCEPT ![c] = saved[c].old]
  /\ mine' = [mine EXCEPT ![c] = saved[c].mine]
  /\ intr' = [intr EXCEPT ![c] = TRUE]
  /\ want' = [want EXCEPT ![c] = TRUE]
  /\ UNCHANGED <<locked, cpu, noff, intena, saved>>

\* intr_on() in usertrap() and scheduler(), intr_off() in usertrapret(): not
\* under a lock, and not in an interrupt from the kernel.
intr_set(c, b) ==
  /\ pc[c] = "run" /\ mine[c] = {} /\ ~trapped[c]
  /\ intr' = [intr EXCEPT ![c] = b]
  /\ want' = [want EXCEPT ![c] = b]
  /\ UNCHANGED <<locked, cpu, noff, intena, pc, lk, old, trapped, saved, mine>>

-----------------------------------------------------------------------------
Next ==
  \E c \in CPUs :
    \/ \E l \in Locks : acquire(c, l) \/ release(c, l)
    \/ push_off(c) \/ holding_locked(c) \/ holding_cpu(c) \/ spin(c) \/ got(c)
    \/ unlock(c) \/ pop_off(c)
    \/ interrupt(c) \/ kerneltrap_return(c)
    \/ \E b \in BOOLEAN : intr_set(c, b)

Spec == Init /\ [][Next]_vars

-----------------------------------------------------------------------------
(* Properties. *)

\* A lock is with one CPU at a time, whatever acquire(), release() and
\* interrupts do in between.
MutualExclusion == \A c, d \in CPUs : c # d => mine[c] \cap mine[d] = {}

\* Code that keeps to the rules never meets the panics of acquire(), release()
\* and pop_off().  For a handler this says that it never asks for a lock that
\* the code it has interrupted holds, which it would wait for in vain; for
\* holding(), that its reads without the lock do not mislead it.
NoPanic == \A c \in CPUs : pc[c] # "panic"

\* push_off() and pop_off() match: with a lock in hand a CPU takes no
\* interrupts, and after the last release() it takes them again exactly if it
\* did before the first acquire().
InterruptsMatch ==
  \A c \in CPUs : pc[c] = "run" =>
    intr[c] = (want[c] /\ mine[c] = {})

=============================================================================
