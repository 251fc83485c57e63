-------------------------------- MODULE Proc --------------------------------
(***************************************************************************)
(* The process table of the kernel (kernel/proc.c): slots, the scheduler,  *)
(* fork(), exit(), wait(), kill(), sleep() and wakeup(), with the traps    *)
(* that lead into them (kernel/trap.c).                                    *)
(*                                                                         *)
(* One step is one critical section.  Everything done between acquiring    *)
(* and releasing one p->lock is a single action, because every field that  *)
(* it touches is read and written under that lock only.  sleep(), yield()  *)
(* and exit() keep p->lock until the scheduler on the other side of        *)
(* swtch() releases it, so changing the state and leaving the CPU is one   *)
(* action too.  wait_lock is held across several such sections and is a    *)
(* variable.  pc[p] says where the kernel thread of p is; it survives the  *)
(* thread's leaving the CPU, as its kernel stack does.                     *)
(***************************************************************************)
EXTENDS Integers, FiniteSets

CONSTANTS
  Slots,        \* proc[NPROC]
  initproc,     \* the slot of the first user process
  CPUs,         \* cpus[NCPU]
  NULL,         \* the null pointer
  Ticks,        \* the address &ticks, a sleep channel that is no slot
  MaxPid,       \* bound of the model: no pid above it is handed out
  KillTargets   \* the pids that programs pass to kill()

ASSUME ProcAssumption ==
  /\ initproc \in Slots
  /\ NULL \notin Slots
  /\ NULL \notin CPUs
  /\ Ticks \notin Slots \cup {NULL}
  /\ MaxPid \in Nat
  /\ KillTargets \subseteq Nat

VARIABLES
  state, chan, killed, pid, parent,  \* fields of struct proc
  nextpid,      \* the next pid allocpid() hands out
  cpu,          \* cpu[c] is c->proc
  wait_lock,    \* the process whose thread holds wait_lock, or NULL
  pc,           \* where each kernel thread is
  np            \* the local variable np of fork()

vars == <<state, chan, killed, pid, parent, nextpid, cpu, wait_lock, pc, np>>

procstate == {"UNUSED", "USED", "SLEEPING", "RUNNABLE", "RUNNING", "ZOMBIE"}

\* Places where a thread holds no spinlock, so that a timer interrupt
\* makes it yield.
Interruptible == {"user", "fork_link", "fork_start", "exit", "wait", "panic"}

Places == Interruptible \cup
  {"exit_locked", "zombie", "wait_scanned", "wait_nap", "wait_asleep",
   "ticks_asleep"}

\* After boot: userinit() made init, which has the only used slot.
Init ==
  /\ state = [p \in Slots |-> IF p = initproc THEN "RUNNABLE" ELSE "UNUSED"]
  /\ chan = [p \in Slots |-> NULL]
  /\ killed = [p \in Slots |-> 0]
  /\ pid = [p \in Slots |-> IF p = initproc THEN 1 ELSE 0]
  /\ parent = [p \in Slots |-> NULL]
  /\ nextpid = 2
  /\ cpu = [c \in CPUs |-> NULL]
  /\ wait_lock = NULL
  /\ pc = [p \in Slots |-> "user"]
  /\ np = [p \in Slots |-> NULL]

-----------------------------------------------------------------------------
(* Helpers. *)

\* The thread of p is executing on some CPU.
OnCpu(p) == \E c \in CPUs : cpu[c] = p

At(p, place) == OnCpu(p) /\ pc[p] = place

GoTo(p, place) == pc' = [pc EXCEPT ![p] = place]

\* sched(): back to the scheduler, which clears c->proc.
sched(p) == cpu' = [c \in CPUs |-> IF cpu[c] = p THEN NULL ELSE cpu[c]]

\* Mutant: wakeup() does not look at the state.
wakeup_anystate(p, ch, st) ==
  [q \in Slots |-> IF q # p /\ chan[q] = ch THEN "RUNNABLE" ELSE st[q]]

\* wakeup(ch), called by p, as a function from states to states.
wakeup(p, ch, st) ==
  [q \in Slots |-> IF q # p /\ st[q] = "SLEEPING" /\ chan[q] = ch
                   THEN "RUNNABLE" ELSE st[q]]

\* sleep(ch, lk), up to swtch(); the caller says what happens to lk.
sleep(p, ch) ==
  /\ chan' = [chan EXCEPT ![p] = ch]
  /\ state' = [state EXCEPT ![p] = "SLEEPING"]
  /\ sched(p)

\* Mutant: the flag stays.
freeproc_killed(q) ==
  /\ pid' = [pid EXCEPT ![q] = 0]
  /\ parent' = [parent EXCEPT ![q] = NULL]
  /\ chan' = [chan EXCEPT ![q] = NULL]
  /\ state' = [state EXCEPT ![q] = "UNUSED"]
  /\ UNCHANGED killed

\* freeproc(q): the slot is empty again.
freeproc(q) ==
  /\ pid' = [pid EXCEPT ![q] = 0]
  /\ parent' = [parent EXCEPT ![q] = NULL]
  /\ chan' = [chan EXCEPT ![q] = NULL]
  /\ killed' = [killed EXCEPT ![q] = 0]
  /\ state' = [state EXCEPT ![q] = "UNUSED"]

\* p is in user space and about to trap for a system call: usertrap() lets
\* only a process that is not killed through to syscall().
InSyscall(p) == At(p, "user") /\ killed[p] = 0

-----------------------------------------------------------------------------
(* scheduler() and yield(). *)

\* A CPU with nothing to run takes a RUNNABLE process.
scheduler(c, p) ==
  /\ cpu[c] = NULL
  /\ state[p] = "RUNNABLE"
  /\ state' = [state EXCEPT ![p] = "RUNNING"]
  /\ cpu' = [cpu EXCEPT ![c] = p]
  /\ UNCHANGED <<chan, killed, pid, parent, nextpid, wait_lock, pc, np>>

\* A timer interrupt at one of the given places.  A killed process does not
\* yield on the way back to user space, it exits.
yield(p, places) ==
  /\ OnCpu(p)
  /\ pc[p] \in places
  /\ pc[p] = "user" => killed[p] = 0
  /\ state' = [state EXCEPT ![p] = "RUNNABLE"]
  /\ sched(p)
  /\ UNCHANGED <<chan, killed, pid, parent, nextpid, wait_lock, pc, np>>

-----------------------------------------------------------------------------
(* fork(). *)

\* allocproc() and the copying of the parent, all under np->lock.  The scan
\* takes the slots' locks one at a time, so any slot that is free at its
\* turn may be the one found.
fork(p) ==
  /\ InSyscall(p)
  /\ nextpid <= MaxPid
  /\ \E q \in Slots :
       /\ state[q] = "UNUSED"
       /\ state' = [state EXCEPT ![q] = "USED"]
       /\ pid' = [pid EXCEPT ![q] = nextpid]
       /\ pc' = [pc EXCEPT ![p] = "fork_link", ![q] = "user"]
       /\ np' = [np EXCEPT ![p] = q]
  /\ nextpid' = nextpid + 1
  /\ UNCHANGED <<chan, killed, parent, cpu, wait_lock>>

\* No memory for the trapframe, the page table or the copy: the slot is
\* freed again and fork() returns -1, but the pid is used up.
fork_nomem(p) ==
  /\ InSyscall(p)
  /\ nextpid <= MaxPid
  /\ \E q \in Slots : state[q] = "UNUSED" /\ freeproc(q)
  /\ nextpid' = nextpid + 1
  /\ UNCHANGED <<cpu, wait_lock, pc, np>>

\* The section under wait_lock.
fork_link(p) ==
  /\ At(p, "fork_link")
  /\ wait_lock = NULL
  /\ parent' = [parent EXCEPT ![np[p]] = p]
  /\ GoTo(p, "fork_start")
  /\ UNCHANGED <<state, chan, killed, pid, nextpid, cpu, wait_lock, np>>

\* The second section under np->lock.
fork_start(p) ==
  /\ At(p, "fork_start")
  /\ state' = [state EXCEPT ![np[p]] = "RUNNABLE"]
  /\ GoTo(p, "user")
  /\ np' = [np EXCEPT ![p] = NULL]
  /\ UNCHANGED <<chan, killed, pid, parent, nextpid, cpu, wait_lock>>

-----------------------------------------------------------------------------
(* exit(). *)

\* The calls of exit(): by the program (init.c never does, unless wait()
\* fails), or by usertrap() for a killed process.
exit(p) ==
  /\ At(p, "user")
  /\ p # initproc \/ killed[p] = 1
  /\ GoTo(p, IF p = initproc THEN "panic" ELSE "exit")
  /\ UNCHANGED <<state, chan, killed, pid, parent, nextpid, cpu, wait_lock, np>>

Children(p) == {q \in Slots : parent[q] = p}

\* Mutant: the children stay.
reparent_none(p) == UNCHANGED parent

\* reparent(p): the children go to init, which is woken if there are any.
reparent(p) ==
  parent' = [q \in Slots |-> IF parent[q] = p THEN initproc ELSE parent[q]]

\* Mutant: the parent is not woken.
exit_lock_nowakeup(p) ==
  /\ At(p, "exit")
  /\ wait_lock = NULL
  /\ wait_lock' = p
  /\ reparent(p)
  /\ state' = IF Children(p) # {} THEN wakeup(p, initproc, state) ELSE state
  /\ GoTo(p, "exit_locked")
  /\ UNCHANGED <<chan, killed, pid, nextpid, cpu, np>>

\* Up to and including wakeup(p->parent).
exit_lock(p) ==
  /\ At(p, "exit")
  /\ wait_lock = NULL
  /\ wait_lock' = p
  /\ reparent(p)
  /\ LET st == IF Children(p) # {} THEN wakeup(p, initproc, state) ELSE state
     IN  state' = wakeup(p, parent[p], st)
  /\ GoTo(p, "exit_locked")
  /\ UNCHANGED <<chan, killed, pid, nextpid, cpu, np>>

\* Under p->lock: become a zombie, release wait_lock, never to return.
exit_zombie(p) ==
  /\ At(p, "exit_locked")
  /\ state' = [state EXCEPT ![p] = "ZOMBIE"]
  /\ wait_lock' = NULL
  /\ sched(p)
  /\ GoTo(p, "zombie")
  /\ UNCHANGED <<chan, killed, pid, parent, nextpid, np>>

-----------------------------------------------------------------------------
(* wait(). *)

\* init.c calls wait() only while it has a child, its shell.
wait(p) ==
  /\ InSyscall(p)
  /\ p = initproc => Children(p) # {}
  /\ GoTo(p, "wait")
  /\ UNCHANGED <<state, chan, killed, pid, parent, nextpid, cpu, wait_lock, np>>

Zombies(S) == {q \in S : state[q] = "ZOMBIE"}

\* Mutant: the pid is returned and the slot not freed.
reap_nofree(p, at, S) ==
  /\ At(p, at)
  /\ wait_lock = NULL
  /\ Zombies(S) # {}
  /\ GoTo(p, "user")
  /\ UNCHANGED <<state, chan, killed, pid, parent, nextpid, cpu, wait_lock, np>>

\* The loop of wait(), over the set S of slots that it looks for.  The scan
\* finds a zombie: free it, release wait_lock, return its pid.
reap(p, at, S) ==
  /\ At(p, at)
  /\ wait_lock = NULL
  /\ \E q \in Zombies(S) : freeproc(q)
  /\ GoTo(p, "user")
  /\ UNCHANGED <<nextpid, cpu, wait_lock, np>>

\* The same, but the status cannot be copied to the user's address: -1, and
\* the zombie stays.  init.c passes no address.
reap_nocopy(p, at, S) ==
  /\ At(p, at)
  /\ wait_lock = NULL
  /\ Zombies(S) # {}
  /\ p # initproc
  /\ GoTo(p, "user")
  /\ UNCHANGED <<state, chan, killed, pid, parent, nextpid, cpu, wait_lock, np>>

\* The scan finds none: -1 if S is empty, else on with wait_lock held.
scan(p, at, S, scanned) ==
  /\ At(p, at)
  /\ wait_lock = NULL
  /\ Zombies(S) = {}
  /\ IF S = {}
     THEN GoTo(p, "user") /\ UNCHANGED wait_lock
     ELSE GoTo(p, scanned) /\ wait_lock' = p
  /\ UNCHANGED <<state, chan, killed, pid, parent, nextpid, cpu, np>>

\* Mutant: wait_lock is released before sleep() is called.
check_killed_drops(p, scanned, nap) ==
  /\ At(p, scanned)
  /\ GoTo(p, IF killed[p] = 1 THEN "user" ELSE nap)
  /\ wait_lock' = NULL
  /\ UNCHANGED <<state, chan, killed, pid, parent, nextpid, cpu, np>>

\* killed(p), a section of its own under p->lock.
check_killed(p, scanned, nap) ==
  /\ At(p, scanned)
  /\ IF killed[p] = 1
     THEN GoTo(p, "user") /\ wait_lock' = NULL
     ELSE GoTo(p, nap) /\ UNCHANGED wait_lock
  /\ UNCHANGED <<state, chan, killed, pid, parent, nextpid, cpu, np>>

\* sleep(p, &wait_lock).
wait_lock_sleep(p, nap, asleep) ==
  /\ At(p, nap)
  /\ sleep(p, p)
  /\ wait_lock' = NULL
  /\ GoTo(p, asleep)
  /\ UNCHANGED <<killed, pid, parent, nextpid, np>>

\* sched() returned in sleep(): tidy up, then to reacquire wait_lock.
resume(p, asleep, at) ==
  /\ At(p, asleep)
  /\ chan' = [chan EXCEPT ![p] = NULL]
  /\ GoTo(p, at)
  /\ UNCHANGED <<state, killed, pid, parent, nextpid, cpu, wait_lock, np>>

wait_loop(p) ==
  \/ reap(p, "wait", Children(p))
  \/ reap_nocopy(p, "wait", Children(p))
  \/ scan(p, "wait", Children(p), "wait_scanned")
  \/ check_killed(p, "wait_scanned", "wait_nap")
  \/ wait_lock_sleep(p, "wait_nap", "wait_asleep")
  \/ resume(p, "wait_asleep", "wait")

-----------------------------------------------------------------------------
(* kill(), and the sleep() system call with the clock that ends it. *)

\* Any slot with that pid.  The slots that are UNUSED have pid 0, and kill()
\* does not look at the state.
kill(p, k) ==
  /\ InSyscall(p)
  /\ \E q \in Slots :
       /\ pid[q] = k
       /\ killed' = [killed EXCEPT ![q] = 1]
       /\ state' = [state EXCEPT ![q] = IF @ = "SLEEPING" THEN "RUNNABLE" ELSE @]
  /\ UNCHANGED <<chan, pid, parent, nextpid, cpu, wait_lock, pc, np>>

\* sys_sleep(): go to sleep until the next tick.
sys_sleep(p) ==
  /\ InSyscall(p)
  /\ p # initproc
  /\ sleep(p, Ticks)
  /\ GoTo(p, "ticks_asleep")
  /\ UNCHANGED <<killed, pid, parent, nextpid, wait_lock, np>>

\* Mutant: the loop does not test killed().
sleep_resume_deaf(p) ==
  /\ At(p, "ticks_asleep")
  /\ \/ /\ chan' = [chan EXCEPT ![p] = NULL]
        /\ GoTo(p, "user")
        /\ UNCHANGED <<state, cpu>>
     \/ /\ sleep(p, Ticks)
        /\ UNCHANGED pc
  /\ UNCHANGED <<killed, pid, parent, nextpid, wait_lock, np>>

\* The loop of sys_sleep() when sleep() returned: a killed process leaves
\* it, another one leaves it once its ticks are over and sleeps again before.
sleep_resume(p) ==
  /\ At(p, "ticks_asleep")
  /\ \/ /\ chan' = [chan EXCEPT ![p] = NULL]
        /\ GoTo(p, "user")
        /\ UNCHANGED <<state, cpu>>
     \/ /\ killed[p] = 0
        /\ sleep(p, Ticks)
        /\ UNCHANGED pc
  /\ UNCHANGED <<killed, pid, parent, nextpid, wait_lock, np>>

\* clockintr() on CPU 0.
clockintr ==
  /\ \E p \in Slots : state[p] = "SLEEPING" /\ chan[p] = Ticks
  /\ state' = wakeup(NULL, Ticks, state)
  /\ UNCHANGED <<chan, killed, pid, parent, nextpid, cpu, wait_lock, pc, np>>

-----------------------------------------------------------------------------
\* What the thread of p does without being asked by its program.
KernelStep(p) ==
  \/ fork_link(p) \/ fork_start(p)
  \/ exit_lock(p) \/ exit_zombie(p)
  \/ wait_loop(p)
  \/ sleep_resume(p)

\* The system calls a program may make.
Syscall(p) ==
  \/ fork(p) \/ fork_nomem(p) \/ exit(p) \/ wait(p) \/ sys_sleep(p)
  \/ \E k \in KillTargets : kill(p, k)

Next ==
  \/ \E p \in Slots : KernelStep(p) \/ Syscall(p) \/ yield(p, Interruptible)
  \/ \E c \in CPUs, p \in Slots : scheduler(c, p)
  \/ clockintr

Spec == Init /\ [][Next]_vars

-----------------------------------------------------------------------------
(* Fairness.  The timer interrupts a thread that runs on (WF of yield).      *)
(* scheduler() looks at every slot in each of its rounds, so a process that  *)
(* stays RUNNABLE is taken, although the CPUs are free only now and then     *)
(* (SF).  A thread that gets a time slice again and again executes its next  *)
(* instruction in one of them (SF of KernelStep).  init.c calls wait() in    *)
(* its loop, and a killed process that traps leaves by exit(); other         *)
(* programs need not do anything.                                            *)

Fairness ==
  /\ \A p \in Slots :
       /\ WF_vars(yield(p, Interruptible))
       /\ SF_vars(\E c \in CPUs : scheduler(c, p))
       /\ SF_vars(KernelStep(p))
       /\ SF_vars(killed[p] = 1 /\ exit(p))
  /\ SF_vars(wait(initproc))
  /\ WF_vars(clockintr)

FairSpec == Spec /\ Fairness

-----------------------------------------------------------------------------
(* Properties. *)

\* The fields hold what struct proc declares.
TypeOK ==
  /\ state \in [Slots -> procstate]
  /\ chan \in [Slots -> Slots \cup {Ticks, NULL}]
  /\ killed \in [Slots -> {0, 1}]
  /\ pid \in [Slots -> Nat]
  /\ parent \in [Slots -> Slots \cup {NULL}]
  /\ nextpid \in Nat
  /\ cpu \in [CPUs -> Slots \cup {NULL}]
  /\ wait_lock \in Slots \cup {NULL}
  /\ pc \in [Slots -> Places]
  /\ np \in [Slots -> Slots \cup {NULL}]

\* A process is RUNNING exactly while one CPU, and no other, executes it:
\* scheduler() never switches to a kernel stack that is in use.
RunsOnOneCpu ==
  \A p \in Slots :
    /\ state[p] = "RUNNING" <=> OnCpu(p)
    /\ \A c, d \in CPUs : cpu[c] = p /\ cpu[d] = p => c = d

\* Whoever holds wait_lock is executing: no thread enters sched() with it
\* (the panic "sched locks"), and only exit() and wait() are inside.
LockHolderRuns ==
  \A p \in Slots :
    (wait_lock = p) <=> At(p, "exit_locked") \/ At(p, "wait_scanned")
                                            \/ At(p, "wait_nap")

\* No wakeup is lost between exit() and wait(): a process asleep in wait()
\* has a child still to wake it, and none that is waiting to be collected.
NoLostWakeup ==
  \A p \in Slots :
    state[p] = "SLEEPING" /\ pc[p] = "wait_asleep" =>
      Children(p) # {} /\ Zombies(Children(p)) = {}

\* p->parent never points to a free slot or to a process that is past
\* reparent(), so getting at the parent under wait_lock is always safe.
NoDanglingParent ==
  \A p \in Slots : parent[p] # NULL =>
    /\ state[parent[p]] \notin {"UNUSED", "USED", "ZOMBIE"}
    /\ pc[parent[p]] \notin {"exit_locked", "zombie"}

\* kill() marks the process with the given pid and no other one, also when
\* its slot has been used before.  Not so kill(0): it marks a free slot, and
\* allocproc() leaves the mark to the next process there.
NoBystanderKilled ==
  0 \notin KillTargets =>
    \A p \in Slots :
      state[p] # "UNUSED" /\ killed[p] = 1 => pid[p] \in KillTargets

\* Two processes never have the same pid, and allocpid() hands out one that
\* no process has.
PidsUnique ==
  \A p, q \in Slots : state[p] # "UNUSED" =>
    /\ pid[p] \in 1 .. nextpid - 1
    /\ state[q] # "UNUSED" /\ pid[p] = pid[q] => p = q

\* The processes as their programs see them.  A process is there once fork()
\* has made it RUNNABLE; it is dead from the moment exit() has handed its
\* children over.
Life(p) ==
  IF state[p] \in {"UNUSED", "USED"} THEN "none"
  ELSE IF state[p] = "ZOMBIE" \/ pc[p] = "exit_locked" THEN "dead"
  ELSE "live"

Tree == INSTANCE ProcTree WITH
  life <- [p \in Slots |-> Life(p)],
  up   <- [p \in Slots |-> IF Life(p) = "none" THEN NULL ELSE parent[p]]

\* fork(), exit() and wait() implement the atomic operations of ProcTree,
\* although each of them is spread over several critical sections.
ImplementsTree == Tree!TreeSpec

\* A process that exited and belongs to init is collected: reparent() and
\* the loop of init.c leave no zombie behind.
OrphanReaped ==
  \A q \in Slots :
    (state[q] = "ZOMBIE" /\ parent[q] = initproc) ~> (state[q] = "UNUSED")

\* A killed process that runs, or sleeps in sys_sleep(), becomes a zombie.
KilledExits ==
  \A p \in Slots :
    (/\ killed[p] = 1
     /\ pc[p] \in {"user", "ticks_asleep"}
     /\ state[p] \in {"RUNNABLE", "RUNNING", "SLEEPING"})
      ~> (state[p] = "ZOMBIE")

=============================================================================
