----------------------------- MODULE CustomCalls -----------------------------
(***************************************************************************)
(* The system calls this project adds to the process table: forex() with   *)
(* spawn() (kernel/exec.c), waitpid(), getppid(), sigstop() and sigcont()  *)
(* (kernel/proc.c, kernel/sysproc.c), beside the calls of module Proc.     *)
(*                                                                         *)
(* Nothing is said of what happens once the kernel's own rules are broken: *)
(* behaviours end in the first state that is Undefined.                    *)
(***************************************************************************)
EXTENDS Proc

CONSTANTS
  WaitTargets,  \* the pids that programs pass to waitpid()
  SigTargets    \* the pids that programs pass to sigstop() and sigcont()

ASSUME CustomAssumption ==
  WaitTargets \subseteq Nat /\ SigTargets \subseteq Nat

VARIABLES
  arg,      \* the pid that a thread inside waitpid() was given; the pid of
            \* the parent when a thread entered getppid()
  ptr,      \* the value of p->parent that sys_getppid() loaded
  hit       \* history: processes on which sigstop() was called

callVars == <<arg, ptr, hit>>
customVars == <<vars, callVars>>

\* The additional places where a thread can be preempted.
CustomInterruptible == {"spawn_load", "waitpid", "getppid"}

CustomInit ==
  /\ Init
  /\ arg = [p \in Slots |-> 0]
  /\ ptr = [p \in Slots |-> NULL]
  /\ hit = {}

\* The history of a slot ends with its process.
KeepHit == hit' = {q \in hit : state'[q] # "UNUSED"}

-----------------------------------------------------------------------------
(* forex(): without a file name it is fork(), with one it is spawn(). *)

\* Mutant: the new process is RUNNABLE from the start.
spawn_runnable(p) ==
  /\ InSyscall(p)
  /\ nextpid <= MaxPid
  /\ \E q \in Slots :
       /\ state[q] = "UNUSED"
       /\ state' = [state EXCEPT ![q] = "RUNNABLE"]
       /\ pid' = [pid EXCEPT ![q] = nextpid]
       /\ pc' = [pc EXCEPT ![p] = "spawn_load", ![q] = "user"]
       /\ np' = [np EXCEPT ![p] = q]
  /\ nextpid' = nextpid + 1
  /\ UNCHANGED <<chan, killed, parent, cpu, wait_lock, callVars>>

\* allocproc(), after which spawn() releases np->lock at once.
spawn(p) ==
  /\ InSyscall(p)
  /\ nextpid <= MaxPid
  /\ \E q \in Slots :
       /\ state[q] = "UNUSED"
       /\ state' = [state EXCEPT ![q] = "USED"]
       /\ pid' = [pid EXCEPT ![q] = nextpid]
       /\ pc' = [pc EXCEPT ![p] = "spawn_load", ![q] = "user"]
       /\ np' = [np EXCEPT ![p] = q]
  /\ nextpid' = nextpid + 1
  /\ UNCHANGED <<chan, killed, parent, cpu, wait_lock, callVars>>

\* The image is loaded; what follows are the last two sections of fork().
spawn_loaded(p) ==
  /\ At(p, "spawn_load")
  /\ GoTo(p, "fork_link")
  /\ UNCHANGED <<state, chan, killed, pid, parent, nextpid, cpu, wait_lock, np>>
  /\ UNCHANGED callVars

\* No such file, not a program, or no memory for it.
spawn_bad(p) ==
  /\ At(p, "spawn_load")
  /\ freeproc(np[p])
  /\ KeepHit
  /\ GoTo(p, "user")
  /\ np' = [np EXCEPT ![p] = NULL]
  /\ UNCHANGED <<nextpid, cpu, wait_lock, arg, ptr>>

-----------------------------------------------------------------------------
(* waitpid(): the loop of wait(), over the slots with the given pid. *)

waitpid(p, k) ==
  /\ InSyscall(p)
  /\ p # initproc
  /\ arg' = [arg EXCEPT ![p] = k]
  /\ GoTo(p, "waitpid")
  /\ UNCHANGED <<state, chan, killed, pid, parent, nextpid, cpu, wait_lock, np>>
  /\ UNCHANGED <<ptr, hit>>

\* The slots of the scan.  All UNUSED slots have pid 0.
Named(k) == {q \in Slots : pid[q] = k}

waitpid_loop(p) ==
  /\ LET S == Named(arg[p]) IN
       \/ reap(p, "waitpid", S)
       \/ reap_nocopy(p, "waitpid", S)
       \/ scan(p, "waitpid", S, "waitpid_scanned")
       \/ check_killed(p, "waitpid_scanned", "waitpid_nap")
       \/ wait_lock_sleep(p, "waitpid_nap", "waitpid_asleep")
       \/ resume(p, "waitpid_asleep", "waitpid")
  /\ KeepHit
  /\ UNCHANGED <<arg, ptr>>

-----------------------------------------------------------------------------
(* getppid(): loads p->parent, then the pid it points to, with no lock. *)

\* Mutant: loads a pointer to the process itself.
getppid_self(p) ==
  /\ InSyscall(p)
  /\ p # initproc
  /\ ptr' = [ptr EXCEPT ![p] = p]
  /\ arg' = [arg EXCEPT ![p] = pid[parent[p]]]
  /\ GoTo(p, "getppid")
  /\ UNCHANGED <<state, chan, killed, pid, parent, nextpid, cpu, wait_lock, np>>
  /\ UNCHANGED hit

getppid(p) ==
  /\ InSyscall(p)
  /\ p # initproc
  /\ ptr' = [ptr EXCEPT ![p] = parent[p]]
  /\ arg' = [arg EXCEPT ![p] = pid[parent[p]]]
  /\ GoTo(p, "getppid")
  /\ UNCHANGED <<state, chan, killed, pid, parent, nextpid, cpu, wait_lock, np>>
  /\ UNCHANGED hit

getppid_return(p) ==
  /\ At(p, "getppid")
  /\ ptr' = [ptr EXCEPT ![p] = NULL]
  /\ GoTo(p, "user")
  /\ UNCHANGED <<state, chan, killed, pid, parent, nextpid, cpu, wait_lock, np>>
  /\ UNCHANGED <<arg, hit>>

-----------------------------------------------------------------------------
(* sigstop() and sigcont(). *)

\* The state is overwritten whatever it was.
sigstop(p, k) ==
  /\ InSyscall(p)
  /\ k # 0
  /\ \E q \in Named(k) :
       /\ state' = [state EXCEPT ![q] = "SLEEPING"]
       /\ hit' = hit \cup {q}
  /\ UNCHANGED <<chan, killed, pid, parent, nextpid, cpu, wait_lock, pc, np>>
  /\ UNCHANGED <<arg, ptr>>

sigcont(p, k) ==
  /\ InSyscall(p)
  /\ k # 0
  /\ \E q \in Named(k) :
       state' = [state EXCEPT ![q] = IF @ = "SLEEPING" THEN "RUNNABLE" ELSE @]
  /\ UNCHANGED <<chan, killed, pid, parent, nextpid, cpu, wait_lock, pc, np>>
  /\ UNCHANGED callVars

-----------------------------------------------------------------------------
\* Two CPUs execute one kernel stack, exit() returned from sched(), or a
\* process runs that its creator has not finished.
HalfBuilt(q) == \E p \in Slots : np[p] = q

Undefined ==
  \E p \in Slots :
    \/ \E c, d \in CPUs : c # d /\ cpu[c] = p /\ cpu[d] = p
    \/ At(p, "zombie")
    \/ OnCpu(p) /\ HalfBuilt(p)

ProcStep ==
  /\ Next
  /\ KeepHit
  /\ UNCHANGED <<arg, ptr>>

CustomStep(p) ==
  \/ spawn(p) \/ spawn_loaded(p) \/ spawn_bad(p)
  \/ \E k \in WaitTargets : waitpid(p, k)
  \/ waitpid_loop(p)
  \/ getppid(p) \/ getppid_return(p)
  \/ \E k \in SigTargets : sigstop(p, k) \/ sigcont(p, k)
  \/ yield(p, CustomInterruptible) /\ UNCHANGED callVars

CustomNext ==
  /\ ~Undefined
  /\ \/ ProcStep
     \/ \E p \in Slots : CustomStep(p)

CustomSpec == CustomInit /\ [][CustomNext]_customVars

-----------------------------------------------------------------------------
(* Properties that hold. *)

\* A process that waits with waitpid() for a child of its own is woken by
\* that child's exit(): it does not sleep while the child is a zombie, unless
\* sigstop() has put it to sleep.
NoLostChild ==
  \A p \in Slots \ hit, q \in Slots :
    state[p] = "SLEEPING" /\ pc[p] = "waitpid_asleep"
      /\ parent[q] = p /\ pid[q] = arg[p] => state[q] # "ZOMBIE"

\* sys_getppid() is to "Return the parent's PID": the pid that it loads is the
\* one that the parent had when the call began, unless the parent has exited
\* meanwhile; then the slot it looks into may be free or another's.
ReturnsParentPid ==
  \A p \in Slots : pc[p] = "getppid" =>
    \/ pid[ptr[p]] = arg[p]
    \/ ptr[p] # initproc /\ parent[p] = initproc

\* exit() jumps into the scheduler "never to return", and a process that
\* spawn() is loading "will not be scheduled until RUNNABLE": both hold of
\* every process that sigstop() has not been called on.
OnlyStoppedStray ==
  \A p \in Slots \ hit : ~At(p, "zombie") /\ ~(OnCpu(p) /\ HalfBuilt(p))

-----------------------------------------------------------------------------
(* What comments and tests of the repository say, and the code does not do. *)

=============================================================================
