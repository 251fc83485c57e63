----------------------------- MODULE ProcProofs -----------------------------
(***************************************************************************)
(* Proofs about module Proc, for any number of slots, CPUs and pids.       *)
(*                                                                         *)
(* The safety properties of Proc are not inductive one by one: that a      *)
(* wakeup is not lost depends on who holds wait_lock, that depends on who  *)
(* is on a CPU, and so on.  IInv puts them together with the relations     *)
(* between pc, state and np that the code takes for granted.               *)
(***************************************************************************)
EXTENDS Proc, TLAPS

\* Where a thread can be in each state of its process.
PlaceInv ==
  \A p \in Slots :
    /\ pc[p] \in {"exit_locked", "wait_scanned", "wait_nap"} => state[p] = "RUNNING"
    /\ pc[p] = "zombie" => state[p] \in {"ZOMBIE", "UNUSED"}
    /\ state[p] = "ZOMBIE" => pc[p] = "zombie"
    /\ state[p] = "SLEEPING" => pc[p] \in {"wait_asleep", "ticks_asleep"}
    /\ state[p] = "USED" => pc[p] = "user"
    /\ state[p] = "UNUSED" => pc[p] \in {"user", "zombie"}
    /\ state[p] = "SLEEPING" /\ pc[p] = "wait_asleep" => chan[p] = p

\* A process that is being made belongs to one fork() in progress.
NpInv ==
  \A p \in Slots :
    /\ np[p] # NULL <=> pc[p] \in {"fork_link", "fork_start"}
    /\ np[p] # NULL =>
         /\ state[np[p]] = "USED"
         /\ parent[np[p]] = IF pc[p] = "fork_start" THEN p ELSE NULL
    /\ \A q \in Slots : np[p] # NULL /\ np[p] = np[q] => p = q

\* init does not exit; every other process has a parent, a free slot none.
FamilyInv ==
  /\ state[initproc] \in {"RUNNABLE", "RUNNING", "SLEEPING"}
  /\ pc[initproc] \notin {"exit", "exit_locked", "zombie"}
  /\ \A p \in Slots :
       /\ state[p] = "UNUSED" => parent[p] = NULL
       /\ state[p] \notin {"UNUSED", "USED"} /\ p # initproc => parent[p] # NULL

\* NoLostWakeup, from the scan of wait() to its sleep(), and from the
\* wakeup() of exit() to the change of its state.
WakeInv ==
  /\ NoLostWakeup
  /\ \A p \in Slots : pc[p] \in {"wait_scanned", "wait_nap"} =>
       Children(p) # {} /\ Zombies(Children(p)) = {}
  /\ \A p, q \in Slots : pc[q] = "exit_locked" /\ parent[q] = p =>
       ~(state[p] = "SLEEPING" /\ pc[p] = "wait_asleep")

IInv ==
  /\ TypeOK
  /\ RunsOnOneCpu
  /\ LockHolderRuns
  /\ PlaceInv
  /\ NpInv
  /\ FamilyInv
  /\ NoDanglingParent
  /\ WakeInv
  /\ PidsUnique

-----------------------------------------------------------------------------
(* The steps preserve the conjuncts of IInv, one lemma for each. *)

\* The initial state satisfies all of IInv.
LEMMA InitIInv == Init => IInv
  BY ProcAssumption
  DEF Init, IInv, TypeOK, procstate, Places, Interruptible, RunsOnOneCpu, OnCpu,
      LockHolderRuns, At, PlaceInv, NpInv, FamilyInv, NoDanglingParent,
      WakeInv, NoLostWakeup, PidsUnique

\* Every assignment stores a value of the declared type.
LEMMA TypeStep == TypeOK /\ [Next]_vars => TypeOK'
<1> SUFFICES ASSUME TypeOK, [Next]_vars PROVE TypeOK'
  OBVIOUS
<1> USE ProcAssumption DEF TypeOK, procstate, Places, Interruptible
<1>1. ASSUME NEW p \in Slots, fork_link(p) PROVE TypeOK'
  BY <1>1 DEF fork_link, At, GoTo
<1>2. ASSUME NEW p \in Slots, fork_start(p) PROVE TypeOK'
  BY <1>2 DEF fork_start, At, GoTo
<1>3. ASSUME NEW p \in Slots, exit_lock(p) PROVE TypeOK'
  BY <1>3 DEF exit_lock, At, GoTo, reparent, wakeup, Children
<1>4. ASSUME NEW p \in Slots, exit_zombie(p) PROVE TypeOK'
  BY <1>4 DEF exit_zombie, At, GoTo, sched
<1>5. ASSUME NEW p \in Slots, reap(p, "wait", Children(p)) PROVE TypeOK'
  BY <1>5 DEF reap, At, GoTo, freeproc, Zombies, Children
<1>6. ASSUME NEW p \in Slots, reap_nocopy(p, "wait", Children(p))
  PROVE TypeOK'
  BY <1>6 DEF reap_nocopy, At, GoTo
<1>7. ASSUME NEW p \in Slots, scan(p, "wait", Children(p), "wait_scanned")
  PROVE TypeOK'
  BY <1>7 DEF scan, At, GoTo
<1>8. ASSUME NEW p \in Slots, check_killed(p, "wait_scanned", "wait_nap")
  PROVE TypeOK'
  BY <1>8 DEF check_killed, At, GoTo
<1>9. ASSUME NEW p \in Slots, wait_lock_sleep(p, "wait_nap", "wait_asleep")
  PROVE TypeOK'
  BY <1>9 DEF wait_lock_sleep, At, GoTo, sleep, sched
<1>10. ASSUME NEW p \in Slots, resume(p, "wait_asleep", "wait") PROVE TypeOK'
  BY <1>10 DEF resume, At, GoTo
<1>11. ASSUME NEW p \in Slots, sleep_resume(p) PROVE TypeOK'
  BY <1>11 DEF sleep_resume, At, GoTo, sleep, sched
<1>12. ASSUME NEW p \in Slots, fork(p) PROVE TypeOK'
  BY <1>12 DEF fork, InSyscall, At
<1>13. ASSUME NEW p \in Slots, fork_nomem(p) PROVE TypeOK'
  BY <1>13 DEF fork_nomem, freeproc
<1>14. ASSUME NEW p \in Slots, exit(p) PROVE TypeOK'
  BY <1>14 DEF exit, At, GoTo
<1>15. ASSUME NEW p \in Slots, wait(p) PROVE TypeOK'
  BY <1>15 DEF wait, InSyscall, At, GoTo
<1>16. ASSUME NEW p \in Slots, sys_sleep(p) PROVE TypeOK'
  BY <1>16 DEF sys_sleep, InSyscall, At, GoTo, sleep, sched
<1>17. ASSUME NEW p \in Slots, NEW k \in KillTargets, kill(p, k)
  PROVE TypeOK'
  BY <1>17 DEF kill, InSyscall, At
<1>18. ASSUME NEW p \in Slots, yield(p, Interruptible) PROVE TypeOK'
  BY <1>18 DEF yield, sched
<1>19. ASSUME NEW c \in CPUs, NEW p \in Slots, scheduler(c, p) PROVE TypeOK'
  BY <1>19 DEF scheduler
<1>20. ASSUME clockintr PROVE TypeOK'
  BY <1>20 DEF clockintr, wakeup
<1>21. ASSUME UNCHANGED vars PROVE TypeOK'
  BY <1>21 DEF vars
<1> QED BY Zenon, <1>1, <1>2, <1>3, <1>4, <1>5, <1>6, <1>7, <1>8, <1>9, <1>10, <1>11,
  <1>12, <1>13, <1>14, <1>15, <1>16, <1>17, <1>18, <1>19, <1>20, <1>21
  DEF Next, KernelStep, Syscall, wait_loop

\* scheduler() takes only what no CPU executes; sched() leaves a state other
\* than RUNNING behind.
LEMMA RunsStep == IInv /\ [Next]_vars => RunsOnOneCpu'
<1> SUFFICES ASSUME IInv, [Next]_vars PROVE RunsOnOneCpu'
  OBVIOUS
<1> USE ProcAssumption DEF IInv, TypeOK, RunsOnOneCpu, OnCpu, NpInv
<1>1. ASSUME NEW p \in Slots, fork_link(p) PROVE RunsOnOneCpu'
  BY <1>1 DEF fork_link, At, GoTo
<1>2. ASSUME NEW p \in Slots, fork_start(p) PROVE RunsOnOneCpu'
  BY <1>2 DEF fork_start, At, GoTo
<1>3. ASSUME NEW p \in Slots, exit_lock(p) PROVE RunsOnOneCpu'
  BY <1>3 DEF exit_lock, At, GoTo, reparent, wakeup, Children
<1>4. ASSUME NEW p \in Slots, exit_zombie(p) PROVE RunsOnOneCpu'
  BY <1>4 DEF exit_zombie, At, GoTo, sched
<1>5. ASSUME NEW p \in Slots, reap(p, "wait", Children(p))
  PROVE RunsOnOneCpu'
  BY <1>5 DEF reap, At, GoTo, freeproc, Zombies, Children
<1>6. ASSUME NEW p \in Slots, reap_nocopy(p, "wait", Children(p))
  PROVE RunsOnOneCpu'
  BY <1>6 DEF reap_nocopy, At, GoTo
<1>7. ASSUME NEW p \in Slots, scan(p, "wait", Children(p), "wait_scanned")
  PROVE RunsOnOneCpu'
  BY <1>7 DEF scan, At, GoTo
<1>8. ASSUME NEW p \in Slots, check_killed(p, "wait_scanned", "wait_nap")
  PROVE RunsOnOneCpu'
  BY <1>8 DEF check_killed, At, GoTo
<1>9. ASSUME NEW p \in Slots, wait_lock_sleep(p, "wait_nap", "wait_asleep")
  PROVE RunsOnOneCpu'
  BY <1>9 DEF wait_lock_sleep, At, GoTo, sleep, sched
<1>10. ASSUME NEW p \in Slots, resume(p, "wait_asleep", "wait")
  PROVE RunsOnOneCpu'
  BY <1>10 DEF resume, At, GoTo
<1>11. ASSUME NEW p \in Slots, sleep_resume(p) PROVE RunsOnOneCpu'
  BY <1>11 DEF sleep_resume, At, GoTo, sleep, sched
<1>12. ASSUME NEW p \in Slots, fork(p) PROVE RunsOnOneCpu'
  BY <1>12 DEF fork, InSyscall, At
<1>13. ASSUME NEW p \in Slots, fork_nomem(p) PROVE RunsOnOneCpu'
  BY <1>13 DEF fork_nomem, freeproc
<1>14. ASSUME NEW p \in Slots, exit(p) PROVE RunsOnOneCpu'
  BY <1>14 DEF exit, At, GoTo
<1>15. ASSUME NEW p \in Slots, wait(p) PROVE RunsOnOneCpu'
  BY <1>15 DEF wait, InSyscall, At, GoTo
<1>16. ASSUME NEW p \in Slots, sys_sleep(p) PROVE RunsOnOneCpu'
  BY <1>16 DEF sys_sleep, InSyscall, At, GoTo, sleep, sched
<1>17. ASSUME NEW p \in Slots, NEW k \in KillTargets, kill(p, k)
  PROVE RunsOnOneCpu'
  BY <1>17 DEF kill, InSyscall, At
<1>18. ASSUME NEW p \in Slots, yield(p, Interruptible) PROVE RunsOnOneCpu'
  BY <1>18 DEF yield, sched, Interruptible
<1>19. ASSUME NEW c \in CPUs, NEW p \in Slots, scheduler(c, p)
  PROVE RunsOnOneCpu'
  BY <1>19 DEF scheduler
<1>20. ASSUME clockintr PROVE RunsOnOneCpu'
  BY <1>20 DEF clockintr, wakeup
<1>21. ASSUME UNCHANGED vars PROVE RunsOnOneCpu'
  BY <1>21 DEF vars
<1> QED BY Zenon, <1>1, <1>2, <1>3, <1>4, <1>5, <1>6, <1>7, <1>8, <1>9, <1>10, <1>11,
  <1>12, <1>13, <1>14, <1>15, <1>16, <1>17, <1>18, <1>19, <1>20, <1>21
  DEF Next, KernelStep, Syscall, wait_loop

\* wait_lock is released before each sched().
LEMMA LockStep == IInv /\ [Next]_vars => LockHolderRuns'
<1> SUFFICES ASSUME IInv, [Next]_vars PROVE LockHolderRuns'
  OBVIOUS
<1> USE ProcAssumption DEF IInv, TypeOK, RunsOnOneCpu, OnCpu, LockHolderRuns,
    PlaceInv, At, NpInv
<1>1. ASSUME NEW p \in Slots, fork_link(p) PROVE LockHolderRuns'
  BY <1>1 DEF fork_link, GoTo
<1>2. ASSUME NEW p \in Slots, fork_start(p) PROVE LockHolderRuns'
  BY <1>2 DEF fork_start, GoTo
<1>3. ASSUME NEW p \in Slots, exit_lock(p) PROVE LockHolderRuns'
  BY <1>3 DEF exit_lock, GoTo, reparent, wakeup, Children
<1>4. ASSUME NEW p \in Slots, exit_zombie(p) PROVE LockHolderRuns'
  BY <1>4 DEF exit_zombie, GoTo, sched
<1>5. ASSUME NEW p \in Slots, reap(p, "wait", Children(p))
  PROVE LockHolderRuns'
  BY <1>5 DEF reap, GoTo, freeproc, Zombies, Children
<1>6. ASSUME NEW p \in Slots, reap_nocopy(p, "wait", Children(p))
  PROVE LockHolderRuns'
  BY <1>6 DEF reap_nocopy, GoTo
<1>7. ASSUME NEW p \in Slots, scan(p, "wait", Children(p), "wait_scanned")
  PROVE LockHolderRuns'
  BY <1>7 DEF scan, GoTo
<1>8. ASSUME NEW p \in Slots, check_killed(p, "wait_scanned", "wait_nap")
  PROVE LockHolderRuns'
  BY <1>8 DEF check_killed, GoTo
<1>9. ASSUME NEW p \in Slots, wait_lock_sleep(p, "wait_nap", "wait_asleep")
  PROVE LockHolderRuns'
  BY <1>9 DEF wait_lock_sleep, GoTo, sleep, sched
<1>10. ASSUME NEW p \in Slots, resume(p, "wait_asleep", "wait")
  PROVE LockHolderRuns'
  BY <1>10 DEF resume, GoTo
<1>11. ASSUME NEW p \in Slots, sleep_resume(p) PROVE LockHolderRuns'
  BY <1>11 DEF sleep_resume, GoTo, sleep, sched
<1>12. ASSUME NEW p \in Slots, fork(p) PROVE LockHolderRuns'
  BY <1>12 DEF fork, InSyscall
<1>13. ASSUME NEW p \in Slots, fork_nomem(p) PROVE LockHolderRuns'
  BY <1>13 DEF fork_nomem, freeproc
<1>14. ASSUME NEW p \in Slots, exit(p) PROVE LockHolderRuns'
  BY <1>14 DEF exit, GoTo
<1>15. ASSUME NEW p \in Slots, wait(p) PROVE LockHolderRuns'
  BY <1>15 DEF wait, InSyscall, GoTo
<1>16. ASSUME NEW p \in Slots, sys_sleep(p) PROVE LockHolderRuns'
  BY <1>16 DEF sys_sleep, InSyscall, GoTo, sleep, sched
<1>17. ASSUME NEW p \in Slots, NEW k \in KillTargets, kill(p, k)
  PROVE LockHolderRuns'
  BY <1>17 DEF kill, InSyscall
<1>18. ASSUME NEW p \in Slots, yield(p, Interruptible) PROVE LockHolderRuns'
  BY <1>18 DEF yield, sched, Interruptible
<1>19. ASSUME NEW c \in CPUs, NEW p \in Slots, scheduler(c, p)
  PROVE LockHolderRuns'
  BY <1>19 DEF scheduler
<1>20. ASSUME clockintr PROVE LockHolderRuns'
  BY <1>20 DEF clockintr, wakeup
<1>21. ASSUME UNCHANGED vars PROVE LockHolderRuns'
  BY <1>21 DEF vars
<1> QED BY Zenon, <1>1, <1>2, <1>3, <1>4, <1>5, <1>6, <1>7, <1>8, <1>9, <1>10, <1>11,
  <1>12, <1>13, <1>14, <1>15, <1>16, <1>17, <1>18, <1>19, <1>20, <1>21
  DEF Next, KernelStep, Syscall, wait_loop

\* pc, state and chan change together.
LEMMA PlaceStep == IInv /\ [Next]_vars => PlaceInv'
<1> SUFFICES ASSUME IInv, [Next]_vars PROVE PlaceInv'
  OBVIOUS
<1> USE ProcAssumption DEF IInv, TypeOK, RunsOnOneCpu, OnCpu, PlaceInv, NpInv
<1>1. ASSUME NEW p \in Slots, fork_link(p) PROVE PlaceInv'
  BY <1>1 DEF fork_link, At, GoTo
<1>2. ASSUME NEW p \in Slots, fork_start(p) PROVE PlaceInv'
  BY <1>2 DEF fork_start, At, GoTo
<1>3. ASSUME NEW p \in Slots, exit_lock(p) PROVE PlaceInv'
  BY <1>3 DEF exit_lock, At, GoTo, reparent, wakeup, Children
<1>4. ASSUME NEW p \in Slots, exit_zombie(p) PROVE PlaceInv'
  BY <1>4 DEF exit_zombie, At, GoTo, sched
<1>5. ASSUME NEW p \in Slots, reap(p, "wait", Children(p)) PROVE PlaceInv'
  BY <1>5 DEF reap, At, GoTo, freeproc, Zombies, Children
<1>6. ASSUME NEW p \in Slots, reap_nocopy(p, "wait", Children(p))
  PROVE PlaceInv'
  BY <1>6 DEF reap_nocopy, At, GoTo
<1>7. ASSUME NEW p \in Slots, scan(p, "wait", Children(p), "wait_scanned")
  PROVE PlaceInv'
  BY <1>7 DEF scan, At, GoTo
<1>8. ASSUME NEW p \in Slots, check_killed(p, "wait_scanned", "wait_nap")
  PROVE PlaceInv'
  BY <1>8 DEF check_killed, At, GoTo
<1>9. ASSUME NEW p \in Slots, wait_lock_sleep(p, "wait_nap", "wait_asleep")
  PROVE PlaceInv'
  BY <1>9 DEF wait_lock_sleep, At, GoTo, sleep, sched
<1>10. ASSUME NEW p \in Slots, resume(p, "wait_asleep", "wait")
  PROVE PlaceInv'
  BY <1>10 DEF resume, At, GoTo
<1>11. ASSUME NEW p \in Slots, sleep_resume(p) PROVE PlaceInv'
  BY <1>11 DEF sleep_resume, At, GoTo, sleep, sched
<1>12. ASSUME NEW p \in Slots, fork(p) PROVE PlaceInv'
  BY <1>12 DEF fork, InSyscall, At
<1>13. ASSUME NEW p \in Slots, fork_nomem(p) PROVE PlaceInv'
  BY <1>13 DEF fork_nomem, freeproc
<1>14. ASSUME NEW p \in Slots, exit(p) PROVE PlaceInv'
  BY <1>14 DEF exit, At, GoTo
<1>15. ASSUME NEW p \in Slots, wait(p) PROVE PlaceInv'
  BY <1>15 DEF wait, InSyscall, At, GoTo
<1>16. ASSUME NEW p \in Slots, sys_sleep(p) PROVE PlaceInv'
  BY <1>16 DEF sys_sleep, InSyscall, At, GoTo, sleep, sched
<1>17. ASSUME NEW p \in Slots, NEW k \in KillTargets, kill(p, k)
  PROVE PlaceInv'
  BY <1>17 DEF kill, InSyscall, At
<1>18. ASSUME NEW p \in Slots, yield(p, Interruptible) PROVE PlaceInv'
  BY <1>18 DEF yield, sched, Interruptible
<1>19. ASSUME NEW c \in CPUs, NEW p \in Slots, scheduler(c, p)
  PROVE PlaceInv'
  BY <1>19 DEF scheduler
<1>20. ASSUME clockintr PROVE PlaceInv'
  BY <1>20 DEF clockintr, wakeup
<1>21. ASSUME UNCHANGED vars PROVE PlaceInv'
  BY <1>21 DEF vars
<1> QED BY Zenon, <1>1, <1>2, <1>3, <1>4, <1>5, <1>6, <1>7, <1>8, <1>9, <1>10, <1>11,
  <1>12, <1>13, <1>14, <1>15, <1>16, <1>17, <1>18, <1>19, <1>20, <1>21
  DEF Next, KernelStep, Syscall, wait_loop

\* Nobody touches a process that is being made but its creator.
LEMMA NpStep == IInv /\ [Next]_vars => NpInv'
<1> SUFFICES ASSUME IInv, [Next]_vars PROVE NpInv'
  OBVIOUS
<1> USE ProcAssumption DEF IInv, TypeOK, RunsOnOneCpu, OnCpu, PlaceInv, NpInv,
    FamilyInv
<1>1. ASSUME NEW p \in Slots, fork_link(p) PROVE NpInv'
  BY <1>1 DEF fork_link, At, GoTo
<1>2. ASSUME NEW p \in Slots, fork_start(p) PROVE NpInv'
  BY <1>2 DEF fork_start, At, GoTo
<1>3. ASSUME NEW p \in Slots, exit_lock(p) PROVE NpInv'
  BY <1>3 DEF exit_lock, At, GoTo, reparent, wakeup, Children
<1>4. ASSUME NEW p \in Slots, exit_zombie(p) PROVE NpInv'
  BY <1>4 DEF exit_zombie, At, GoTo, sched
<1>5. ASSUME NEW p \in Slots, reap(p, "wait", Children(p)) PROVE NpInv'
  BY <1>5 DEF reap, At, GoTo, freeproc, Zombies, Children
<1>6. ASSUME NEW p \in Slots, reap_nocopy(p, "wait", Children(p))
  PROVE NpInv'
  BY <1>6 DEF reap_nocopy, At, GoTo
<1>7. ASSUME NEW p \in Slots, scan(p, "wait", Children(p), "wait_scanned")
  PROVE NpInv'
  BY <1>7 DEF scan, At, GoTo
<1>8. ASSUME NEW p \in Slots, check_killed(p, "wait_scanned", "wait_nap")
  PROVE NpInv'
  BY <1>8 DEF check_killed, At, GoTo
<1>9. ASSUME NEW p \in Slots, wait_lock_sleep(p, "wait_nap", "wait_asleep")
  PROVE NpInv'
  BY <1>9 DEF wait_lock_sleep, At, GoTo, sleep, sched
<1>10. ASSUME NEW p \in Slots, resume(p, "wait_asleep", "wait") PROVE NpInv'
  BY <1>10 DEF resume, At, GoTo
<1>11. ASSUME NEW p \in Slots, sleep_resume(p) PROVE NpInv'
  BY <1>11 DEF sleep_resume, At, GoTo, sleep, sched
<1>12. ASSUME NEW p \in Slots, fork(p) PROVE NpInv'
  BY <1>12 DEF fork, InSyscall, At
<1>13. ASSUME NEW p \in Slots, fork_nomem(p) PROVE NpInv'
  BY <1>13 DEF fork_nomem, freeproc
<1>14. ASSUME NEW p \in Slots, exit(p) PROVE NpInv'
  BY <1>14 DEF exit, At, GoTo
<1>15. ASSUME NEW p \in Slots, wait(p) PROVE NpInv'
  BY <1>15 DEF wait, InSyscall, At, GoTo
<1>16. ASSUME NEW p \in Slots, sys_sleep(p) PROVE NpInv'
  BY <1>16 DEF sys_sleep, InSyscall, At, GoTo, sleep, sched
<1>17. ASSUME NEW p \in Slots, NEW k \in KillTargets, kill(p, k) PROVE NpInv'
  BY <1>17 DEF kill, InSyscall, At
<1>18. ASSUME NEW p \in Slots, yield(p, Interruptible) PROVE NpInv'
  BY <1>18 DEF yield, sched, Interruptible
<1>19. ASSUME NEW c \in CPUs, NEW p \in Slots, scheduler(c, p) PROVE NpInv'
  BY <1>19 DEF scheduler
<1>20. ASSUME clockintr PROVE NpInv'
  BY <1>20 DEF clockintr, wakeup
<1>21. ASSUME UNCHANGED vars PROVE NpInv'
  BY <1>21 DEF vars
<1> QED BY Zenon, <1>1, <1>2, <1>3, <1>4, <1>5, <1>6, <1>7, <1>8, <1>9, <1>10, <1>11,
  <1>12, <1>13, <1>14, <1>15, <1>16, <1>17, <1>18, <1>19, <1>20, <1>21
  DEF Next, KernelStep, Syscall, wait_loop

\* init lives, and parents are there.
LEMMA FamilyStep == IInv /\ [Next]_vars => FamilyInv'
<1> SUFFICES ASSUME IInv, [Next]_vars PROVE FamilyInv'
  OBVIOUS
<1> USE ProcAssumption DEF IInv, TypeOK, RunsOnOneCpu, OnCpu, PlaceInv, NpInv,
    FamilyInv
<1>1. ASSUME NEW p \in Slots, fork_link(p) PROVE FamilyInv'
  BY <1>1 DEF fork_link, At, GoTo
<1>2. ASSUME NEW p \in Slots, fork_start(p) PROVE FamilyInv'
  BY <1>2 DEF fork_start, At, GoTo
<1>3. ASSUME NEW p \in Slots, exit_lock(p) PROVE FamilyInv'
  BY <1>3 DEF exit_lock, At, GoTo, reparent, wakeup, Children
<1>4. ASSUME NEW p \in Slots, exit_zombie(p) PROVE FamilyInv'
  BY <1>4 DEF exit_zombie, At, GoTo, sched
<1>5. ASSUME NEW p \in Slots, reap(p, "wait", Children(p)) PROVE FamilyInv'
  BY <1>5 DEF reap, At, GoTo, freeproc, Zombies, Children
<1>6. ASSUME NEW p \in Slots, reap_nocopy(p, "wait", Children(p))
  PROVE FamilyInv'
  BY <1>6 DEF reap_nocopy, At, GoTo
<1>7. ASSUME NEW p \in Slots, scan(p, "wait", Children(p), "wait_scanned")
  PROVE FamilyInv'
  BY <1>7 DEF scan, At, GoTo
<1>8. ASSUME NEW p \in Slots, check_killed(p, "wait_scanned", "wait_nap")
  PROVE FamilyInv'
  BY <1>8 DEF check_killed, At, GoTo
<1>9. ASSUME NEW p \in Slots, wait_lock_sleep(p, "wait_nap", "wait_asleep")
  PROVE FamilyInv'
  BY <1>9 DEF wait_lock_sleep, At, GoTo, sleep, sched
<1>10. ASSUME NEW p \in Slots, resume(p, "wait_asleep", "wait")
  PROVE FamilyInv'
  BY <1>10 DEF resume, At, GoTo
<1>11. ASSUME NEW p \in Slots, sleep_resume(p) PROVE FamilyInv'
  BY <1>11 DEF sleep_resume, At, GoTo, sleep, sched
<1>12. ASSUME NEW p \in Slots, fork(p) PROVE FamilyInv'
  BY <1>12 DEF fork, InSyscall, At
<1>13. ASSUME NEW p \in Slots, fork_nomem(p) PROVE FamilyInv'
  BY <1>13 DEF fork_nomem, freeproc
<1>14. ASSUME NEW p \in Slots, exit(p) PROVE FamilyInv'
  BY <1>14 DEF exit, At, GoTo
<1>15. ASSUME NEW p \in Slots, wait(p) PROVE FamilyInv'
  BY <1>15 DEF wait, InSyscall, At, GoTo
<1>16. ASSUME NEW p \in Slots, sys_sleep(p) PROVE FamilyInv'
  BY <1>16 DEF sys_sleep, InSyscall, At, GoTo, sleep, sched
<1>17. ASSUME NEW p \in Slots, NEW k \in KillTargets, kill(p, k)
  PROVE FamilyInv'
  BY <1>17 DEF kill, InSyscall, At
<1>18. ASSUME NEW p \in Slots, yield(p, Interruptible) PROVE FamilyInv'
  BY <1>18 DEF yield, sched, Interruptible
<1>19. ASSUME NEW c \in CPUs, NEW p \in Slots, scheduler(c, p)
  PROVE FamilyInv'
  BY <1>19 DEF scheduler
<1>20. ASSUME clockintr PROVE FamilyInv'
  BY <1>20 DEF clockintr, wakeup
<1>21. ASSUME UNCHANGED vars PROVE FamilyInv'
  BY <1>21 DEF vars
<1> QED BY Zenon, <1>1, <1>2, <1>3, <1>4, <1>5, <1>6, <1>7, <1>8, <1>9, <1>10, <1>11,
  <1>12, <1>13, <1>14, <1>15, <1>16, <1>17, <1>18, <1>19, <1>20, <1>21
  DEF Next, KernelStep, Syscall, wait_loop

\* reparent() empties the set of children before the parent dies.
LEMMA ParentStep == IInv /\ [Next]_vars => NoDanglingParent'
<1> SUFFICES ASSUME IInv, [Next]_vars PROVE NoDanglingParent'
  OBVIOUS
<1> USE ProcAssumption DEF IInv, TypeOK, RunsOnOneCpu, OnCpu, PlaceInv, NpInv,
    FamilyInv, NoDanglingParent
<1>1. ASSUME NEW p \in Slots, fork_link(p) PROVE NoDanglingParent'
  BY <1>1 DEF fork_link, At, GoTo
<1>2. ASSUME NEW p \in Slots, fork_start(p) PROVE NoDanglingParent'
  BY <1>2 DEF fork_start, At, GoTo
<1>3. ASSUME NEW p \in Slots, exit_lock(p) PROVE NoDanglingParent'
  BY <1>3 DEF exit_lock, At, GoTo, reparent, wakeup, Children
<1>4. ASSUME NEW p \in Slots, exit_zombie(p) PROVE NoDanglingParent'
  BY <1>4 DEF exit_zombie, At, GoTo, sched
<1>5. ASSUME NEW p \in Slots, reap(p, "wait", Children(p))
  PROVE NoDanglingParent'
  BY <1>5 DEF reap, At, GoTo, freeproc, Zombies, Children
<1>6. ASSUME NEW p \in Slots, reap_nocopy(p, "wait", Children(p))
  PROVE NoDanglingParent'
  BY <1>6 DEF reap_nocopy, At, GoTo
<1>7. ASSUME NEW p \in Slots, scan(p, "wait", Children(p), "wait_scanned")
  PROVE NoDanglingParent'
  BY <1>7 DEF scan, At, GoTo
<1>8. ASSUME NEW p \in Slots, check_killed(p, "wait_scanned", "wait_nap")
  PROVE NoDanglingParent'
  BY <1>8 DEF check_killed, At, GoTo
<1>9. ASSUME NEW p \in Slots, wait_lock_sleep(p, "wait_nap", "wait_asleep")
  PROVE NoDanglingParent'
  BY <1>9 DEF wait_lock_sleep, At, GoTo, sleep, sched
<1>10. ASSUME NEW p \in Slots, resume(p, "wait_asleep", "wait")
  PROVE NoDanglingParent'
  BY <1>10 DEF resume, At, GoTo
<1>11. ASSUME NEW p \in Slots, sleep_resume(p) PROVE NoDanglingParent'
  BY <1>11 DEF sleep_resume, At, GoTo, sleep, sched
<1>12. ASSUME NEW p \in Slots, fork(p) PROVE NoDanglingParent'
  BY <1>12 DEF fork, InSyscall, At
<1>13. ASSUME NEW p \in Slots, fork_nomem(p) PROVE NoDanglingParent'
  BY <1>13 DEF fork_nomem, freeproc
<1>14. ASSUME NEW p \in Slots, exit(p) PROVE NoDanglingParent'
  BY <1>14 DEF exit, At, GoTo
<1>15. ASSUME NEW p \in Slots, wait(p) PROVE NoDanglingParent'
  BY <1>15 DEF wait, InSyscall, At, GoTo
<1>16. ASSUME NEW p \in Slots, sys_sleep(p) PROVE NoDanglingParent'
  BY <1>16 DEF sys_sleep, InSyscall, At, GoTo, sleep, sched
<1>17. ASSUME NEW p \in Slots, NEW k \in KillTargets, kill(p, k)
  PROVE NoDanglingParent'
  BY <1>17 DEF kill, InSyscall, At
<1>18. ASSUME NEW p \in Slots, yield(p, Interruptible)
  PROVE NoDanglingParent'
  BY <1>18 DEF yield, sched, Interruptible
<1>19. ASSUME NEW c \in CPUs, NEW p \in Slots, scheduler(c, p)
  PROVE NoDanglingParent'
  BY <1>19 DEF scheduler
<1>20. ASSUME clockintr PROVE NoDanglingParent'
  BY <1>20 DEF clockintr, wakeup
<1>21. ASSUME UNCHANGED vars PROVE NoDanglingParent'
  BY <1>21 DEF vars
<1> QED BY Zenon, <1>1, <1>2, <1>3, <1>4, <1>5, <1>6, <1>7, <1>8, <1>9, <1>10, <1>11,
  <1>12, <1>13, <1>14, <1>15, <1>16, <1>17, <1>18, <1>19, <1>20, <1>21
  DEF Next, KernelStep, Syscall, wait_loop

\* Between the scan and sleep() in wait(), and between wakeup() and the change
\* of state in exit(), wait_lock keeps the other one out.
LEMMA WakeStep == IInv /\ [Next]_vars => WakeInv'
<1> SUFFICES ASSUME IInv, [Next]_vars PROVE WakeInv'
  OBVIOUS
<1> USE ProcAssumption DEF IInv, TypeOK, RunsOnOneCpu, OnCpu, LockHolderRuns,
    At, PlaceInv, NpInv, FamilyInv, NoDanglingParent, WakeInv, NoLostWakeup
<1>1. ASSUME NEW p \in Slots, fork_link(p) PROVE WakeInv'
  BY <1>1 DEF fork_link, GoTo, Zombies, Children
<1>2. ASSUME NEW p \in Slots, fork_start(p) PROVE WakeInv'
  BY <1>2 DEF fork_start, GoTo, Zombies, Children
<1>3. ASSUME NEW p \in Slots, exit_lock(p) PROVE WakeInv'
  BY <1>3 DEF exit_lock, GoTo, reparent, wakeup, Children, Zombies
<1>4. ASSUME NEW p \in Slots, exit_zombie(p) PROVE WakeInv'
  BY <1>4 DEF exit_zombie, GoTo, sched, Zombies, Children
<1>5. ASSUME NEW p \in Slots, reap(p, "wait", Children(p)) PROVE WakeInv'
  BY <1>5 DEF reap, GoTo, freeproc, Zombies, Children
<1>6. ASSUME NEW p \in Slots, reap_nocopy(p, "wait", Children(p))
  PROVE WakeInv'
  BY <1>6 DEF reap_nocopy, GoTo, Zombies, Children
<1>7. ASSUME NEW p \in Slots, scan(p, "wait", Children(p), "wait_scanned")
  PROVE WakeInv'
  BY <1>7 DEF scan, GoTo, Zombies, Children
<1>8. ASSUME NEW p \in Slots, check_killed(p, "wait_scanned", "wait_nap")
  PROVE WakeInv'
  BY <1>8 DEF check_killed, GoTo, Zombies, Children
<1>9. ASSUME NEW p \in Slots, wait_lock_sleep(p, "wait_nap", "wait_asleep")
  PROVE WakeInv'
  BY <1>9 DEF wait_lock_sleep, GoTo, sleep, sched, Zombies, Children
<1>10. ASSUME NEW p \in Slots, resume(p, "wait_asleep", "wait")
  PROVE WakeInv'
  BY <1>10 DEF resume, GoTo, Zombies, Children
<1>11. ASSUME NEW p \in Slots, sleep_resume(p) PROVE WakeInv'
  BY <1>11 DEF sleep_resume, GoTo, sleep, sched, Zombies, Children
<1>12. ASSUME NEW p \in Slots, fork(p) PROVE WakeInv'
  BY <1>12 DEF fork, InSyscall, Zombies, Children
<1>13. ASSUME NEW p \in Slots, fork_nomem(p) PROVE WakeInv'
  BY <1>13 DEF fork_nomem, freeproc, Zombies, Children
<1>14. ASSUME NEW p \in Slots, exit(p) PROVE WakeInv'
  BY <1>14 DEF exit, GoTo, Zombies, Children
<1>15. ASSUME NEW p \in Slots, wait(p) PROVE WakeInv'
  BY <1>15 DEF wait, InSyscall, GoTo, Zombies, Children
<1>16. ASSUME NEW p \in Slots, sys_sleep(p) PROVE WakeInv'
  BY <1>16 DEF sys_sleep, InSyscall, GoTo, sleep, sched, Zombies, Children
<1>17. ASSUME NEW p \in Slots, NEW k \in KillTargets, kill(p, k)
  PROVE WakeInv'
  BY <1>17 DEF kill, InSyscall, Zombies, Children
<1>18. ASSUME NEW p \in Slots, yield(p, Interruptible) PROVE WakeInv'
  BY <1>18 DEF yield, sched, Interruptible, Zombies, Children
<1>19. ASSUME NEW c \in CPUs, NEW p \in Slots, scheduler(c, p) PROVE WakeInv'
  BY <1>19 DEF scheduler, Zombies, Children
<1>20. ASSUME clockintr PROVE WakeInv'
  BY <1>20 DEF clockintr, wakeup, Zombies, Children
<1>21. ASSUME UNCHANGED vars PROVE WakeInv'
  BY <1>21 DEF vars, Children, Zombies
<1> QED BY Zenon, <1>1, <1>2, <1>3, <1>4, <1>5, <1>6, <1>7, <1>8, <1>9, <1>10, <1>11,
  <1>12, <1>13, <1>14, <1>15, <1>16, <1>17, <1>18, <1>19, <1>20, <1>21
  DEF Next, KernelStep, Syscall, wait_loop

\* allocpid() hands out a pid above all others.
LEMMA PidsStep == IInv /\ [Next]_vars => PidsUnique'
<1> SUFFICES ASSUME IInv, [Next]_vars PROVE PidsUnique'
  OBVIOUS
<1> USE ProcAssumption DEF IInv, TypeOK, RunsOnOneCpu, OnCpu, NpInv,
    FamilyInv, PidsUnique
<1>1. ASSUME NEW p \in Slots, fork_link(p) PROVE PidsUnique'
  BY <1>1 DEF fork_link, At, GoTo
<1>2. ASSUME NEW p \in Slots, fork_start(p) PROVE PidsUnique'
  BY <1>2 DEF fork_start, At, GoTo
<1>3. ASSUME NEW p \in Slots, exit_lock(p) PROVE PidsUnique'
  BY <1>3 DEF exit_lock, At, GoTo, reparent, wakeup, Children
<1>4. ASSUME NEW p \in Slots, exit_zombie(p) PROVE PidsUnique'
  BY <1>4 DEF exit_zombie, At, GoTo, sched
<1>5. ASSUME NEW p \in Slots, reap(p, "wait", Children(p)) PROVE PidsUnique'
  BY <1>5 DEF reap, At, GoTo, freeproc, Zombies, Children
<1>6. ASSUME NEW p \in Slots, reap_nocopy(p, "wait", Children(p))
  PROVE PidsUnique'
  BY <1>6 DEF reap_nocopy, At, GoTo
<1>7. ASSUME NEW p \in Slots, scan(p, "wait", Children(p), "wait_scanned")
  PROVE PidsUnique'
  BY <1>7 DEF scan, At, GoTo
<1>8. ASSUME NEW p \in Slots, check_killed(p, "wait_scanned", "wait_nap")
  PROVE PidsUnique'
  BY <1>8 DEF check_killed, At, GoTo
<1>9. ASSUME NEW p \in Slots, wait_lock_sleep(p, "wait_nap", "wait_asleep")
  PROVE PidsUnique'
  BY <1>9 DEF wait_lock_sleep, At, GoTo, sleep, sched
<1>10. ASSUME NEW p \in Slots, resume(p, "wait_asleep", "wait")
  PROVE PidsUnique'
  BY <1>10 DEF resume, At, GoTo
<1>11. ASSUME NEW p \in Slots, sleep_resume(p) PROVE PidsUnique'
  BY <1>11 DEF sleep_resume, At, GoTo, sleep, sched
<1>12. ASSUME NEW p \in Slots, fork(p) PROVE PidsUnique'
  BY <1>12 DEF fork, InSyscall, At
<1>13. ASSUME NEW p \in Slots, fork_nomem(p) PROVE PidsUnique'
  BY <1>13 DEF fork_nomem, freeproc
<1>14. ASSUME NEW p \in Slots, exit(p) PROVE PidsUnique'
  BY <1>14 DEF exit, At, GoTo
<1>15. ASSUME NEW p \in Slots, wait(p) PROVE PidsUnique'
  BY <1>15 DEF wait, InSyscall, At, GoTo
<1>16. ASSUME NEW p \in Slots, sys_sleep(p) PROVE PidsUnique'
  BY <1>16 DEF sys_sleep, InSyscall, At, GoTo, sleep, sched
<1>17. ASSUME NEW p \in Slots, NEW k \in KillTargets, kill(p, k)
  PROVE PidsUnique'
  BY <1>17 DEF kill, InSyscall, At
<1>18. ASSUME NEW p \in Slots, yield(p, Interruptible) PROVE PidsUnique'
  BY <1>18 DEF yield, sched, Interruptible
<1>19. ASSUME NEW c \in CPUs, NEW p \in Slots, scheduler(c, p)
  PROVE PidsUnique'
  BY <1>19 DEF scheduler
<1>20. ASSUME clockintr PROVE PidsUnique'
  BY <1>20 DEF clockintr, wakeup
<1>21. ASSUME UNCHANGED vars PROVE PidsUnique'
  BY <1>21 DEF vars
<1> QED BY Zenon, <1>1, <1>2, <1>3, <1>4, <1>5, <1>6, <1>7, <1>8, <1>9, <1>10, <1>11,
  <1>12, <1>13, <1>14, <1>15, <1>16, <1>17, <1>18, <1>19, <1>20, <1>21
  DEF Next, KernelStep, Syscall, wait_loop

-----------------------------------------------------------------------------
(* The theorems. *)

\* IInv is inductive.
LEMMA StepIInv == IInv /\ [Next]_vars => IInv'
  BY TypeStep, RunsStep, LockStep, PlaceStep, NpStep, FamilyStep, ParentStep,
     WakeStep, PidsStep
  DEF IInv

\* All the safety properties hold together in every reachable state.
THEOREM Invariance == Spec => []IInv
  BY InitIInv, StepIInv, PTL DEF Spec

\* The fields of struct proc always hold values of their types.
THEOREM TypeCorrect == Spec => []TypeOK
  BY Invariance, PTL DEF IInv

\* scheduler(), yield(), sleep() and exit() never put one process on two CPUs.
THEOREM OneCpu == Spec => []RunsOnOneCpu
  BY Invariance, PTL DEF IInv

\* No thread gives up its CPU inside a section under wait_lock.
THEOREM LockDiscipline == Spec => []LockHolderRuns
  BY Invariance, PTL DEF IInv

\* exit() and wait() lose no wakeup.
THEOREM WakeupKept == Spec => []NoLostWakeup
<1>1. IInv => NoLostWakeup
  BY DEF IInv, WakeInv
<1> QED BY <1>1, Invariance, PTL

\* p->parent points to a process that still is able to wait for p.
THEOREM ParentsThere == Spec => []NoDanglingParent
  BY Invariance, PTL DEF IInv

\* allocpid() never hands out the pid of a process that exists.
THEOREM DistinctPids == Spec => []PidsUnique
  BY Invariance, PTL DEF IInv

=============================================================================
