--------------------------- MODULE ProcTreeProofs ---------------------------
(***************************************************************************)
(* The proof that Proc implements ProcTree.  The inductive invariant of    *)
(* ProcProofs gives what the mapping needs: the parent is live when its    *)
(* child appears, and a slot in use by fork() is nobody else's.            *)
(***************************************************************************)
EXTENDS ProcProofs

\* The process table starts as the tree with init alone.
LEMMA InitTree == Init => Tree!TreeInit
  BY ProcAssumption DEF Init, Tree!TreeInit, Life

\* What a step must do to be a Fork, an Exit or a Wait of ProcTree.
LEMMA ForkMap ==
  ASSUME NEW p \in Slots, NEW q \in Slots, Life(p) = "live", Life(q) = "none",
         \A r \in Slots : Life(r)' = IF r = q THEN "live" ELSE Life(r),
         parent' = parent, parent[q] = p
  PROVE  Tree!TreeNext
<1>1. [r \in Slots |-> Life(r)]' = [[r \in Slots |-> Life(r)] EXCEPT ![q] = "live"]
  OBVIOUS
<1>2. [r \in Slots |-> IF Life(r) = "none" THEN NULL ELSE parent[r]]'
        = [[r \in Slots |-> IF Life(r) = "none" THEN NULL ELSE parent[r]]
             EXCEPT ![q] = p]
  OBVIOUS
<1>3. Tree!Fork(p, q)
  BY <1>1, <1>2 DEF Tree!Fork
<1> QED BY <1>3 DEF Tree!TreeNext

LEMMA ExitMap ==
  ASSUME NEW p \in Slots, p # initproc, p # NULL, Life(p) = "live",
         \A r \in Slots : Life(r)' = IF r = p THEN "dead" ELSE Life(r),
         \A r \in Slots :
           parent'[r] = IF parent[r] = p THEN initproc ELSE parent[r]
  PROVE  Tree!TreeNext
<1>1. [r \in Slots |-> Life(r)]' = [[r \in Slots |-> Life(r)] EXCEPT ![p] = "dead"]
  OBVIOUS
<1>2. Tree!Exit(p)
  BY <1>1 DEF Tree!Exit
<1> QED BY <1>2 DEF Tree!TreeNext

LEMMA WaitMap ==
  ASSUME NEW p \in Slots, NEW q \in Slots,
         Life(p) = "live", Life(q) = "dead", parent[q] = p,
         \A r \in Slots : Life(r)' = IF r = q THEN "none" ELSE Life(r),
         \A r \in Slots : parent'[r] = IF r = q THEN NULL ELSE parent[r]
  PROVE  Tree!TreeNext
<1>1. [r \in Slots |-> Life(r)]' = [[r \in Slots |-> Life(r)] EXCEPT ![q] = "none"]
  OBVIOUS
<1>2. [r \in Slots |-> IF Life(r) = "none" THEN NULL ELSE parent[r]]'
        = [[r \in Slots |-> IF Life(r) = "none" THEN NULL ELSE parent[r]]
             EXCEPT ![q] = NULL]
  OBVIOUS
<1>3. Tree!Wait(p, q)
  BY <1>1, <1>2 DEF Tree!Wait
<1> QED BY <1>3 DEF Tree!TreeNext

\* fork() takes effect when the child becomes RUNNABLE, exit() with the
\* reparenting, wait() with freeproc(); all other steps are invisible.
LEMMA StepTree == IInv /\ [Next]_vars => [Tree!TreeNext]_(Tree!treeVars)
<1> SUFFICES ASSUME IInv, [Next]_vars PROVE [Tree!TreeNext]_(Tree!treeVars)
  OBVIOUS
<1> USE ProcAssumption DEF IInv, TypeOK, RunsOnOneCpu, OnCpu, PlaceInv, NpInv,
    FamilyInv, NoDanglingParent
<1>1. ASSUME NEW p \in Slots, fork_link(p)
  PROVE [Tree!TreeNext]_(Tree!treeVars)
  BY <1>1 DEF fork_link, At, GoTo, Tree!treeVars, Life
<1>2. ASSUME NEW p \in Slots, fork_start(p)
  PROVE [Tree!TreeNext]_(Tree!treeVars)
  <2>1. np[p] \in Slots /\ Life(p) = "live" /\ Life(np[p]) = "none"
    BY <1>2 DEF fork_start, At, Life
  <2>2. ASSUME NEW r \in Slots
        PROVE  Life(r)' = IF r = np[p] THEN "live" ELSE Life(r)
    BY <1>2, <2>1 DEF fork_start, At, GoTo, Life
  <2>3. parent' = parent /\ parent[np[p]] = p
    BY <1>2, <2>1 DEF fork_start, At
  <2> QED BY <2>1, <2>2, <2>3, ForkMap
<1>3. ASSUME NEW p \in Slots, exit_lock(p)
  PROVE [Tree!TreeNext]_(Tree!treeVars)
  <2>1. Life(p) = "live" /\ p # initproc /\ p # NULL
    BY <1>3 DEF exit_lock, At, Life
  <2>2. ASSUME NEW r \in Slots
        PROVE  Life(r)' = IF r = p THEN "dead" ELSE Life(r)
    BY <1>3 DEF exit_lock, At, GoTo, wakeup, Life
  <2>3. ASSUME NEW r \in Slots
        PROVE  parent'[r] = IF parent[r] = p THEN initproc ELSE parent[r]
    BY <1>3 DEF exit_lock, reparent
  <2> QED BY <2>1, <2>2, <2>3, ExitMap
<1>4. ASSUME NEW p \in Slots, exit_zombie(p)
  PROVE [Tree!TreeNext]_(Tree!treeVars)
  BY <1>4 DEF exit_zombie, At, GoTo, sched, Tree!treeVars, Life
<1>5. ASSUME NEW p \in Slots, reap(p, "wait", Children(p))
  PROVE [Tree!TreeNext]_(Tree!treeVars)
  <2>1. PICK q \in Zombies(Children(p)) : freeproc(q)
    BY <1>5 DEF reap
  <2>2. q \in Slots /\ Life(p) = "live" /\ Life(q) = "dead" /\ parent[q] = p
    BY <1>5, <2>1 DEF reap, At, Zombies, Children, Life
  <2>3. ASSUME NEW r \in Slots
        PROVE  /\ Life(r)' = IF r = q THEN "none" ELSE Life(r)
               /\ parent'[r] = IF r = q THEN NULL ELSE parent[r]
    BY <1>5, <2>1, <2>2 DEF reap, At, GoTo, freeproc, Life
  <2> QED BY <2>2, <2>3, WaitMap
<1>6. ASSUME NEW p \in Slots, reap_nocopy(p, "wait", Children(p))
  PROVE [Tree!TreeNext]_(Tree!treeVars)
  BY <1>6 DEF reap_nocopy, At, GoTo, Tree!treeVars, Life
<1>7. ASSUME NEW p \in Slots, scan(p, "wait", Children(p), "wait_scanned")
  PROVE [Tree!TreeNext]_(Tree!treeVars)
  BY <1>7 DEF scan, At, GoTo, Tree!treeVars, Life
<1>8. ASSUME NEW p \in Slots, check_killed(p, "wait_scanned", "wait_nap")
  PROVE [Tree!TreeNext]_(Tree!treeVars)
  BY <1>8 DEF check_killed, At, GoTo, Tree!treeVars, Life
<1>9. ASSUME NEW p \in Slots, wait_lock_sleep(p, "wait_nap", "wait_asleep")
  PROVE [Tree!TreeNext]_(Tree!treeVars)
  BY <1>9 DEF wait_lock_sleep, At, GoTo, sleep, sched, Tree!treeVars, Life
<1>10. ASSUME NEW p \in Slots, resume(p, "wait_asleep", "wait")
  PROVE [Tree!TreeNext]_(Tree!treeVars)
  BY <1>10 DEF resume, At, GoTo, Tree!treeVars, Life
<1>11. ASSUME NEW p \in Slots, sleep_resume(p)
  PROVE [Tree!TreeNext]_(Tree!treeVars)
  BY <1>11 DEF sleep_resume, At, GoTo, sleep, sched, Tree!treeVars, Life
<1>12. ASSUME NEW p \in Slots, fork(p) PROVE [Tree!TreeNext]_(Tree!treeVars)
  BY <1>12 DEF fork, InSyscall, At, Tree!treeVars, Life
<1>13. ASSUME NEW p \in Slots, fork_nomem(p)
  PROVE [Tree!TreeNext]_(Tree!treeVars)
  BY <1>13 DEF fork_nomem, freeproc, Tree!treeVars, Life
<1>14. ASSUME NEW p \in Slots, exit(p) PROVE [Tree!TreeNext]_(Tree!treeVars)
  BY <1>14 DEF exit, At, GoTo, Tree!treeVars, Life
<1>15. ASSUME NEW p \in Slots, wait(p) PROVE [Tree!TreeNext]_(Tree!treeVars)
  BY <1>15 DEF wait, InSyscall, At, GoTo, Tree!treeVars, Life
<1>16. ASSUME NEW p \in Slots, sys_sleep(p)
  PROVE [Tree!TreeNext]_(Tree!treeVars)
  BY <1>16 DEF sys_sleep, InSyscall, At, GoTo, sleep, sched, Tree!treeVars,
    Life
<1>17. ASSUME NEW p \in Slots, NEW k \in KillTargets, kill(p, k)
  PROVE [Tree!TreeNext]_(Tree!treeVars)
  BY <1>17 DEF kill, InSyscall, At, Tree!treeVars, Life
<1>18. ASSUME NEW p \in Slots, yield(p, Interruptible)
  PROVE [Tree!TreeNext]_(Tree!treeVars)
  BY <1>18 DEF yield, sched, Interruptible, Tree!treeVars, Life
<1>19. ASSUME NEW c \in CPUs, NEW p \in Slots, scheduler(c, p)
  PROVE [Tree!TreeNext]_(Tree!treeVars)
  BY <1>19 DEF scheduler, Tree!treeVars, Life
<1>20. ASSUME clockintr PROVE [Tree!TreeNext]_(Tree!treeVars)
  BY <1>20 DEF clockintr, wakeup, Tree!treeVars, Life
<1>21. ASSUME UNCHANGED vars PROVE [Tree!TreeNext]_(Tree!treeVars)
  BY <1>21 DEF vars, Tree!treeVars, Life
<1> QED BY Zenon, <1>1, <1>2, <1>3, <1>4, <1>5, <1>6, <1>7, <1>8, <1>9, <1>10, <1>11,
  <1>12, <1>13, <1>14, <1>15, <1>16, <1>17, <1>18, <1>19, <1>20, <1>21
  DEF Next, KernelStep, Syscall, wait_loop

\* fork(), exit() and wait() appear to programs as the atomic operations of
\* ProcTree, whatever the interleaving of their critical sections.
THEOREM ImplementsProcTree == Spec => ImplementsTree
  BY InitTree, StepTree, Invariance, PTL DEF Spec, ImplementsTree, Tree!TreeSpec

=============================================================================
