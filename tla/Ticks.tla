------------------------------- MODULE Ticks --------------------------------
(***************************************************************************)
(* The clock and the calls that wait for it: clockintr() (kernel/trap.c),  *)
(* sys_sleep() and sys_usleep() (kernel/sysproc.c).  ticks is a uint and   *)
(* wraps around.  tickslock is held from the test of the loop until        *)
(* sleep() lets it go; killed() and kill() take p->lock only, so a kill    *)
(* can come between that test and sleep().                                 *)
(***************************************************************************)
EXTENDS Integers

CONSTANTS
  Procs,
  NULL,        \* no process
  W,           \* the width of uint; int has one bit less for values
  SleepArgs,   \* arguments of sleep()
  UsleepArgs,  \* arguments of usleep()
  Lag          \* bound: ticks a process that is awake may have to wait for a CPU

ASSUME TicksAssumption ==
  /\ NULL \notin Procs
  /\ W \in Nat \ {0}
  /\ SleepArgs \subseteq Int /\ UsleepArgs \subseteq Int
  /\ \A n \in SleepArgs : n < 2 ^ (W - 1) /\ n + Lag < 2 ^ W
  /\ Lag \in Nat

VARIABLES
  ticks,       \* the global variable
  tickslock,   \* who holds it
  pc,
  n,           \* sys_sleep(): ticks to wait; sys_usleep(): milliseconds
  ticks0,      \* sys_sleep(): ticks at the start; sys_usleep(): start_ticks
  local,       \* sys_usleep(): its own variable called ticks
  killed,
  elapsed,     \* history: how often the clock ticked since the call
  since,       \* history: how often it ticked since the process was killed
  late         \* ticks since the process was woken

args == <<n, ticks0, local>>
history == <<elapsed, since, late>>
vars == <<ticks, tickslock, pc, args, killed, history>>

Uint(x) == x % 2 ^ W

Init ==
  /\ ticks \in 0 .. 2 ^ W - 1
  /\ tickslock = NULL
  /\ pc = [p \in Procs |-> "user"]
  /\ n = [p \in Procs |-> 0]
  /\ ticks0 = [p \in Procs |-> 0]
  /\ local = [p \in Procs |-> 0]
  /\ killed = [p \in Procs |-> FALSE]
  /\ elapsed = [p \in Procs |-> 0]
  /\ since = [p \in Procs |-> 0]
  /\ late = [p \in Procs |-> 0]

GoTo(p, place) == pc' = [pc EXCEPT ![p] = place]

\* Back to user space; a killed process exits there (usertrap()).  The local
\* variables are gone.
Return(p) ==
  /\ GoTo(p, IF killed[p] THEN "dead" ELSE "user")
  /\ n' = [n EXCEPT ![p] = 0]
  /\ ticks0' = [ticks0 EXCEPT ![p] = 0]
  /\ local' = [local EXCEPT ![p] = 0]
  /\ elapsed' = [elapsed EXCEPT ![p] = 0]
  /\ since' = [since EXCEPT ![p] = 0]

-----------------------------------------------------------------------------
(* sys_sleep(). *)

sys_sleep(p, k) ==
  /\ pc[p] = "user"
  /\ tickslock = NULL
  /\ tickslock' = p
  /\ n' = [n EXCEPT ![p] = IF k < 0 THEN 0 ELSE k]
  /\ ticks0' = [ticks0 EXCEPT ![p] = ticks]
  /\ GoTo(p, "sleep_loop")
  /\ UNCHANGED <<ticks, local, killed, history>>

\* Mutants: the loop computes the end and compares it with the clock; the
\* loop does not look at killed().
sleep_loop_signed(p) ==
  /\ pc[p] = "sleep_loop"
  /\ IF ticks < ticks0[p] + n[p] /\ ~killed[p]
     THEN GoTo(p, "sleep_nap") /\ UNCHANGED <<tickslock, args, elapsed, since>>
     ELSE Return(p) /\ tickslock' = NULL
  /\ UNCHANGED <<ticks, killed, late>>

sleep_loop_deaf(p) ==
  /\ pc[p] = "sleep_loop"
  /\ IF Uint(ticks - ticks0[p]) < n[p]
     THEN GoTo(p, "sleep_nap") /\ UNCHANGED <<tickslock, args, elapsed, since>>
     ELSE Return(p) /\ tickslock' = NULL
  /\ UNCHANGED <<ticks, killed, late>>

\* The test of the loop, and of killed().
sleep_loop(p) ==
  /\ pc[p] = "sleep_loop"
  /\ IF Uint(ticks - ticks0[p]) < n[p] /\ ~killed[p]
     THEN GoTo(p, "sleep_nap") /\ UNCHANGED <<tickslock, args, elapsed, since>>
     ELSE Return(p) /\ tickslock' = NULL
  /\ UNCHANGED <<ticks, killed, late>>

\* sleep(&ticks, &tickslock).
sleep_nap(p) ==
  /\ pc[p] = "sleep_nap"
  /\ GoTo(p, "sleep_asleep")
  /\ tickslock' = NULL
  /\ UNCHANGED <<ticks, args, killed, history>>

\* sleep() returns with tickslock.
sleep_woken(p) ==
  /\ pc[p] = "sleep_woken"
  /\ tickslock = NULL
  /\ tickslock' = p
  /\ late' = [late EXCEPT ![p] = 0]
  /\ GoTo(p, "sleep_loop")
  /\ UNCHANGED <<ticks, args, killed, elapsed, since>>

-----------------------------------------------------------------------------
(* sys_usleep(). *)

\* Delays under a millisecond are a busy loop; longer ones sleep on the
\* address of the local variable, which nothing ever changes.
sys_usleep(p, us) ==
  /\ pc[p] = "user"
  /\ IF us < 1000
     THEN UNCHANGED <<tickslock, pc, args>>
     ELSE /\ tickslock = NULL
          /\ tickslock' = p
          /\ local' = [local EXCEPT ![p] = us \div 1000]
          /\ ticks0' = [ticks0 EXCEPT ![p] = us \div 1000]
          /\ n' = [n EXCEPT ![p] = us \div 1000]
          /\ GoTo(p, "usleep_loop")
  /\ UNCHANGED <<ticks, killed, history>>

usleep_loop(p) ==
  /\ pc[p] = "usleep_loop"
  /\ tickslock' = NULL
  /\ IF local[p] > 0 /\ Uint(local[p] - ticks0[p]) < n[p]
     THEN GoTo(p, "usleep_asleep") /\ UNCHANGED <<args, elapsed, since>>
     ELSE Return(p)
  /\ UNCHANGED <<ticks, killed, late>>

usleep_woken(p) ==
  /\ pc[p] = "usleep_woken"
  /\ tickslock = NULL
  /\ tickslock' = p
  /\ GoTo(p, "usleep_loop")
  /\ UNCHANGED <<ticks, args, killed, history>>

-----------------------------------------------------------------------------
(* The clock, and kill(). *)

InSleep(p) == pc[p] \in {"sleep_loop", "sleep_nap", "sleep_asleep", "sleep_woken"}

\* wakeup(&ticks) wakes the sleepers in sys_sleep() and no others.
clockintr ==
  /\ tickslock = NULL
  /\ \A p \in Procs : late[p] < Lag
  /\ \E p \in Procs : pc[p] # "dead"
  /\ ticks' = Uint(ticks + 1)
  /\ pc' = [p \in Procs |-> IF pc[p] = "sleep_asleep" THEN "sleep_woken" ELSE pc[p]]
  /\ elapsed' = [p \in Procs |-> IF InSleep(p) THEN elapsed[p] + 1 ELSE elapsed[p]]
  /\ since' = [p \in Procs |-> IF InSleep(p) /\ killed[p] THEN since[p] + 1
                               ELSE since[p]]
  /\ late' = [p \in Procs |-> IF pc[p] = "sleep_woken" THEN late[p] + 1 ELSE late[p]]
  /\ UNCHANGED <<tickslock, args, killed>>

\* Another process calls kill() for p.
kill(p) ==
  /\ ~killed[p]
  /\ pc[p] # "dead"
  /\ killed' = [killed EXCEPT ![p] = TRUE]
  /\ pc' = [pc EXCEPT ![p] = CASE @ = "sleep_asleep"  -> "sleep_woken"
                               [] @ = "usleep_asleep" -> "usleep_woken"
                               [] OTHER               -> @]
  /\ UNCHANGED <<ticks, tickslock, args, history>>

\* A killed process that is in user space exits at its next trap.
exit(p) ==
  /\ pc[p] = "user" /\ killed[p]
  /\ GoTo(p, "dead")
  /\ UNCHANGED <<ticks, tickslock, args, killed, history>>

Step(p) ==
  \/ sleep_loop(p) \/ sleep_nap(p) \/ sleep_woken(p)
  \/ usleep_loop(p) \/ usleep_woken(p)
  \/ exit(p)

Next ==
  \/ \E p \in Procs : Step(p) \/ kill(p)
  \/ \E p \in Procs, k \in SleepArgs : sys_sleep(p, k)
  \/ \E p \in Procs, us \in UsleepArgs : sys_usleep(p, us)
  \/ clockintr

Spec == Init /\ [][Next]_vars

-----------------------------------------------------------------------------
(* Properties. *)

\* sleep(k) does not return to its program before k ticks, even when the
\* counter wraps around meanwhile; and it oversleeps by no more ticks than the
\* process has to wait for a CPU, for clockintr() wakes it for the tick it waits
\* for and the loop sees it.
SleepsAsAsked ==
  [][\A p \in Procs : InSleep(p) =>
       /\ elapsed[p] <= n[p] + Lag
       /\ pc'[p] = "user" => elapsed[p] >= n[p]]_vars

\* A process killed in sleep() leaves it with the next tick at the latest, not
\* only when its time is over; also when kill() comes after the loop has
\* tested killed() and before it sleeps.
KilledLeavesSoon == \A p \in Procs : since[p] <= Lag + 1

=============================================================================
