------------------------------ MODULE ProcTree ------------------------------
(***************************************************************************)
(* What fork(), exit() and wait() promise to programs: a tree of processes *)
(* whose operations are atomic.  A process is created with its parent; it  *)
(* exits and its children pass to init in the same instant; it stays dead  *)
(* until its parent collects it, and only then can its slot be used again. *)
(***************************************************************************)
CONSTANTS Slots, initproc, NULL

VARIABLES
  life,    \* "none", "live" or "dead" for each slot
  up       \* the parent of each process

treeVars == <<life, up>>

TreeInit ==
  /\ life = [p \in Slots |-> IF p = initproc THEN "live" ELSE "none"]
  /\ up = [p \in Slots |-> NULL]

Fork(p, q) ==
  /\ life[p] = "live" /\ life[q] = "none"
  /\ life' = [life EXCEPT ![q] = "live"]
  /\ up' = [up EXCEPT ![q] = p]

Exit(p) ==
  /\ life[p] = "live" /\ p # initproc
  /\ life' = [life EXCEPT ![p] = "dead"]
  /\ up' = [q \in Slots |-> IF up[q] = p THEN initproc ELSE up[q]]

Wait(p, q) ==
  /\ life[p] = "live" /\ life[q] = "dead" /\ up[q] = p
  /\ life' = [life EXCEPT ![q] = "none"]
  /\ up' = [up EXCEPT ![q] = NULL]

TreeNext ==
  \/ \E p, q \in Slots : Fork(p, q) \/ Wait(p, q)
  \/ \E p \in Slots : Exit(p)

TreeSpec == TreeInit /\ [][TreeNext]_treeVars

=============================================================================
