--------------------------- MODULE SpinlockProofs ---------------------------
(***************************************************************************)
(* Proofs about Spinlock, for every set of CPUs and of locks.              *)
(*                                                                         *)
(* The inductive invariant ties the three kinds of bookkeeping together:   *)
(* the fields of a lock to who has it, noff to how many locks are held or  *)
(* under way, and intena to what the code wants back.                      *)
(***************************************************************************)
EXTENDS Spinlock, FiniteSetTheorems, TLAPS

\* Inside acquire() or release() with interrupts pushed off.
Inside == {"locked", "cpu", "spin", "got", "unlock", "pop"}

\* lk->locked is set, and lk->cpu is not, or no longer.
Between == {"got", "unlock"}

TypeOK ==
  /\ locked \in [Locks -> BOOLEAN] /\ cpu \in [Locks -> SUBSET CPUs]
  /\ intr \in [CPUs -> BOOLEAN] /\ noff \in [CPUs -> Nat] /\ intena \in [CPUs -> BOOLEAN]
  /\ pc \in [CPUs -> {"run", "push", "panic"} \cup Inside]
  /\ lk \in [CPUs -> Locks] /\ old \in [CPUs -> BOOLEAN]
  /\ trapped \in [CPUs -> BOOLEAN] /\ saved \in [CPUs -> Contexts]
  /\ mine \in [CPUs -> SUBSET Locks] /\ want \in [CPUs -> BOOLEAN]

\* What a CPU has, the lock says.
Owners ==
  /\ \A c \in CPUs, l \in Locks : l \in mine[c] <=> c \in cpu[l]
  /\ \A l \in Locks : \A c, d \in cpu[l] : c = d
  /\ \A c \in CPUs : \A l \in mine[c] : locked[l]

\* One CPU is between the write of lk->locked and that of lk->cpu.
Passing ==
  /\ \A c \in CPUs : pc[c] \in Between => locked[lk[c]] /\ cpu[lk[c]] = {}
  /\ \A c, d \in CPUs : c # d /\ pc[c] \in Between /\ pc[d] \in Between => lk[c] # lk[d]

\* A CPU waits for, or gives back, a lock that it does not have.
Waiting ==
  \A c \in CPUs :
    /\ pc[c] # "panic"
    /\ pc[c] \in Inside \cup {"push"} => lk[c] \notin mine[c]

\* noff counts the locks held, and the one under way.
Depth ==
  \A c \in CPUs :
    /\ IsFiniteSet(mine[c])
    /\ noff[c] = Cardinality(mine[c]) + (IF pc[c] \in Inside THEN 1 ELSE 0)

\* intena is what the outermost push_off() found, and is to be put back.
Enabled ==
  /\ \A c \in CPUs : intr[c] <=> noff[c] = 0 /\ want[c]
  /\ \A c \in CPUs : noff[c] > 0 => (intena[c] <=> want[c])
  /\ \A c \in CPUs : pc[c] = "push" => (old[c] <=> intr[c])

\* An interrupt finds a CPU without locks.
Interrupted ==
  \A c \in CPUs : trapped[c] =>
    saved[c].mine = {} /\ (saved[c].pc = "push" => saved[c].old)

Inv == TypeOK /\ Owners /\ Passing /\ Waiting /\ Depth /\ Enabled /\ Interrupted

LEMMA InitInv == Init => Inv
  <1> SUFFICES ASSUME Init PROVE Inv
    OBVIOUS
  <1>1. TypeOK
    BY DEF Init, TypeOK
  <1>2. Owners /\ Passing /\ Waiting
    BY DEF Init, Owners, Passing, Waiting, Inside, Between
  <1>3. Depth
    BY FS_EmptySet DEF Init, Depth, Inside
  <1>4. Enabled /\ Interrupted
    BY DEF Init, Enabled, Interrupted
  <1> QED
    BY <1>1, <1>2, <1>3, <1>4 DEF Inv

\* A CPU that takes interrupts has no lock and is not about to get one.
LEMMA FreeToInterrupt ==
  ASSUME Inv, NEW c \in CPUs, intr[c]
  PROVE  noff[c] = 0 /\ mine[c] = {} /\ pc[c] \in {"run", "push"}
  <1>1. noff[c] = 0
    BY DEF Inv, Enabled
  <1>2. IsFiniteSet(mine[c]) /\ Cardinality(mine[c]) \in Nat
    BY FS_CardinalityType DEF Inv, Depth
  <1>3. pc[c] \notin Inside /\ Cardinality(mine[c]) = 0
    BY <1>1, <1>2 DEF Inv, Depth
  <1>4. mine[c] = {}
    BY <1>2, <1>3, FS_EmptySet
  <1> QED
    BY <1>1, <1>3, <1>4 DEF Inv, TypeOK, Waiting

\* Code with no lock in hand, between calls, has pushed nothing off.
LEMMA NothingPushed ==
  ASSUME Inv, NEW c \in CPUs, pc[c] \notin Inside, mine[c] = {}
  PROVE  noff[c] = 0
  BY FS_EmptySet DEF Inv, Depth

LEMMA acquireInv ==
  ASSUME Inv, NEW c \in CPUs, NEW l \in Locks, acquire(c, l)
  PROVE  Inv'
  <1>1. TypeOK'
    BY DEF acquire, GoTo, Inv, TypeOK
  <1>2. Owners' /\ Passing' /\ Waiting'
    <2>1. Owners'
      BY DEF acquire, Inv, TypeOK, Owners
    <2>2. Passing'
      BY DEF acquire, GoTo, Inv, TypeOK, Passing, Between
    <2>3. Waiting'
      BY DEF acquire, GoTo, Inv, TypeOK, Waiting, Inside
    <2> QED
      BY <2>1, <2>2, <2>3
  <1>3. Depth'
    BY DEF acquire, GoTo, Inv, TypeOK, Depth, Inside
  <1>4. Enabled' /\ Interrupted'
    <2>1. Enabled'
      BY DEF acquire, GoTo, Inv, TypeOK, Enabled
    <2>2. Interrupted'
      BY DEF acquire, GoTo, Inv, TypeOK, Interrupted
    <2> QED
      BY <2>1, <2>2
  <1> QED
    BY <1>1, <1>2, <1>3, <1>4 DEF Inv

LEMMA push_offInv ==
  ASSUME Inv, NEW c \in CPUs, push_off(c)
  PROVE  Inv'
  <1>1. TypeOK'
    BY DEF push_off, GoTo, Inv, TypeOK, Inside
  <1>2. Owners' /\ Passing' /\ Waiting'
    <2>1. Owners'
      BY DEF push_off, Inv, TypeOK, Owners
    <2>2. Passing'
      BY DEF push_off, GoTo, Inv, TypeOK, Passing, Between
    <2>3. Waiting'
      BY DEF push_off, GoTo, Inv, TypeOK, Waiting, Inside
    <2> QED
      BY <2>1, <2>2, <2>3
  <1>3. Depth'
    <2>1. \A d \in CPUs : Cardinality(mine[d]) \in Nat
      BY FS_CardinalityType DEF Inv, Depth
    <2> QED
      BY <2>1 DEF push_off, GoTo, Inv, TypeOK, Depth, Inside
  <1>4. Enabled' /\ Interrupted'
    <2>1. Enabled'
      BY DEF push_off, GoTo, Inv, TypeOK, Enabled
    <2>2. Interrupted'
      BY DEF push_off, GoTo, Inv, TypeOK, Interrupted
    <2> QED
      BY <2>1, <2>2
  <1> QED
    BY <1>1, <1>2, <1>3, <1>4 DEF Inv

\* The steps that stay between push_off() and pop_off() and leave mine alone.
LEMMA insideInv ==
  ASSUME Inv, NEW c \in CPUs,
         holding_locked(c) \/ holding_cpu(c) \/ spin(c) \/ unlock(c)
  PROVE  Inv'
  <1> USE DEF holding_locked, holding_cpu, spin, unlock, GoTo
  <1>1. TypeOK'
    BY DEF Inv, TypeOK, Inside
  <1>2. Owners' /\ Passing' /\ Waiting'
    <2>1. CASE holding_locked(c)
      BY <2>1 DEF Inv, TypeOK, Owners, Passing, Waiting, Inside, Between
    <2>2. CASE holding_cpu(c)
      <3>1. cpu[lk[c]] # {c}
        BY <2>2 DEF Inv, TypeOK, Owners, Waiting, Inside
      <3> QED
        BY <2>2, <3>1 DEF Inv, TypeOK, Owners, Passing, Waiting, Inside, Between
    <2>3. CASE spin(c)
      <3>1. \A d \in CPUs : lk[c] \notin mine[d]
        BY <2>3 DEF Inv, Owners
      <3>2. cpu[lk[c]] = {}
        BY <2>3, <3>1 DEF Inv, TypeOK, Owners
      <3>3. Owners'
        BY <2>3 DEF Inv, TypeOK, Owners
      <3>4. Passing'
        BY <2>3, <3>2 DEF Inv, TypeOK, Passing, Between
      <3>5. Waiting'
        BY <2>3 DEF Inv, TypeOK, Waiting, Inside
      <3> QED
        BY <3>3, <3>4, <3>5
    <2>4. CASE unlock(c)
      <3>1. \A d \in CPUs : lk[c] \notin mine[d]
        BY <2>4 DEF Inv, TypeOK, Owners, Passing, Between
      <3>2. Owners'
        BY <2>4, <3>1 DEF Inv, TypeOK, Owners
      <3>3. Passing'
        BY <2>4 DEF Inv, TypeOK, Passing, Between
      <3>4. Waiting'
        BY <2>4 DEF Inv, TypeOK, Waiting, Inside
      <3> QED
        BY <3>2, <3>3, <3>4
    <2> QED
      BY <2>1, <2>2, <2>3, <2>4
  <1>3. Depth'
    BY <1>2 DEF Inv, TypeOK, Waiting, Depth, Inside
  <1>4. Enabled' /\ Interrupted'
    <2>1. Enabled'
      BY DEF Inv, TypeOK, Enabled
    <2>2. Interrupted'
      BY DEF Inv, TypeOK, Interrupted
    <2> QED
      BY <2>1, <2>2
  <1> QED
    BY <1>1, <1>2, <1>3, <1>4 DEF Inv

LEMMA gotInv ==
  ASSUME Inv, NEW c \in CPUs, got(c)
  PROVE  Inv'
  <1>1. TypeOK'
    BY DEF got, GoTo, Inv, TypeOK
  <1>2. Owners' /\ Passing' /\ Waiting'
    <2>1. Owners'
      BY DEF got, Inv, TypeOK, Owners, Passing, Between
    <2>2. Passing'
      BY DEF got, GoTo, Inv, TypeOK, Owners, Passing, Inside, Between
    <2>3. Waiting'
      BY DEF got, GoTo, Inv, TypeOK, Waiting, Inside
    <2> QED
      BY <2>1, <2>2, <2>3
  <1>3. Depth'
    <2>1. IsFiniteSet(mine[c] \cup {lk[c]})
          /\ Cardinality(mine[c] \cup {lk[c]}) = Cardinality(mine[c]) + 1
      BY FS_AddElement DEF got, Inv, Waiting, Depth, Inside
    <2>2. Cardinality(mine[c]) \in Nat
      BY FS_CardinalityType DEF Inv, Depth
    <2> QED
      BY <2>1, <2>2 DEF got, GoTo, Inv, TypeOK, Depth, Inside
  <1>4. Enabled' /\ Interrupted'
    <2>1. Enabled'
      BY DEF got, GoTo, Inv, TypeOK, Enabled
    <2>2. Interrupted'
      BY DEF got, GoTo, Inv, TypeOK, Interrupted
    <2> QED
      BY <2>1, <2>2
  <1> QED
    BY <1>1, <1>2, <1>3, <1>4 DEF Inv

LEMMA releaseInv ==
  ASSUME Inv, NEW c \in CPUs, NEW l \in Locks, release(c, l)
  PROVE  Inv'
  <1>1. locked[l] /\ cpu[l] = {c}
    BY DEF release, Inv, TypeOK, Owners
  <1>2. TypeOK'
    BY <1>1 DEF release, GoTo, Inv, TypeOK, Inside
  <1>3. Owners' /\ Passing' /\ Waiting'
    <2>1. Owners'
      BY <1>1 DEF release, Inv, TypeOK, Owners, Passing, Between
    <2>2. Passing'
      BY <1>1 DEF release, GoTo, Inv, TypeOK, Owners, Passing, Inside, Between
    <2>3. Waiting'
      BY <1>1 DEF release, GoTo, Inv, TypeOK, Waiting, Inside
    <2> QED
      BY <2>1, <2>2, <2>3
  <1>4. Depth'
    <2>1. IsFiniteSet(mine[c] \ {l})
          /\ Cardinality(mine[c] \ {l}) = Cardinality(mine[c]) - 1
      BY FS_RemoveElement DEF release, Inv, Depth
    <2>2. Cardinality(mine[c]) \in Nat
      BY FS_CardinalityType DEF Inv, Depth
    <2> QED
      BY <1>1, <2>1, <2>2 DEF release, GoTo, Inv, TypeOK, Depth, Inside
  <1>5. Enabled' /\ Interrupted'
    <2>1. Enabled'
      BY <1>1 DEF release, GoTo, Inv, TypeOK, Enabled
    <2>2. Interrupted'
      BY <1>1 DEF release, GoTo, Inv, TypeOK, Interrupted
    <2> QED
      BY <2>1, <2>2
  <1> QED
    BY <1>2, <1>3, <1>4, <1>5 DEF Inv

LEMMA pop_offInv ==
  ASSUME Inv, NEW c \in CPUs, pop_off(c)
  PROVE  Inv'
  <1>1. IsFiniteSet(mine[c]) /\ Cardinality(mine[c]) \in Nat
    BY FS_CardinalityType DEF Inv, Depth
  <1>2. noff[c] = Cardinality(mine[c]) + 1 /\ ~intr[c]
    BY <1>1 DEF pop_off, Inv, TypeOK, Depth, Enabled, Inside
  <1>3. TypeOK'
    BY <1>1, <1>2 DEF pop_off, GoTo, Inv, TypeOK
  <1>4. Owners' /\ Passing' /\ Waiting'
    <2>1. Owners'
      BY <1>1, <1>2 DEF pop_off, Inv, TypeOK, Owners
    <2>2. Passing'
      BY <1>1, <1>2 DEF pop_off, GoTo, Inv, TypeOK, Passing, Between
    <2>3. Waiting'
      BY <1>1, <1>2 DEF pop_off, GoTo, Inv, TypeOK, Waiting, Inside
    <2> QED
      BY <2>1, <2>2, <2>3
  <1>5. Depth'
    BY <1>1, <1>2 DEF pop_off, GoTo, Inv, TypeOK, Depth, Inside
  <1>6. Enabled' /\ Interrupted'
    <2>1. Enabled'
      BY <1>1, <1>2 DEF pop_off, GoTo, Inv, TypeOK, Enabled
    <2>2. Interrupted'
      BY <1>1, <1>2 DEF pop_off, GoTo, Inv, TypeOK, Interrupted
    <2> QED
      BY <2>1, <2>2
  <1> QED
    BY <1>3, <1>4, <1>5, <1>6 DEF Inv

LEMMA interruptInv ==
  ASSUME Inv, NEW c \in CPUs, interrupt(c)
  PROVE  Inv'
  <1>1. noff[c] = 0 /\ mine[c] = {} /\ pc[c] \in {"run", "push"}
    BY FreeToInterrupt DEF interrupt
  <1>2. TypeOK'
    BY <1>1 DEF interrupt, GoTo, Inv, TypeOK, Contexts
  <1>3. Owners' /\ Passing' /\ Waiting'
    <2>1. Owners'
      BY <1>1 DEF interrupt, Inv, TypeOK, Owners
    <2>2. Passing'
      BY <1>1 DEF interrupt, GoTo, Inv, TypeOK, Passing, Between
    <2>3. Waiting'
      BY <1>1 DEF interrupt, GoTo, Inv, TypeOK, Waiting, Inside
    <2> QED
      BY <2>1, <2>2, <2>3
  <1>4. Depth'
    BY <1>1, FS_EmptySet DEF interrupt, GoTo, Inv, TypeOK, Depth, Inside
  <1>5. Enabled' /\ Interrupted'
    <2>1. Enabled'
      BY <1>1 DEF interrupt, GoTo, Inv, TypeOK, Enabled
    <2>2. Interrupted'
      BY <1>1 DEF interrupt, GoTo, Inv, TypeOK, Enabled, Interrupted
    <2> QED
      BY <2>1, <2>2
  <1> QED
    BY <1>2, <1>3, <1>4, <1>5 DEF Inv

LEMMA returnInv ==
  ASSUME Inv, NEW c \in CPUs, kerneltrap_return(c)
  PROVE  Inv'
  <1>1. noff[c] = 0 /\ mine[c] = {}
    BY NothingPushed DEF kerneltrap_return, Inside
  <1>2. /\ saved[c].mine = {} /\ (saved[c].pc = "push" => saved[c].old)
        /\ saved[c].pc \in {"run", "push"} /\ saved[c].lk \in Locks
        /\ saved[c].old \in BOOLEAN
    BY DEF kerneltrap_return, Inv, TypeOK, Interrupted, Contexts
  <1>3. TypeOK'
    BY <1>1, <1>2 DEF kerneltrap_return, GoTo, Inv, TypeOK
  <1>4. Owners' /\ Passing' /\ Waiting'
    <2>1. Owners'
      BY <1>1, <1>2 DEF kerneltrap_return, Inv, TypeOK, Owners
    <2>2. Passing'
      BY <1>1, <1>2 DEF kerneltrap_return, GoTo, Inv, TypeOK, Passing, Between
    <2>3. Waiting'
      BY <1>1, <1>2 DEF kerneltrap_return, GoTo, Inv, TypeOK, Waiting, Inside
    <2> QED
      BY <2>1, <2>2, <2>3
  <1>5. Depth'
    BY <1>1, <1>2, FS_EmptySet DEF kerneltrap_return, GoTo, Inv, TypeOK, Depth, Inside
  <1>6. Enabled' /\ Interrupted'
    <2>1. Enabled'
      BY <1>1, <1>2 DEF kerneltrap_return, GoTo, Inv, TypeOK, Enabled
    <2>2. Interrupted'
      BY <1>1, <1>2 DEF kerneltrap_return, GoTo, Inv, TypeOK, Interrupted
    <2> QED
      BY <2>1, <2>2
  <1> QED
    BY <1>3, <1>4, <1>5, <1>6 DEF Inv

LEMMA intr_setInv ==
  ASSUME Inv, NEW c \in CPUs, NEW b \in BOOLEAN, intr_set(c, b)
  PROVE  Inv'
  <1>1. noff[c] = 0
    BY NothingPushed DEF intr_set, Inside
  <1>2. TypeOK'
    BY DEF intr_set, Inv, TypeOK
  <1>3. Owners' /\ Passing' /\ Waiting' /\ Depth'
    BY DEF intr_set, Inv, TypeOK, Owners, Passing, Waiting, Depth
  <1>4. Enabled' /\ Interrupted'
    <2>1. Enabled'
      BY <1>1 DEF intr_set, Inv, TypeOK, Enabled
    <2>2. Interrupted'
      BY <1>1 DEF intr_set, Inv, TypeOK, Interrupted
    <2> QED
      BY <2>1, <2>2
  <1> QED
    BY <1>2, <1>3, <1>4 DEF Inv

LEMMA NextInv == Inv /\ [Next]_vars => Inv'
  <1> SUFFICES ASSUME Inv, [Next]_vars PROVE Inv'
    OBVIOUS
  <1>1. CASE UNCHANGED vars
    BY <1>1 DEF vars, Inv, TypeOK, Owners, Passing, Waiting, Depth, Enabled, Interrupted
  <1>2. CASE Next
    BY <1>2, acquireInv, push_offInv, insideInv, gotInv, releaseInv, pop_offInv,
       interruptInv, returnInv, intr_setInv DEF Next
  <1> QED
    BY <1>1, <1>2

THEOREM Invariance == Spec => []Inv
  BY InitInv, NextInv, PTL DEF Spec

\* acquire() and release() give mutual exclusion among any number of CPUs,
\* interrupts included.
THEOREM SpinlockMutex == Spec => []MutualExclusion
  <1>1. Inv => MutualExclusion
    BY DEF Inv, TypeOK, Owners, MutualExclusion
  <1> QED
    BY <1>1, Invariance, PTL

\* The panics of acquire(), release() and pop_off() are never met by code that
\* keeps to the rules, so no CPU waits for a lock it holds itself.
THEOREM SpinlockNoPanic == Spec => []NoPanic
  <1>1. Inv => NoPanic
    BY DEF Inv, Waiting, NoPanic
  <1> QED
    BY <1>1, Invariance, PTL

\* push_off() and pop_off() nest: interrupts are off under a lock, and after
\* the last release() as before the first acquire().
THEOREM SpinlockInterrupts == Spec => []InterruptsMatch
  <1>1. Inv => InterruptsMatch
    <2> SUFFICES ASSUME Inv, NEW c \in CPUs, pc[c] = "run"
                 PROVE  intr[c] = (want[c] /\ mine[c] = {})
      BY DEF InterruptsMatch
    <2>1. CASE mine[c] = {}
      BY <2>1, NothingPushed DEF Inv, TypeOK, Enabled, Inside
    <2>2. CASE mine[c] # {}
      BY <2>2, FreeToInterrupt DEF Inv, TypeOK
    <2> QED
      BY <2>1, <2>2
  <1> QED
    BY <1>1, Invariance, PTL

=============================================================================
