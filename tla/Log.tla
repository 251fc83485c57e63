-------------------------------- MODULE Log ---------------------------------
(***************************************************************************)
(* The write-ahead log of the file system (kernel/log.c) over the disk and *)
(* the buffer cache as it uses them (kernel/bio.c), with crashes at every  *)
(* moment and the recovery at boot.                                        *)
(*                                                                         *)
(* A disk write of one block is atomic, and one step makes at most one.    *)
(* The sections under log.lock are one step each.  The caller of           *)
(* log_write() holds the lock of the buffer from before it changes the     *)
(* data until after log_write(), so the two are one step.                  *)
(***************************************************************************)
EXTENDS Integers, Sequences, FiniteSets

CONSTANTS
  Procs,         \* the processes that make file system calls
  Blocks,        \* home blocks
  Data,          \* contents of a block
  Absent,        \* content of no buffer: the block is not cached
  MAXOPBLOCKS,   \* blocks that one operation writes at most
  LOGSIZE,       \* the log size that begin_op() reckons with
  size           \* log.size = sb.nlog, the blocks of the log with its header

ASSUME LogAssumption ==
  /\ Absent \notin Data
  /\ MAXOPBLOCKS \in Nat \ {0}
  /\ LOGSIZE \in Nat
  /\ size \in Nat \ {0}

VARIABLES
  \* the disk
  home,          \* home[b], the block at its home location
  slot,          \* slot[i], the i-th block of the log
  head,          \* the header block: the home block numbers
  \* memory
  cache,         \* the buffers
  pinned,        \* pins of a buffer by bpin()
  lh,            \* log.lh
  outstanding,   \* log.outstanding
  committing,    \* log.committing
  \* threads
  boot,          \* where initlog() is, or "up"
  pc,            \* where each process is
  wrote,         \* the blocks an operation has written
  tail           \* the loop variable of write_log() and install_trans()

disk == <<home, slot, head>>
op == <<pc, wrote>>
vars == <<disk, cache, pinned, lh, outstanding, committing, boot, op, tail>>

Slots == 1 .. size - 1

\* mkfs made the disk, with an empty log, and the kernel boots.
Init ==
  /\ home \in [Blocks -> Data]
  /\ slot \in [Slots -> Data]
  /\ head = <<>>
  /\ cache = [b \in Blocks |-> Absent]
  /\ pinned = [b \in Blocks |-> 0]
  /\ lh = <<>>
  /\ outstanding = 0
  /\ committing = FALSE
  /\ boot = "read_head"
  /\ pc = [p \in Procs |-> "idle"]
  /\ wrote = [p \in Procs |-> {}]
  /\ tail = 0

-----------------------------------------------------------------------------
(* The buffer cache. *)

\* What bread(b) returns.
bread(b) == IF cache[b] = Absent THEN home[b] ELSE cache[b]

Cached(b) == cache' = [cache EXCEPT ![b] = bread(b)]

\* A process reads a block.
read(p, b) ==
  /\ boot = "up"
  /\ cache[b] = Absent
  /\ Cached(b)
  /\ UNCHANGED <<disk, pinned, lh, outstanding, committing, boot, op, tail>>

\* bget() recycles a buffer that nobody has a reference to.  A thread that
\* panicked in log_write() keeps the one it had.
evict(b) ==
  /\ cache[b] # Absent
  /\ pinned[b] = 0
  /\ \A p \in Procs : pc[p] = "panic" => b \notin wrote[p]
  /\ cache' = [cache EXCEPT ![b] = Absent]
  /\ UNCHANGED <<disk, pinned, lh, outstanding, committing, boot, op, tail>>

-----------------------------------------------------------------------------
(* begin_op(), log_write() and end_op(). *)

GoTo(p, place) == pc' = [pc EXCEPT ![p] = place]

\* wakeup(&log).
Awake(f) == [p \in Procs |-> IF f[p] = "asleep" THEN "begin" ELSE f[p]]

Panicked == \E p \in Procs : pc[p] = "panic"

\* log.lock can be taken: a thread that panicked with it keeps it.
Unlocked == boot = "up" /\ ~Panicked

\* A file system call starts.
syscall(p) ==
  /\ boot = "up"
  /\ pc[p] = "idle"
  /\ GoTo(p, "begin")
  /\ UNCHANGED <<disk, cache, pinned, lh, outstanding, committing, boot, wrote, tail>>

NoSpace == Len(lh) + (outstanding + 1) * MAXOPBLOCKS > LOGSIZE

\* One turn of the loop.
begin_op(p) ==
  /\ Unlocked
  /\ pc[p] = "begin"
  /\ IF committing \/ NoSpace
     THEN GoTo(p, "asleep") /\ UNCHANGED outstanding
     ELSE GoTo(p, "op") /\ outstanding' = outstanding + 1
  /\ UNCHANGED <<disk, cache, pinned, lh, committing, boot, wrote, tail>>

Logged == {lh[i] : i \in 1 .. Len(lh)}

\* Mutant: the buffer is pinned for an absorbed write, too.
log_write_pins(p, b, v) ==
  /\ Unlocked
  /\ pc[p] = "op"
  /\ Cardinality(wrote[p] \cup {b}) <= MAXOPBLOCKS
  /\ Len(lh) < LOGSIZE /\ Len(lh) < size - 1
  /\ cache' = [cache EXCEPT ![b] = v]
  /\ lh' = IF b \in Logged THEN lh ELSE Append(lh, b)
  /\ pinned' = [pinned EXCEPT ![b] = @ + 1]
  /\ wrote' = [wrote EXCEPT ![p] = @ \cup {b}]
  /\ UNCHANGED <<disk, outstanding, committing, boot, pc, tail>>

\* bread(b), change the data to v, log_write(b).
log_write(p, b, v) ==
  /\ Unlocked
  /\ pc[p] = "op"
  /\ Cardinality(wrote[p] \cup {b}) <= MAXOPBLOCKS
  /\ cache' = [cache EXCEPT ![b] = v]
  /\ wrote' = [wrote EXCEPT ![p] = @ \cup {b}]
  /\ IF Len(lh) >= LOGSIZE \/ Len(lh) >= size - 1 \/ outstanding < 1
     THEN /\ GoTo(p, "panic")
          /\ UNCHANGED <<lh, pinned>>
     ELSE /\ lh' = IF b \in Logged THEN lh ELSE Append(lh, b)
          /\ pinned' = [pinned EXCEPT ![b] = IF b \in Logged THEN @ ELSE @ + 1]
          /\ UNCHANGED pc
  /\ UNCHANGED <<disk, outstanding, committing, boot, tail>>

\* The first section under log.lock.
end_op(p) ==
  /\ Unlocked
  /\ pc[p] = "op"
  /\ outstanding' = outstanding - 1
  /\ wrote' = [wrote EXCEPT ![p] = {}]
  /\ IF committing
     THEN GoTo(p, "panic") /\ UNCHANGED <<committing, tail>>
     ELSE IF outstanding' = 0
     THEN /\ committing' = TRUE
          /\ GoTo(p, IF lh = <<>> THEN "end" ELSE "write_log")
          /\ tail' = 0
     ELSE /\ pc' = [Awake(pc) EXCEPT ![p] = "idle"]
          /\ UNCHANGED <<committing, tail>>
  /\ UNCHANGED <<disk, cache, pinned, lh, boot>>

-----------------------------------------------------------------------------
(* commit(). *)

\* One turn of the loop: a block goes to the log.
write_log(p) ==
  /\ boot = "up"
  /\ pc[p] = "write_log"
  /\ slot' = [slot EXCEPT ![tail + 1] = bread(lh[tail + 1])]
  /\ Cached(lh[tail + 1])
  /\ tail' = tail + 1
  /\ GoTo(p, IF tail' = Len(lh) THEN "write_head" ELSE "write_log")
  /\ UNCHANGED <<home, head, pinned, lh, outstanding, committing, boot, wrote>>

\* The header goes to disk: the real commit.
write_head(p) ==
  /\ boot = "up"
  /\ pc[p] = "write_head"
  /\ head' = lh
  /\ tail' = 0
  /\ GoTo(p, "install")
  /\ UNCHANGED <<home, slot, cache, pinned, lh, outstanding, committing, boot, wrote>>

\* One turn of the loop of install_trans(): a block goes to its home.
Install ==
  LET b == lh[tail + 1] IN
    /\ home' = [home EXCEPT ![b] = slot[tail + 1]]
    /\ cache' = [cache EXCEPT ![b] = slot[tail + 1]]
    /\ tail' = tail + 1

install_trans(p) ==
  /\ boot = "up"
  /\ pc[p] = "install"
  /\ Install
  /\ pinned' = [pinned EXCEPT ![lh[tail + 1]] = @ - 1]
  /\ GoTo(p, IF tail' = Len(lh) THEN "erase" ELSE "install")
  /\ UNCHANGED <<slot, head, lh, outstanding, committing, boot, wrote>>

\* log.lh.n = 0, and the header goes to disk again.
erase(p) ==
  /\ boot = "up"
  /\ pc[p] = "erase"
  /\ lh' = <<>>
  /\ head' = <<>>
  /\ GoTo(p, "end")
  /\ UNCHANGED <<home, slot, cache, pinned, outstanding, committing, boot, wrote, tail>>

\* Mutant: committing is not reset.
commit_end_forgets(p) ==
  /\ Unlocked
  /\ pc[p] = "end"
  /\ pc' = [Awake(pc) EXCEPT ![p] = "idle"]
  /\ UNCHANGED <<disk, cache, pinned, lh, outstanding, committing, boot, wrote, tail>>

\* The last section of end_op().
commit_end(p) ==
  /\ Unlocked
  /\ pc[p] = "end"
  /\ committing' = FALSE
  /\ pc' = [Awake(pc) EXCEPT ![p] = "idle"]
  /\ UNCHANGED <<disk, cache, pinned, lh, outstanding, boot, wrote, tail>>

-----------------------------------------------------------------------------
(* Crash, and initlog() at the next boot. *)

crash ==
  /\ cache' = [b \in Blocks |-> Absent]
  /\ pinned' = [b \in Blocks |-> 0]
  /\ lh' = <<>>
  /\ outstanding' = 0
  /\ committing' = FALSE
  /\ boot' = "read_head"
  /\ pc' = [p \in Procs |-> "idle"]
  /\ wrote' = [p \in Procs |-> {}]
  /\ tail' = 0
  /\ UNCHANGED disk

\* Mutant: a committed transaction is cleared without being installed.
read_head_skip ==
  /\ boot = "read_head"
  /\ lh' = head
  /\ tail' = 0
  /\ boot' = "clear"
  /\ UNCHANGED <<disk, cache, pinned, outstanding, committing, op>>

read_head ==
  /\ boot = "read_head"
  /\ lh' = head
  /\ tail' = 0
  /\ boot' = IF head = <<>> THEN "clear" ELSE "install"
  /\ UNCHANGED <<disk, cache, pinned, outstanding, committing, op>>

\* install_trans(1), one turn of the loop.
recover_install ==
  /\ boot = "install"
  /\ Install
  /\ boot' = IF tail' = Len(lh) THEN "clear" ELSE "install"
  /\ UNCHANGED <<slot, head, pinned, lh, outstanding, committing, op>>

recover_clear ==
  /\ boot = "clear"
  /\ lh' = <<>>
  /\ head' = <<>>
  /\ boot' = "up"
  /\ UNCHANGED <<home, slot, cache, pinned, outstanding, committing, op, tail>>

-----------------------------------------------------------------------------
\* What a process does without being asked by its program.
LogStep(p) ==
  \/ begin_op(p) \/ end_op(p)
  \/ write_log(p) \/ write_head(p) \/ install_trans(p) \/ erase(p)
  \/ commit_end(p)

Next ==
  \/ \E p \in Procs : LogStep(p) \/ syscall(p)
  \/ \E p \in Procs, b \in Blocks :
       read(p, b) \/ \E v \in Data : log_write(p, b, v)
  \/ \E b \in Blocks : evict(b)
  \/ crash \/ read_head \/ recover_install \/ recover_clear

Spec == Init /\ [][Next]_vars

\* Each process is scheduled again and again, and every operation ends; boot
\* goes on.  Nothing makes a process write, or the machine crash.
Fairness ==
  /\ \A p \in Procs : WF_vars(LogStep(p))
  /\ WF_vars(read_head) /\ WF_vars(recover_install) /\ WF_vars(recover_clear)

FairSpec == Spec /\ Fairness

-----------------------------------------------------------------------------
(* Properties. *)

\* The content that recovery would restore.
Durable ==
  [b \in Blocks |-> IF \E i \in 1 .. Len(head) : head[i] = b
                    THEN slot[CHOOSE i \in 1 .. Len(head) : head[i] = b]
                    ELSE home[b]]

\* The content that file system calls see.
Mem == IF boot = "up" THEN [b \in Blocks |-> bread(b)] ELSE Durable

Atomic == INSTANCE AtomicDisk WITH
  durable <- Durable,
  mem <- Mem,
  active <- {p \in Procs : pc[p] \in {"op", "panic"}}

\* The log makes file system calls atomic with respect to crashes: the
\* comment at the head of log.c, "the logging system only commits when there
\* are no FS system calls active".
ImplementsAtomicDisk == Atomic!DiskSpec

\* Exactly the blocks that are logged and not yet installed are pinned, and
\* they are in the cache: bpin() and bunpin() match, and bget() cannot
\* recycle a buffer whose new content is nowhere else.
PinsMatch ==
  boot = "up" => \A b \in Blocks :
    /\ pinned[b] = IF \E i \in 1 .. Len(lh) :
                        /\ lh[i] = b
                        /\ \A p \in Procs : pc[p] = "install" => i > tail
                        /\ \A p \in Procs : pc[p] # "erase"
                   THEN 1 ELSE 0
    /\ pinned[b] = 1 => cache[b] # Absent

\* A process waiting in begin_op() is woken up, unless a thread panics with
\* log.lock.
WaiterWoken ==
  \A p \in Procs : pc[p] = "asleep" ~> (pc[p] # "asleep" \/ Panicked)

=============================================================================
