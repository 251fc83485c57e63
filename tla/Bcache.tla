------------------------------- MODULE Bcache -------------------------------
(***************************************************************************)
(* The buffer cache (kernel/bio.c) with its sleep locks                    *)
(* (kernel/sleeplock.c).                                                   *)
(*                                                                         *)
(* A section under bcache.lock or under the spinlock of a sleep lock is    *)
(* one step.  virtio_disk_rw() takes a while and moves the block when it   *)
(* returns; module Virtio shows that of the driver.  sleep() here is in a  *)
(* loop that tests again, so that an early wakeup by kill() is left out.   *)
(*                                                                         *)
(* A process uses one buffer at a time, in the way log.c and fs.c do: it   *)
(* gives back a changed buffer only written to the disk or pinned, and a   *)
(* pin is taken off when the buffer has been written.                      *)
(***************************************************************************)
EXTENDS Integers, Sequences, SequencesExt, FiniteSets

CONSTANTS
  Procs,
  Bufs,          \* bcache.buf
  Blocks,
  Data,          \* contents of a block
  NULL,
  MaxPins        \* bound: buffers pinned by the log at a time

\* Every process finds a buffer beside the pinned ones.
ASSUME BcacheAssumption ==
  /\ NULL \notin Procs \cup Bufs \cup Blocks
  /\ MaxPins \in Nat
  /\ IsFiniteSet(Procs) /\ IsFiniteSet(Bufs)
  /\ Cardinality(Procs) + MaxPins <= Cardinality(Bufs)

VARIABLES
  lru,           \* the list from head.next (most recently used) to head.prev
  blockno, valid, refcnt,
  data,
  locked,        \* who holds b->lock
  pinned, dirty, \* what the callers know: in the log; changed since written
  platter,       \* the blocks on the disk
  pc,
  buf,           \* b
  write          \* write of virtio_disk_rw()

bcache == <<lru, blockno, valid, refcnt>>
caller == <<pinned, dirty>>
vars == <<bcache, data, locked, caller, platter, pc, buf, write>>

\* binit().
Init ==
  /\ lru = SetToSeq(Bufs)
  /\ blockno = [b \in Bufs |-> NULL]
  /\ valid = [b \in Bufs |-> FALSE]
  /\ refcnt = [b \in Bufs |-> 0]
  /\ data = [b \in Bufs |-> NULL]
  /\ locked = [b \in Bufs |-> NULL]
  /\ pinned = [b \in Bufs |-> FALSE]
  /\ dirty = [b \in Bufs |-> FALSE]
  /\ platter \in [Blocks -> Data]
  /\ pc = [p \in Procs |-> "out"]
  /\ buf = [p \in Procs |-> NULL]
  /\ write = [p \in Procs |-> FALSE]

GoTo(p, place) == pc' = [pc EXCEPT ![p] = place]

-----------------------------------------------------------------------------
(* bread() up to the disk. *)

\* bget(): the block is cached.
bget(p, k) ==
  /\ pc[p] = "out"
  /\ \E b \in Bufs :
       /\ blockno[b] = k
       /\ refcnt' = [refcnt EXCEPT ![b] = @ + 1]
       /\ buf' = [buf EXCEPT ![p] = b]
  /\ GoTo(p, "lock")
  /\ UNCHANGED <<lru, blockno, valid, data, locked, caller, platter, write>>

\* The buffers the second loop of bget() would take, and the one it takes.
Unused == {b \in Bufs : refcnt[b] = 0}

LeastRecent(b) ==
  /\ b \in Unused
  /\ \A i, j \in DOMAIN lru : lru[i] = b /\ lru[j] \in Unused => j <= i

\* Mutant of bget_recycle(): the buffer stays valid.
bget_recycle_valid(p, k) ==
  /\ pc[p] = "out"
  /\ \A b \in Bufs : blockno[b] # k
  /\ \E b \in Bufs :
       /\ LeastRecent(b)
       /\ blockno' = [blockno EXCEPT ![b] = k]
       /\ refcnt' = [refcnt EXCEPT ![b] = 1]
       /\ buf' = [buf EXCEPT ![p] = b]
  /\ GoTo(p, "lock")
  /\ UNCHANGED <<lru, valid, data, locked, caller, platter, write>>

\* bget(): the block is not cached, the least recently used buffer is taken.
bget_recycle(p, k) ==
  /\ pc[p] = "out"
  /\ \A b \in Bufs : blockno[b] # k
  /\ \E b \in Bufs :
       /\ LeastRecent(b)
       /\ blockno' = [blockno EXCEPT ![b] = k]
       /\ valid' = [valid EXCEPT ![b] = FALSE]
       /\ refcnt' = [refcnt EXCEPT ![b] = 1]
       /\ buf' = [buf EXCEPT ![p] = b]
  /\ GoTo(p, "lock")
  /\ UNCHANGED <<lru, data, locked, caller, platter, write>>

\* acquiresleep(), with the test of b->valid that follows.
acquiresleep(p) ==
  /\ pc[p] = "lock"
  /\ locked[buf[p]] = NULL
  /\ locked' = [locked EXCEPT ![buf[p]] = p]
  /\ GoTo(p, IF valid[buf[p]] THEN "hold" ELSE "rw")
  /\ UNCHANGED <<bcache, data, caller, platter, buf, write>>

acquiresleep_wait(p) ==
  /\ pc[p] = "lock"
  /\ locked[buf[p]] # NULL
  /\ GoTo(p, "lock_asleep")
  /\ UNCHANGED <<bcache, data, locked, caller, platter, buf, write>>

-----------------------------------------------------------------------------
(* What a process does with its buffer. *)

\* The data is changed in memory only.
change(p, v) ==
  /\ pc[p] = "hold"
  /\ data' = [data EXCEPT ![buf[p]] = v]
  /\ dirty' = [dirty EXCEPT ![buf[p]] = TRUE]
  /\ UNCHANGED <<bcache, locked, pinned, platter, pc, buf, write>>

bwrite(p) ==
  /\ pc[p] = "hold"
  /\ GoTo(p, "rw")
  /\ write' = [write EXCEPT ![p] = TRUE]
  /\ UNCHANGED <<bcache, data, locked, caller, platter, buf>>

\* Called by log_write() for a block that is not yet in the log.
bpin(p) ==
  /\ pc[p] = "hold"
  /\ ~pinned[buf[p]]
  /\ Cardinality({b \in Bufs : pinned[b]}) < MaxPins
  /\ pinned' = [pinned EXCEPT ![buf[p]] = TRUE]
  /\ refcnt' = [refcnt EXCEPT ![buf[p]] = @ + 1]
  /\ UNCHANGED <<lru, blockno, valid, data, locked, dirty, platter, pc, buf, write>>

\* Called by install_trans() after bwrite().
bunpin(p) ==
  /\ pc[p] = "hold"
  /\ pinned[buf[p]] /\ ~dirty[buf[p]]
  /\ pinned' = [pinned EXCEPT ![buf[p]] = FALSE]
  /\ refcnt' = [refcnt EXCEPT ![buf[p]] = @ - 1]
  /\ UNCHANGED <<lru, blockno, valid, data, locked, dirty, platter, pc, buf, write>>

\* Mutant of releasesleep(): no wakeup().
releasesleep_silent(p) ==
  /\ pc[p] = "hold"
  /\ dirty[buf[p]] => pinned[buf[p]]
  /\ locked' = [locked EXCEPT ![buf[p]] = NULL]
  /\ GoTo(p, "brelse")
  /\ UNCHANGED <<bcache, data, caller, platter, buf, write>>

\* brelse(): releasesleep() ...
releasesleep(p) ==
  /\ pc[p] = "hold"
  /\ dirty[buf[p]] => pinned[buf[p]]
  /\ locked' = [locked EXCEPT ![buf[p]] = NULL]
  /\ pc' = [q \in Procs |->
              IF q = p THEN "brelse"
              ELSE IF pc[q] = "lock_asleep" /\ buf[q] = buf[p] THEN "lock" ELSE pc[q]]
  /\ UNCHANGED <<bcache, data, caller, platter, buf, write>>

\* ... and the section under bcache.lock.
brelse(p) ==
  /\ pc[p] = "brelse"
  /\ LET b == buf[p] IN
       /\ refcnt' = [refcnt EXCEPT ![b] = @ - 1]
       /\ lru' = IF refcnt[b] = 1 THEN <<b>> \o Remove(lru, b) ELSE lru
  /\ buf' = [buf EXCEPT ![p] = NULL]
  /\ GoTo(p, "out")
  /\ UNCHANGED <<blockno, valid, data, locked, caller, platter, write>>

\* virtio_disk_rw() returns, and the caller's next line.
rw_read(p) ==
  /\ pc[p] = "rw" /\ ~write[p]
  /\ data' = [data EXCEPT ![buf[p]] = platter[blockno[buf[p]]]]
  /\ valid' = [valid EXCEPT ![buf[p]] = TRUE]
  /\ GoTo(p, "hold")
  /\ UNCHANGED <<lru, blockno, refcnt, locked, caller, platter, buf, write>>

rw_write(p) ==
  /\ pc[p] = "rw" /\ write[p]
  /\ platter' = [platter EXCEPT ![blockno[buf[p]]] = data[buf[p]]]
  /\ dirty' = [dirty EXCEPT ![buf[p]] = FALSE]
  /\ write' = [write EXCEPT ![p] = FALSE]
  /\ GoTo(p, "hold")
  /\ UNCHANGED <<bcache, data, locked, pinned, buf>>

-----------------------------------------------------------------------------
Next ==
  \E p \in Procs :
    \/ \E k \in Blocks : bget(p, k) \/ bget_recycle(p, k)
    \/ acquiresleep(p) \/ acquiresleep_wait(p)
    \/ \E v \in Data : change(p, v)
    \/ bwrite(p) \/ rw_read(p) \/ rw_write(p)
    \/ bpin(p) \/ bunpin(p)
    \/ releasesleep(p) \/ brelse(p)

Spec == Init /\ [][Next]_vars

-----------------------------------------------------------------------------
(* Properties. *)

Cached(k) == {b \in Bufs : blockno[b] = k /\ valid[b]}

Store == INSTANCE BlockStore WITH
  content <- [k \in Blocks |->
                IF Cached(k) = {} THEN platter[k] ELSE data[CHOOSE b \in Cached(k) : TRUE]],
  users <- [k \in Blocks |->
              {p \in Procs : \E b \in Bufs : locked[b] = p /\ blockno[b] = k}]

\* A block has one content, which only the one process between its bread()
\* and brelse() changes: recycled buffers, buffers read again and buffers
\* shared by processes do not show.
ImplementsStore == Store!StoreSpec

\* A buffer has as many references as users: the processes inside bread() ...
\* brelse() and one for a pinned block, however often that block is logged.
\* So bget() always finds a buffer (it panics otherwise); and who sleeps in
\* acquiresleep() waits for a process that holds the buffer.
BuffersOwned ==
  /\ \A b \in Bufs :
       refcnt[b] = Cardinality({p \in Procs : buf[p] = b}) + (IF pinned[b] THEN 1 ELSE 0)
  /\ (\E p \in Procs : pc[p] = "out") => Unused # {}
  /\ \A p \in Procs : pc[p] = "lock_asleep" => locked[buf[p]] # NULL

=============================================================================
