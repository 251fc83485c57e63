------------------------------- MODULE Virtio -------------------------------
(***************************************************************************)
(* The disk driver (kernel/virtio_disk.c) and the device.                  *)
(*                                                                         *)
(* A section of virtio_disk_rw() under vdisk_lock is one step; in          *)
(* virtio_disk_intr(), which holds vdisk_lock all the time, the device     *)
(* works on between the steps.  The rings are the sequences of what the    *)
(* other side has not yet seen.  The device (external) may finish requests *)
(* in any order, moves a block in one step and reports no errors.  Both    *)
(* sleep() calls are in loops that test again, so that an early wakeup by  *)
(* kill() is left out.                                                     *)
(*                                                                         *)
(* A process calls virtio_disk_rw() with a buffer whose sleep lock it      *)
(* holds (module Bcache): no two processes ask for the same buffer or      *)
(* block, and the process stands for its buffer.                           *)
(***************************************************************************)
EXTENDS Integers, Sequences, SequencesExt, FiniteSets

CONSTANTS
  Procs,
  Blocks,
  Data,          \* contents of a block
  NULL,
  NUM,           \* descriptors
  blockno        \* b->blockno, of the buffer of a process

ASSUME VirtioAssumption ==
  /\ NULL \notin Procs \cup Blocks \cup Data
  /\ NUM \in Nat /\ NUM >= 3
  /\ blockno \in [Procs -> Blocks]
  /\ \A p, q \in Procs : blockno[p] = blockno[q] => p = q

VARIABLES
  free,          \* disk.free
  next,          \* desc[i].next
  addr,          \* desc[i].addr, for the descriptor of the data
  info,          \* info[i].b with the type and sector of ops[i]
  avail, used,   \* the rings
  handler,       \* virtio_disk_intr(): "idle", in its "loop", at its "end"
  flight,        \* the requests the device has fetched
  irq,           \* the interrupt of the device
  platter,       \* the blocks on the disk
  mem,           \* b->data
  disk,          \* b->disk
  pc,
  write,         \* write of virtio_disk_rw()
  idx,           \* its idx[0]
  moved          \* history: the block has been moved

descriptors == <<free, next, addr, info>>
driver == <<descriptors, handler, disk>>
device == <<flight, irq, platter, mem, moved>>
vars == <<driver, device, avail, used, pc, write, idx>>

Desc == 0 .. NUM - 1

\* virtio_disk_init().
Init ==
  /\ free = Desc
  /\ next = [i \in Desc |-> NULL]
  /\ addr = [i \in Desc |-> NULL]
  /\ info = [i \in Desc |-> NULL]
  /\ avail = <<>> /\ used = <<>>
  /\ handler = "idle"
  /\ flight = {} /\ irq = FALSE
  /\ platter \in [Blocks -> Data]
  /\ mem = [p \in Procs |-> NULL]
  /\ disk = [p \in Procs |-> FALSE]
  /\ pc = [p \in Procs |-> "out"]
  /\ write = [p \in Procs |-> FALSE]
  /\ idx = [p \in Procs |-> NULL]
  /\ moved = [p \in Procs |-> FALSE]

GoTo(p, place) == pc' = [pc EXCEPT ![p] = place]

-----------------------------------------------------------------------------
(* virtio_disk_rw(). *)

\* A call, by bread() with any old data or by bwrite().
call(p, w, v) ==
  /\ pc[p] = "out"
  /\ write' = [write EXCEPT ![p] = w]
  /\ mem' = [mem EXCEPT ![p] = v]
  /\ GoTo(p, "alloc")
  /\ UNCHANGED <<driver, flight, irq, platter, moved, avail, used, idx>>

\* wakeup(&disk.free[0]), and process p goes on at a place.
WakeWaiting(p, place) ==
  pc' = [q \in Procs |->
           IF q = p THEN place ELSE IF pc[q] = "alloc_asleep" THEN "alloc" ELSE pc[q]]

\* alloc3_desc() fails: what it got is freed again, with a wakeup() each.
alloc3_desc_fails(p) ==
  /\ pc[p] = "alloc" /\ handler = "idle"
  /\ Cardinality(free) < 3
  /\ IF free = {} THEN GoTo(p, "alloc_asleep") ELSE WakeWaiting(p, "alloc_asleep")
  /\ UNCHANGED <<driver, device, avail, used, write, idx>>

\* The three lowest free descriptors become a chain, the device is told, and
\* the process sleeps: b->disk is 1 at least until the lock is released.
submit(p) ==
  /\ pc[p] = "alloc" /\ handler = "idle"
  /\ \E i, j, k \in free :
       /\ i < j /\ j < k /\ \A d \in free \ {i, j} : k <= d
       /\ free' = free \ {i, j, k}
       /\ next' = [next EXCEPT ![i] = j, ![j] = k, ![k] = NULL]
       /\ addr' = [addr EXCEPT ![j] = p]
       /\ info' = [info EXCEPT ![i] = [b |-> p, type |-> write[p],
                                       sector |-> blockno[p]]]
       /\ avail' = Append(avail, i)
       /\ idx' = [idx EXCEPT ![p] = i]
  /\ disk' = [disk EXCEPT ![p] = TRUE]
  /\ GoTo(p, "rw_asleep")
  /\ UNCHANGED <<handler, device, used, write>>

\* Mutant of free_chain(): the last descriptor stays.
free_chain_short(i) == {i, next[i]}

\* The descriptors free_chain() frees.
free_chain(i) == {i, next[i], next[next[i]]}

\* The process is back from sleep(): free_chain(), and the call returns.
finish(p) ==
  /\ pc[p] = "rw_woken" /\ ~disk[p] /\ handler = "idle"
  /\ LET chain == free_chain(idx[p]) IN
       /\ free' = free \cup chain
       /\ next' = [d \in Desc |-> IF d \in chain THEN NULL ELSE next[d]]
       /\ addr' = [d \in Desc |-> IF d \in chain THEN NULL ELSE addr[d]]
  /\ info' = [info EXCEPT ![idx[p]] = NULL]
  /\ WakeWaiting(p, "out")
  /\ idx' = [idx EXCEPT ![p] = NULL]
  /\ write' = [write EXCEPT ![p] = FALSE]
  /\ mem' = [mem EXCEPT ![p] = NULL]
  /\ moved' = [moved EXCEPT ![p] = FALSE]
  /\ UNCHANGED <<disk, handler, flight, irq, platter, avail, used>>

-----------------------------------------------------------------------------
(* virtio_disk_intr(). *)

\* The interrupt is acknowledged before the ring is looked at.
intr_ack ==
  /\ handler = "idle" /\ irq
  /\ handler' = "loop"
  /\ irq' = FALSE
  /\ UNCHANGED <<descriptors, disk, flight, platter, mem, moved, avail, used, pc,
                 write, idx>>

\* Mutant of intr_used: one wakeup for all who wait for the disk.
intr_used_all ==
  /\ handler = "loop" /\ used # <<>>
  /\ disk' = [p \in Procs |-> FALSE]
  /\ pc' = [p \in Procs |-> IF pc[p] = "rw_asleep" THEN "rw_woken" ELSE pc[p]]
  /\ used' = Tail(used)
  /\ UNCHANGED <<descriptors, handler, device, avail, write, idx>>

\* One entry of the used ring.
intr_used ==
  /\ handler = "loop" /\ used # <<>>
  /\ LET b == info[Head(used)].b IN
       /\ disk' = [disk EXCEPT ![b] = FALSE]
       /\ pc' = [pc EXCEPT ![b] = "rw_woken"]
  /\ used' = Tail(used)
  /\ UNCHANGED <<descriptors, handler, device, avail, write, idx>>

\* The loop has seen the end of the ring ...
intr_end ==
  /\ handler = "loop" /\ used = <<>>
  /\ handler' = "end"
  /\ UNCHANGED <<descriptors, disk, device, avail, used, pc, write, idx>>

\* Mutant of intr_return: the interrupt is acknowledged last.
intr_return_ack ==
  /\ handler = "end"
  /\ handler' = "idle"
  /\ irq' = FALSE
  /\ UNCHANGED <<descriptors, disk, flight, platter, mem, moved, avail, used, pc,
                 write, idx>>

\* ... and vdisk_lock is released.
intr_return ==
  /\ handler = "end"
  /\ handler' = "idle"
  /\ UNCHANGED <<descriptors, disk, device, avail, used, pc, write, idx>>

-----------------------------------------------------------------------------
(* The device. *)

fetch ==
  /\ avail # <<>>
  /\ flight' = flight \cup {Head(avail)}
  /\ avail' = Tail(avail)
  /\ UNCHANGED <<driver, irq, platter, mem, moved, used, pc, write, idx>>

\* The block is moved, the request goes to the used ring.
complete(i) ==
  /\ i \in flight
  /\ LET b == addr[next[i]]
         k == info[i].sector
     IN  /\ IF info[i].type
            THEN platter' = [platter EXCEPT ![k] = mem[b]] /\ UNCHANGED mem
            ELSE mem' = [mem EXCEPT ![b] = platter[k]] /\ UNCHANGED platter
         /\ moved' = [moved EXCEPT ![b] = TRUE]
  /\ flight' = flight \ {i}
  /\ used' = Append(used, i)
  /\ irq' = TRUE
  /\ UNCHANGED <<driver, avail, pc, write, idx>>

-----------------------------------------------------------------------------
rw(p) == alloc3_desc_fails(p) \/ submit(p) \/ finish(p)

virtio_disk_intr == intr_ack \/ intr_used \/ intr_end \/ intr_return

Next ==
  \/ \E p \in Procs :
       \/ call(p, FALSE, NULL)
       \/ \E v \in Data : call(p, TRUE, v)
       \/ rw(p)
  \/ virtio_disk_intr
  \/ fetch
  \/ \E i \in Desc : complete(i)

Spec == Init /\ [][Next]_vars

\* A process that can go on gets a CPU and, if it tries again and again,
\* vdisk_lock; the device answers every request, and its interrupts are taken.
FairSpec ==
  /\ Spec
  /\ \A p \in Procs : SF_vars(rw(p))
  /\ WF_vars(virtio_disk_intr)
  /\ WF_vars(fetch) /\ \A i \in Desc : WF_vars(complete(i))

-----------------------------------------------------------------------------
(* Properties. *)

Raw == INSTANCE RawDisk WITH
  request <- [p \in Procs |->
                IF pc[p] = "out" THEN NULL
                ELSE [block |-> blockno[p], write |-> write[p], moved |-> moved[p]]]

\* virtio_disk_rw() returns when the block has been moved, once, between the
\* right places, in whatever order the device answers.
ImplementsRawDisk == Raw!RawSpec

\* A descriptor is free or in the chain of one request, so that free_desc()
\* does not panic and a request is not overwritten while the device reads it.
DescriptorsOwned ==
  LET Chain(p) == {idx[p], next[idx[p]], next[next[idx[p]]]}
      Busy == {p \in Procs : idx[p] # NULL}
  IN  /\ free = Desc \ UNION {Chain(p) : p \in Busy}
      /\ \A p, q \in Busy : p # q => Chain(p) \cap Chain(q) = {}

\* A process that has its descriptors gets its answer: no interrupt is lost
\* when the device answers while the handler is at work.  And when processes
\* wait for descriptors some request is answered, although those whose
\* alloc3_desc() fails wake each other in vain.  (Which of them is served is
\* not fixed: one may have to wait for ever.)
DiskProgress ==
  /\ \A p \in Procs : pc[p] = "rw_asleep" ~> pc[p] = "out"
  /\ (\E p \in Procs : pc[p] # "out") ~> (\E p \in Procs : pc[p] = "rw_woken")

=============================================================================
