----------------------------- MODULE AtomicDisk -----------------------------
(***************************************************************************)
(* What the log promises to file system calls: a disk on which whole       *)
(* operations take effect.  Operations write to a common memory image; at  *)
(* a moment when none is in progress the image may become the content of   *)
(* the disk, and a crash goes back to that content.  So after a crash the  *)
(* disk holds all writes of an operation or none of them.                  *)
(***************************************************************************)
CONSTANTS Procs, Blocks, Data

VARIABLES
  durable,   \* what a crash leaves behind
  mem,       \* what operations read
  active     \* the processes inside an operation

diskVars == <<durable, mem, active>>

DiskInit ==
  /\ durable \in [Blocks -> Data]
  /\ mem = durable
  /\ active = {}

Begin(p) ==
  /\ p \notin active
  /\ active' = active \cup {p}
  /\ UNCHANGED <<durable, mem>>

Write(p, b, v) ==
  /\ p \in active
  /\ mem' = [mem EXCEPT ![b] = v]
  /\ UNCHANGED <<durable, active>>

End(p) ==
  /\ p \in active
  /\ active' = active \ {p}
  /\ UNCHANGED <<durable, mem>>

Commit ==
  /\ active = {}
  /\ durable' = mem
  /\ UNCHANGED <<mem, active>>

Crash ==
  /\ mem' = durable
  /\ active' = {}
  /\ UNCHANGED durable

DiskNext ==
  \/ \E p \in Procs : Begin(p) \/ End(p)
  \/ \E p \in Procs, b \in Blocks, v \in Data : Write(p, b, v)
  \/ Commit \/ Crash

DiskSpec == DiskInit /\ [][DiskNext]_diskVars

=============================================================================
