---------------------------- MODULE BlockStore ------------------------------
(***************************************************************************)
(* What the buffer cache promises (the comment at the top of bio.c): there *)
(* is one content of each block, and "Only one process at a time can use a *)
(* buffer": a process changes a block only between bread() and brelse().   *)
(***************************************************************************)
CONSTANTS Procs, Blocks, Data

VARIABLES
  content,   \* the blocks
  users      \* users[k], the processes that use block k

storeVars == <<content, users>>

StoreInit ==
  /\ content \in [Blocks -> Data]
  /\ users = [k \in Blocks |-> {}]

Take(p, k) ==
  /\ users[k] = {}
  /\ users' = [users EXCEPT ![k] = {p}]
  /\ UNCHANGED content

Change(p, k, v) ==
  /\ users[k] = {p}
  /\ content' = [content EXCEPT ![k] = v]
  /\ UNCHANGED users

Give(p, k) ==
  /\ users[k] = {p}
  /\ users' = [users EXCEPT ![k] = {}]
  /\ UNCHANGED content

StoreNext ==
  \E p \in Procs, k \in Blocks :
    Take(p, k) \/ Give(p, k) \/ \E v \in Data : Change(p, k, v)

StoreSpec == StoreInit /\ [][StoreNext]_storeVars

=============================================================================
