-------------------------------- MODULE Fs --------------------------------
(***************************************************************************)
(* The file system above the log: inodes, blocks, directories, path names  *)
(* (kernel/fs.c), open files (kernel/file.c) and the system calls on them  *)
(* (kernel/sysfile.c), started on the image mkfs writes (mkfs/mkfs.c).     *)
(*                                                                         *)
(* disk is the image as the buffer cache shows it, safe what a crash       *)
(* leaves of it: the log commits when the last call in flight ends (Log).  *)
(* ref, lock and mem are the inode table: reference counts, sleep locks,   *)
(* and the in-core copies, NoInode where ip->valid is 0.                   *)
(*                                                                         *)
(* A process in a call keeps the rest of the call in k, a list of pending  *)
(* steps [do, i, j, a, path]; an action performs the first one.  One       *)
(* action is what the code does under one inode lock or under itable.lock, *)
(* so calls of different processes interleave where the code lets go.      *)
(***************************************************************************)
EXTENDS Integers, Sequences, FiniteSets, FiniteSetsExt, TLC

CONSTANTS Procs,       \* process slots; the first process is Init1
          Init1,
          NINODES,     \* inodes on disk are 1..NINODES
          Blocks,      \* data blocks, a set of positive integers
          NDIRECT, NINDIRECT,
          Names,       \* file names a path may hold besides "." and ".."
          Paths,       \* the paths calls are made with: [abs, elems]
          Modes,       \* the open modes: [create, trunc, write]
          Kinds,       \* what create makes: "dir" (mkdir), "dev" (mknod), "nodev"
                       \* (mknod with a major number no driver has)
          NFILE, NOFILE,
          MAXCHUNK,    \* blocks filewrite puts into one transaction
          InitFiles,   \* mkfs's files: a sequence of [name, blocks]
          Images,      \* images an earlier run of the system left
          Sizes,       \* the numbers of blocks a read or write asks for
          MaxCalls     \* bound: system calls of each process, fork not counted

VARIABLES disk, safe, outstanding, ref, lock, mem, ftable, ofile, cwd,
          k, panicked,
          lost,        \* history: inodes orphaned by a crash, by a name in a
                       \* directory that was removed already, or by drop
          strayed,     \* history: some lookup left a removed directory by ".."
          calls

logv == <<safe, outstanding>>
files == <<ftable, ofile, cwd>>
hist == <<panicked, lost, strayed>>
vars == <<disk, safe, outstanding, ref, lock, mem, ftable, ofile, cwd, k,
          panicked, lost, strayed, calls>>

Inums == 1..NINODES
Root == 1
Dots == {".", ".."}
Cells == 0..(NDIRECT + NINDIRECT)  \* NDIRECT is the indirect block itself
Files == 1..NFILE
Fds == 1..NOFILE

FreeInode == [type |-> "free", nlink |-> 0, size |-> 0,
              addrs |-> [c \in Cells |-> 0],
              ents |-> [n \in Names \cup Dots |-> 0]]
NoInode == [FreeInode EXCEPT !.type = "invalid"]
NoFile == [ref |-> 0, ip |-> 0, off |-> 0, write |-> FALSE]
NoArg == [then |-> "none"]

---------------------------------------------------------------------------
(* Blocks.  s is an inode with the bitmap: [ip, used].                     *)

\* The block balloc takes, 0 when the disk is full.
balloc(used) == IF Blocks \subseteq used THEN 0 ELSE Min(Blocks \ used)

Grow(s, c) ==
  LET b == balloc(s.used)
  IN  IF s.ip.addrs[c] # 0 \/ b = 0 THEN s
      ELSE [ip |-> [s.ip EXCEPT !.addrs[c] = b], used |-> s.used \cup {b}]

Cell(bn) == IF bn < NDIRECT THEN bn ELSE bn + 1

\* Block bn of the inode, allocated if there is none: its cell stays 0 when
\* the disk is full.
bmap(s, bn) ==
  LET t == IF bn < NDIRECT THEN s ELSE Grow(s, NDIRECT)
  IN  IF bn >= NDIRECT /\ t.ip.addrs[NDIRECT] = 0 THEN t ELSE Grow(t, Cell(bn))

\* Blocks off .. off+n-1 are written; the copy from user memory fails after
\* good of them.  The loop ends early, the blocks it got stay.
writei(s, off, n, good) ==
  LET W[j \in 0..n] ==
        IF j = 0 THEN [s |-> s, tot |-> 0, go |-> TRUE]
        ELSE LET w == W[j - 1]
                 t == bmap(w.s, off + j - 1)
                 ok == t.ip.addrs[Cell(off + j - 1)] # 0 /\ j <= good
             IN  IF ~w.go THEN w
                 ELSE [s |-> t, tot |-> IF ok THEN j ELSE w.tot, go |-> ok]
      w == W[n]
  IN  IF off > s.ip.size \/ off + n > NDIRECT + NINDIRECT
      THEN [s |-> s, r |-> -1]
      ELSE [s |-> [w.s EXCEPT !.ip.size = Max({@, off + w.tot})], r |-> w.tot]

readi(ip, off, n) ==
  IF off > ip.size THEN 0 ELSE Min({n, ip.size - off})

Owned(ip) == {ip.addrs[c] : c \in Cells} \ {0}

itrunc_noindirect(s) ==
  [ip |-> [s.ip EXCEPT !.size = 0, !.addrs = FreeInode.addrs],
   used |-> s.used \ {s.ip.addrs[c] : c \in 0..(NDIRECT - 1)}]

itrunc(s) ==
  [ip |-> [s.ip EXCEPT !.size = 0, !.addrs = FreeInode.addrs],
   used |-> s.used \ Owned(s.ip)]

\* A directory keeps its entries in block 0: the entry cannot be added when
\* the name is there or the block cannot be allocated.
dirlink(s, name, inum) ==
  LET t == bmap(s, 0)
      ok == s.ip.ents[name] = 0 /\ t.ip.addrs[0] # 0
  IN  [ok |-> ok, s |-> IF s.ip.ents[name] # 0 THEN s
                        ELSE IF ok THEN [t EXCEPT !.ip.ents[name] = inum] ELSE t]

isdirempty(ip) == \A n \in Names : ip.ents[n] = 0

---------------------------------------------------------------------------
(* mkfs: inodes and blocks are handed out in order, the bitmap is written  *)
(* last from the number of blocks used.                                    *)

mkfs_iappend(d, i, n) ==
  LET size == IF d.ino[i].type = "dir" THEN 0 ELSE d.ino[i].size
      w == writei([ip |-> d.ino[i], used |-> d.used], size, n, n)
  IN  [ino |-> [d.ino EXCEPT ![i] = w.s.ip], used |-> w.s.used]

mkfs_ialloc(d, i, type) ==
  [d EXCEPT !.ino[i] = [FreeInode EXCEPT !.type = type, !.nlink = 1]]

mkfs_file(d, i, file) ==
  LET e == mkfs_ialloc(d, i, "file")
  IN  mkfs_iappend([e EXCEPT !.ino[Root].ents[file.name] = i], i, file.blocks)

mkfs ==
  LET d0 == mkfs_ialloc([ino |-> [i \in Inums |-> FreeInode], used |-> {}],
                        Root, "dir")
      d1 == [mkfs_iappend(d0, Root, 1) EXCEPT
               !.ino[Root].size = 0,
               !.ino[Root].ents["."] = Root, !.ino[Root].ents[".."] = Root]
      M[n \in 0..Len(InitFiles)] ==
        IF n = 0 THEN d1 ELSE mkfs_file(M[n - 1], Root + n, InitFiles[n])
  IN  M[Len(InitFiles)]

---------------------------------------------------------------------------
(* Initial state, and the steps of a call.                                 *)

\* userinit: the first process is at the root.
BootRef == [i \in Inums |-> IF i = Root THEN 1 ELSE 0]
BootCwd == [p \in Procs |-> IF p = Init1 THEN Root ELSE 0]

Init ==
  /\ disk \in {mkfs} \cup Images /\ safe = disk /\ outstanding = 0
  /\ ref = BootRef /\ cwd = BootCwd
  /\ lock = [i \in Inums |-> 0]
  /\ mem = [i \in Inums |-> NoInode]
  /\ ftable = [f \in Files |-> NoFile]
  /\ ofile = [p \in Procs |-> [fd \in Fds |-> 0]]
  /\ k = [p \in Procs |-> <<>>]
  /\ panicked = FALSE /\ lost = {} /\ strayed = FALSE /\ calls = [p \in Procs |-> 0]

Step(do, i, j, a) == [do |-> do, i |-> i, j |-> j, a |-> a, path |-> <<>>]
St(do, i) == Step(do, i, 0, NoArg)
Walk(i, path, j, a) == [Step("namex", i, j, a) EXCEPT !.path = path]
iput_(i) == St("iput", i)
end_op_ == St("end_op", 0)

\* p is in a call and its next step is do.
At(p, do) == ~panicked /\ k[p] # <<>> /\ Head(k[p]).do = do

\* p is between calls.
Idle(p) == ~panicked /\ k[p] = <<>> /\ cwd[p] # 0

\* The arguments of p's call.
Arg(p) == Head(k[p]).a

\* The step is done, steps come next.
Then(p, steps) == k' = [k EXCEPT ![p] = steps \o Tail(@)]

valid(i) == mem[i] # NoInode

\* What ilock makes of the in-core inode.
Inode(i) == IF valid(i) THEN mem[i] ELSE disk.ino[i]

\* acquiresleep succeeds and the inode has a type.
ilock(i) == lock[i] = 0 /\ Inode(i).type # "free"

\* Inodes ups are changed, copied to disk by iupdate, and in core.
iupdate(ups, used) ==
  /\ disk' = [ino |-> ups @@ disk.ino, used |-> used]
  /\ mem' = ups @@ mem

\* Directory d has been unlinked: no path leads to it.
Gone(d) == Inode(d).nlink = 0 \/ d \in lost

Load(i) == mem' = [mem EXCEPT ![i] = Inode(i)] /\ UNCHANGED disk

iget(i) == ref' = [ref EXCEPT ![i] = @ + 1]

\* The step's inode is locked but has no type: ilock panics.
ilock_notype(p) ==
  /\ ~panicked /\ k[p] # <<>>
  /\ LET s == Head(k[p])
     IN  /\ s.do \notin {"iput", "free", "drop", "unlock", "fileclose", "write", "begin_op", "end_op"}
         /\ s.do = "namex" => s.path # <<>>
         /\ s.i # 0 /\ lock[s.i] = 0 /\ Inode(s.i).type = "free"
  /\ panicked' = TRUE
  /\ UNCHANGED <<disk, logv, ref, lock, mem, files, k, lost, strayed>>

---------------------------------------------------------------------------
(* Transactions, and dropping references.                                  *)

begin_op(p) ==
  /\ At(p, "begin_op") /\ Then(p, <<>>)
  /\ outstanding' = outstanding + 1
  /\ UNCHANGED <<disk, safe, ref, lock, mem, files, hist>>

end_op(p) ==
  /\ At(p, "end_op") /\ Then(p, <<>>)
  /\ outstanding' = outstanding - 1
  /\ safe' = IF outstanding = 1 THEN disk ELSE safe
  /\ UNCHANGED <<disk, ref, lock, mem, files, hist>>

\* ref reaches 0: the table entry may be recycled, iget would clear valid.
Unref(i) ==
  /\ ref' = [ref EXCEPT ![i] = @ - 1]
  /\ mem' = IF ref[i] = 1 THEN [mem EXCEPT ![i] = NoInode] ELSE mem

LastRef_named(i) == ref[i] = 1 /\ valid(i)
LastRef_shared(i) == valid(i) /\ mem[i].nlink = 0

\* The inode has no links and no other references.
LastRef(i) == ref[i] = 1 /\ valid(i) /\ mem[i].nlink = 0

iput(p) ==
  /\ At(p, "iput")
  /\ LET i == Head(k[p]).i
         last == LastRef(i)
     IN  \/ /\ ~last
            /\ Unref(i) /\ Then(p, <<>>)
            /\ UNCHANGED <<disk, logv, lock, files, hist>>
         \/ /\ last /\ lock[i] = 0
            /\ lock' = [lock EXCEPT ![i] = p]
            /\ Then(p, <<St("free", i), St("drop", i)>>)
            /\ UNCHANGED <<disk, logv, ref, mem, files, hist>>

free(p) ==
  /\ At(p, "free")
  /\ LET i == Head(k[p]).i
         ip == mem[i]
     IN  /\ disk' = [ino |-> [disk.ino EXCEPT ![i] = FreeInode],
                     used |-> itrunc([ip |-> ip, used |-> disk.used]).used]
         /\ mem' = [mem EXCEPT ![i] = NoInode]
         /\ lock' = [lock EXCEPT ![i] = 0]
         /\ lost' = lost \ {i}
         /\ Then(p, <<>>)
         /\ UNCHANGED <<logv, ref, files, panicked, strayed>>

\* Another process may have got the inode from ialloc since, and may have
\* unlinked it already: then the last reference goes and nobody frees it.
drop(p) ==
  /\ At(p, "drop")
  /\ LET i == Head(k[p]).i
         ip == disk.ino[i]
     IN  /\ Unref(i) /\ Then(p, <<>>)
         /\ lost' = lost \cup (IF ref[i] = 1 /\ ip.type # "free" /\ ip.nlink = 0
                              THEN {i} ELSE {})
  /\ UNCHANGED <<disk, logv, lock, files, panicked, strayed>>

unlock(p) ==
  /\ At(p, "unlock") /\ Then(p, <<>>)
  /\ lock' = [lock EXCEPT ![Head(k[p]).i] = 0]
  /\ UNCHANGED <<disk, logv, ref, mem, files, hist>>

---------------------------------------------------------------------------
(* Path names.  A lookup hands its result, 0 for none, to the step named   *)
(* a.then; create, unlink and the second half of link want the parent.   *)

Parents == {"create", "unlink", "link2"}

\* A call with a path: begin_op, then the lookup starts at / or at the cwd.
Start(p, path) == IF path.abs THEN Root ELSE cwd[p]

Call(p, a, path) ==
  /\ Idle(p) /\ outstanding' = outstanding + 1
  /\ iget(Start(p, path))
  /\ k' = [k EXCEPT ![p] = <<Walk(Start(p, path), path.elems, 0, a)>>]
  /\ UNCHANGED <<disk, safe, lock, mem, files, hist>>

LastElem(path) == IF path.elems = <<>> THEN "." ELSE path.elems[Len(path.elems)]

\* The entry elem of directory i is followed.
Stray(i, elem) == strayed' = (strayed \/ (elem = ".." /\ Inode(i).nlink = 0))

namex(p) ==
  /\ At(p, "namex")
  /\ LET s == Head(k[p])
         i == s.i
         then == s.a.then
         found(r) == Then(p, <<Step(then, r, s.j, s.a)>>)
         missing == Then(p, <<iput_(i), Step(then, 0, s.j, s.a)>>)
         elem == Head(s.path)
         next == Inode(i).ents[elem]
         stop == then \in Parents /\ Len(s.path) = 1
     IN  \/ /\ s.path = <<>>
            /\ IF then \in Parents THEN missing ELSE found(i)
            /\ UNCHANGED <<disk, mem, ref, strayed>>
         \/ /\ s.path # <<>> /\ ilock(i) /\ Load(i)
            /\ \/ /\ Inode(i).type # "dir" \/ (~stop /\ next = 0)
                  /\ missing /\ UNCHANGED <<ref, strayed>>
               \/ /\ Inode(i).type = "dir" /\ stop
                  /\ found(i) /\ UNCHANGED <<ref, strayed>>
               \/ /\ Inode(i).type = "dir" /\ ~stop /\ next # 0
                  /\ iget(next)
                  /\ Then(p, <<iput_(i), Walk(next, Tail(s.path), s.j, s.a)>>)
                  /\ Stray(i, elem)
  /\ UNCHANGED <<logv, lock, files, panicked, lost>>

---------------------------------------------------------------------------
(* open, mkdir and mknod.                                                  *)

sys_open(p) ==
  \E path \in Paths, m \in Modes :
    Call(p, [then |-> IF m.create THEN "create" ELSE "open", kind |-> "file",
             name |-> LastElem(path), mode |-> m], path)

\* sys_mkdir and sys_mknod.
sys_mk(p) ==
  \E path \in Paths, kind \in Kinds :
    Call(p, [then |-> "create", kind |-> kind, name |-> LastElem(path)], path)

FreeFiles == {f \in Files : ftable[f].ref = 0}
FreeFds(p) == {fd \in Fds : ofile[p][fd] = 0}

\* The end of sys_open, from filealloc on, with inode i locked: it unlocks i.
OpenFile(p, i, ip) ==
  LET t == IF Arg(p).mode.trunc /\ ip.type = "file"
           THEN itrunc([ip |-> ip, used |-> disk.used])
           ELSE [ip |-> ip, used |-> disk.used]
      bad == ip.type = "nodev" \/ FreeFiles = {} \/ FreeFds(p) = {}
  IN  /\ lock' = [lock EXCEPT ![i] = 0]
      /\ \/ /\ bad
            /\ iupdate(i :> ip, disk.used)
            /\ Then(p, <<iput_(i), end_op_>>)
            /\ UNCHANGED <<ftable, ofile>>
         \/ /\ ~bad
            /\ ftable' = [ftable EXCEPT ![Min(FreeFiles)] =
                            [ref |-> 1, ip |-> i, off |-> 0, write |-> Arg(p).mode.write]]
            /\ ofile' = [ofile EXCEPT ![p][Min(FreeFds(p))] = Min(FreeFiles)]
            /\ iupdate(i :> t.ip, t.used)
            /\ Then(p, <<end_op_>>)

open(p) ==
  /\ At(p, "open")
  /\ LET i == Head(k[p]).i
         baddir == Inode(i).type = "dir" /\ (Arg(p).mode.write \/ Arg(p).mode.trunc)
     IN  \/ /\ i = 0 /\ Then(p, <<end_op_>>)
            /\ UNCHANGED <<disk, lock, mem, ftable, ofile>>
         \/ /\ i # 0 /\ ilock(i) /\ baddir /\ Load(i)
            /\ Then(p, <<iput_(i), end_op_>>)
            /\ UNCHANGED <<lock, ftable, ofile>>
         \/ i # 0 /\ ilock(i) /\ ~baddir /\ OpenFile(p, i, Inode(i))
  /\ UNCHANGED <<logv, ref, cwd, hist>>

\* The first half of create: the parent is locked and searched; ialloc marks
\* a free inode on disk, the parent stays locked.
create(p) ==
  /\ At(p, "create")
  /\ LET d == Head(k[p]).i
         i == Inode(d).ents[Arg(p).name]
         frees == {n \in Inums : disk.ino[n].type = "free"}
         new == Min(frees)
     IN  \/ /\ d = 0 /\ Then(p, <<end_op_>>)
            /\ UNCHANGED <<disk, ref, lock, mem, strayed>>
         \/ /\ d # 0 /\ ilock(d) /\ i # 0 /\ Load(d)
            /\ iget(i) /\ Stray(d, Arg(p).name)
            /\ Then(p, <<iput_(d), Step("exists", i, 0, Arg(p))>>)
            /\ UNCHANGED lock
         \/ /\ d # 0 /\ ilock(d) /\ i = 0 /\ frees = {} /\ Load(d)
            /\ Then(p, <<iput_(d), end_op_>>)
            /\ UNCHANGED <<ref, lock, strayed>>
         \/ /\ d # 0 /\ ilock(d) /\ i = 0 /\ frees # {}
            /\ disk' = [disk EXCEPT !.ino[new] = [FreeInode EXCEPT !.type = Arg(p).kind]]
            /\ mem' = [mem EXCEPT ![d] = Inode(d)]
            /\ iget(new)
            /\ lock' = [lock EXCEPT ![d] = p]
            /\ Then(p, <<Step("fill", new, d, Arg(p))>>)
            /\ UNCHANGED strayed
  /\ UNCHANGED <<logv, files, panicked, lost>>

\* create found the name: only open may use it, and only a file or a device.
exists(p) ==
  /\ At(p, "exists")
  /\ LET i == Head(k[p]).i
         ok == Arg(p).kind = "file" /\ Inode(i).type # "dir"
     IN  /\ ilock(i)
         /\ \/ ok /\ OpenFile(p, i, Inode(i))
            \/ /\ ~ok /\ Load(i)
               /\ Then(p, <<iput_(i), end_op_>>)
               /\ UNCHANGED <<lock, ftable, ofile>>
  /\ UNCHANGED <<logv, ref, cwd, hist>>

Failed_kept(ip) == ip
Failed(ip) == [ip EXCEPT !.nlink = 0]

\* The second half of create, with the parent d locked: the links are
\* written, or undone when a block is missing.
fill(p) ==
  /\ At(p, "fill")
  /\ LET i == Head(k[p]).i
         d == Head(k[p]).j
         dir == Arg(p).kind = "dir"
         s0 == [ip |-> [Inode(i) EXCEPT !.nlink = 1], used |-> disk.used]
         s1 == dirlink(s0, ".", i)
         s2 == dirlink(s1.s, "..", d)
         s == IF dir THEN s2.s ELSE s0
         t == dirlink([ip |-> mem[d], used |-> s.used], Arg(p).name, i)
         ok == (dir => s1.ok /\ s2.ok) /\ t.ok
     IN  /\ ilock(i)
         /\ \/ /\ ok
               /\ iupdate((i :> s.ip) @@
                          (d :> [t.s.ip EXCEPT !.nlink = @ + (IF dir THEN 1 ELSE 0)]),
                          t.s.used)
               /\ lock' = [lock EXCEPT ![i] = p, ![d] = 0]
               /\ Then(p, <<iput_(d), Step("made", i, 0, Arg(p))>>)
               /\ lost' = lost \cup (IF Gone(d) THEN {i, d} ELSE {})
            \/ /\ ~ok
               /\ iupdate(i :> Failed(s.ip), s.used)
               /\ Then(p, <<iput_(i), St("unlock", d), iput_(d), end_op_>>)
               /\ UNCHANGED <<lock, lost>>
  /\ UNCHANGED <<logv, ref, files, panicked, strayed>>

\* create returned the new inode, locked.
made(p) ==
  /\ At(p, "made")
  /\ LET i == Head(k[p]).i
     IN  \/ Arg(p).kind = "file" /\ OpenFile(p, i, mem[i])
         \/ /\ Arg(p).kind # "file"
            /\ lock' = [lock EXCEPT ![i] = 0]
            /\ Then(p, <<iput_(i), end_op_>>)
            /\ UNCHANGED <<disk, mem, ftable, ofile>>
  /\ UNCHANGED <<logv, ref, cwd, hist>>

---------------------------------------------------------------------------
(* link, unlink and chdir.                                                 *)

sys_link(p) ==
  \E old \in Paths, new \in Paths :
    Call(p, [then |-> "link", name |-> LastElem(new), new |-> new], old)

\* The old inode gets its link first, then the parent of new is looked up.
link(p) ==
  /\ At(p, "link")
  /\ LET i == Head(k[p]).i
         new == Arg(p).new
     IN  \/ /\ i = 0 /\ Then(p, <<end_op_>>)
            /\ UNCHANGED <<disk, mem, ref>>
         \/ /\ i # 0 /\ ilock(i) /\ Inode(i).type = "dir" /\ Load(i)
            /\ Then(p, <<iput_(i), end_op_>>)
            /\ UNCHANGED ref
         \/ /\ i # 0 /\ ilock(i) /\ Inode(i).type # "dir"
            /\ iupdate(i :> [Inode(i) EXCEPT !.nlink = @ + 1], disk.used)
            /\ iget(Start(p, new))
            /\ Then(p, <<Walk(Start(p, new), new.elems, i,
                              [then |-> "link2", name |-> Arg(p).name])>>)
  /\ UNCHANGED <<logv, lock, files, hist>>

link2(p) ==
  /\ At(p, "link2")
  /\ LET d == Head(k[p]).i
         i == Head(k[p]).j
         t == dirlink([ip |-> Inode(d), used |-> disk.used], Arg(p).name, i)
     IN  \/ /\ d = 0 /\ Then(p, <<St("link_bad", i)>>)
            /\ UNCHANGED <<disk, mem, lost>>
         \/ /\ d # 0 /\ ilock(d)
            /\ iupdate(d :> t.s.ip, t.s.used)
            /\ Then(p, IF t.ok THEN <<iput_(d), iput_(i), end_op_>>
                       ELSE <<iput_(d), St("link_bad", i)>>)
            /\ lost' = lost \cup (IF t.ok /\ Gone(d) THEN {i} ELSE {})
  /\ UNCHANGED <<logv, lock, ref, files, panicked, strayed>>

link_bad(p) ==
  /\ At(p, "link_bad")
  /\ LET i == Head(k[p]).i
     IN  /\ ilock(i)
         /\ iupdate(i :> [Inode(i) EXCEPT !.nlink = @ - 1], disk.used)
         /\ Then(p, <<iput_(i), end_op_>>)
  /\ UNCHANGED <<logv, lock, ref, files, hist>>

sys_unlink(p) ==
  \E path \in Paths : Call(p, [then |-> "unlink", name |-> LastElem(path)], path)

CannotUnlink_none(name) == FALSE
CannotUnlink(name) == name \in Dots

unlink(p) ==
  /\ At(p, "unlink")
  /\ LET d == Head(k[p]).i
         i == Inode(d).ents[Arg(p).name]
         bad == CannotUnlink(Arg(p).name) \/ i = 0
     IN  \/ /\ d = 0 /\ Then(p, <<end_op_>>)
            /\ UNCHANGED <<disk, mem, ref, lock>>
         \/ /\ d # 0 /\ ilock(d) /\ bad /\ Load(d)
            /\ Then(p, <<iput_(d), end_op_>>)
            /\ UNCHANGED <<ref, lock>>
         \/ /\ d # 0 /\ ilock(d) /\ ~bad /\ Load(d)
            /\ iget(i)
            /\ lock' = [lock EXCEPT ![d] = p]
            /\ Then(p, <<Step("unlink2", i, d, Arg(p))>>)
  /\ UNCHANGED <<logv, files, hist>>

\* Parent d is locked, now the inode: the entry goes, and with it the link
\* of a directory's ".." to its parent.
unlink2(p) ==
  /\ At(p, "unlink2")
  /\ LET i == Head(k[p]).i
         d == Head(k[p]).j
         ip == Inode(i)
         dir == ip.type = "dir"
         full == dir /\ ~isdirempty(ip)
         dp == [mem[d] EXCEPT !.ents[Arg(p).name] = 0,
                              !.nlink = @ - (IF dir THEN 1 ELSE 0)]
     IN  /\ ilock(i)
         /\ \/ /\ ip.nlink >= 1 /\ full /\ Load(i)
               /\ Then(p, <<iput_(i), St("unlock", d), iput_(d), end_op_>>)
               /\ UNCHANGED <<logv, ref, lock, files, hist>>
            \/ /\ ip.nlink >= 1 /\ ~full
               /\ iupdate((d :> dp) @@ (i :> ip), disk.used)
               /\ lock' = [lock EXCEPT ![d] = 0, ![i] = p]
               /\ Then(p, <<iput_(d), St("unlink3", i)>>)
               /\ UNCHANGED <<logv, ref, files, hist>>

unlink3(p) ==
  /\ At(p, "unlink3")
  /\ LET i == Head(k[p]).i
     IN  /\ iupdate(i :> [mem[i] EXCEPT !.nlink = @ - 1], disk.used)
         /\ lock' = [lock EXCEPT ![i] = 0]
         /\ Then(p, <<iput_(i), end_op_>>)
  /\ UNCHANGED <<logv, ref, files, hist>>

sys_chdir(p) == \E path \in Paths : Call(p, [then |-> "chdir"], path)

chdir(p) ==
  /\ At(p, "chdir")
  /\ LET i == Head(k[p]).i
     IN  \/ /\ i = 0 /\ Then(p, <<end_op_>>)
            /\ UNCHANGED <<disk, mem, cwd>>
         \/ /\ i # 0 /\ ilock(i) /\ Load(i)
            /\ \/ /\ Inode(i).type # "dir"
                  /\ Then(p, <<iput_(i), end_op_>>)
                  /\ UNCHANGED cwd
               \/ /\ Inode(i).type = "dir"
                  /\ cwd' = [cwd EXCEPT ![p] = i]
                  /\ Then(p, <<iput_(cwd[p]), end_op_>>)
  /\ UNCHANGED <<logv, lock, ref, ftable, ofile, hist>>

---------------------------------------------------------------------------
(* Open files.                                                             *)

sys_close(p) ==
  \E fd \in Fds :
    /\ Idle(p) /\ ofile[p][fd] # 0
    /\ k' = [k EXCEPT ![p] = <<St("fileclose", ofile[p][fd])>>]
    /\ ofile' = [ofile EXCEPT ![p][fd] = 0]
    /\ UNCHANGED <<disk, logv, ref, lock, mem, ftable, cwd, hist>>

\* The slot is free before the inode is put.
fileclose(p) ==
  /\ At(p, "fileclose")
  /\ LET f == Head(k[p]).i
     IN  \/ /\ ftable[f].ref > 1 /\ Then(p, <<>>)
            /\ ftable' = [ftable EXCEPT ![f].ref = @ - 1]
         \/ /\ ftable[f].ref = 1
            /\ ftable' = [ftable EXCEPT ![f] = NoFile]
            /\ Then(p, <<St("begin_op", 0), iput_(ftable[f].ip), end_op_>>)
  /\ UNCHANGED <<disk, logv, ref, lock, mem, ofile, cwd, hist>>

sys_dup_uncounted(p) ==
  \E fd \in Fds :
    /\ Idle(p) /\ ofile[p][fd] # 0 /\ FreeFds(p) # {}
    /\ ofile' = [ofile EXCEPT ![p][Min(FreeFds(p))] = ofile[p][fd]]
    /\ UNCHANGED <<disk, logv, ref, lock, mem, ftable, cwd, k, hist>>

sys_dup(p) ==
  \E fd \in Fds :
    /\ Idle(p) /\ ofile[p][fd] # 0 /\ FreeFds(p) # {}
    /\ ofile' = [ofile EXCEPT ![p][Min(FreeFds(p))] = ofile[p][fd]]
    /\ ftable' = [ftable EXCEPT ![ofile[p][fd]].ref = @ + 1]
    /\ UNCHANGED <<disk, logv, ref, lock, mem, cwd, k, hist>>

\* f->type is FD_DEVICE: reads and writes go to the driver (Console).
Device(f) == disk.ino[f.ip].type = "dev"

\* The copy to user memory may fail, then the offset stays.
sys_read(p) ==
  \E fd \in Fds, n \in Sizes :
    /\ Idle(p) /\ ofile[p][fd] # 0
    /\ LET f == ftable[ofile[p][fd]]
       IN  /\ ~Device(f) /\ ilock(f.ip) /\ Load(f.ip)
           /\ \E got \in {0, readi(Inode(f.ip), f.off, n)} :
                ftable' = [ftable EXCEPT ![ofile[p][fd]].off = @ + got]
    /\ UNCHANGED <<logv, ref, lock, ofile, cwd, k, hist>>

sys_write(p) ==
  \E fd \in Fds, n \in Sizes :
    /\ Idle(p) /\ ofile[p][fd] # 0
    /\ ftable[ofile[p][fd]].write /\ ~Device(ftable[ofile[p][fd]])
    /\ k' = [k EXCEPT ![p] = <<Step("write", ofile[p][fd], n, NoArg)>>]
    /\ UNCHANGED <<disk, logv, ref, lock, mem, files, hist>>

\* One transaction of filewrite; the rest of the n blocks comes in the next.
filewrite(p) ==
  /\ At(p, "write")
  /\ LET f == Head(k[p]).i
         i == ftable[f].ip
         n == Head(k[p]).j
         n1 == Min({n, MAXCHUNK})
     IN  /\ ilock(i)
         /\ \E good \in 0..n1 :
              LET w == writei([ip |-> Inode(i), used |-> disk.used], ftable[f].off, n1, good)
              IN  /\ iupdate(i :> w.s.ip, w.s.used)
                  /\ ftable' = [ftable EXCEPT ![f].off = @ + Max({w.r, 0})]
                  /\ Then(p, IF w.r = n1 /\ n > n1 THEN <<Step("write", f, n - n1, NoArg)>> ELSE <<>>)
         /\ safe' = IF outstanding = 0 THEN disk' ELSE safe
  /\ UNCHANGED <<outstanding, ref, lock, ofile, cwd, hist>>

---------------------------------------------------------------------------
(* Processes, crashes, and the specification.                              *)

Dups(p, f) == Cardinality({fd \in Fds : ofile[p][fd] = f})

\* fork's share of the file system state: the child q gets p's files and cwd.
fork(p, q) ==
  /\ Idle(p) /\ cwd[q] = 0 /\ k[q] = <<>>
  /\ ofile' = [ofile EXCEPT ![q] = ofile[p]]
  /\ ftable' = [f \in Files |-> [ftable[f] EXCEPT !.ref = @ + Dups(p, f)]]
  /\ cwd' = [cwd EXCEPT ![q] = cwd[p]]
  /\ iget(cwd[p])
  /\ UNCHANGED <<disk, logv, lock, mem, k, hist>>

\* exit closes the files one by one, then puts the cwd.
exit(p) ==
  LET open_(fd) == IF ofile[p][fd] = 0 THEN <<>> ELSE <<St("fileclose", ofile[p][fd])>>
      C[fd \in 0..NOFILE] == IF fd = 0 THEN <<>> ELSE C[fd - 1] \o open_(fd)
  IN  /\ Idle(p) /\ p # Init1
      /\ k' = [k EXCEPT ![p] = C[NOFILE] \o <<St("begin_op", 0), iput_(cwd[p]), end_op_>>]
      /\ ofile' = [ofile EXCEPT ![p] = [fd \in Fds |-> 0]]
      /\ cwd' = [cwd EXCEPT ![p] = 0]
      /\ UNCHANGED <<disk, logv, ref, lock, mem, ftable, hist>>

\* Power fails; the log brings back the last committed image.
crash ==
  /\ disk' = safe /\ safe' = safe /\ outstanding' = 0
  /\ ref' = BootRef /\ cwd' = BootCwd
  /\ lock' = [i \in Inums |-> 0]
  /\ mem' = [i \in Inums |-> NoInode]
  /\ ftable' = [f \in Files |-> NoFile]
  /\ ofile' = [p \in Procs |-> [fd \in Fds |-> 0]]
  /\ k' = [p \in Procs |-> <<>>] 
  /\ panicked' = FALSE /\ strayed' = FALSE
  /\ lost' = {i \in Inums : /\ safe.ino[i].type # "free"
                            /\ i \in lost \/ safe.ino[i].nlink = 0}

step(p) ==
  \/ ilock_notype(p) \/ begin_op(p) \/ end_op(p) \/ iput(p) \/ free(p) \/ drop(p)
  \/ unlock(p) \/ namex(p) \/ open(p) \/ create(p) \/ exists(p) \/ fill(p) \/ made(p)
  \/ link(p) \/ link2(p) \/ link_bad(p) \/ unlink(p) \/ unlink2(p) \/ unlink3(p)
  \/ chdir(p) \/ fileclose(p) \/ filewrite(p)

call(p) ==
  \/ sys_open(p) \/ sys_mk(p) \/ sys_link(p) \/ sys_unlink(p) \/ sys_chdir(p)
  \/ sys_close(p) \/ sys_dup(p) \/ sys_read(p) \/ sys_write(p) \/ exit(p)

Next ==
  \/ /\ crash \/ (\E p \in Procs : step(p)) \/ (\E p, q \in Procs : fork(p, q))
     /\ UNCHANGED calls
  \/ \E p \in Procs :
       calls[p] < MaxCalls[p] /\ calls' = [calls EXCEPT ![p] = @ + 1] /\ call(p)

Spec == Init /\ [][Next]_vars

---------------------------------------------------------------------------
(* Properties.  img is an image of the disk.                               *)

\* The names of inode i: directory entries other than the dots.
NamesOf(img, i) == {<<d, n>> \in Inums \X Names : img.ino[d].ents[n] = i}

\* What i's link count should be: its names, the ".." of every directory that
\* has a name itself, and one for the root.
Links(img, i) ==
  Cardinality(NamesOf(img, i)) + (IF i = Root THEN 1 ELSE 0)
  + Cardinality({c \in Inums \ {Root} : /\ img.ino[c].ents[".."] = i
                                        /\ NamesOf(img, c) # {}})

\* Every name leads to an allocated inode that counts at least the links it
\* has, at every step of every call, on the disk and in what a crash leaves
\* (link counts first and writes the entry later, unlink the reverse).
NamesBacked ==
  \A img \in {disk, safe}, i \in Inums :
    /\ NamesOf(img, i) # {} => img.ino[i].type # "free"
    /\ img.ino[i].nlink >= Links(img, i)

\* The bitmap marks exactly the blocks the inodes hold, and no block is held
\* twice: not by two inodes, nor in two places of one (balloc, bmap, itrunc,
\* the undoing of a failed create, a write cut short).
BlocksAccounted ==
  \A img \in {disk, safe} :
    LET held == {<<i, c>> \in Inums \X Cells : img.ino[i].addrs[c] # 0}
    IN  /\ {img.ino[h[1]].addrs[h[2]] : h \in held} = img.used
        /\ Cardinality(held) = Cardinality(img.used)

\* How often the pending steps of p hold a reference to inode i.
Holds(p, i) ==
  Cardinality({n \in 1..Len(k[p]) :
                 /\ k[p][n].do \notin {"fileclose", "write", "unlock", "free"}
                 /\ k[p][n].i = i})
  + Cardinality({n \in 1..Len(k[p]) :
                   k[p][n].do # "write" /\ k[p][n].j = i})

\* An inode's reference count is the number of pointers to it in current
\* directories, in open files and in calls in flight; a file's, the number of
\* descriptors.  A missing iput on some error path of sysfile.c breaks it.
RefsCounted ==
  /\ \A i \in Inums :
       ref[i] = Cardinality({p \in Procs : cwd[p] = i})
                + Cardinality({f \in Files : ftable[f].ref > 0 /\ ftable[f].ip = i})
                + FoldSet(LAMBDA p, n : n + Holds(p, i), 0, Procs)
  /\ \A f \in Files :
       ftable[f].ref =
         FoldSet(LAMBDA p, n : n + Dups(p, f)
                   + Cardinality({m \in 1..Len(k[p]) : k[p][m] = St("fileclose", f)}),
                 0, Procs)

\* Between calls an allocated inode is in use or has a name, and its link
\* count is exact: nothing is left over by unlink of an open file, by a
\* failed create or link, or by a close racing an unlink.  The three ways
\* the code does lose inodes are in lost.
NoOrphan ==
  (\A p \in Procs : k[p] = <<>>) =>
    \A i \in Inums \ lost :
      disk.ino[i].type # "free" =>
        /\ disk.ino[i].nlink = Links(disk, i)
        /\ ref[i] > 0 \/ Links(disk, i) > 0

\* No call panics: iput finds the lock of an unreferenced inode free and the
\* blocks it frees in use, unlink finds a link to take away, and ilock finds a
\* type, save after ".." was followed out of a directory already removed.
NoPanic ==
  /\ panicked => strayed
  /\ \A p \in Procs :
       LET i == Head(k[p]).i
       IN  /\ At(p, "iput") => ~(LastRef(i) /\ lock[i] # 0)
           /\ At(p, "free") => Owned(mem[i]) \subseteq disk.used
           /\ At(p, "unlink2") /\ Inode(i).type # "free" => Inode(i).nlink >= 1

\* Calls never block each other for good: while some inode is locked, one of
\* the calls in flight can go on (create and unlink lock a directory and then
\* an inode in it, everything else locks one inode at a time).
NoDeadlock ==
  ~panicked /\ (\E i \in Inums : lock[i] # 0) => \E p \in Procs : ENABLED step(p)

\* "If that was the last reference and the inode has no links to it, free the
\* inode (and its content) on disk" (the comment on iput).
IputFrees ==
  [][\A p \in Procs, i \in Inums :
       (iput(p) \/ drop(p)) /\ ref[i] = 1 /\ ref'[i] = 0 =>
         disk.ino[i].type = "free" \/ disk.ino[i].nlink > 0]_vars

===========================================================================
