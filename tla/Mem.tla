------------------------------- MODULE Mem --------------------------------
(***************************************************************************)
(* Memory: the page allocator (kernel/kalloc.c), page tables and address   *)
(* spaces (kernel/vm.c), and the calls that build, grow, copy and destroy  *)
(* them (kernel/exec.c, the memory half of kernel/proc.c).                 *)
(*                                                                         *)
(* Pages are counted, not named: freelist is the length of the list.  An   *)
(* address space is the set of its page-table pages, [tables], with what   *)
(* each virtual page maps to, [map]: its permissions, {} when PTE_V is     *)
(* clear.  A size is in units, PGSIZE of them to a page.                   *)
(*                                                                         *)
(* The operators work on [free, tables, map, sz, ok, panic]; a local one   *)
(* that starts with a test of ok is what follows an allocation.  The free  *)
(* list is all that calls of different processes share, and what it holds  *)
(* decides at which allocation a call fails; so one action is one call.    *)
(***************************************************************************)
EXTENDS Integers, Sequences, FiniteSets, FiniteSetsExt, TLC

CONSTANTS Procs, Init1,
          NPAGES,      \* pages of memory after boot
          T,           \* entries of a page-table page; it has three levels
          PGSIZE,      \* units in a page
          USERSTACK,   \* pages of a user stack
          Progs,       \* programs: [elf, segs, args, argc], segs a sequence of
                       \* [va, memsz, filesz, perm, bad]
          Sbrks        \* the increments sbrk is called with

VARIABLES freelist, as, sz, tf, st,
          ret,         \* what the last call returned: "ok" or "fail"
          leaked,      \* history: pages spawn has lost
          panicked

vars == <<freelist, as, sz, tf, st, ret, leaked, panicked>>

Pages == 0..(T * T * T - 1)
TRAMPOLINE == T * T * T - 1
TRAPFRAME == TRAMPOLINE - 1
PGROUNDUP(n) == ((n + PGSIZE - 1) \div PGSIZE) * PGSIZE
PGROUNDDOWN(n) == (n \div PGSIZE) * PGSIZE

NoSpace == [tables |-> {}, map |-> [v \in Pages |-> {}]]

\* Address space a, of the given size, with f pages free.
Space(a, f, size) ==
  [free |-> f, tables |-> a.tables, map |-> a.map, sz |-> size,
   ok |-> TRUE, panic |-> FALSE]

Fail(x) == [x EXCEPT !.ok = FALSE]

---------------------------------------------------------------------------
(* kalloc.c and the page-table half of vm.c.                               *)

kfree(x) == [x EXCEPT !.free = @ + 1]
kalloc(x) == IF x.free = 0 THEN Fail(x) ELSE [x EXCEPT !.free = @ - 1]

\* The table pages on the way to page v, allocated if alloc.  A walk that
\* fails at the second one keeps the first.
walk(x, v, alloc) ==
  LET enter(y, t) == IF ~y.ok THEN y ELSE [y EXCEPT !.tables = @ \cup {t}]
      step(y, t) ==
        IF ~y.ok \/ t \in y.tables THEN y
        ELSE IF ~alloc THEN Fail(y) ELSE enter(kalloc(y), t)
  IN  step(step([x EXCEPT !.ok = TRUE], <<1, v \div (T * T)>>), <<0, v \div T>>)

mappages(x, v, perm) ==
  LET set(y) == IF ~y.ok THEN y
                ELSE [y EXCEPT !.panic = @ \/ y.map[v] # {}, !.map[v] = perm]
  IN  set(walk(x, v, TRUE))

\* n pages from page v on lose their mapping, and their memory if do_free.
uvmunmap(x, v, n, do_free) ==
  LET unmap(y, a, bad) ==
        [y EXCEPT !.panic = @ \/ bad, !.map[a] = {},
                  !.free = @ + IF do_free /\ ~bad THEN 1 ELSE 0]
      page(y, a) == unmap(y, a, ~walk(y, a, FALSE).ok \/ y.map[a] = {})
      U[j \in 0..n] == IF j = 0 THEN x ELSE page(U[j - 1], v + j - 1)
  IN  U[n]

uvmcreate(f) ==
  LET root(x) == IF ~x.ok THEN x ELSE [x EXCEPT !.tables = {<<2, 0>>}]
  IN  root(kalloc(Space(NoSpace, f, 0)))

uvmdealloc_down(x, oldsz, newsz) ==
  IF newsz >= oldsz THEN x
  ELSE uvmunmap(x, PGROUNDDOWN(newsz) \div PGSIZE,
                (PGROUNDUP(oldsz) - PGROUNDDOWN(newsz)) \div PGSIZE, TRUE)

uvmdealloc(x, oldsz, newsz) ==
  IF newsz >= oldsz THEN x
  ELSE uvmunmap(x, PGROUNDUP(newsz) \div PGSIZE,
                (PGROUNDUP(oldsz) - PGROUNDUP(newsz)) \div PGSIZE, TRUE)

uvmalloc_keep(x, oldsz, newsz, xperm) ==
  LET first == PGROUNDUP(oldsz) \div PGSIZE
      n == (PGROUNDUP(newsz) \div PGSIZE) - first
      mem(m, a) == IF ~m.ok THEN m ELSE mappages(m, a, {"R", "U"} \cup xperm)
      page(y, a) == IF ~y.ok THEN y ELSE mem(kalloc(y), a)
      A[j \in 0..n] == IF j = 0 THEN [x EXCEPT !.ok = TRUE] ELSE page(A[j - 1], first + j - 1)
  IN  IF newsz < oldsz \/ n <= 0 THEN [x EXCEPT !.ok = TRUE] ELSE A[n]

\* The pages from oldsz up to newsz; all or none of them.  newsz < oldsz is
\* no error, the caller gets oldsz back.
uvmalloc(x, oldsz, newsz, xperm) ==
  LET first == PGROUNDUP(oldsz) \div PGSIZE
      n == (PGROUNDUP(newsz) \div PGSIZE) - first
      undo(y, a) == Fail(uvmdealloc(y, a * PGSIZE, first * PGSIZE))
      mapped(z, a) == IF ~z.ok THEN undo(kfree(z), a) ELSE z
      mem(m, a) == IF ~m.ok THEN undo(m, a)
                   ELSE mapped(mappages(m, a, {"R", "U"} \cup xperm), a)
      page(y, a) == IF ~y.ok THEN y ELSE mem(kalloc(y), a)
      A[j \in 0..n] == IF j = 0 THEN [x EXCEPT !.ok = TRUE] ELSE page(A[j - 1], first + j - 1)
  IN  IF newsz < oldsz \/ n <= 0 THEN [x EXCEPT !.ok = TRUE] ELSE A[n]

freewalk_root(x) == [x EXCEPT !.free = @ + 1, !.tables = {}]

freewalk(x) ==
  [x EXCEPT !.panic = @ \/ \E v \in Pages : x.map[v] # {},
            !.free = @ + Cardinality(x.tables), !.tables = {}]

uvmfree(x, size) == freewalk(uvmunmap(x, 0, PGROUNDUP(size) \div PGSIZE, TRUE))

\* Every page of the parent's map below size gets a copy in x.
uvmcopy(x, map, size) ==
  LET n == PGROUNDUP(size) \div PGSIZE
      err(y, i) == Fail(uvmunmap(y, 0, i, TRUE))
      mapped(z, i) == IF ~z.ok THEN err(kfree(z), i) ELSE z
      mem(m, i) == IF ~m.ok THEN err(m, i) ELSE mapped(mappages(m, i, map[i]), i)
      page(y, i) == IF ~y.ok THEN y
                    ELSE mem(kalloc([y EXCEPT !.panic = @ \/ map[i] = {}]), i)
      C[j \in 0..n] == IF j = 0 THEN [x EXCEPT !.ok = TRUE] ELSE page(C[j - 1], j - 1)
  IN  C[n]

uvmclear(x, v) ==
  [x EXCEPT !.panic = @ \/ ~walk(x, v, FALSE).ok, !.map[v] = @ \ {"U"}]

---------------------------------------------------------------------------
(* Copies between the kernel and user memory, page by page.  A copy tells  *)
(* which units it moved before it ended.                                   *)

Access(map, v, perm) == v \in Pages /\ map[v] # {} /\ perm \subseteq map[v]

CopyLoop_whole(map, va, len, perm) ==
  LET C[a \in va..(va + len + PGSIZE)] ==
        IF a >= va + len THEN [ok |-> TRUE, moved |-> {}]
        ELSE LET va0 == PGROUNDDOWN(a)
                 n == Min({PGSIZE, va + len - a})
                 rest == C[a + n]
             IN  IF ~Access(map, va0 \div PGSIZE, perm) THEN [ok |-> FALSE, moved |-> {}]
                 ELSE [ok |-> rest.ok, moved |-> rest.moved \cup a..(a + n - 1)]
  IN  C[va]

CopyLoop(map, va, len, perm) ==
  LET C[a \in va..(va + len)] ==
        IF a = va + len THEN [ok |-> TRUE, moved |-> {}]
        ELSE LET va0 == PGROUNDDOWN(a)
                 n == Min({PGSIZE - (a - va0), va + len - a})
                 rest == C[a + n]
             IN  IF ~Access(map, va0 \div PGSIZE, perm) THEN [ok |-> FALSE, moved |-> {}]
                 ELSE [ok |-> rest.ok, moved |-> rest.moved \cup a..(a + n - 1)]
  IN  C[va]

copyout(map, dstva, len) == CopyLoop(map, dstva, len, {"U", "W"})
copyin(map, srcva, len) == CopyLoop(map, srcva, len, {"U"})

\* The string at srcva ends at the first unit in nuls.
copyinstr(map, srcva, max, nuls) ==
  LET S[a \in srcva..(srcva + max)] ==
        IF a = srcva + max THEN -1
        ELSE LET va0 == PGROUNDDOWN(a)
                 n == Min({PGSIZE - (a - va0), srcva + max - a})
                 ends == nuls \cap a..(a + n - 1)
             IN  IF ~Access(map, va0 \div PGSIZE, {"U"}) THEN -1
                 ELSE IF ends # {} THEN Min(ends) - srcva
                 ELSE S[a + n]
  IN  S[srcva]

---------------------------------------------------------------------------
(* The page table of a process, and the programs exec and spawn load.      *)

proc_freepagetable(x, size) ==
  uvmfree(uvmunmap(uvmunmap(x, TRAMPOLINE, 1, FALSE), TRAPFRAME, 1, FALSE), size)

proc_pagetable(f) ==
  LET frame(b) == IF b.ok THEN b ELSE Fail(uvmfree(uvmunmap(b, TRAMPOLINE, 1, FALSE), 0))
      code(a) == IF a.ok THEN frame(mappages(a, TRAPFRAME, {"R", "W"}))
                 ELSE Fail(uvmfree(a, 0))
      table(c) == IF c.ok THEN code(mappages(c, TRAMPOLINE, {"R", "X"})) ELSE c
  IN  table(uvmcreate(f))

\* A trapframe page and a page table, or neither.
allocproc(f) ==
  LET table(x) == IF x.ok THEN x ELSE Fail(kfree(x))
  IN  IF f = 0 THEN Fail(Space(NoSpace, f, 0)) ELSE table(proc_pagetable(f - 1))

\* The pages loadseg fills are there.
loadseg(x, s) ==
  [x EXCEPT !.panic = @ \/ \E i \in 0..(s.filesz - 1) :
                              ~Access(x.map, (s.va + i) \div PGSIZE, {"U"})]

\* bad is "header" when the checks on the program header fail, "short" when
\* the file ends within the segment.
LoadSegs(x, segs) ==
  LET load(y, s, size) ==
        IF ~y.ok \/ size = 0 THEN Fail(y)
        ELSE IF s.bad = "short" THEN Fail(loadseg([y EXCEPT !.sz = size], s))
        ELSE loadseg([y EXCEPT !.sz = size], s)
      seg(w, s) ==
        IF ~w.ok \/ s.bad = "header" THEN Fail(w)
        ELSE load(uvmalloc(w, w.sz, s.va + s.memsz, s.perm), s, Max({w.sz, s.va + s.memsz}))
      L[n \in 0..Len(segs)] == IF n = 0 THEN x ELSE seg(L[n - 1], segs[n])
  IN  L[Len(segs)]

\* The user image: segments, guard page, stack, arguments.  When it fails, x
\* still holds what was allocated for it, below x.sz.
LoadImage(x, prog, args) ==
  LET size == (USERSTACK + 1) * PGSIZE
      push(c) == IF args <= USERSTACK * PGSIZE /\ copyout(c.map, c.sz - args, args).ok
                 THEN c ELSE Fail(c)
      guard(b, top) == IF ~b.ok THEN b
                       ELSE push(uvmclear([b EXCEPT !.sz = top + size], top \div PGSIZE))
      stack(a, top) == guard([uvmalloc(a, top, top + size, {"W"}) EXCEPT !.sz = top], top)
      segs(a) == IF ~a.ok THEN a ELSE stack(a, PGROUNDUP(a.sz))
  IN  segs(LoadSegs(x, prog.segs))

---------------------------------------------------------------------------
(* The system calls.                                                       *)

SpaceOf(p) == Space(as[p], freelist, sz[p])
AsOf(x) == [tables |-> x.tables, map |-> x.map]

\* userinit: the first process has one page.
FirstSpace ==
  LET x == allocproc(NPAGES)
  IN  mappages(kalloc(x), 0, {"R", "W", "X", "U"})

Init ==
  /\ as = [p \in Procs |-> IF p = Init1 THEN AsOf(FirstSpace) ELSE NoSpace]
  /\ freelist = FirstSpace.free
  /\ sz = [p \in Procs |-> IF p = Init1 THEN PGSIZE ELSE 0]
  /\ tf = [p \in Procs |-> p = Init1]
  /\ st = [p \in Procs |-> IF p = Init1 THEN "used" ELSE "unused"]
  /\ ret = "ok" /\ leaked = 0 /\ panicked = FALSE

\* The call ends with memory x, and p's address space and size become new.
Become(p, x, new, size) ==
  /\ freelist' = x.free
  /\ as' = [as EXCEPT ![p] = new]
  /\ sz' = [sz EXCEPT ![p] = size]
  /\ panicked' = (panicked \/ x.panic)

Runs(p) == st[p] = "used"

\* growproc.  A size below zero wraps around, and uvmdealloc then does nothing.
sbrk(p) ==
  \E n \in Sbrks :
    LET old == sz[p]
        x == IF n >= 0 THEN uvmalloc(SpaceOf(p), old, old + n, {"W"})
             ELSE IF old + n >= 0 THEN uvmdealloc(SpaceOf(p), old, old + n)
             ELSE SpaceOf(p)
    IN  /\ Runs(p)
        /\ Become(p, x, AsOf(x), IF x.ok /\ old + n >= 0 THEN old + n ELSE old)
        /\ ret' = IF x.ok THEN "ok" ELSE "fail"
        /\ UNCHANGED <<tf, st, leaked>>

\* q, an unused slot, becomes a process; or nothing is left of the attempt.
Made(q, x, size) ==
  /\ Become(q, x, AsOf(x), size)
  /\ tf' = [tf EXCEPT ![q] = TRUE] /\ st' = [st EXCEPT ![q] = "used"]
  /\ ret' = "ok"

NotMade(q, x) ==
  /\ Become(q, x, NoSpace, 0)
  /\ ret' = "fail" /\ UNCHANGED <<tf, st>>

fork(p, q) ==
  LET x == allocproc(freelist)
      y == uvmcopy(x, as[p].map, sz[p])
  IN  /\ Runs(p) /\ st[q] = "unused" /\ UNCHANGED leaked
      /\ \/ ~x.ok /\ NotMade(q, x)
         \/ x.ok /\ ~y.ok /\ NotMade(q, kfree(proc_freepagetable(y, 0)))
         \/ x.ok /\ y.ok /\ Made(q, y, sz[p])

\* p's memory after exec with f pages free: the new image, or still the old
\* one once what was allocated is freed.
exec(p, prog, f) ==
  LET gone(x, size) == proc_freepagetable(x, size)
      kept(x) == [Space(as[p], x.free, sz[p]) EXCEPT !.panic = x.panic, !.ok = FALSE]
      swap(y, old) == [y EXCEPT !.free = old.free, !.panic = @ \/ old.panic]
      bad(y) == kept(gone(y, y.sz))
      commit(y) == swap(y, gone(Space(as[p], y.free, sz[p]), sz[p]))
      image(y) == IF y.ok THEN commit(y) ELSE bad(y)
      table(x) == IF x.ok THEN image(LoadImage(x, prog, prog.args)) ELSE kept(x)
  IN  IF prog.elf THEN table(proc_pagetable(f)) ELSE kept(Space(as[p], f, sz[p]))

\* A page for each argument is held while exec runs.
sys_exec(p) ==
  \E prog \in Progs :
    LET x == IF freelist < prog.argc THEN Fail(SpaceOf(p))
             ELSE [exec(p, prog, freelist - prog.argc) EXCEPT !.free = @ + prog.argc]
    IN  /\ Runs(p)
        /\ Become(p, x, AsOf(x), x.sz)
        /\ ret' = IF x.ok THEN "ok" ELSE "fail"
        /\ UNCHANGED <<tf, st, leaked>>

\* spawn loads the program into the page table allocproc made.  When the file
\* is no program, pagetable is still 0 at bad: np->pagetable is cleared there
\* without having been freed, and its table pages are lost.
spawn(p, q) ==
  \E prog \in Progs, found \in BOOLEAN :
    LET x == allocproc(freelist)
        y == LoadImage(x, prog, 0)
    IN  /\ Runs(p) /\ st[q] = "unused"
        /\ \/ ~x.ok /\ NotMade(q, x) /\ UNCHANGED leaked
           \/ /\ x.ok /\ ~found
              /\ NotMade(q, kfree(proc_freepagetable(x, 0))) /\ UNCHANGED leaked
           \/ /\ x.ok /\ found /\ ~prog.elf
              /\ NotMade(q, kfree(x)) /\ leaked' = leaked + Cardinality(x.tables)
           \/ /\ x.ok /\ found /\ prog.elf /\ ~y.ok
              /\ NotMade(q, kfree(proc_freepagetable(y, y.sz))) /\ UNCHANGED leaked
           \/ /\ x.ok /\ found /\ prog.elf /\ y.ok
              /\ Made(q, y, y.sz) /\ UNCHANGED leaked

exit(p) ==
  /\ Runs(p) /\ p # Init1
  /\ st' = [st EXCEPT ![p] = "zombie"] /\ ret' = "ok"
  /\ UNCHANGED <<freelist, as, sz, tf, leaked, panicked>>

\* The parent's wait frees a zombie.
freeproc(q) ==
  /\ st[q] = "zombie"
  /\ Become(q, kfree(proc_freepagetable(SpaceOf(q), sz[q])), NoSpace, 0)
  /\ tf' = [tf EXCEPT ![q] = FALSE] /\ st' = [st EXCEPT ![q] = "unused"]
  /\ ret' = "ok" /\ UNCHANGED leaked

Next ==
  \E p \in Procs :
    \/ sbrk(p) \/ sys_exec(p) \/ exit(p) \/ freeproc(p)
    \/ \E q \in Procs : fork(p, q) \/ spawn(p, q)

Spec == Init /\ [][Next]_vars

---------------------------------------------------------------------------
(* Properties.                                                             *)

Mapped(a) == {v \in Pages : a.map[v] # {}}

\* Every page is on the free list, or is a table, a user page or a trapframe
\* of one process, or was lost by spawn: whatever allocation fails, the error
\* paths of exec, fork, spawn, uvmalloc and uvmcopy give back what they took,
\* once; and none of the panics of vm.c happens on the way.
PagesAccounted ==
  /\ ~panicked
  /\ NPAGES = freelist + leaked
       + FoldSet(LAMBDA p, n : n + Cardinality(as[p].tables)
                   + Cardinality(Mapped(as[p]) \ {TRAMPOLINE, TRAPFRAME})
                   + (IF tf[p] THEN 1 ELSE 0), 0, Procs)

\* What a process has mapped is what its size says, with the trampoline and
\* the trapframe, and every mapping can be reached by walk: so uvmfree, which
\* goes by the size, neither misses a page nor meets a hole.
MapMatchesSize ==
  \A p \in Procs :
    st[p] # "unused" =>
      /\ Mapped(as[p]) = {v \in Pages : v * PGSIZE < sz[p]} \cup {TRAMPOLINE, TRAPFRAME}
      /\ \A v \in Mapped(as[p]) : walk(SpaceOf(p), v, FALSE).ok

\* A call that fails changes no process: no size, no mapping, no slot.
AllOrNothing ==
  [][ret' = "fail" =>
       /\ UNCHANGED <<sz, st, tf>>
       /\ \A p \in Procs : as'[p].map = as[p].map]_vars

\* copyin, copyout and copyinstr succeed exactly when every page they touch
\* allows it (not the guard page, not read-only text), and move the units asked
\* for or a prefix of them.
CopyInBounds ==
  \A p \in Procs : st[p] = "used" =>
    LET map == as[p].map
        may(perm, a) == Access(map, a \div PGSIZE, perm)
    IN  \A va \in 0..(sz[p] + 1), len \in 0..(2 * PGSIZE) :
          LET asked == va..(va + len - 1)
              right(c, perm) ==
                /\ c.ok <=> \A a \in asked : may(perm, a)
                /\ c.moved = IF c.ok THEN asked
                             ELSE {a \in asked : \A b \in va..a : may(perm, b)}
          IN  /\ right(copyout(map, va, len), {"U", "W"})
              /\ right(copyin(map, va, len), {"U"})
              /\ \A nul \in asked :
                   copyinstr(map, va, len, {nul, nul + 1}) =
                     IF \A a \in va..nul : may({"U"}, a) THEN nul - va ELSE -1

===========================================================================
