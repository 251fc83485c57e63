------------------------------ MODULE Umalloc -----------------------------
(***************************************************************************)
(* user/umalloc.c: malloc and free over a circular list of free blocks in  *)
(* address order.  Memory is counted in units of one Header; base, which   *)
(* is no part of the heap, has address 0.  A heap is                       *)
(*   ptr, size  the headers of base and of the blocks, by address          *)
(*   freep      where a search starts; Nil before the first malloc        *)
(*   live       the blocks malloc returned and free did not get back       *)
(*   brk        the end of the process's memory, and core the units that   *)
(*              morecore got of it                                         *)
(***************************************************************************)
EXTENDS Integers, Sequences, FiniteSets, FiniteSetsExt, TLC

CONSTANTS MORE,          \* the least morecore asks for (4096 in the code)
          Bottom, Top,   \* the heap: from Bottom, and sbrk fails above Top
          Sizes,         \* the requests, in units without the header
          MaxOps         \* bound: calls of a program

base == 0
Nil == -1
Units == Bottom..(Top - 1)

Boot == [ptr |-> [a \in {base} |-> Nil], size |-> [a \in {base} |-> 0],
         freep |-> Nil, live |-> {}, brk |-> Bottom, core |-> {}]

Put(f, a, v) == [x \in DOMAIN f \cup {a} |-> IF x = a THEN v ELSE f[x]]
SetPtr(h, a, v) == [h EXCEPT !.ptr = Put(@, a, v)]
SetSize(h, a, v) == [h EXCEPT !.size = Put(@, a, v)]

\* The block after which bp belongs: around it, or at the end of the list when
\* bp lies outside of it.
RECURSIVE Place(_, _, _)
Place(h, bp, p) ==
  LET next == h.ptr[p]
  IN  IF (bp > p /\ bp < next) \/ (p >= next /\ (bp > p \/ bp < next)) THEN p
      ELSE Place(h, bp, next)

\* Join bp with its upper neighbour p->s.ptr, or link it before that.
JoinUpper(h, bp, p) ==
  LET up == h.ptr[p]
  IN  IF bp + h.size[bp] = up
      THEN SetPtr(SetSize(h, bp, h.size[bp] + h.size[up]), bp, h.ptr[up])
      ELSE SetPtr(h, bp, up)

\* Join bp to its lower neighbour p, or link it behind that.
JoinLower_always(h, bp, p) == SetPtr(h, p, bp)

JoinLower(h, bp, p) ==
  IF p + h.size[p] = bp
  THEN SetPtr(SetSize(h, p, h.size[p] + h.size[bp]), p, h.ptr[bp])
  ELSE SetPtr(h, p, bp)

free(h, bp) ==
  LET p == Place(h, bp, h.freep)
  IN  [JoinLower(JoinUpper(h, bp, p), bp, p) EXCEPT !.freep = p, !.live = @ \ {bp}]

\* morecore: [ok, h]; on success the new block is on the free list.
morecore(h, nunits) ==
  LET nu == IF nunits < MORE THEN MORE ELSE nunits
      grown == [h EXCEPT !.brk = @ + nu, !.core = @ \cup (h.brk)..(h.brk + nu - 1)]
  IN  IF h.brk + nu > Top THEN [ok |-> FALSE, h |-> h]
      ELSE [ok |-> TRUE, h |-> free(SetSize(grown, h.brk, nu), h.brk)]

\* Take nunits off p: all of it, or its upper end.
Take(h, prevp, p, nunits) ==
  LET rest == h.size[p] - nunits
      q == p + rest
      cut == IF rest = 0 THEN SetPtr(h, prevp, h.ptr[p])
             ELSE SetSize(SetSize(h, p, rest), q, nunits)
  IN  [cut EXCEPT !.freep = prevp, !.live = @ \cup {q}]

\* The loop of malloc, first fit from p on.  The result is the heap.
RECURSIVE Search(_, _, _, _)
Search(h, prevp, p, nunits) ==
  LET more == morecore(h, nunits)
  IN  IF h.size[p] >= nunits THEN Take(h, prevp, p, nunits)
      ELSE IF p # h.freep THEN Search(h, p, h.ptr[p], nunits)
      ELSE IF ~more.ok THEN h
      ELSE Search(more.h, more.h.freep, more.h.ptr[more.h.freep], nunits)

malloc(h, n) ==
  LET first == IF h.freep # Nil THEN h ELSE [SetPtr(h, base, base) EXCEPT !.freep = base]
  IN  Search(first, first.freep, first.ptr[first.freep], n + 1)

\* The program itself grows its memory by a unit: sbrk of the system.
Sbrk(h) == IF h.brk + 1 > Top THEN h ELSE [h EXCEPT !.brk = @ + 1]

---------------------------------------------------------------------------
(* What the next call of a program can bring about.                        *)

Calls(h) == {malloc(h, n) : n \in Sizes} \cup {free(h, bp) : bp \in h.live} \cup {Sbrk(h)}

---------------------------------------------------------------------------
(* What a heap should be.                                                  *)

\* The blocks on the free list, base left out: at most as many as headers.
RECURSIVE Chain(_, _, _)
Chain(h, a, n) ==
  IF n = 0 \/ h.ptr[a] = base THEN <<>>
  ELSE <<h.ptr[a]>> \o Chain(h, h.ptr[a], n - 1)
FreeList(h) == IF h.freep = Nil THEN <<>> ELSE Chain(h, base, Cardinality(DOMAIN h.ptr))

Extent(h, a) == a..(a + h.size[a] - 1)

\* The free list runs through the free blocks upwards, no two of them touch, and
\* every unit morecore got belongs to exactly one block, free or in use.
Sound(h) ==
  LET list == FreeList(h)
      free_ == {list[i] : i \in 1..Len(list)}
  IN  /\ \A i \in 1..(Len(list) - 1) : list[i] + h.size[list[i]] < list[i + 1]
      /\ h.freep \in free_ \cup {base, Nil}
      /\ h.core = UNION {Extent(h, a) : a \in free_ \cup h.live}
      /\ Cardinality(h.core) = MapThenSumSet(LAMBDA a : h.size[a], free_ \cup h.live)
      /\ free_ \cap h.live = {}

===========================================================================
