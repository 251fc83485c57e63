------------------------------ MODULE MCMem -------------------------------
(* A small memory for Mem, and small inputs for the programs.  These share *)
(* nothing with the memory calls of other processes: they run from the     *)
(* state after boot.                                                       *)
EXTENDS Mem, Programs

MCInit == Init /\ ProgInit
MCNext == \/ job = Idle /\ Next /\ UNCHANGED job
          \/ Init /\ ProgNext /\ UNCHANGED vars
MCSpec == MCInit /\ [][MCNext]_<<vars, job>>

Seg(va, memsz, filesz, perm, bad) ==
  [va |-> va, memsz |-> memsz, filesz |-> filesz, perm |-> perm, bad |-> bad]

\* Text and data with a gap between them; a file cut short; a bad header in
\* the second segment; arguments that do not fit; no program at all.
MCProgs ==
  LET text == Seg(0, 2, 2, {"X"}, "none")
  IN  {[elf |-> TRUE, segs |-> <<text, Seg(4, 1, 1, {"W"}, "none")>>, args |-> 1, argc |-> 1],
       [elf |-> TRUE, segs |-> <<text, Seg(2, 3, 1, {"W"}, "short")>>, args |-> 0, argc |-> 0],
       [elf |-> TRUE, segs |-> <<text, Seg(2, 1, 1, {"W"}, "header")>>, args |-> 0, argc |-> 0],
       [elf |-> TRUE, segs |-> <<text>>, args |-> 3, argc |-> 2],
       [elf |-> FALSE, segs |-> <<>>, args |-> 0, argc |-> 0]}

\* The processes other than the first are alike.
Symmetry == Permutations(Procs \ {Init1})

MCSbrks == {-3, 1, 4}

Strings(chars, max) == UNION {[1..n -> chars] : n \in 0..max}
MCTexts == Strings({"a", "b"}, 3)
MCFiles == Strings({"a", "b", "n"}, 6)
MCMoveFiles == {[dir |-> TRUE, data |-> <<>>]} \cup [dir : {FALSE}, data : {<<>>, <<1>>, <<1, 2>>}]

\* All trees with these paths.
MCDeleteTrees ==
  LET paths == {<<>>, <<"a">>, <<"b">>, <<"a", "a">>, <<"a", "b">>, <<"a", "b", "a">>}
      trees == {all \in SUBSET paths : \A p \in all : p = <<>> \/ Front(p) \in all}
  IN  {t \in [all : trees, dirs : SUBSET paths] :
         /\ t.dirs \subseteq t.all /\ <<>> \in t.dirs
         /\ \A p \in t.all : p = <<>> \/ Front(p) \in t.dirs}

MCTextFiles == Strings({"a", "A", " ", "n"}, 5)
MCSearchPatterns == {<<"a">>, <<"a", "A">>}

MCPatterns == Strings({"a", "b", ".", "*", "^", "$"}, 4)

===========================================================================
