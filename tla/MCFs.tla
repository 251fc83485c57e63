------------------------------- MODULE MCFs -------------------------------
(* A small file system for Fs: two processes, three inodes.                *)
EXTENDS Fs

MCPaths ==
  {[abs |-> TRUE, elems |-> <<"a">>],
   [abs |-> TRUE, elems |-> <<"a", "b">>],
   [abs |-> FALSE, elems |-> <<"b">>], [abs |-> FALSE, elems |-> <<"..">>]}

MCModes ==
  {[create |-> TRUE, trunc |-> FALSE, write |-> TRUE],
   [create |-> FALSE, trunc |-> TRUE, write |-> TRUE]}

MCInitFiles == <<[name |-> "b", blocks |-> 1]>>

\* After mkdir /a, mkdir /a/b.
MCImages ==
  LET dir(n, b, up) == [FreeInode EXCEPT !.type = "dir", !.nlink = n,
                          !.addrs[0] = b, !.ents[".."] = up]
  IN  {[ino |-> << [dir(2, 1, 1) EXCEPT !.ents["a"] = 2, !.ents["."] = 1],
                   [dir(2, 2, 1) EXCEPT !.ents["b"] = 3, !.ents["."] = 2],
                   [dir(1, 3, 2) EXCEPT !.ents["."] = 3] >>,
        used |-> {1, 2, 3}]}

MCMaxCalls == <<2, 1>>
OrphanMaxCalls == <<1, 2>>

===========================================================================
