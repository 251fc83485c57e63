------------------------------- MODULE Files ------------------------------
(***************************************************************************)
(* The UNIX utilities that change files: movefile.c, copyfile.c and        *)
(* deletefile.c of Project2_UNIX_Utilities/src.  They run on the host,     *)
(* whose calls may fail wherever they are made: an operator gives the set  *)
(* of all outcomes of a run.                                               *)
(***************************************************************************)
EXTENDS Integers, Sequences, FiniteSets, SequencesExt, Functions

CONSTANTS MoveFiles,     \* what may be found under a name: [dir, data]
          DeleteTrees    \* trees, as [all, dirs]: sets of paths

---------------------------------------------------------------------------
(* movefile.  fs is what the names that exist stand for; errors is whether *)
(* a read, or the write that fclose() does, has failed: nobody looks.      *)

Outcome(fs, ok, errors) == [fs |-> fs, ok |-> ok, errors |-> errors]

is_directory(fs, path) == path \in DOMAIN fs /\ fs[path].dir

\* The host's calls.  rename() replaces a file by a file, a directory by a
\* directory.
With(fs, name, file) ==
  [x \in DOMAIN fs \cup {name} |-> IF x = name THEN file ELSE fs[x]]

rename(fs, source, destination) ==
  IF source = destination THEN {fs}
  ELSE IF destination \in DOMAIN fs /\ fs[destination].dir # fs[source].dir THEN {}
  ELSE {Restrict(With(fs, destination, fs[source]), (DOMAIN fs \cup {destination}) \ {source})}

\* A directory can be opened for reading, but not read.  fopen() for writing
\* empties the destination, unless it is a directory; from then on it has what
\* was written, up to a failure.
copy_file(fs, source, destination) ==
  LET file == fs[source]
      data == IF file.dir THEN <<>> ELSE file.data
      copied(n) == With(fs, destination, [dir |-> FALSE, data |-> SubSeq(data, 1, n)])
      written(ok) == IF is_directory(fs, destination) THEN {}
                     ELSE {n \in 0..Len(data) : ok \/ n < Len(data)}
  IN  {Outcome(fs, FALSE, FALSE)}
      \cup {Outcome(copied(n), FALSE, FALSE) : n \in written(FALSE)}
      \cup {Outcome(copied(n), TRUE, file.dir \/ n < Len(data)) : n \in written(TRUE)}

\* Mutant: the source is removed before the copy is known to be complete.
copy_remove_any(fs, source, destination) ==
  UNION {{Outcome(c.fs, FALSE, c.errors),
          Outcome(Restrict(c.fs, DOMAIN c.fs \ {source}), c.ok, c.errors)}
         : c \in copy_file(fs, source, destination)}

copy_remove(fs, source, destination) ==
  UNION {IF ~c.ok THEN {c}
         ELSE {Outcome(c.fs, FALSE, c.errors),
               Outcome(Restrict(c.fs, DOMAIN c.fs \ {source}), TRUE, c.errors)}
         : c \in copy_file(fs, source, destination)}

\* yes is the answer to confirm_overwrite(); cross, whether the names are on
\* different devices.
move_file(fs, source, destination, cross, yes) ==
  IF destination \in DOMAIN fs /\ ~yes THEN {Outcome(fs, FALSE, FALSE)}
  ELSE {Outcome(fs, FALSE, FALSE)}
       \cup IF cross THEN copy_remove(fs, source, destination)
            ELSE {Outcome(new, TRUE, FALSE) : new \in rename(fs, source, destination)}

\* Names are sequences of characters.
movefile(fs, source, destination, cross, yes) ==
  IF \/ source \notin DOMAIN fs
     \/ /\ is_directory(fs, source) /\ is_directory(fs, destination)
        /\ IsPrefix(source, destination)
  THEN {Outcome(fs, FALSE, FALSE)}
  ELSE move_file(fs, source, destination, cross, yes)

---------------------------------------------------------------------------
(* copyfile.  ok is whether it says "Copy complete.", which it also does   *)
(* when a write has failed; errors, whether one has, or a read.            *)

copyfile(fs, src, dest) ==
  LET emptied == With(fs, dest, [dir |-> FALSE, data |-> <<>>])
      opened == {fs} \cup IF is_directory(fs, dest) THEN {} ELSE {emptied}
      data(g) == IF g[src].dir THEN <<>> ELSE g[src].data
      wrote(g, n) == With(g, dest, [dir |-> FALSE, data |-> SubSeq(data(g), 1, n)])
      copied(g) == {Outcome(wrote(g, n), TRUE, g[src].dir \/ n < Len(data(g)))
                    : n \in 0..Len(data(g))}
  IN  {Outcome(g, FALSE, FALSE) : g \in opened}
      \cup (IF src \in DOMAIN fs /\ ~is_directory(fs, dest) THEN copied(emptied) ELSE {})

---------------------------------------------------------------------------
(* deletefile.  A path is the sequence of its names; there are no symbolic *)
(* links.                                                                  *)

Left(t, ok) == [t |-> t, ok |-> ok]
Children(t, path) == {p \in t.all : p # <<>> /\ Front(p) = path}
Without(t, path) == [all |-> t.all \ {path}, dirs |-> t.dirs \ {path}]

\* The entries still to be read, in any order, and rmdir() at the end.
RECURSIVE Entries(_, _, _)
Entries(t, path, entries) ==
  LET under(e) ==
        IF e \notin t.dirs THEN {Left(Without(t, e), TRUE), Left(t, FALSE)}
        ELSE Entries(t, e, Children(t, e)) \cup {Left(t, FALSE)}
      after(e) ==
        UNION {IF r.ok THEN Entries(r.t, path, entries \ {e}) ELSE {r} : r \in under(e)}
  IN  IF entries # {} THEN UNION {after(e) : e \in entries}
      ELSE {Left(t, FALSE)}
           \cup (IF Children(t, path) = {} THEN {Left(Without(t, path), TRUE)} ELSE {})

remove_directory(t, path) == Entries(t, path, Children(t, path)) \cup {Left(t, FALSE)}

deletefile(t, target, recursive) ==
  IF target \notin t.all THEN {Left(t, FALSE)}
  ELSE IF target \notin t.dirs THEN {Left(Without(t, target), TRUE), Left(t, FALSE)}
  ELSE IF recursive THEN remove_directory(t, target)
  ELSE {Left(t, FALSE)}

---------------------------------------------------------------------------
(* What the utilities should leave.                                        *)

\* r is an outcome of moving s to d in fs.
MoveKeeps(fs, s, d, yes, r) ==
  /\ s \notin DOMAIN fs \/ (d \in DOMAIN fs /\ ~yes) => r.fs = fs /\ ~r.ok
  /\ s \in DOMAIN fs /\ ~r.errors =>
       \/ r.ok /\ d \in DOMAIN r.fs /\ r.fs[d] = fs[s] /\ (s = d \/ s \notin DOMAIN r.fs)
       \/ ~r.ok /\ s \in DOMAIN r.fs /\ r.fs[s] = fs[s]
  /\ DOMAIN r.fs \ {s, d} = DOMAIN fs \ {s, d}
  /\ \A x \in DOMAIN fs \ {s, d} : r.fs[x] = fs[x]

\* r is an outcome of copying s to d in fs.
CopyKeeps(fs, s, d, r) ==
  /\ DOMAIN r.fs \ {d} = DOMAIN fs \ {d}
  /\ \A x \in DOMAIN fs \ {d} : r.fs[x] = fs[x]
  /\ is_directory(fs, d) => r.fs = fs
  /\ r.ok /\ ~r.errors /\ s # d => r.fs[d] = fs[s]

\* r is an outcome of deleting target from t.
DeleteKeeps(t, target, recursive, r) ==
  LET gone == t.all \ r.t.all
  IN  /\ \A p \in gone : IsPrefix(target, p)
      /\ \A p \in r.t.all : p = <<>> \/ Front(p) \in r.t.dirs
      /\ r.ok => \A p \in r.t.all : ~IsPrefix(target, p)
      /\ target \in t.dirs /\ ~recursive => gone = {}

===========================================================================
