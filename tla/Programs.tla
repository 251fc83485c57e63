----------------------------- MODULE Programs -----------------------------
(***************************************************************************)
(* User programs at work: the shell on a line, a program that calls malloc *)
(* and free, grep, wc and cat on a file, and the UNIX utilities.           *)
(* job is the program that runs, with its input and how far it has come.   *)
(***************************************************************************)
EXTENDS Sh, Umalloc, Grep, Files, Text

CONSTANTS TextFiles, SearchPatterns

VARIABLE job

Idle == [prog |-> "none"]

MoveNames == {<<"a">>, <<"a", "b">>, <<"b">>}
MoveDirs == UNION {[exist -> MoveFiles] : exist \in SUBSET MoveNames}

\* A line is parsed; runcmd, in the child, is part of what is checked of it.
sh == \E l \in Lines : job' = [prog |-> "sh", line |-> l, parsed |-> parsecmd(l)]

match_start == \E re \in Patterns, text \in Texts :
                 job' = [prog |-> "match", re |-> re, text |-> text]

grep_start == \E re \in {<<"a">>, <<"^", "$">>}, file \in Files :
                job' = [prog |-> "grep", re |-> re, file |-> file, g |-> Grep0]

GrepTurns == grep(job.re, job.file, job.g)
grep_turn == /\ job.prog = "grep"
             /\ \E g \in GrepTurns : job' = [job EXCEPT !.g = g]

heap_start == job' = [prog |-> "heap", heap |-> Boot, ops |-> 0]

heap_call ==
  /\ job.prog = "heap" /\ job.ops < MaxOps
  /\ \E h \in Calls(job.heap) : job' = [job EXCEPT !.heap = h, !.ops = @ + 1]

wc_start == \E file \in TextFiles :
  job' = [prog |-> "wc", file |-> file, off |-> 0,
          s |-> [c |-> 0, l |-> 0, w |-> 0, inword |-> FALSE]]

wc_turn ==
  /\ job.prog = "wc"
  /\ \E piece \in Piece(job.file, job.off) :
       job' = [job EXCEPT !.off = @ + Len(piece), !.s = wc(@, piece)]

cat_start == \E file \in TextFiles :
  job' = [prog |-> "cat", file |-> file, off |-> 0, ok |-> TRUE, out |-> <<>>]

cat_turn ==
  /\ job.prog = "cat" /\ job.ok
  /\ \E piece \in Piece(job.file, job.off) : \E r \in cat(job.out, piece) :
       job' = [job EXCEPT !.off = @ + Len(piece), !.ok = r.ok, !.out = r.out]

wordcount_run == \E file \in TextFiles :
  job' = [prog |-> "wordcount", file |-> file, r |-> word_histogram(file)]

searchtext_run ==
  \E file \in TextFiles, pattern \in SearchPatterns, i, w \in BOOLEAN :
    job' = [prog |-> "search", file |-> file, pattern |-> pattern, i |-> i, w |-> w,
            found |-> search_pattern_in_file(pattern, file, i, w)]

\* The names are on different devices if cross; yes is the answer to the question
\* about overwriting.
movefile_run ==
  \E fs \in MoveDirs, s, d \in MoveNames, cross, yes \in BOOLEAN :
    \E r \in movefile(fs, s, d, cross /\ s # d, yes) :
      job' = [prog |-> "move", fs |-> fs, s |-> s, d |-> d, yes |-> yes, r |-> r]

copyfile_run ==
  \E fs \in MoveDirs, s, d \in MoveNames : \E r \in copyfile(fs, s, d) :
    job' = [prog |-> "copy", fs |-> fs, s |-> s, d |-> d, r |-> r]

deletefile_run ==
  \E t \in DeleteTrees, target \in UNION {u.all : u \in DeleteTrees}, recursive \in BOOLEAN :
    \E r \in deletefile(t, target, recursive) :
      job' = [prog |-> "delete", t |-> t, target |-> target, recursive |-> recursive, r |-> r]

ProgInit == job = Idle

Start ==
  \/ sh \/ match_start \/ grep_start \/ heap_start \/ wc_start \/ cat_start
  \/ wordcount_run \/ searchtext_run \/ movefile_run \/ copyfile_run \/ deletefile_run
ProgNext ==
  \/ job = Idle /\ Start
  \/ grep_turn \/ wc_turn \/ cat_turn
  \/ heap_call
  \/ job # Idle /\ job' = Idle

---------------------------------------------------------------------------
(* Properties.                                                             *)

\* After any calls of malloc and free, with the program's own sbrk between them:
\* the free list runs through the free blocks upwards and back to base, no two of
\* them touch, and every unit morecore got belongs to exactly one block, free or
\* in use; so no two blocks a program holds overlap and none is lost.
HeapSound == job.prog = "heap" => Sound(job.heap)

\* For every line: the shell panics exactly on the lines outside the grammar;
\* the programs it runs get the words, input and output the line means, with
\* standard error and no descriptor besides; and no shell that waits has an
\* extra descriptor either, so that a pipe's reader sees the end of input.  Each
\* word, argument or file name, ends where nulterminate has cut it off.
RunsWhatIsMeant == job.prog = "sh" => RunsAsMeant(job.line, job.parsed)

\* However read cuts a file into pieces: grep has at any moment written a prefix
\* of the lines that match, and all of them when it ends, and its matcher agrees
\* with the meaning of the expression; wc counts a word once though it is spread
\* over pieces; cat has written what it has read, or stops.  wordcount's total
\* leaves out a last word that nothing follows, its histogram has every word;
\* searchtext finds the lines with the pattern, with -w those with it as a word.
TextReadRight ==
  /\ job.prog = "match" => (match(job.re, job.text) <=> Matches(job.re, job.text))
  /\ job.prog = "grep" =>
       /\ IsPrefix(job.g.out, MatchingLines(job.re, job.file))
       /\ GrepTurns = {} => job.g.out = MatchingLines(job.re, job.file)
  /\ job.prog = "wc" => CountsRight(SubSeq(job.file, 1, job.off), job.s)
  /\ job.prog = "cat" => /\ IsPrefix(job.out, job.file)
                         /\ job.ok <=> Len(job.out) = job.off
  /\ job.prog = "wordcount" => HistogramRight(job.file, job.r)
  /\ job.prog = "search" => SearchRight(job.pattern, job.file, job.i, job.w, job.found)

\* Whatever call of the host fails, and however the user answers: movefile
\* leaves the whole of what it moves under the old name or under the new one,
\* and under the new one alone when it says so, unless a read or the last write
\* has failed, which it does not look at; copyfile changes the destination only;
\* deletefile removes what it was asked to and nothing else, never a directory
\* whose entries it has left.
FilesKept ==
  /\ job.prog = "move" => MoveKeeps(job.fs, job.s, job.d, job.yes, job.r)
  /\ job.prog = "copy" => CopyKeeps(job.fs, job.s, job.d, job.r)
  /\ job.prog = "delete" => DeleteKeeps(job.t, job.target, job.recursive, job.r)

===========================================================================
