-------------------------------- MODULE Sh --------------------------------
(***************************************************************************)
(* The shell (user/sh.c): the parser of a command line, and runcmd, which  *)
(* forks, connects pipes and redirections, and executes.                   *)
(*                                                                         *)
(* A line is a sequence of characters: "x" stands for every character of a *)
(* word, " " for white space.  A word is the pair of positions [q, eq) the *)
(* parser keeps.  A parser returns [ok, cmd, s]; ok is FALSE when it       *)
(* panics, which ends the child the shell forked for the line.             *)
(***************************************************************************)
EXTENDS Integers, Sequences, FiniteSets, FiniteSetsExt, TLC

CONSTANTS MaxLine,     \* bound: characters of a line
          MAXARGS, NOFILE

symbols == {"<", "|", ">", "&", ";", "(", ")"}
Chars == symbols \cup {"x", " "}
Lines == UNION {[1..n -> Chars] : n \in 0..MaxLine}

---------------------------------------------------------------------------
(* Parsing.                                                                *)

EXEC(argv) == [type |-> "EXEC", argv |-> argv]
REDIR(cmd, file, fd) == [type |-> "REDIR", cmd |-> cmd, file |-> file, fd |-> fd]
PIPE(left, right) == [type |-> "PIPE", left |-> left, right |-> right]
LIST(left, right) == [type |-> "LIST", left |-> left, right |-> right]
BACK(cmd) == [type |-> "BACK", cmd |-> cmd]

Skip(l, s) == Min({j \in s..(Len(l) + 1) : j = Len(l) + 1 \/ l[j] # " "})

Token(l, tok, q, eq) == [tok |-> tok, q |-> q, eq |-> eq, s |-> Skip(l, eq)]
TokenAt(l, q) ==
  IF q > Len(l) THEN Token(l, "0", q, q)
  ELSE IF l[q] = "x"
       THEN Token(l, "a", q, Min({j \in q..(Len(l) + 1) : j = Len(l) + 1 \/ l[j] # "x"}))
  ELSE IF l[q] = ">" /\ q < Len(l) /\ l[q + 1] = ">" THEN Token(l, "+", q, q + 2)
  ELSE Token(l, l[q], q, q + 1)

gettoken(l, s) == TokenAt(l, Skip(l, s))

peek(l, s, toks) == \E j \in {Skip(l, s)} : j <= Len(l) /\ l[j] \in toks

Word(t) == <<t.q, t.eq>>
Panic == [ok |-> FALSE, cmd |-> EXEC(<<>>), s |-> 0]
Parsed(cmd, s) == [ok |-> TRUE, cmd |-> cmd, s |-> s]

RECURSIVE parseredirs(_, _, _)
parseredirs(cmd, l, s) ==
  LET redir(t, f) ==
        IF f.tok # "a" THEN Panic
        ELSE parseredirs(REDIR(cmd, <<t.tok, Word(f)>>, IF t.tok = "<" THEN 0 ELSE 1), l, f.s)
      operator(t) == redir(t, gettoken(l, t.s))
  IN  IF peek(l, s, {"<", ">"}) THEN operator(gettoken(l, s)) ELSE Parsed(cmd, s)

\* The argument goes to the EXEC below the redirections.
RECURSIVE AddArg(_, _)
AddArg(cmd, w) ==
  IF cmd.type = "EXEC" THEN EXEC(Append(cmd.argv, w))
  ELSE [cmd EXCEPT !.cmd = AddArg(@, w)]

RECURSIVE ParseArgs(_, _, _, _)
ParseArgs(cmd, argc, l, s) ==
  LET next(r) == IF r.ok THEN ParseArgs(r.cmd, argc + 1, l, r.s) ELSE Panic
      argument(t) ==
        IF t.tok = "0" THEN Parsed(cmd, t.s)
        ELSE IF t.tok # "a" \/ argc + 1 >= MAXARGS THEN Panic
        ELSE next(parseredirs(AddArg(cmd, Word(t)), l, t.s))
  IN  IF peek(l, s, {"|", ")", "&", ";"}) THEN Parsed(cmd, Skip(l, s))
      ELSE argument(gettoken(l, s))

RECURSIVE parseline(_, _)
parseblock(l, s) ==
  LET close(r) == IF r.ok /\ peek(l, r.s, {")"})
                  THEN parseredirs(r.cmd, l, gettoken(l, r.s).s) ELSE Panic
  IN  close(parseline(l, gettoken(l, s).s))

parseexec(l, s) ==
  LET arguments(r) == IF r.ok THEN ParseArgs(r.cmd, 0, l, r.s) ELSE Panic
  IN  IF peek(l, s, {"("}) THEN parseblock(l, s)
      ELSE arguments(parseredirs(EXEC(<<>>), l, s))

RECURSIVE parsepipe(_, _)
parsepipe(l, s) ==
  LET join(r, right) == IF right.ok THEN Parsed(PIPE(r.cmd, right.cmd), right.s) ELSE Panic
      more(r) == IF r.ok /\ peek(l, r.s, {"|"})
                 THEN join(r, parsepipe(l, gettoken(l, r.s).s)) ELSE r
  IN  more(parseexec(l, s))

RECURSIVE ParseBack(_, _)
ParseBack(r, l) ==
  IF r.ok /\ peek(l, r.s, {"&"}) THEN ParseBack(Parsed(BACK(r.cmd), gettoken(l, r.s).s), l)
  ELSE r

parseline(l, s) ==
  LET join(r, rest) == IF rest.ok THEN Parsed(LIST(r.cmd, rest.cmd), rest.s) ELSE Panic
      more(r) == IF r.ok /\ peek(l, r.s, {";"})
                 THEN join(r, parseline(l, gettoken(l, r.s).s)) ELSE r
  IN  more(ParseBack(parsepipe(l, s), l))

parsecmd(l) ==
  LET all(r) == IF r.ok /\ Skip(l, r.s) > Len(l) THEN r ELSE Panic
  IN  all(parseline(l, 1))

\* The positions where nulterminate writes a 0.
RECURSIVE nulterminate(_)
nulterminate(cmd) ==
  CASE cmd.type = "EXEC" -> {cmd.argv[i][2] : i \in 1..Len(cmd.argv)}
    [] cmd.type = "REDIR" -> nulterminate(cmd.cmd) \cup {cmd.file[2][2]}
    [] cmd.type \in {"PIPE", "LIST"} -> nulterminate(cmd.left) \cup nulterminate(cmd.right)
    [] cmd.type = "BACK" -> nulterminate(cmd.cmd)

---------------------------------------------------------------------------
(* Running.  A process's descriptors are a function from 0..NOFILE-1; a    *)
(* pipe is named by its place in the command.                              *)

closed == <<"closed">>
close_fd(fds, fd) == [fds EXCEPT ![fd] = closed]
Lowest(fds) == Min({fd \in 0..(NOFILE - 1) : fds[fd] = closed})
open_fd(fds, file) == [fds EXCEPT ![Lowest(fds)] = file]

\* The child on one side of a pipe: end replaces fd, p[0] and p[1] are closed.
PipeChild_keep(fds, p, end, fd) == close_fd(open_fd(close_fd(fds, fd), fds[end]), p[1])

PipeChild(fds, p, end, fd) ==
  close_fd(close_fd(open_fd(close_fd(fds, fd), fds[end]), p[1]), p[2])

\* What comes of runcmd in a process with descriptors fds: [do, argv, fds] for
\* every program executed, and for every shell while it waits for its children.
RECURSIVE runcmd(_, _, _)
runcmd(cmd, fds, path) ==
  LET waits(f) == {[do |-> "wait", argv |-> <<>>, fds |-> f]}
      left == Append(path, "l")
      right == Append(path, "r")
      pipe(p, piped) ==
        runcmd(cmd.left, PipeChild(piped, p, p[2], 1), left)
        \cup runcmd(cmd.right, PipeChild(piped, p, p[1], 0), right)
        \cup waits(close_fd(close_fd(piped, p[1]), p[2]))
      opened(fds1) == pipe(<<Lowest(fds), Lowest(fds1)>>, open_fd(fds1, <<"w", path>>))
  IN  CASE cmd.type = "EXEC" ->
             IF cmd.argv = <<>> THEN {}
             ELSE {[do |-> "exec", argv |-> cmd.argv, fds |-> fds]}
        [] cmd.type = "REDIR" ->
             runcmd(cmd.cmd, open_fd(close_fd(fds, cmd.fd), cmd.file), path)
        [] cmd.type = "LIST" ->
             runcmd(cmd.left, fds, left) \cup waits(fds) \cup runcmd(cmd.right, fds, right)
        [] cmd.type = "PIPE" -> opened(open_fd(fds, <<"r", path>>))
        [] cmd.type = "BACK" -> runcmd(cmd.cmd, fds, path)

---------------------------------------------------------------------------
(* What a line means, by the grammar:                                      *)
(*   line = pipe {"&"} [";" line]          exec = "(" line ")" {redir}     *)
(*   pipe = exec ["|" pipe]                     | {word | redir}           *)
(* Denote gives the programs run with their input and output, {Bad} when   *)
(* the line does not parse.  ts is a sequence of tokens.                   *)

RECURSIVE Tokens(_, _)
Tokens(l, s) ==
  LET first(t) == IF t.tok = "0" THEN <<>> ELSE <<t>> \o Tokens(l, t.s)
  IN  first(gettoken(l, s))

Bad == [argv |-> <<>>, in |-> <<>>, out |-> <<>>]

\* Where the first of toks stands outside parentheses, or the end.
Depth(ts, i) == Cardinality({j \in 1..(i - 1) : ts[j].tok = "("})
                - Cardinality({j \in 1..(i - 1) : ts[j].tok = ")"})
Cut(ts, toks) ==
  Min({i \in 1..(Len(ts) + 1) : i = Len(ts) + 1 \/ (ts[i].tok \in toks /\ Depth(ts, i) = 0)})
Before(ts, i) == SubSeq(ts, 1, i - 1)
Rest(ts, i) == SubSeq(ts, i + 1, Len(ts))

\* Words and redirections: a word after an operator is its file.
Operator(ts, i) == ts[i].tok \in {"<", ">", "+"}
IsFile(ts, i) == i > 1 /\ Operator(ts, i - 1)
Simple(ts) ==
  /\ \A i \in 1..Len(ts) : /\ ts[i].tok = "a" \/ Operator(ts, i)
                           /\ IsFile(ts, i) => ts[i].tok = "a"
  /\ Len(ts) > 0 => ~Operator(ts, Len(ts))
Args(ts) ==
  LET sort(plain) == [n \in 1..Cardinality(plain) |->
        Word(ts[CHOOSE i \in plain : Cardinality({j \in plain : j <= i}) = n])]
  IN  sort({i \in 1..Len(ts) : ~Operator(ts, i) /\ ~IsFile(ts, i)})

\* The first redirection of its kind is the one in force.
Redirected(ts, ops, old) ==
  LET first(at) == IF at = {} THEN old ELSE <<ts[Min(at)].tok, Word(ts[Min(at) + 1])>>
  IN  first({i \in 1..Len(ts) : ts[i].tok \in ops})

RECURSIVE DenoteLine(_, _, _, _)
DenoteSimple(argv, in, out) == IF argv = <<>> THEN {} ELSE {[argv |-> argv, in |-> in, out |-> out]}
DenoteExec(ts, in, out, path) ==
  LET input(rs) == Redirected(rs, {"<"}, in)
      output(rs) == Redirected(rs, {">", "+"}, out)
      block(end, rs) ==
        IF end > Len(ts) \/ ~Simple(rs) \/ Args(rs) # <<>> THEN {Bad}
        ELSE DenoteLine(SubSeq(ts, 2, end - 1), input(rs), output(rs), path)
      closed_by(end) == block(end, Rest(ts, end))
  IN  IF Len(ts) > 0 /\ ts[1].tok = "("
      THEN closed_by(Min({i \in 1..(Len(ts) + 1) :
                            i = Len(ts) + 1 \/ (i > 1 /\ Depth(ts, i + 1) = 0)}))
      ELSE IF ~Simple(ts) \/ Len(Args(ts)) >= MAXARGS THEN {Bad}
      ELSE DenoteSimple(Args(ts), input(ts), output(ts))

RECURSIVE DenotePipe(_, _, _, _)
DenotePipe(ts, in, out, path) ==
  LET pipe(i) ==
        IF i > Len(ts) THEN DenoteExec(ts, in, out, path)
        ELSE DenoteExec(Before(ts, i), in, <<"w", path>>, Append(path, "l"))
             \cup DenotePipe(Rest(ts, i), <<"r", path>>, out, Append(path, "r"))
  IN  pipe(Cut(ts, {"|"}))

DenoteLine(ts, in, out, path) ==
  LET line(pipe, j) ==
        IF j > Len(ts) THEN DenotePipe(pipe, in, out, path)
        ELSE IF ts[j].tok # ";" THEN {Bad}
        ELSE DenotePipe(pipe, in, out, Append(path, "l"))
             \cup DenoteLine(Rest(ts, j), in, out, Append(path, "r"))
      cut(i) == line(Before(ts, i),
                     Min({n \in i..(Len(ts) + 1) : n = Len(ts) + 1 \/ ts[n].tok # "&"}))
  IN  cut(Cut(ts, {"&", ";"}))

---------------------------------------------------------------------------
(* What the shell should do with a line.                                   *)

StdFds == [fd \in 0..(NOFILE - 1) |-> IF fd < 3 THEN <<"console">> ELSE closed]

\* Where the string that starts at q ends, after nulterminate.
StringAt(l, cmd, q) == Min({n \in nulterminate(cmd) \cup {Len(l) + 1} : n >= q})

\* Whether r, what parsecmd returns for line l, runs what l means.
RunsAsMeant(l, r) ==
  LET meant(m) == DenoteLine(m, <<"console">>, <<"console">>, <<>>)
      as_meant(done, m) ==
        {[argv |-> x.argv, in |-> x.fds[0], out |-> x.fds[1]] :
           x \in {y \in done : y.do = "exec"}} = m
      right(ts, m, done) ==
        /\ r.ok <=> Bad \notin m
        /\ r.ok => as_meant(done, m)
        /\ r.ok => \A x \in done : \A fd \in 0..(NOFILE - 1) : x.fds[fd] = closed <=> fd > 2
        /\ r.ok => \A i \in 1..Len(ts) :
                     ts[i].tok = "a" => StringAt(l, r.cmd, ts[i].q) = ts[i].eq
      line(ts) == right(ts, meant(ts), runcmd(r.cmd, StdFds, <<>>))
  IN  line(Tokens(l, 1))

===========================================================================
