------------------------------- MODULE Grep -------------------------------
(***************************************************************************)
(* user/grep.c: the matcher, and the loop that finds the lines in a buffer *)
(* that read fills by as much as it likes; memmove and strchr of           *)
(* user/ulib.c.  A string is a sequence of characters without its final 0; *)
(* "n" is the newline.  The buffer of SIZE bytes is a sequence, of which   *)
(* the first m are in use.                                                 *)
(***************************************************************************)
EXTENDS Integers, Sequences, FiniteSets, FiniteSetsExt, SequencesExt, TLC

CONSTANTS SIZE,          \* sizeof(buf)
          Texts,         \* the lines matched
          Files,         \* the files read
          Patterns

---------------------------------------------------------------------------
(* match.                                                                  *)

RECURSIVE matchhere(_, _)
\* The do-while: after n characters that are c, the rest of the expression.
matchstar_plus(c, re, text) ==
  \E n \in 1..Len(text) :
    /\ \A i \in 1..n : text[i] = c \/ c = "."
    /\ matchhere(re, SubSeq(text, n + 1, Len(text)))

matchstar(c, re, text) ==
  \E n \in 0..Len(text) :
    /\ \A i \in 1..n : text[i] = c \/ c = "."
    /\ matchhere(re, SubSeq(text, n + 1, Len(text)))

matchhere(re, text) ==
  IF re = <<>> THEN TRUE
  ELSE IF Len(re) > 1 /\ re[2] = "*" THEN matchstar(re[1], SubSeq(re, 3, Len(re)), text)
  ELSE IF re = <<"$">> THEN text = <<>>
  ELSE text # <<>> /\ re[1] \in {".", text[1]} /\ matchhere(Tail(re), Tail(text))

match(re, text) ==
  IF re # <<>> /\ re[1] = "^" THEN matchhere(Tail(re), text)
  ELSE \E i \in 1..(Len(text) + 1) : matchhere(re, SubSeq(text, i, Len(text)))

---------------------------------------------------------------------------
(* grep.                                                                   *)

\* n bytes of buf from offset src to offset dst, one at a time, in the order
\* that is right when they overlap.
memmove_up(buf, dst, src, n) ==
  FoldLeft(LAMBDA b, i : [b EXCEPT ![dst + i] = b[src + i]], buf,
           [i \in 1..n |-> n + 1 - i])

memmove(buf, dst, src, n) ==
  FoldLeft(LAMBDA b, i : [b EXCEPT ![dst + i] = b[src + i]], buf,
           [i \in 1..n |-> IF src > dst THEN i ELSE n + 1 - i])

\* The offset of c in buf from p on, up to m where the 0 is; m if it is not there.
strchr(buf, p, m, c) == Min({i \in p..m : i = m \/ buf[i + 1] = c})

\* The inner loop: the lines complete in buf[p..m).  Returns where it stops.
RECURSIVE PrintLines(_, _, _, _, _)
PrintLines(pattern, buf, p, m, out) ==
  LET q == strchr(buf, p, m, "n")
      line == SubSeq(buf, p + 1, q)
  IN  IF q = m THEN [p |-> p, out |-> out]
      ELSE PrintLines(pattern, buf, q + 1, m,
                      IF match(pattern, line) THEN Append(out, line) ELSE out)

\* One turn of the outer loop, as the set of its outcomes: read returns between
\* 1 byte and what there is room for; at the end of the file, or without room,
\* it returns 0 and there is no further turn.
Grep0 == [off |-> 0, buf |-> [i \in 1..SIZE |-> "b"], m |-> 0, out |-> <<>>]

grep(pattern, file, g) ==
  LET filled(n) == [i \in 1..SIZE |-> IF i \in (g.m + 1)..(g.m + n) THEN file[g.off + i - g.m]
                                     ELSE g.buf[i]]
      rest(b, r, m, off) == [off |-> off, buf |-> memmove(b, 0, r.p, m - r.p),
                             m |-> m - r.p, out |-> r.out]
      turn(b, m, off) == rest(b, PrintLines(pattern, b, 0, m, g.out), m, off)
  IN  {turn(filled(n), g.m + n, g.off + n)
       : n \in 1..Min({SIZE - g.m - 1, Len(file) - g.off})}

---------------------------------------------------------------------------
(* The reference.                                                          *)

\* The expression as items: a character, and whether it is starred.
RECURSIVE Items(_)
Items(re) ==
  IF re = <<>> THEN <<>>
  ELSE IF Len(re) > 1 /\ re[2] = "*"
       THEN <<[c |-> re[1], star |-> TRUE]>> \o Items(SubSeq(re, 3, Len(re)))
       ELSE <<[c |-> re[1], star |-> FALSE]>> \o Items(Tail(re))

\* A part of text splits into as many pieces as there are items, each of the
\* item's character, one long unless the item is starred.
Matches(re, text) ==
  LET begin == re # <<>> /\ re[1] = "^"
      all == Items(IF begin THEN Tail(re) ELSE re)
      end == all # <<>> /\ Last(all) = [c |-> "$", star |-> FALSE]
      items == IF end THEN Front(all) ELSE all
  IN  \E cut \in [0..Len(items) -> 0..Len(text)] :
        /\ begin => cut[0] = 0
        /\ end => cut[Len(items)] = Len(text)
        /\ \A i \in 1..Len(items) :
             /\ cut[i - 1] <= cut[i]
             /\ ~items[i].star => cut[i] = cut[i - 1] + 1
             /\ \A j \in (cut[i - 1] + 1)..cut[i] : items[i].c \in {".", text[j]}

\* The lines of a file, without the last when it has no newline, and without
\* those from the first that does not fit in the buffer.
RECURSIVE LinesOf(_)
LinesOf(file) ==
  LET ends == {i \in 1..Len(file) : file[i] = "n"}
      e == Min(ends)
  IN  IF ends = {} \/ Min(ends) >= SIZE THEN <<>>
      ELSE <<SubSeq(file, 1, e - 1)>> \o LinesOf(SubSeq(file, e + 1, Len(file)))

\* What grep should write.
MatchingLines(re, file) == SelectSeq(LinesOf(file), LAMBDA line : Matches(re, line))

===========================================================================
