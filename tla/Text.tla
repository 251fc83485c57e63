------------------------------- MODULE Text -------------------------------
(***************************************************************************)
(* Programs that read text: wc and cat of xv6 (user/wc.c, user/cat.c), and *)
(* wordcount and searchtext of Project2_UNIX_Utilities/src.                *)
(*                                                                         *)
(* A file is a sequence of characters: letters, of which "A" is the        *)
(* capital "a", the blank " " and the newline "n".                         *)
(***************************************************************************)
EXTENDS Integers, Sequences, FiniteSets, FiniteSetsExt, SequencesExt

CONSTANTS BUF,         \* sizeof(buf) of wc and cat
          LINE,        \* sizeof(line) of searchtext
          WORD         \* the length of a word wordcount reads (49 in the code)

isspace(ch) == ch \in {" ", "n"}
tolower(s) == [i \in 1..Len(s) |-> IF s[i] = "A" THEN "a" ELSE s[i]]

---------------------------------------------------------------------------
(* wc and cat: one turn of the loop, as the set of its outcomes.  read     *)
(* returns between 1 byte and as many as there are and fit.                *)

Piece(file, off) == {SubSeq(file, off + 1, off + n) : n \in 1..Min({BUF, Len(file) - off})}

wc_char(s, ch) ==
  [c |-> s.c + 1,
   l |-> IF ch = "n" THEN s.l + 1 ELSE s.l,
   w |-> IF ~isspace(ch) /\ ~s.inword THEN s.w + 1 ELSE s.w,
   inword |-> ~isspace(ch)]

wc(s, piece) == FoldLeft(LAMBDA x, ch : wc_char(x, ch), s, piece)

\* What cat has written after a piece; FALSE if write wrote less.
cat(out, piece) ==
  {[ok |-> n = Len(piece), out |-> out \o SubSeq(piece, 1, n)] : n \in 0..Len(piece)}

---------------------------------------------------------------------------
(* wordcount.                                                              *)

count_char(s, ch) ==
  [chars |-> s.chars + 1,
   lines |-> IF ch = "n" THEN s.lines + 1 ELSE s.lines,
   words |-> IF isspace(ch) /\ s.in_word THEN s.words + 1 ELSE s.words,
   in_word |-> ~isspace(ch)]

\* fscanf("%49s"): white space is skipped, and a word read from position i on.
RECURSIVE fscanf(_, _)
fscanf(file, i) ==
  LET word(q) == Min({j \in q..(Len(file) + 1) :
                        j = Len(file) + 1 \/ j = q + WORD \/ isspace(file[j])})
      read(q, e) == <<SubSeq(file, q, e - 1)>> \o fscanf(file, e)
      from(q) == IF q > Len(file) THEN <<>> ELSE read(q, word(q))
  IN  from(Min({j \in i..(Len(file) + 1) : j = Len(file) + 1 \/ ~isspace(file[j])}))

\* words[] and counts[].
tally(hist, word) ==
  IF \E i \in 1..Len(hist) : hist[i].word = word
  THEN [i \in 1..Len(hist) |->
          IF hist[i].word = word THEN [hist[i] EXCEPT !.count = @ + 1] ELSE hist[i]]
  ELSE Append(hist, [word |-> word, count |-> 1])

word_histogram(file) ==
  [total |-> FoldLeft(LAMBDA s, ch : count_char(s, ch),
                      [chars |-> 0, lines |-> 0, words |-> 0, in_word |-> FALSE], file),
   hist |-> FoldLeft(LAMBDA h, word : tally(h, tolower(word)), <<>>, fscanf(file, 1))]

---------------------------------------------------------------------------
(* searchtext.                                                             *)

\* Where word is in line, from offset p on.
strstr(line, word, p) ==
  {i \in p..(Len(line) - Len(word)) : SubSeq(line, i + 1, i + Len(word)) = word}

strcasestr_custom(line, word) == strstr(tolower(line), tolower(word), 0) # {}

RECURSIVE is_whole_word(_, _, _)
is_whole_word(line, word, p) ==
  LET alone(i) == /\ i = 0 \/ isspace(line[i])
                  /\ i + Len(word) = Len(line) \/ isspace(line[i + Len(word) + 1])
      found(i) == alone(i) \/ is_whole_word(line, word, i + 1)
  IN  strstr(line, word, p) # {} /\ found(Min(strstr(line, word, p)))

\* fgets: up to the newline, or as much as fits.
RECURSIVE fgets(_, _)
fgets(file, i) ==
  LET read(e) == <<SubSeq(file, i, e)>> \o fgets(file, e + 1)
  IN  IF i > Len(file) THEN <<>>
      ELSE read(Min({j \in i..Len(file) : j = Len(file) \/ j = i + LINE - 2 \/ file[j] = "n"}))

\* The lines written, with their numbers.
search_pattern_in_file(pattern, file, case_insensitive, word_only) ==
  LET matches(line) ==
        IF word_only THEN is_whole_word(line, pattern, 0)
        ELSE IF case_insensitive THEN strcasestr_custom(line, pattern)
        ELSE strstr(line, pattern, 0) # {}
      number(lines) == [i \in 1..Len(lines) |-> <<i, lines[i]>>]
  IN  SelectSeq(number(fgets(file, 1)), LAMBDA x : matches(x[2]))

---------------------------------------------------------------------------
(* What the programs should find.                                          *)

\* A word is a stretch q..e of characters between white space.
WordsIn(s) ==
  {w \in (1..Len(s)) \X (1..Len(s)) :
     /\ w[1] <= w[2] /\ \A i \in w[1]..w[2] : ~isspace(s[i])
     /\ w[1] = 1 \/ isspace(s[w[1] - 1])
     /\ w[2] = Len(s) \/ isspace(s[w[2] + 1])}

LineEnds(s) == {i \in 1..Len(s) : s[i] = "n"}

CountsRight(file, s) ==
  s.c = Len(file) /\ s.l = Cardinality(LineEnds(file)) /\ s.w = Cardinality(WordsIn(file))

\* The last word is not in the total unless white space follows it.  A word
\* longer than WORD counts as several.
HistogramRight(file, r) ==
  LET starts == {i \in 1..Len(file) : \E w \in WordsIn(file) :
                   i \in w[1]..w[2] /\ (i - w[1]) % WORD = 0}
      at(word) == {i \in starts : \E w \in WordsIn(file) :
                     /\ i \in w[1]..w[2]
                     /\ tolower(SubSeq(file, i, Min({w[2], i + WORD - 1}))) = word}
  IN  /\ r.total.words = Cardinality({w \in WordsIn(file) : w[2] < Len(file)})
      /\ r.total.chars = Len(file) /\ r.total.lines = Cardinality(LineEnds(file))
      /\ \A i \in 1..Len(r.hist) : r.hist[i].count = Cardinality(at(r.hist[i].word))
      /\ starts = UNION {at(r.hist[i].word) : i \in 1..Len(r.hist)}
      /\ \A i, j \in 1..Len(r.hist) : r.hist[i].word = r.hist[j].word => i = j

\* For a file whose lines all fit in the buffer: exactly the lines with the
\* pattern in them, or, with word_only, as a word, are found.
SearchRight(pattern, file, case_insensitive, word_only, found) ==
  LET stops == LineEnds(file) \cup {0, Len(file)}
      lines == {<<q, e>> \in stops \X stops : q < e /\ \A i \in (q + 1)..(e - 1) : i \notin stops}
      has(l) ==
        IF word_only
        THEN \E w \in WordsIn(l) : SubSeq(l, w[1], w[2]) = pattern
        ELSE \E i, j \in 1..Len(l) :
               \/ SubSeq(l, i, j) = pattern
               \/ case_insensitive /\ tolower(SubSeq(l, i, j)) = tolower(pattern)
      text(x) == SubSeq(file, x[1] + 1, x[2])
      number(x) == Cardinality({y \in lines : y[1] <= x[1]})
  IN  (\A x \in lines : x[2] - x[1] < LINE) =>
        ToSet(found) = {<<number(x), text(x)>> : x \in {y \in lines : has(text(y))}}

===========================================================================
