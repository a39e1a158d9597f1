-------------------------------- MODULE Wrap --------------------------------
(***************************************************************************)
(* How the terminal breaks a message that is too wide into lines           *)
(* (ui/term.go, logs) and which part of the input line it shows (Flush).   *)
(* A text is a sequence of characters; what counts of each is how many     *)
(* bytes and how many columns it takes. Colours and images are left out.   *)
(***************************************************************************)
EXTENDS Integers, Sequences, SequencesExt

Char(name, bytes, cols) == [name |-> name, bytes |-> bytes, cols |-> cols]

Space  == Char("space", 1, 1)
Hyphen == Char("hyphen", 1, 1)

width(text)   == FoldLeft(LAMBDA n, c : n + c.cols, 0, text)
ByteLen(text) == FoldLeft(LAMBDA n, c : n + c.bytes, 0, text)

\* Characters from..to-1, counted from 0 as the code does.
Slice(text, from, to) == SubSeq(text, from + 1, to)

\* The columns before the message: the meta column, its split and a space.
Margin(metaWidth) == IF metaWidth = 0 THEN 0 ELSE (metaWidth + 1) + 2

\* What is left for the message when it has to be broken.
maxw(w, metaWidth) == w - (IF metaWidth = 0 THEN 0 ELSE metaWidth + 1) - 2

\* Mutant: the line with a hyphen leaves out the two characters it is cut by.
TurnLosing(text, edge, st, ix) ==
  LET cwidth    == st.cwidth + text[ix + 1].cols
      lastSpace == IF text[ix + 1] = Space THEN ix ELSE st.lastSpace
  IN  IF cwidth < edge
      THEN [st EXCEPT !.cwidth = cwidth, !.lastSpace = lastSpace]
      ELSE IF lastSpace > st.lastCut
      THEN [lines     |-> Append(st.lines, Slice(text, st.lastCut, lastSpace)),
            cwidth    |-> width(Slice(text, lastSpace, ix)),
            lastSpace |-> lastSpace,
            lastCut   |-> lastSpace + 1]
      ELSE [lines     |-> Append(st.lines, Append(Slice(text, st.lastCut, ix - 2), Hyphen)),
            cwidth    |-> 1,
            lastSpace |-> lastSpace,
            lastCut   |-> ix]

\* One turn of the loop over the characters: at the right edge the line ends
\* before the last space, or else two characters back with a hyphen.
Turn(text, edge, st, ix) ==
  LET cwidth    == st.cwidth + text[ix + 1].cols
      lastSpace == IF text[ix + 1] = Space THEN ix ELSE st.lastSpace
  IN  IF cwidth < edge
      THEN [st EXCEPT !.cwidth = cwidth, !.lastSpace = lastSpace]
      ELSE IF lastSpace > st.lastCut
      THEN [lines     |-> Append(st.lines, Slice(text, st.lastCut, lastSpace)),
            cwidth    |-> width(Slice(text, lastSpace, ix)),
            lastSpace |-> lastSpace,
            lastCut   |-> lastSpace + 1]
      ELSE [lines     |-> Append(st.lines, Append(Slice(text, st.lastCut, ix - 2), Hyphen)),
            cwidth    |-> width(Slice(text, ix - 2, ix)) + 1,
            lastSpace |-> lastSpace,
            lastCut   |-> ix - 2]

\* The rest goes on a last line if the position of the last cut, in bytes, is
\* before the end of the message, in columns.
HasTail(text, lastCut) == ByteLen(SubSeq(text, 1, lastCut)) < width(text)

logs(text, w, metaWidth) ==
  LET edge == maxw(w, metaWidth)
      end  == FoldLeft(LAMBDA st, ix : Turn(text, edge, st, ix),
                       [lines |-> <<>>, cwidth |-> 0, lastSpace |-> 0, lastCut |-> 0],
                       [i \in 1..Len(text) |-> i - 1])
  IN  IF Margin(metaWidth) + width(text) <= w \/ edge <= 8
      THEN <<text>>
      ELSE end.lines \o IF HasTail(text, end.lastCut)
                        THEN <<SubSeq(text, end.lastCut + 1, Len(text))>> ELSE <<>>

\* Mutant: the line starts exactly off columns in, in a wide character or not.
ShownSplit(input, cursorcol, max) ==
  LET col == width(SubSeq(input, 1, cursorcol))
      off == IF col > max THEN col - max ELSE 0
  IN  [text |-> SubSeq(input, off + 1, Len(input)), before |-> SubSeq(input, off + 1, cursorcol),
       cursor |-> IF col > max THEN max ELSE col]

\* The part of the input line that fits into max columns, and the column of
\* the cursor in it: the line starts with the first character from which on
\* the cursor fits, and ends before the first that does not.
Shown(input, cursorcol, max) ==
  LET col  == width(SubSeq(input, 1, cursorcol))
      off  == IF col > max THEN col - max ELSE 0
      Upto(i) == width(SubSeq(input, 1, i))
      from == {i \in 1..Len(input) : Upto(i - 1) >= off}
      past == {i \in 1..Len(input) : Upto(i) > max + off}
      First(S) == CHOOSE i \in S : \A j \in S : i <= j
      lo   == IF from = {} THEN Len(input) + 1 ELSE First(from)
      hi   == IF past = {} THEN Len(input) ELSE First(past) - 1
  IN  [text   |-> SubSeq(input, lo, hi),
       before |-> SubSeq(input, lo, cursorcol),
       cursor |-> (IF col > max THEN max ELSE col) + (IF from = {} THEN 0 ELSE off - Upto(lo - 1))]
=============================================================================
