----------------------------- MODULE OutputTab ------------------------------
(***************************************************************************)
(* A pane of lines that scrolls: client/cli/source/OutputTab.cpp.  A tab   *)
(* is a record and every method an operator that returns the next one.     *)
(* rows is what its ncurses window shows, as many as the window is high.   *)
(* A line is wide when it does not fit into a row: ncurses goes on in the  *)
(* next row, and scrolls the window when there is none.                    *)
(***************************************************************************)
EXTENDS Naturals, Sequences, SequencesExt

Blank == [n |-> 0, wide |-> FALSE]
Rest(l) == [n |-> l.n, wide |-> FALSE]

NoLines == [state |-> <<>>, topLineScroll |-> 0, rows |-> <<>>,
            scrolled |-> FALSE]   \* history: the user has gone up and not down again

height(o) == Len(o.rows)
Blanks(h) == [i \in 1..h |-> Blank]
AtBottom(o) == o.topLineScroll + height(o) >= Len(o.state)
LastLines(o) == IF Len(o.state) > height(o) THEN Len(o.state) - height(o) ELSE 0

\* printLine into row i (from 1).
PrintLine(rows, i, l) ==
  IF ~l.wide THEN [rows EXCEPT ![i] = l]
  ELSE IF i < Len(rows) THEN [rows EXCEPT ![i] = l, ![i + 1] = Rest(l)]
  ELSE Append(Tail([rows EXCEPT ![i] = l]), Rest(l))

\* nLinesToPrint
Printed(o) ==
  LET remaining == IF Len(o.state) > o.topLineScroll THEN Len(o.state) - o.topLineScroll ELSE 0
  IN  IF remaining < height(o) THEN remaining ELSE height(o)

\* printLine in one row after the other: it clears its row first, so that of
\* all the lines that are too wide the last one alone is seen to go on.
UpdateContent(o) ==
  LET n == Printed(o)
      lines == [i \in 1..height(o) |->
                  IF i <= n THEN o.state[o.topLineScroll + i] ELSE o.rows[i]]
  IN  IF n = 0 THEN o ELSE [o EXCEPT !.rows = PrintLine(lines, n, lines[n])]

\* (bug) the lines are added without a look at where the window was
AppendContentStay(o, lines) == [o EXCEPT !.state = @ \o lines]

\* Goes to the new bottom if it was at the old one and there is a window.
AppendContent(o, lines) ==
  LET more == [o EXCEPT !.state = @ \o lines]
  IN  IF height(o) > 0 /\ AtBottom(o) THEN [more EXCEPT !.topLineScroll = LastLines(more)] ELSE more

\* (bug) the row that is uncovered keeps the line that was there
ScrollContentUpBare(o) ==
  IF o.topLineScroll = 0 THEN o
  ELSE [o EXCEPT !.topLineScroll = @ - 1, !.scrolled = TRUE,
                 !.rows = <<Head(@)>> \o Front(@)]

ScrollContentUp(o) ==
  IF o.topLineScroll = 0 THEN o
  ELSE [o EXCEPT !.topLineScroll = @ - 1, !.scrolled = TRUE,
                 !.rows = PrintLine(<<Blank>> \o Front(@), 1, o.state[o.topLineScroll])]

ScrollContentDown(o) ==
  IF AtBottom(o) THEN o
  ELSE LET down == [o EXCEPT !.topLineScroll = @ + 1,
                 !.rows = PrintLine(Append(Tail(@), Blank), height(o),
                                    o.state[o.topLineScroll + 1 + height(o)])]
       IN  [down EXCEPT !.scrolled = ~AtBottom(down)]

\* Drawn anew in a window h rows high, the pane of events goes to its bottom;
\* the pane above an input line (InOutTab::draw) keeps its place.
DrawAtBottom(o, h) ==
  LET blank == [o EXCEPT !.rows = Blanks(h)]
  IN  [blank EXCEPT !.topLineScroll = LastLines(blank), !.scrolled = FALSE]

DrawInPlace(o, h) == [o EXCEPT !.rows = Blanks(h)]

Clear(o) == [o EXCEPT !.rows = <<>>]
=============================================================================
