------------------------------ MODULE InputTab ------------------------------
(***************************************************************************)
(* The line a user of the terminal client types: client/cli/source/        *)
(* InputTab.cpp.  A tab is a record and every method an operator that      *)
(* returns the next one.  A buffer and its size are one sequence; an index *)
(* counts from 1 and 0 is none, where the code counts from 0 and -1 is     *)
(* none.  The cursor is that of the ncurses window, counted from the end   *)
(* of the prompt; `drawn' is what the window shows there.  Width is the    *)
(* room for it: the window is one line that does not scroll, so that what  *)
(* does not fit is not drawn and the cursor stays in the last column.      *)
(*                                                                         *)
(* Every key that is bound to nothing is put into the line, and the column *)
(* of the cursor is taken for the place in the buffer.  A key that is not  *)
(* shown in one column (^[, a tab, half of a letter of two bytes) parts    *)
(* the two.  Right of the end of the line a character is then written      *)
(* where it does not belong to it, and a deletion moves a negative number  *)
(* of bytes, which no program survives.                                    *)
(*                                                                         *)
(* suggestedHintIndexes goes up, and is a set here; currentSuggestedIndex  *)
(* is the element of it shown last, not its place.                         *)
(*                                                                         *)
(* suggestPrevious and suggestNext, which nothing calls, and the flag      *)
(* autocompleteMode, which only they read, are left out.                   *)
(***************************************************************************)
EXTENDS Naturals, Sequences, SequencesExt

CONSTANTS
  CMD_BUFFER_SIZE,
  Width,
  Space,         \* what a suggested command is followed by
  Upper,         \* toupper: the characters in capitals
  Odd,           \* the characters that are not shown in one column
  ColumnsOf(_)   \* how many columns waddnstr shows a line in

ASSUME InputTabAssumption ==
  /\ CMD_BUFFER_SIZE \in Nat \ {0} /\ Width \in Nat \ {0}
  /\ \A c \in DOMAIN Upper : Upper[c] \in DOMAIN Upper /\ Upper[Upper[c]] = Upper[c]
  /\ \A n \in 0..CMD_BUFFER_SIZE : \A line \in [1..n -> DOMAIN Upper] :
       /\ ColumnsOf(line) \in Nat
       /\ (\A i \in 1..n : line[i] \notin Odd) => ColumnsOf(line) = n

\* InputTab::InputTab
EmptyLine ==
  [commandBuffer |-> <<>>, tmpCommandBuffer |-> <<>>, x |-> 0, drawn |-> <<>>,
   inputHistory |-> <<>>, suggestedHintIndexes |-> {},
   currentCommandIndex |-> 0, currentSuggestedIndex |-> 0,
   overrun |-> FALSE,   \* written outside of the buffer
   cut |-> FALSE,       \* history: the line did not fit when it was written last
   odd |-> FALSE]       \* history: and it had an odd character in it

bufferSize(e) == Len(e.commandBuffer)
\* mvwdelch: what is right of the column moves one to the left.
Erase(s, i) == IF i <= Len(s) THEN RemoveAt(s, i) ELSE s
FirstN(s, n) == SubSeq(s, 1, IF n < Len(s) THEN n ELSE Len(s))

\* ncurses: a position outside of the window leaves the cursor where it is.
Wmove(e, x) == IF x < Width THEN [e EXCEPT !.x = x] ELSE e

HasOdd(line) == \E i \in DOMAIN line : line[i] \in Odd

\* What the window shows of a line with odd characters is left open.
WritePromptLine(e) ==
  LET columns == ColumnsOf(e.commandBuffer) IN
  [e EXCEPT !.drawn = FirstN(e.commandBuffer, Width), !.cut = bufferSize(e) > Width,
            !.odd = HasOdd(e.commandBuffer),
            !.x = IF columns < Width THEN columns ELSE Width - 1]

ClearHints(e) == [e EXCEPT !.suggestedHintIndexes = {}, !.currentCommandIndex = 0]

\* A hint is offered when it and the line agree as far as the shorter goes.
Fits(hint, line) ==
  \A j \in 1..Len(hint) : j <= Len(line) => hint[j] = Upper[line[j]]

UpdateHints(e, hints) ==
  [e EXCEPT !.suggestedHintIndexes = {i \in 1..Len(hints) : Fits(hints[i], e.commandBuffer)},
            !.currentSuggestedIndex = 0]

AfterDelete(e, hints) == IF bufferSize(e) = 0 THEN ClearHints(e) ELSE UpdateHints(e, hints)

\* (bug) the window keeps the character
DeleteCharForwardUnseen(e, hints) ==
  IF e.x >= bufferSize(e) THEN e
  ELSE AfterDelete([e EXCEPT !.commandBuffer = RemoveAt(@, e.x + 1)], hints)

DeleteCharForward(e, hints) ==
  IF e.x = bufferSize(e) THEN e
  ELSE IF e.x > bufferSize(e) THEN [e EXCEPT !.overrun = TRUE]
  ELSE AfterDelete([e EXCEPT !.commandBuffer = RemoveAt(@, e.x + 1),
                             !.drawn = Erase(@, e.x + 1)], hints)

\* (bug) the character under the cursor instead of the one before it
DeleteCharBackUnder(e, hints) ==
  IF e.x = 0 \/ e.x > bufferSize(e) THEN e
  ELSE AfterDelete([e EXCEPT !.commandBuffer = RemoveAt(@, IF e.x < Len(@) THEN e.x + 1 ELSE e.x),
                             !.drawn = Erase(@, e.x), !.x = @ - 1], hints)

DeleteCharBack(e, hints) ==
  IF e.x = 0 THEN e
  ELSE IF e.x > bufferSize(e) THEN [e EXCEPT !.overrun = TRUE]
  ELSE AfterDelete([e EXCEPT !.commandBuffer = RemoveAt(@, e.x),
                             !.drawn = Erase(@, e.x), !.x = @ - 1], hints)

MoveCursorLeft(e) == IF e.x > 0 THEN Wmove(e, e.x - 1) ELSE e
MoveCursorRight(e) == IF e.x < bufferSize(e) THEN Wmove(e, e.x + 1) ELSE e
MoveStartLine(e) == Wmove(e, 0)
MoveEndLine(e) == Wmove(e, bufferSize(e))

\* The line typed last is kept aside, the commands offered come one after the
\* other, and after the last one it is back.
SuggestHint(e, hints) ==
  LET first == e.currentSuggestedIndex = 0
      kept == IF first THEN [e EXCEPT !.tmpCommandBuffer = e.commandBuffer] ELSE e
      more == {i \in e.suggestedHintIndexes : i > e.currentSuggestedIndex}
  IN  IF e.suggestedHintIndexes = {} THEN e
      ELSE IF more # {}
      THEN WritePromptLine([kept EXCEPT !.commandBuffer = Append(hints[Min(more)], Space),
                                        !.currentSuggestedIndex = Min(more)])
      ELSE WritePromptLine([e EXCEPT !.commandBuffer = e.tmpCommandBuffer,
             !.currentSuggestedIndex = 0, !.tmpCommandBuffer = <<>>])

ShowPrevious(e) ==
  LET kept == IF e.currentCommandIndex = 0 THEN [e EXCEPT !.tmpCommandBuffer = e.commandBuffer] ELSE e
      older == e.currentCommandIndex + 1
  IN  IF older > Len(e.inputHistory) THEN e
      ELSE WritePromptLine([kept EXCEPT !.commandBuffer = e.inputHistory[older],
                                        !.currentCommandIndex = older])

ShowNext(e) ==
  IF e.currentCommandIndex <= 1
  THEN WritePromptLine([e EXCEPT !.commandBuffer = e.tmpCommandBuffer,
                                 !.currentCommandIndex = 0, !.tmpCommandBuffer = <<>>])
  ELSE WritePromptLine([e EXCEPT !.commandBuffer = e.inputHistory[e.currentCommandIndex - 1],
                                 !.currentCommandIndex = @ - 1])

\* A full buffer is written behind its end, into the members that follow it:
\* nothing is said of the tab after that.  The cursor goes back to its place
\* only when it was not at the end.  Right of the end, the line gets one
\* character longer by what happened to be in the buffer there.
AppendInputChar(e, c, stale, hints) ==
  LET size == bufferSize(e)
      Typed(line) == WritePromptLine(UpdateHints([e EXCEPT !.commandBuffer = line], hints))
  IN  IF size >= CMD_BUFFER_SIZE \/ e.x >= CMD_BUFFER_SIZE THEN [e EXCEPT !.overrun = TRUE]
      ELSE IF e.x < size THEN Wmove(Typed(InsertAt(e.commandBuffer, e.x + 1, c)), e.x + 1)
      ELSE Typed(Append(e.commandBuffer, IF e.x = size THEN c ELSE stale))

\* What is left of a line that has been entered.
Entered(e) ==
  WritePromptLine(ClearHints([e EXCEPT !.inputHistory = <<e.commandBuffer>> \o @,
                                       !.commandBuffer = <<>>]))
=============================================================================
