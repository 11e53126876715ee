------------------------------- MODULE Window -------------------------------
(***************************************************************************)
(* One window of the terminal client and the keys pressed in it:           *)
(* client/cli/source/NcWindow.cpp, BasicTab.cpp, InOutTab.cpp and          *)
(* ButtonTab.cpp, with the tabs of LoginWindow, GameWindow and             *)
(* ErrorWindow; PlayerCreateWindow is a login window with another button.  *)
(* InputTab and OutputTab say what the tabs do to themselves.  What is     *)
(* entered goes to the command pipe of Client, which also says when which  *)
(* window is shown.                                                        *)
(*                                                                         *)
(* A terminal of height 0 is too small to draw in: newwin fails, and all   *)
(* that was drawn is cleared.  A key then makes an input tab write before  *)
(* its buffer; as with what is written behind it, no more is claimed from  *)
(* there on.                                                               *)
(***************************************************************************)
EXTENDS InputTab, OutputTab

CONSTANTS
  Kinds,            \* the kinds of window looked at
  Letters,          \* what can be typed
  Hints,            \* the commands each tab suggests
  IsCommand(_, _),  \* whether a line is a command of a tab
  Heights,          \* how many rows a pane of such a window can have
  MaxTyped, MaxLines,  \* bounds on what is typed and shown in a window of each kind
  MaxHistory,          \* and on what is entered in a tab
  MayBeWide            \* the lines, by number, that may be too wide for a row

ASSUME WindowAssumption ==
  /\ Kinds \subseteq {"login", "game", "error"} /\ Letters \cup {Space} \subseteq DOMAIN Upper
  /\ Hints \in [{2, 3, 4} -> Seq(Seq(DOMAIN Upper))]
  /\ \A t \in {2, 3, 4} : \A i \in DOMAIN Hints[t] : Len(Hints[t][i]) < CMD_BUFFER_SIZE
  /\ Heights \in [Kinds -> SUBSET (Nat \ {0})] /\ MaxHistory \in Nat /\ MayBeWide \subseteq Nat
  /\ MaxTyped \in [Kinds -> Nat] /\ MaxLines \in [Kinds -> Nat]

VARIABLES
  kind,
  open,         \* shown; cleared: could not be drawn; left: another window is shown;
                \* closed and aborted: the client has ended
  tabs,         \* how many tabs the window has
  active,       \* activeTabIndex
  rowsHigh,     \* the terminal's height, as rows of a pane
  input,        \* the input tabs
  output,       \* the panes
  typed, lines  \* what has been typed, and shown, so far

vars == <<kind, open, tabs, active, rowsHigh, input, output, typed, lines>>

TabIndexes == {2, 3, 4}
tabsToSkip == {0, 1}   \* FRAME and INFO

Classes == [login |-> <<"input", "button", "button">>,    \* USERNAME, CREATE_PLAYER, CLOSE
            game |-> <<"output", "inout", "inout">>,      \* WORLD, CMD, CHAT
            error |-> <<"button", "button">>]             \* ACTION1, ACTION2
Class(t) == IF t \in tabsToSkip THEN "basic" ELSE Classes[kind][t - 1]

IsInput(t) == Class(t) \in {"input", "inout"}
IsOutput(t) == Class(t) \in {"output", "inout"}
Inputs == {t \in TabIndexes : t < tabs /\ IsInput(t)}
Outputs == {t \in TabIndexes : t < tabs /\ IsOutput(t)}

TypeOK ==
  /\ kind \in Kinds /\ open \in {"shown", "cleared", "left", "closed", "aborted"}
  /\ tabs \in {2, 3, 4, 5} /\ active \in 0..(tabs - 1) /\ rowsHigh \in Heights[kind] \cup {0}
  /\ open = "shown" => active \notin tabsToSkip
  /\ typed \in 0..MaxTyped[kind] /\ lines \in 0..MaxLines[kind]
  /\ \A t \in TabIndexes :
       /\ Len(input[t].commandBuffer) <= CMD_BUFFER_SIZE /\ input[t].x \in 0..(Width - 1)
       /\ ~input[t].odd => input[t].x <= Len(input[t].commandBuffer)
       /\ input[t].currentCommandIndex \in 0..Len(input[t].inputHistory)
       /\ input[t].suggestedHintIndexes # {} =>
            input[t].currentSuggestedIndex \in input[t].suggestedHintIndexes \cup {0}
       /\ output[t].topLineScroll \in 0..Len(output[t].state)

Init ==
  /\ kind \in Kinds /\ open = "left"
  /\ tabs = IF kind = "error" THEN 2 ELSE 5
  /\ active = CASE kind = "login" -> 2 [] kind = "game" -> 3 [] kind = "error" -> 0
  /\ rowsHigh \in Heights[kind]
  /\ input = [t \in TabIndexes |-> EmptyLine] /\ output = [t \in TabIndexes |-> NoLines]
  /\ typed = 0 /\ lines = 0

-----------------------------------------------------------------------------
(* Drawing *)

DrawTab(o, t, h) ==
  UpdateContent(IF Class(t) = "output" THEN DrawAtBottom(o, h) ELSE DrawInPlace(o, h))

Drawn(h) ==
  /\ input' = [t \in TabIndexes |-> IF t \in Inputs THEN WritePromptLine(input[t]) ELSE input[t]]
  /\ output' = [t \in TabIndexes |-> IF t \in Outputs THEN DrawTab(output[t], t, h) ELSE output[t]]

Cleared == output' = [t \in TabIndexes |-> Clear(output[t])] /\ UNCHANGED input

\* The error window gets its buttons, one when an error is shown already.
AdaptWinToError ==
  /\ \/ open = "left" /\ tabs' \in {3, 4}
     \/ open = "shown" /\ tabs' = 3
  /\ active' = 2

\* ErrorWindow::clear takes them away.
ButtonsErased == tabs' = 2 /\ active' = 0

\* switchWindow: the window is drawn, and cleared when that fails.  When the
\* error window does not fit the client ends, as nothing is left to catch that.
Show ==
  /\ IF kind = "error"
     THEN /\ AdaptWinToError /\ UNCHANGED <<input, output>>
          /\ open' = IF rowsHigh = 0 THEN "closed" ELSE "shown"
     ELSE /\ open = "left" /\ UNCHANGED <<tabs, active>>
          /\ IF rowsHigh = 0 THEN open' = "cleared" /\ Cleared ELSE open' = "shown" /\ Drawn(rowsHigh)
  /\ UNCHANGED <<kind, rowsHigh, typed, lines>>

\* The error window has lost its buttons when it is drawn again.
Resize(h) ==
  /\ rowsHigh' = h
  /\ CASE open = "left" -> UNCHANGED <<open, tabs, active, input, output>>
       [] open \in {"shown", "cleared"} /\ kind = "error" ->
            open' = "aborted" /\ ButtonsErased /\ UNCHANGED <<input, output>>
       [] open \in {"shown", "cleared"} /\ kind # "error" ->
            /\ IF h = 0 THEN open' = "cleared" /\ Cleared ELSE open' = "shown" /\ Drawn(h)
            /\ UNCHANGED <<tabs, active>>
       [] OTHER -> FALSE
  /\ UNCHANGED <<kind, typed, lines>>

\* Another window is shown; this one is cleared unless that is the error window.
Leave ==
  /\ open \in {"shown", "cleared"} /\ kind # "error" /\ open' = "left"
  /\ Cleared \/ UNCHANGED <<input, output>>
  /\ UNCHANGED <<kind, tabs, active, rowsHigh, typed, lines>>

-----------------------------------------------------------------------------
(* Keys *)

Edit(f(_, _)) == input' = [input EXCEPT ![active] = f(@, Hints[active])]

InputKey == open = "shown" /\ IsInput(active)

\* The client does not live on when an input tab has written outside of its buffer.
Survives == open' = IF input'[active].overrun THEN "aborted" ELSE open

EditKey ==
  /\ InputKey
  /\ \/ Edit(DeleteCharForward) \/ Edit(DeleteCharBack) \/ Edit(SuggestHint)
     \/ Edit(LAMBDA e, h : MoveCursorLeft(e)) \/ Edit(LAMBDA e, h : MoveCursorRight(e))
     \/ Edit(LAMBDA e, h : MoveStartLine(e)) \/ Edit(LAMBDA e, h : MoveEndLine(e))
  /\ Survives
  /\ UNCHANGED <<kind, tabs, active, rowsHigh, output, typed, lines>>

TypeChar(c) ==
  /\ InputKey /\ typed < MaxTyped[kind] /\ typed' = typed + 1
  /\ \E stale \in DOMAIN Upper : Edit(LAMBDA e, h : AppendInputChar(e, c, stale, h))
  /\ Survives
  /\ UNCHANGED <<kind, tabs, active, rowsHigh, output, lines>>

\* With nothing drawn wgetch fails, which an input tab takes for a character
\* to put in front of its buffer; the other tabs ignore it.
KeyInCleared ==
  /\ open = "cleared" /\ IsInput(active) /\ open' = "aborted"
  /\ UNCHANGED <<kind, tabs, active, rowsHigh, input, output, typed, lines>>

\* The arrow keys recall what was entered; above a pane they scroll it, since
\* the constructor of OutputTab comes after that of InputTab.
Recall ==
  /\ open = "shown" /\ Class(active) = "input"
  /\ Edit(LAMBDA e, h : ShowPrevious(e)) \/ Edit(LAMBDA e, h : ShowNext(e))
  /\ UNCHANGED <<kind, open, tabs, active, rowsHigh, output, typed, lines>>

Scroll ==
  /\ open = "shown" /\ IsOutput(active)
  /\ \/ output' = [output EXCEPT ![active] = ScrollContentUp(@)]
     \/ output' = [output EXCEPT ![active] = ScrollContentDown(@)]
  /\ UNCHANGED <<kind, open, tabs, active, rowsHigh, input, typed, lines>>

NewLines(k) == {l \in [1..k -> [n : (lines + 1)..(lines + k), wide : BOOLEAN]] :
                  \A i \in 1..k : l[i].n = lines + i /\ (l[i].wide => l[i].n \in MayBeWide)}

\* The pane above shows what was entered, and that it is no command.
EchoTo(o, ls) ==
  LET echo == AppendContent(o, <<ls[1]>>)
  IN  UpdateContent(IF Len(ls) = 1 THEN echo ELSE AppendContent(echo, <<ls[2]>>))

TerminateCommand ==
  /\ InputKey /\ input[active].commandBuffer # <<>>
  /\ Len(input[active].inputHistory) < MaxHistory
  /\ input' = [input EXCEPT ![active] = Entered(@)]
  /\ IF Class(active) = "input" THEN UNCHANGED <<output, lines>>
     ELSE LET k == IF IsCommand(input[active].commandBuffer, active) THEN 1 ELSE 2 IN
          /\ lines + k <= MaxLines[kind] /\ lines' = lines + k
          /\ \E ls \in NewLines(k) : output' = [output EXCEPT ![active] = EchoTo(@, ls)]
  /\ UNCHANGED <<kind, open, tabs, active, rowsHigh, typed>>

\* Lines of text from the server: an answer to the tab that asked, an event.
\* While another window is shown they are kept and not printed.
AppendLines(k) ==
  /\ kind = "game" /\ open \in {"shown", "cleared", "left"}
  /\ lines + k <= MaxLines[kind] /\ lines' = lines + k
  /\ \E t \in Outputs, ls \in NewLines(k) :
       LET more == [output EXCEPT ![t] = AppendContent(@, ls)] IN
       output' = IF open = "left" THEN more ELSE [s \in TabIndexes |-> UpdateContent(more[s])]
  /\ UNCHANGED <<kind, open, tabs, active, rowsHigh, input, typed>>

\* (bug) the tabs that take no input are not passed over
SwitchedAll == (active + 1) % tabs

Switched == (active + Min({i \in 1..tabs : (active + i) % tabs \notin tabsToSkip})) % tabs

\* Leaving and entering a tab writes its prompt anew.
Redrawn(ts) == [t \in TabIndexes |-> IF t \in ts \cap Inputs THEN WritePromptLine(input[t]) ELSE input[t]]

SwitchActiveTab ==
  /\ open = "shown" /\ active' = Switched /\ input' = Redrawn({active, active'})
  /\ UNCHANGED <<kind, open, tabs, rowsHigh, output, typed, lines>>

\* A button leads to another window or ends the client; pressed to make a new
\* character, the login window first goes back to the name.
PressButton ==
  /\ open = "shown" /\ Class(active) = "button"
  /\ \/ open' = "closed" /\ UNCHANGED <<tabs, active, input>>
     \/ /\ kind = "login" /\ active = 3 /\ open' = "left"
        /\ active' = 2 /\ input' = Redrawn({2}) /\ UNCHANGED tabs
     \/ kind = "error" /\ open' = "left" /\ ButtonsErased /\ UNCHANGED input
  /\ UNCHANGED <<kind, rowsHigh, output, typed, lines>>

-----------------------------------------------------------------------------

Next ==
  \/ Show \/ Leave
  \/ \E h \in Heights[kind] \cup {0} : Resize(h)
  \/ EditKey \/ KeyInCleared \/ Recall \/ Scroll \/ TerminateCommand
  \/ \E c \in Letters : TypeChar(c)
  \/ \E k \in {1, 2} : AppendLines(k)
  \/ SwitchActiveTab \/ PressButton

Spec == Init /\ [][Next]_vars

-----------------------------------------------------------------------------
(* What somebody at the terminal relies on *)

Known(t) == {Append(Hints[t][i], Space) : i \in DOMAIN Hints[t]}

Editors == INSTANCE LineEditor WITH
  Fields <- TabIndexes,
  text <- [t \in TabIndexes |-> input[t].commandBuffer],
  pos <- [t \in TabIndexes |-> input[t].x],
  aside <- [t \in TabIndexes |-> input[t].tmpCommandBuffer],
  memory <- [t \in TabIndexes |-> Known(t) \cup Range(input[t].inputHistory)],
  odd <- [t \in TabIndexes |-> input[t].odd],
  Chars <- Letters, OddChars <- Odd, Suggestions <- [t \in TabIndexes |-> Known(t)], Columns <- Width

\* Every input tab is an editor of lines, whatever else the window does
\* meanwhile: the cursor of the ncurses window, which the code computes the place
\* in its buffer from (InputTab.cpp, getyx), and the buffer part by nothing but
\* characters that are not shown in one column, and meet again when a line
\* without them is written.
ImplementsEditor == Editors!Spec

\* What stands behind the prompt is the line that Enter will send: the deletions,
\* which change window and buffer separately, keep the two the same, as long as
\* each character has its column.
ScreenIsLine ==
  open = "shown" =>
    \A t \in Inputs :
      ~input[t].cut /\ ~input[t].odd => input[t].drawn = input[t].commandBuffer

\* "Other keyboard cursor manipulations (del, backspace, ...) work as in a normal
\* terminal" (README.md:169): whatever is in the line, the client goes on after
\* them.  It does not after a deletion with the cursor right of the line's end.
EditingGoesOn == [][EditKey => open' = "shown"]_vars

\* The rows of a pane are the lines from topLineScroll on, after any mixture of
\* scrolling, new lines and resizing, as long as no line is too wide.
RowsShowContent ==
  open = "shown" =>
    \A t \in Outputs :
      (\A i \in DOMAIN output[t].state : ~output[t].state[i].wide) =>
        \A i \in DOMAIN output[t].rows :
          LET k == output[t].topLineScroll + i
          IN  output[t].rows[i] = IF k <= Len(output[t].state) THEN output[t].state[k] ELSE Blank

\* "segui il fondo solo se l'utente non ha scrollato verso l'alto": the newest
\* event can be seen unless the user has gone up (OutputTab::appendContent).
NewestShown ==
  open = "shown" =>
    \A t \in Outputs : Class(t) = "output" /\ ~output[t].scrolled /\ output[t].state # <<>> =>
      \E i \in DOMAIN output[t].rows : output[t].rows[i].n = Last(output[t].state).n
=============================================================================
