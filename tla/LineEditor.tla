----------------------------- MODULE LineEditor -----------------------------
(***************************************************************************)
(* What somebody who types into the fields of a form expects of each: a    *)
(* character goes where the cursor is and the cursor goes on, the two      *)
(* delete keys take one away, and the cursor keys change nothing.  Enter   *)
(* empties the line and remembers it.  A line that was suggested or        *)
(* entered before can take the place of the one that is typed, which is    *)
(* then kept aside or, when another one is aside already, lost.  The line  *)
(* aside can be taken back at any time, which loses the one that is typed: *)
(* with nothing aside, the key that goes down in the history erases it.    *)
(*                                                                         *)
(* Out of this promise are lines as long as the window is wide (Columns is *)
(* the first such length), and lines with odd characters, those that are   *)
(* not shown in one column, until such a line is written anew without.     *)
(***************************************************************************)
EXTENDS Naturals, Sequences, SequencesExt

CONSTANTS
  Fields,
  Chars,       \* what can be typed
  OddChars,    \* of these, what is not shown in one column
  Suggestions, \* the lines that each field knows from the start
  Columns

VARIABLES
  text, pos,   \* the line of each field, and how many of its characters are left of the cursor
  aside,       \* the line kept aside
  memory,      \* the lines that can be recalled
  odd          \* the line is, or was until it is written again, one with odd characters

vars == <<text, pos, aside, memory, odd>>

Init ==
  /\ text = [f \in Fields |-> <<>>]
  /\ pos = [f \in Fields |-> 0]
  /\ aside = [f \in Fields |-> <<>>]
  /\ memory = Suggestions
  /\ odd = [f \in Fields |-> FALSE]

Insert(f, c) ==
  /\ pos[f] <= Len(text[f])
  /\ text'[f] = InsertAt(text[f], pos[f] + 1, c) /\ pos'[f] = pos[f] + 1

DeleteForward(f) ==
  pos[f] < Len(text[f]) /\ text'[f] = RemoveAt(text[f], pos[f] + 1) /\ pos'[f] = pos[f]

DeleteBack(f) ==
  pos[f] \in DOMAIN text[f] /\ text'[f] = RemoveAt(text[f], pos[f]) /\ pos'[f] = pos[f] - 1

Move(f) == text'[f] = text[f] /\ pos'[f] \in 0..Len(text[f])

Enter(f) ==
  /\ text[f] # <<>> /\ text'[f] = <<>> /\ pos'[f] = 0
  /\ memory'[f] = memory[f] \cup {text[f]} /\ aside'[f] = aside[f]

Recall(f) ==
  text'[f] \in memory[f] /\ pos'[f] = Len(text'[f]) /\ aside'[f] \in {aside[f], text[f]}

TakeBack(f) == text'[f] = aside[f] /\ pos'[f] = Len(text'[f]) /\ aside'[f] = <<>>

TooLong(f) == Len(text[f]) >= Columns \/ Len(text'[f]) >= Columns

OddLine(f) == (odd[f] \/ odd'[f]) /\ (odd'[f] \/ pos'[f] <= Len(text'[f]))

HasOdd(line) == \E i \in DOMAIN line : line[i] \in OddChars

Edit(f) ==
  /\ odd'[f] => odd[f] \/ HasOdd(text'[f])
  /\ \/ Enter(f)
     \/ /\ memory'[f] = memory[f]
        /\ \/ /\ aside'[f] = aside[f]
              /\ (\E c \in Chars : Insert(f, c)) \/ DeleteForward(f) \/ DeleteBack(f) \/ Move(f)
           \/ Recall(f) \/ TakeBack(f)
           \/ TooLong(f) \/ OddLine(f)

Next == \A f \in Fields : Edit(f)

Spec == Init /\ [][Next]_vars
=============================================================================
