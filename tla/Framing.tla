------------------------------- MODULE Framing -------------------------------
(***************************************************************************)
(* What a client may rely on when it writes to the server: what it sends   *)
(* is taken line by line, in order, each line once and whole, and the      *)
(* connection is closed on it for a reason only.                           *)
(***************************************************************************)
EXTENDS Naturals, Sequences

CONSTANTS Bytes, Newline, Return,
          Limit   \* the longest line a client may always send

VARIABLES
  open, ended,  \* the connection; whether the client has ended it
  pending,      \* what the client has sent and the server has not taken
  line,         \* the line last taken
  quit          \* no more is taken: the client has asked to go, or is gone

vars == <<open, ended, pending, line, quit>>

Init == open = FALSE /\ ended = TRUE /\ pending = <<>> /\ line = <<>> /\ quit = TRUE

IsLine(n) == n \in DOMAIN pending /\ pending[n] = Newline /\ \A i \in 1..n-1 : pending[i] # Newline

\* A line may end in a carriage return as well.
Stripped(l) == IF l # <<>> /\ l[Len(l)] = Return THEN SubSeq(l, 1, Len(l) - 1) ELSE l

Connect ==
  /\ ~open /\ open' /\ ~ended' /\ pending' = <<>> /\ line' = <<>> /\ ~quit'

Send(b) ==
  /\ open /\ ~ended /\ pending' = Append(pending, b)
  /\ UNCHANGED <<open, ended, line, quit>>

\* What was on its way may be lost.
End ==
  /\ ~ended /\ ended' /\ \E n \in 0..Len(pending) : pending' = SubSeq(pending, 1, n)
  /\ UNCHANGED <<open, line, quit>>

Take ==
  /\ open /\ ~quit
  /\ \E n \in DOMAIN pending :
       /\ IsLine(n) /\ line' = Stripped(SubSeq(pending, 1, n - 1))
       /\ pending' = SubSeq(pending, n + 1, Len(pending))
  /\ UNCHANGED <<open, ended, quit>>

Quit == open /\ line # <<>> /\ ~quit /\ quit' /\ UNCHANGED <<open, ended, pending, line>>

\* Never on an idle client, nor on one with a line of at most Limit bytes to take.
Close ==
  /\ open /\ ~open' /\ ended' /\ pending' = <<>> /\ quit' /\ UNCHANGED line
  /\ \/ quit
     \/ ended /\ ~\E n \in DOMAIN pending : IsLine(n)
     \/ pending # <<>> /\ ~\E n \in DOMAIN pending : n <= Limit + 1 /\ IsLine(n)

Next == Connect \/ End \/ Take \/ Quit \/ Close \/ \E b \in Bytes : Send(b)

Spec == Init /\ [][Next]_vars
=============================================================================
