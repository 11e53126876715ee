------------------------------ MODULE ClientUI ------------------------------
(***************************************************************************)
(* What a client's user interface does with its own state when a command   *)
(* is entered, a line comes in or something fails: client/shared/source/   *)
(* UI.cpp as the terminal client (cli/source/CLI.cpp) runs it.  The state  *)
(* is a record `a' and every method is an operator that returns the next   *)
(* one, so that a call of another method is an application.  Which thread  *)
(* calls what and when is Client's subject.                                *)
(*                                                                         *)
(* A command is its type and a serial number.  COMMAND stands for every    *)
(* command of the game window but QUIT, SAYQUIT for one whose text         *)
(* contains that word.  Windows are what the user can press: lost offers   *)
(* to reconnect, unknown and inuse another name, server the way back,      *)
(* other and double only the end.                                          *)
(***************************************************************************)
EXTENDS Naturals, Sequences

Phases == {"ND", "LOGIN", "PLAYER_CREATE", "GAME", "ERROR"}
Windows == {"none", "lost", "unknown", "inuse", "server", "other", "double"}
Typed == {"COMMAND", "SAYQUIT", "QUIT"}
CommandTypes == Typed \cup {"WAIT_HANDSHAKE", "CONNECT", "CREATE_PLAYER", "PROFILE"}

NoCommand == [type |-> "none", n |-> 0]
Line(kind, to) == [kind |-> kind, to |-> to]
Responses == {"hello", "connected", "ok"}
Refusals == {"unknown", "inuse", "refused"}

\* UI::UI, and UI::start once the worker runs
Fresh == [phase |-> "ND", lastPhase |-> "ND", window |-> "none",
          connEstablished |-> FALSE, keyboard |-> FALSE, named |-> FALSE, speaking |-> FALSE,
          commandQueue |-> <<>>, pushed |-> 0]

Push(a, type) ==
  [a EXCEPT !.commandQueue = Append(@, [type |-> type, n |-> a.pushed + 1]),
            !.pushed = @ + 1]
Pop(a) == [a EXCEPT !.commandQueue = Tail(@)]
Speak(a) == [a EXCEPT !.speaking = TRUE]
Pending(a) == a.commandQueue # <<>>
Current(a) == IF Pending(a) THEN Head(a.commandQueue) ELSE NoCommand

\* updatePhase throws unless a window may be shown without a connection.
MayShow(a, new) == a.connEstablished \/ new \in {"LOGIN", "ERROR"}

UpdatePhase(a, new) ==
  [a EXCEPT !.lastPhase = IF new = "ERROR" THEN a.phase
                          ELSE IF a.phase # "ERROR" THEN "ND" ELSE @,
            !.speaking = @ /\ new # "ERROR",
            !.phase = new]

SwitchWindow(a, new) ==
  IF new = "GAME" THEN Push(UpdatePhase(a, new), "PROFILE") ELSE UpdatePhase(a, new)

\* Without an argument: the window shown before the error.
Restore(a) == SwitchWindow(a, a.lastPhase)

\* (bug) the connection still counts as established
HandleExceptionConnected(a, code) ==
  SwitchWindow([a EXCEPT !.window = IF a.phase = "ERROR" THEN "double" ELSE code,
                         !.commandQueue = IF code = "lost" THEN <<[type |-> "WAIT_HANDSHAKE", n |-> 0]>>
                                          ELSE @],
               "ERROR")

HandleException(a, code) ==
  LET shown == [a EXCEPT !.window = IF a.phase = "ERROR" THEN "double" ELSE code]
      wait == [type |-> "WAIT_HANDSHAKE", n |-> 0]
  IN  SwitchWindow(IF code # "lost" THEN shown
                   ELSE [shown EXCEPT !.commandQueue = <<wait>>, !.connEstablished = FALSE],
                   "ERROR")

ShakeHands(a) ==
  LET b == [a EXCEPT !.connEstablished = TRUE, !.keyboard = TRUE] IN
  CASE a.phase = "ND" -> SwitchWindow(b, "LOGIN")
    [] a.phase = "ERROR" /\ a.named -> Speak(Push(b, "CONNECT"))
    [] a.phase = "ERROR" /\ ~a.named -> Restore(b)

\* What the dispatcher of the phase does with an OK line.  Only an answer to
\* PROFILE is sure to bring the player's name.
Response(a, l) ==
  CASE a.phase = "ND" -> IF l.kind = "hello" THEN {ShakeHands(a)} ELSE {a}
    [] a.phase \in {"LOGIN", "PLAYER_CREATE"} ->
         IF l.kind = "connected" THEN {SwitchWindow(a, "GAME")} ELSE {a}
    [] a.phase = "GAME" ->
         IF Current(a).type = "PROFILE"
         THEN {[a EXCEPT !.named = b] : b \in IF l.to.type = "PROFILE" THEN {TRUE} ELSE BOOLEAN}
         ELSE {a}
    [] a.phase = "ERROR" ->
         CASE Current(a).type = "WAIT_HANDSHAKE" -> {ShakeHands(a)}
           [] Current(a).type = "CONNECT" -> {Restore(a)}
           [] OTHER -> {a}

\* What is left of the queue: an answer, good or bad, is for its first command.
Dispatched(a, l) ==
  CASE l.kind \in Responses /\ Pending(a) -> {Pop(b) : b \in Response(a, l)}
    [] l.kind \in Refusals /\ Pending(a) -> {Pop(a)}
    [] OTHER -> {a}

\* The lines that raise an exception, and the window it leads to.
Raises(a, l) ==
  \/ l.kind = "lost"
  \/ l.kind \in Refusals /\ Pending(a) /\ a.phase \in {"LOGIN", "PLAYER_CREATE", "ERROR"}

Raised(a, l) ==
  CASE l.kind = "lost" -> "lost"
    [] a.phase = "LOGIN" /\ l.kind = "unknown" -> "unknown"
    [] a.phase = "PLAYER_CREATE" /\ l.kind = "inuse" -> "inuse"
    [] OTHER -> "server"

\* The lines that fail an assertion: there is no window to go back to, or the
\* game window has no panel for the command.
Fails(a, l) ==
  /\ Pending(a)
  /\ \/ /\ l.kind \in Responses /\ a.phase = "ERROR" /\ a.lastPhase = "ND"
        /\ \/ Current(a).type = "WAIT_HANDSHAKE" /\ ~a.named
           \/ Current(a).type = "CONNECT"
     \/ /\ l.kind \in Responses /\ a.phase = "GAME"
        /\ Current(a).type \notin Typed \cup {"PROFILE"}
     \/ l.kind \in Refusals /\ a.phase = "GAME" /\ Current(a).type \notin Typed

\* handleCommand: at the login a name replaces the request that is pending.
Request(a, type) ==
  LET b == Push(IF Pending(a) THEN Pop(a) ELSE a, type)
  IN  IF Len(b.commandQueue) = 1 THEN Speak(b) ELSE b

\* (bug) without waiting for the answer to the command before
EnqueueAtOnce(a, type) == Speak(Push(a, type))

Enqueue(a, type) ==
  LET b == Push(a, type)
  IN  IF Len(b.commandQueue) = 1 THEN Speak(b) ELSE b

HandleCommand(a, input) ==
  CASE a.phase = "LOGIN" -> Request(a, "CONNECT")
    [] a.phase = "PLAYER_CREATE" -> Request(a, "CREATE_PLAYER")
    [] a.phase \in {"GAME", "ERROR"} /\ input = "name" -> HandleException(a, "other")
    [] a.phase \in {"GAME", "ERROR"} /\ input # "name" -> Enqueue(a, input)

\* Where each button of the window leads.
Doors(a) ==
  CASE a.phase = "LOGIN" -> {"PLAYER_CREATE"}
    [] a.phase = "PLAYER_CREATE" -> {"LOGIN"}
    [] a.phase = "ERROR" /\ a.window = "unknown" -> {"LOGIN", "PLAYER_CREATE"}
    [] a.phase = "ERROR" /\ a.window = "inuse" -> {"PLAYER_CREATE"}
    [] a.phase = "ERROR" /\ a.window = "server" -> {a.lastPhase}
    [] OTHER -> {}
=============================================================================
