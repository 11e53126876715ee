------------------------------- MODULE Client -------------------------------
(***************************************************************************)
(* One terminal client and its connection: the user interface's thread     *)
(* (CLI::start), the worker of ClientHTTP (ClientHTTP::loop), the socket   *)
(* pair between them, and the server as far as it answers.  Both threads   *)
(* poll and then handle, in a fixed order, what was ready: `turn' and      *)
(* `due' hold what is left to handle.  ClientUI says what the user         *)
(* interface does to its own state.                                        *)
(*                                                                         *)
(* Streams are sequences of whole lines.  A read may find the last line    *)
(* half arrived (split), and the server may be cut off in the middle of a  *)
(* line (torn), which the next line is then glued to.  That sockets and    *)
(* the buffers of 1024 bytes fill up is left out.                          *)
(***************************************************************************)
EXTENDS ClientUI, Functions

CONSTANTS
  MaxInputs,    \* how often the user enters something or asks for a connection
  MaxIncidents, \* how many events and cut-offs come, and lines in two pieces
  Tears         \* whether the server may be cut off in the middle of a line

ASSUME ClientAssumption ==
  /\ MaxInputs \in Nat /\ MaxIncidents \in Nat /\ Tears \in BOOLEAN

VARIABLES
  \* the user interface
  ui, turn,      \* what its thread is doing, what is left of its turn
  app,           \* its state
  commandPipe,   \* what was entered and is not yet handled
  toGameBuffer,  \* lines read and not yet dispatched
  \* ClientHTTP
  worker, due,   \* what its thread is doing, what is left of its turn
  keepAlive, preStop,
  serverEvents,  \* what is polled for on the server's socket; {} once it is lost
  talking,       \* POLLOUT is polled for on the game's socket
  gameBuffer, serverBuffer,
  wakeups,       \* bytes in wakeupPipe
  \* the socket pair
  commands, answers,
  split,         \* the first line of answers has been read in part
  \* the server
  conn, serverIn, serverOut, loggedIn,
  cutOff,        \* it broke off in the middle of a line
  \* the user and the network
  inputs, incidents,
  \* history
  disturbed,     \* something came between a command and its answer
  mismatched     \* an answer was taken for another command's, or for none's

screen == <<ui, turn, app, commandPipe, toGameBuffer>>
worked == <<worker, due, keepAlive, preStop, serverEvents, talking, gameBuffer, serverBuffer>>
pair == <<commands, answers, split>>
served == <<conn, serverIn, serverOut, loggedIn, cutOff>>
budget == <<inputs, incidents>>
history == <<disturbed, mismatched>>
vars == <<screen, worked, wakeups, pair, served, budget, history>>

Commands == [type : CommandTypes, n : Nat]
Lines == [kind : {"hello", "event", "lost", "torn"}, to : {NoCommand}]
           \cup [kind : (Responses \cup Refusals \cup {"torn"}) \ {"hello"}, to : Commands]
Apps == [phase : Phases, lastPhase : Phases, window : Windows,
         connEstablished : BOOLEAN, keyboard : BOOLEAN, named : BOOLEAN, speaking : BOOLEAN,
         commandQueue : Seq(Commands), pushed : Nat]

TypeOK ==
  /\ ui \in {"create", "store", "poll", "split", "stop", "wake", "join", "stopped", "aborted"}
  /\ turn \subseteq {"in", "out", "cmd"}
  /\ app \in Apps
  /\ commandPipe \in Seq({"name"} \cup Typed) /\ Len(commandPipe) <= 1
  /\ worker \in {"none", "loop", "poll", "ended"}
  /\ due \subseteq {"pipe", "gameIn", "gameOut", "serverIn", "serverOut", "serverError"}
  /\ serverEvents \subseteq {"in", "out"}
  /\ {keepAlive, preStop, talking, split, loggedIn, cutOff, disturbed, mismatched} \subseteq BOOLEAN
  /\ {commands, gameBuffer, serverIn} \subseteq Seq(Commands)
  /\ {serverOut, serverBuffer, answers, toGameBuffer} \subseteq Seq(Lines)
  /\ conn \in {"open", "closing", "closed", "broken", "reset"}
  /\ wakeups \in 0..(MaxInputs + 1)
  /\ inputs \in 0..MaxInputs /\ incidents \in 0..MaxIncidents

WaitHandshake == [type |-> "WAIT_HANDSHAKE", n |-> 0]
Hello == Line("hello", NoCommand)

\* ClientHTTP's constructor has connected.
Init ==
  /\ ui = "create" /\ turn = {} /\ app = Fresh /\ commandPipe = <<>> /\ toGameBuffer = <<>>
  /\ worker = "none" /\ due = {} /\ keepAlive = FALSE /\ preStop = FALSE
  /\ serverEvents = {"in"} /\ talking = FALSE /\ gameBuffer = <<>> /\ serverBuffer = <<>>
  /\ wakeups = 0 /\ commands = <<>> /\ answers = <<>> /\ split = FALSE
  /\ conn = "open" /\ serverIn = <<>> /\ serverOut = <<Hello>> /\ loggedIn = FALSE
  /\ inputs = 0 /\ incidents = 0 /\ cutOff = FALSE
  /\ disturbed = FALSE /\ mismatched = FALSE

UserActs == inputs < MaxInputs /\ inputs' = inputs + 1 /\ UNCHANGED incidents
Incident == incidents < MaxIncidents /\ incidents' = incidents + 1 /\ UNCHANGED inputs

-----------------------------------------------------------------------------
(* The user interface *)

\* A command has been sent, or is about to be, and its answer is not read.
Awaiting ==
  \/ app.speaking
  \/ commands \o gameBuffer \o serverIn # <<>>
  \/ \E l \in Range(serverOut \o serverBuffer \o answers) : l.to # NoCommand

StartThread ==
  /\ ui = "create" /\ ui' = "store" /\ worker' = "loop"
  /\ UNCHANGED <<turn, app, commandPipe, toGameBuffer, due, keepAlive, preStop, serverEvents,
                 talking, gameBuffer, serverBuffer, wakeups, pair, served, budget, history>>

StoreKeepAlive ==
  /\ ui = "store" /\ ui' = "poll" /\ keepAlive' = TRUE /\ preStop' = FALSE
  /\ app' = [app EXCEPT !.commandQueue = Append(@, WaitHandshake)]
  /\ UNCHANGED <<turn, commandPipe, toGameBuffer, worker, due, serverEvents, talking, gameBuffer,
                 serverBuffer, wakeups, pair, served, budget, history>>

Ready == {e \in {"in", "out", "cmd"} :
            CASE e = "in" -> answers # <<>>
              [] e = "out" -> app.speaking
              [] e = "cmd" -> commandPipe # <<>>}

\* The rest of a line read in part may take its time.
PollUI ==
  /\ ui = "poll" /\ turn = {}
  /\ turn' \in ({Ready} \cup (IF split THEN {Ready \ {"in"}} ELSE {})) \ {{}}
  /\ UNCHANGED <<ui, app, commandPipe, toGameBuffer, worked, wakeups, pair, served, budget,
                 history>>

ReadFromServer ==
  /\ ui = "poll" /\ "in" \in turn /\ ui' = "split" /\ turn' = turn \ {"in"}
  /\ \E whole \in {Len(answers)} \cup (IF split THEN {} ELSE {Len(answers) - 1}) :
       /\ toGameBuffer' = toGameBuffer \o SubSeq(answers, 1, whole)
       /\ answers' = SubSeq(answers, whole + 1, Len(answers))
       /\ split' = (whole < Len(answers))
       /\ IF split' THEN Incident ELSE UNCHANGED budget
       /\ disturbed' = (disturbed \/ (split' /\ Awaiting))
  /\ UNCHANGED <<app, commandPipe, worked, wakeups, commands, served, mismatched>>

\* A line cut off has no end of its own and takes the next one with it.
Glued == Head(toGameBuffer).kind = "torn"

\* Message::parse discards what they are together, unless it still reads as
\* an event, an answer or an error.
ReadGlued ==
  /\ ui = "split" /\ Len(toGameBuffer) > 1 /\ Glued
  /\ LET kinds == IF Head(toGameBuffer).to = NoCommand THEN {"event"} ELSE {"ok", "refused"}
         read == {<<>>} \cup {<<Line(kind, Head(toGameBuffer).to)>> : kind \in kinds}
     IN  \E l \in read : toGameBuffer' = l \o SubSeq(toGameBuffer, 3, Len(toGameBuffer))
  /\ UNCHANGED <<ui, turn, app, commandPipe, worked, wakeups, pair, served, budget, history>>

\* What the thread still does between the answer to QUIT and the end of its
\* loop is left out.
DispatchMessage ==
  /\ ui = "split" /\ toGameBuffer # <<>> /\ ~Glued
  /\ LET l == Head(toGameBuffer) IN
     /\ IF l.kind = "lost"
        THEN /\ toGameBuffer' = <<>> /\ split' = FALSE
             /\ answers' = IF split THEN Tail(answers) ELSE answers
        ELSE toGameBuffer' = Tail(toGameBuffer) /\ UNCHANGED <<answers, split>>
     /\ mismatched' = (mismatched \/ (l.to # NoCommand /\ l.to # Current(app)))
     /\ disturbed' = (disturbed \/ l.kind = "lost" \/ (l.kind = "event" /\ Awaiting))
     /\ IF Fails(app, l) THEN ui' = "aborted" /\ turn' = {} /\ UNCHANGED app
        ELSE IF Raises(app, l)
        THEN ui' = "poll" /\ turn' = {} /\ app' = HandleException(app, Raised(app, l))
        ELSE /\ app' \in Dispatched(app, l)
             /\ IF l.kind \in Responses /\ Current(app).type = "QUIT"
                THEN ui' = "stop" /\ turn' = {}
                ELSE UNCHANGED <<ui, turn>>
  /\ UNCHANGED <<commandPipe, worked, wakeups, commands, served, budget>>

EndSplit ==
  /\ ui = "split" /\ (toGameBuffer = <<>> \/ (Len(toGameBuffer) = 1 /\ Glued)) /\ ui' = "poll"
  /\ app' = IF Pending(app) THEN Speak(app) ELSE app
  /\ UNCHANGED <<turn, commandPipe, toGameBuffer, worked, wakeups, pair, served, budget, history>>

\* (bug) without a look at the handshake
WriteToServerUnchecked ==
  /\ ui = "poll" /\ "out" \in turn /\ "in" \notin turn /\ Pending(app)
  /\ commands' = Append(commands, Current(app))
  /\ app' = [app EXCEPT !.speaking = FALSE] /\ turn' = turn \ {"out"}
  /\ UNCHANGED <<ui, commandPipe, toGameBuffer, worked, wakeups, answers, split, served, budget,
                 history>>

WriteToServer ==
  /\ ui = "poll" /\ "out" \in turn /\ "in" \notin turn
  /\ IF ~app.connEstablished
     THEN app' = HandleException(app, "other") /\ turn' = {} /\ UNCHANGED <<ui, commands>>
     ELSE IF ~Pending(app) THEN ui' = "aborted" /\ turn' = {} /\ UNCHANGED <<app, commands>>
     ELSE /\ commands' = Append(commands, Current(app))
          /\ app' = [app EXCEPT !.speaking = FALSE]
          /\ turn' = turn \ {"out"} /\ UNCHANGED ui
  /\ UNCHANGED <<commandPipe, toGameBuffer, worked, wakeups, answers, split, served, budget,
                 history>>

HandleInput ==
  /\ ui = "poll" /\ turn = {"cmd"} /\ turn' = {}
  /\ app' = HandleCommand(app, Head(commandPipe)) /\ commandPipe' = <<>>
  /\ disturbed' = (disturbed \/ (app.phase # "GAME" /\ Awaiting))
  /\ UNCHANGED <<ui, toGameBuffer, worked, wakeups, pair, served, budget, mismatched>>

\* The keyboard is read last in a turn, and not before the first handshake.
AtKeyboard == ui = "poll" /\ turn = {} /\ app.keyboard

\* A name at the login, a command in the game.
Enter(input) ==
  /\ AtKeyboard /\ commandPipe = <<>> /\ UserActs
  /\ IF input = "name" THEN app.phase \in {"LOGIN", "PLAYER_CREATE"} ELSE app.phase = "GAME"
  /\ commandPipe' = <<input>>
  /\ UNCHANGED <<ui, turn, app, toGameBuffer, worked, wakeups, pair, served, history>>

GoTo(phase) ==
  /\ AtKeyboard /\ phase \in Doors(app)
  /\ app' = IF MayShow(app, phase) THEN SwitchWindow(app, phase) ELSE HandleException(app, "other")
  /\ UNCHANGED <<ui, turn, commandPipe, toGameBuffer, worked, wakeups, pair, served, budget,
                 history>>

Reconnect ==
  /\ AtKeyboard /\ app.phase = "ERROR" /\ app.window = "lost"
  /\ UserActs
  /\ wakeups' = wakeups + 1
  /\ UNCHANGED <<screen, worked, pair, served, history>>

PressClose ==
  /\ AtKeyboard /\ ui' = "stop"
  /\ \/ app.phase \in {"LOGIN", "PLAYER_CREATE"}
     \/ app.phase = "ERROR" /\ app.window \notin {"unknown", "inuse"}
  /\ UNCHANGED <<turn, app, commandPipe, toGameBuffer, worked, wakeups, pair, served, budget,
                 history>>

\* ClientHTTP::stopWorker, in the thread of the user interface.
ExitLoop ==
  /\ ui = "stop" /\ ui' = "wake" /\ keepAlive' = FALSE
  /\ UNCHANGED <<turn, app, commandPipe, toGameBuffer, worker, due, preStop, serverEvents,
                 talking, gameBuffer, serverBuffer, wakeups, pair, served, budget, history>>

\* (bug) the worker is left in its poll
WakeUpWorkerForgotten ==
  /\ ui = "wake" /\ ui' = "join"
  /\ UNCHANGED <<turn, app, commandPipe, toGameBuffer, worked, wakeups, pair, served, budget,
                 history>>

WakeUpWorker ==
  /\ ui = "wake" /\ ui' = "join" /\ wakeups' = wakeups + 1
  /\ UNCHANGED <<turn, app, commandPipe, toGameBuffer, worked, pair, served, budget, history>>

Join ==
  /\ ui = "join" /\ worker = "ended" /\ ui' = "stopped"
  /\ UNCHANGED <<turn, app, commandPipe, toGameBuffer, worked, wakeups, pair, served, budget,
                 history>>

-----------------------------------------------------------------------------
(* The worker *)

Order == [e \in {"pipe", "gameIn", "gameOut", "serverIn", "serverOut", "serverError"} |->
            CASE e = "pipe" -> 1 [] e = "gameIn" -> 2 [] e = "gameOut" -> 3
              [] e = "serverIn" -> 4 [] e = "serverOut" -> 5 [] e = "serverError" -> 6]
Next1 == CHOOSE e \in due : \A f \in due : Order[e] <= Order[f]
Turn(e) == worker = "loop" /\ due # {} /\ Next1 = e

CheckKeepAlive ==
  /\ worker = "loop" /\ due = {} /\ worker' = IF keepAlive THEN "poll" ELSE "ended"
  /\ UNCHANGED <<screen, due, keepAlive, preStop, serverEvents, talking, gameBuffer,
                 serverBuffer, wakeups, pair, served, budget, history>>

Revents == {e \in DOMAIN Order :
              CASE e = "pipe" -> wakeups > 0
                [] e = "gameIn" -> commands # <<>>
                [] e = "gameOut" -> talking
                [] e = "serverIn" -> /\ "in" \in serverEvents
                                     /\ serverOut # <<>> \/ conn \notin {"open", "closing"}
                [] e = "serverOut" -> "out" \in serverEvents
                [] e = "serverError" -> FALSE}

PollWorker ==
  /\ worker = "poll" /\ Revents # {} /\ due' = Revents /\ worker' = "loop"
  /\ UNCHANGED <<screen, keepAlive, preStop, serverEvents, talking, gameBuffer, serverBuffer,
                 wakeups, pair, served, budget, history>>

\* A connection that is lost leaves the poll set until a wake-up asks for a
\* new one; a failed attempt is logged and ends the turn.
FlushPipe ==
  /\ Turn("pipe") /\ wakeups' = wakeups - 1
  /\ \/ /\ serverEvents # {} /\ due' = due \ {"pipe"}
        /\ UNCHANGED <<serverEvents, conn, serverIn, serverOut, loggedIn>>
     \/ /\ serverEvents = {} /\ due' = due \ {"pipe"}
        /\ serverEvents' = IF serverBuffer # <<>> THEN {"in", "out"} ELSE {"in"}
        /\ conn' = "open" /\ serverIn' = <<>> /\ serverOut' = <<Hello>> /\ loggedIn' = FALSE
     \/ /\ serverEvents = {} /\ due' = {}
        /\ UNCHANGED <<serverEvents, conn, serverIn, serverOut, loggedIn>>
  /\ UNCHANGED <<screen, worker, keepAlive, preStop, talking, gameBuffer, serverBuffer, pair,
                 cutOff, budget, history>>

HandleDataFromGame ==
  /\ Turn("gameIn") /\ due' = due \ {"gameIn"}
  /\ gameBuffer' = gameBuffer \o commands /\ commands' = <<>>
  /\ serverEvents' = serverEvents \cup {"out"}
  /\ UNCHANGED <<screen, worker, keepAlive, preStop, talking, serverBuffer, wakeups, answers,
                 split, served, budget, history>>

HandleDataToGame ==
  /\ Turn("gameOut") /\ due' = due \ {"gameOut"}
  /\ answers' = answers \o serverBuffer /\ serverBuffer' = <<>> /\ talking' = FALSE
  /\ UNCHANGED <<screen, worker, keepAlive, preStop, serverEvents, gameBuffer, wakeups, commands,
                 split, served, budget, history>>

\* recv goes on until there is nothing more: what it has read when it meets
\* the end of the stream is dropped, and an error leaves the loop.
HandleDataFromServer ==
  /\ Turn("serverIn") /\ serverOut' = <<>>
  /\ \/ /\ conn \in {"open", "closing"} /\ due' = due \ {"serverIn"}
        /\ serverBuffer' = serverBuffer \o serverOut /\ talking' = (talking \/ serverOut # <<>>)
        /\ UNCHANGED keepAlive
     \/ /\ conn \in {"closed", "broken"} /\ due' = {"serverError"}
        /\ UNCHANGED <<serverBuffer, talking, keepAlive>>
     \/ /\ conn = "reset" /\ due' = {} /\ keepAlive' = FALSE
        /\ UNCHANGED <<serverBuffer, talking>>
  /\ UNCHANGED <<screen, worker, preStop, serverEvents, gameBuffer, wakeups, pair, conn,
                 serverIn, loggedIn, cutOff, budget, history>>

\* The first write after the server has closed succeeds and breaks the
\* connection; the next one fails.
Sends(taken) ==
  /\ due' = due \ {"serverOut"} /\ gameBuffer' = <<>> /\ serverEvents' = {"in"}
  /\ preStop' = (preStop \/ \E c \in Range(gameBuffer) : c.type \in {"QUIT", "SAYQUIT"})
  /\ serverIn' = IF taken THEN serverIn \o gameBuffer ELSE serverIn
  /\ UNCHANGED keepAlive

HandleDataToServer ==
  /\ Turn("serverOut")
  /\ \/ /\ gameBuffer = <<>> /\ due' = due \ {"serverOut"}
        /\ UNCHANGED <<gameBuffer, serverEvents, preStop, serverIn, keepAlive, conn>>
     \/ gameBuffer # <<>> /\ conn \in {"open", "closing"} /\ Sends(TRUE) /\ UNCHANGED conn
     \/ gameBuffer # <<>> /\ conn = "closed" /\ Sends(FALSE) /\ conn' = "broken"
     \/ /\ gameBuffer # <<>> /\ conn = "broken" /\ due' = {"serverError"}
        /\ UNCHANGED <<gameBuffer, serverEvents, preStop, serverIn, keepAlive, conn>>
     \/ /\ gameBuffer # <<>> /\ conn = "reset" /\ due' = {} /\ keepAlive' = FALSE
        /\ UNCHANGED <<gameBuffer, serverEvents, preStop, serverIn, conn>>
  /\ UNCHANGED <<screen, worker, talking, serverBuffer, wakeups, pair, serverOut, loggedIn,
                 cutOff, budget, history>>

\* (bug) the line is left in the buffer until something else is to be sent
HandleServerErrorQuiet ==
  /\ Turn("serverError") /\ due' = {} /\ serverEvents # {} /\ ~preStop
  /\ serverEvents' = {} /\ serverBuffer' = Append(serverBuffer, Line("lost", NoCommand))
  /\ UNCHANGED <<screen, worker, keepAlive, preStop, talking, gameBuffer, wakeups, pair, served,
                 budget, history>>

HandleServerError ==
  /\ Turn("serverError") /\ due' = {}
  /\ IF serverEvents = {} \/ preStop
     THEN UNCHANGED <<serverEvents, serverBuffer, talking>>
     ELSE /\ serverEvents' = {} /\ talking' = TRUE
          /\ serverBuffer' = Append(serverBuffer, Line("lost", NoCommand))
  /\ UNCHANGED <<screen, worker, keepAlive, preStop, gameBuffer, wakeups, pair, served, budget,
                 history>>

-----------------------------------------------------------------------------
(* The server, as far as the client can tell (cmd_connect, cmd_quit and    *)
(* handle_command of the dispatcher)                                       *)

Answers(c) ==
  CASE c.type = "QUIT" -> {"ok"}
    [] c.type = "CONNECT" -> IF loggedIn THEN {"inuse"} ELSE {"connected", "unknown", "inuse"}
    [] c.type = "CREATE_PLAYER" -> IF loggedIn THEN {"inuse"} ELSE {"connected", "inuse"}
    [] c.type = "PROFILE" /\ loggedIn -> {"ok"}
    [] OTHER -> IF loggedIn THEN {"ok", "refused"} ELSE {"refused"}

\* An event may overtake the answer to the login it comes after.
ServerAnswers ==
  /\ conn = "open" /\ serverIn # <<>> /\ serverIn' = Tail(serverIn)
  /\ \E kind \in Answers(Head(serverIn)), early \in BOOLEAN :
       /\ early => kind = "connected"
       /\ IF early THEN Incident ELSE UNCHANGED budget
       /\ serverOut' = serverOut \o (IF early THEN <<Line("event", NoCommand)>> ELSE <<>>)
                                \o <<Line(kind, Head(serverIn))>>
       /\ loggedIn' = (loggedIn \/ kind = "connected")
  /\ conn' = IF Head(serverIn).type = "QUIT" THEN "closing" ELSE conn
  /\ UNCHANGED <<screen, worked, wakeups, pair, cutOff, history>>

ServerEvent ==
  /\ conn = "open" /\ loggedIn /\ Incident
  /\ serverOut' = Append(serverOut, Line("event", NoCommand))
  /\ UNCHANGED <<screen, worked, wakeups, pair, conn, serverIn, loggedIn, cutOff, history>>

\* After a QUIT, or for whatever reason; what the client sent and nobody read
\* makes it a reset.
ServerCloses ==
  /\ \/ conn = "closing" /\ conn' = (IF serverIn = <<>> THEN "closed" ELSE "reset") /\ UNCHANGED budget
     \/ conn = "open" /\ conn' \in {"closed", "reset"} /\ Incident
  /\ UNCHANGED <<screen, worked, wakeups, pair, serverIn, serverOut, loggedIn, cutOff, history>>

\* The server is cut off in the middle of an event or of an answer.
ServerBreaksOff ==
  /\ Tears /\ conn = "open" /\ conn' = "closing" /\ cutOff' = TRUE /\ Incident
  /\ \E to \in (IF loggedIn THEN {NoCommand} ELSE {})
               \cup (IF serverIn = <<>> THEN {} ELSE {Head(serverIn)}) :
       serverOut' = Append(serverOut, Line("torn", to))
  /\ UNCHANGED <<screen, worked, wakeups, pair, serverIn, loggedIn, history>>

-----------------------------------------------------------------------------

UIStep ==
  \/ StartThread \/ StoreKeepAlive \/ PollUI \/ ReadFromServer \/ ReadGlued \/ DispatchMessage
  \/ EndSplit \/ WriteToServer \/ HandleInput \/ ExitLoop \/ WakeUpWorker \/ Join

WorkerStep ==
  \/ CheckKeepAlive \/ PollWorker \/ FlushPipe \/ HandleDataFromGame \/ HandleDataToGame
  \/ HandleDataFromServer \/ HandleDataToServer \/ HandleServerError

User ==
  \/ \E input \in {"name"} \cup Typed : Enter(input)
  \/ \E phase \in Phases : GoTo(phase)
  \/ Reconnect
  \/ PressClose

Server == ServerAnswers \/ ServerEvent \/ ServerCloses \/ ServerBreaksOff

Next == UIStep \/ WorkerStep \/ User \/ Server

Spec == Init /\ [][Next]_vars

\* Both threads are scheduled; the user and the server owe nothing.
FairSpec == Spec /\ WF_vars(UIStep) /\ WF_vars(WorkerStep)

-----------------------------------------------------------------------------

\* The command that stands for the handshake (UI.cpp:53-54) is only ever
\* waited for: the ways into the error window and out of it never send it.
PlaceholderNeverSent ==
  \A c \in Range(commands \o gameBuffer \o serverIn) : c.type # "WAIT_HANDSHAKE"

\* As long as the user interface believes in a connection that the worker has
\* given up, the news is on its way (ClientHTTP.cpp:242-255).  It may be lost
\* in a line that was cut off.
LostTold ==
  serverEvents = {} /\ app.connEstablished /\ ui \notin {"stopped", "aborted"} =>
    cutOff \/ \E l \in Range(serverBuffer \o answers \o toGameBuffer) : l.kind = "lost"

\* Answers carry no name of the command they are for.  Counting them is right
\* as long as nothing but the answer comes between a command and its answer.
AnswersMatch == ~disturbed => ~mismatched

\* writeToServer's assertion (UI.cpp:107): a turn with a write has a command.
WriteHasCommand ==
  ui = "poll" /\ "out" \in turn /\ "in" \notin turn /\ app.connEstablished => Pending(app)

\* An error while an error is shown does not overwrite the window to return
\* to (UI.cpp:88).
LastPhaseKept == app.lastPhase # "ERROR"

\* The user interface waits for the worker and for nothing else when it stops
\* (ClientHTTP.cpp:61-71).
StopReturns == (ui = "join") ~> (ui = "stopped")

\* The end of a connection comes as far as the buffer of the user interface,
\* unless the client has said QUIT (ClientHTTP.cpp:100-105 and 238-257).
LossArrives ==
  (conn = "closed" /\ "in" \in serverEvents)
    ~> (app.phase = "ERROR" \/ conn # "closed" \/ preStop \/ worker = "ended"
        \/ (\E l \in Range(toGameBuffer) : l.kind = "lost")
        \/ ui \in {"join", "stopped", "aborted"})

\* From there it is shown (refuted: an error before it in the buffer leaves it
\* there, and so does a line that was cut off).
LossShown ==
  (ui = "poll" /\ \E l \in Range(toGameBuffer) : l.kind = "lost")
    ~> (app.phase = "ERROR" \/ ui # "poll")
=============================================================================
