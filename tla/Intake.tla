------------------------------- MODULE Intake -------------------------------
(***************************************************************************)
(* The way of a client's bytes to a command: accept and client_loop        *)
(* (network/server.cpp), read_line (line_reader.cpp), the entry of         *)
(* handle_command (dispatcher.cpp) and the two sliding windows of          *)
(* abuse_monitor.cpp, for the connections of one address, one at a time.   *)
(*                                                                         *)
(* Nothing bounds how long the client goes on sending.  A time is kept as  *)
(* its age, and one beyond the window is as good as any.                   *)
(***************************************************************************)
EXTENDS Integers, Sequences, FiniteSets, FiniteSetsExt, Functions, SequencesExt

CONSTANTS
  Letter, Newline, Return,  \* a byte of a word, '\n' and '\r'
  Limit,      \* MAX_LINE_LENGTH
  Chunk,      \* the most recv gives at a time
  Window,     \* COMMAND_FLOOD_WINDOW and RECONNECT_WINDOW, by kind
  Threshold,  \* COMMAND_FLOOD_THRESHOLD and RECONNECT_THRESHOLD
  MaxNet,     \* bound: the bytes on their way
  Burst       \* bound: commands, and connections, of one instant

Kinds == {"command", "connect"}
Bytes == {Letter, Newline, Return}

ASSUME IntakeAssumption ==
  /\ Limit \in Nat /\ Chunk \in Nat \ {0} /\ MaxNet \in Nat
  /\ Cardinality(Bytes) = 3
  /\ Window \in [Kinds -> Nat] /\ Threshold \in [Kinds -> Nat] /\ Burst \in [Kinds -> Nat]

VARIABLES
  net,        \* sent and not received
  ended,      \* the client has closed or reset its side
  buffer,     \* Session::recv_buffer
  timed,      \* whether a receive timeout is set on the socket
  connected,  \* Session::connected
  pc,         \* where client_loop is
  line,       \* the line read last
  times,      \* the ages in CommandRateTracker and in reconnect_history
  told,       \* what was said of the last command, and connection, of this instant
  recent      \* history: how many of them there have been, by age

conn == <<net, ended, buffer, timed, connected, pc, line>>
monitor == <<times, told, recent>>
vars == <<conn, monitor>>

None == [k \in Kinds |-> [age \in 0..Window[k] |-> 0]]

TypeOK ==
  /\ net \in Seq(Bytes) /\ buffer \in Seq(Bytes) /\ line \in Seq(Bytes)
  /\ {ended, timed, connected} \subseteq BOOLEAN
  /\ pc \in {"closed", "loop", "recv", "handle"}
  /\ \A k \in Kinds : \A i \in DOMAIN times[k] : times[k][i] \in 0..Window[k] + 1
  /\ told \in [Kinds -> {"nothing", "normal", "warned"}]
  /\ \A k \in Kinds : recent[k] \in [0..Window[k] -> 0..Burst[k]]

Init ==
  /\ net = <<>> /\ ended = TRUE /\ buffer = <<>> /\ timed = FALSE /\ connected = FALSE
  /\ pc = "closed" /\ line = <<>>
  /\ times = [k \in Kinds |-> <<>>] /\ told = [k \in Kinds |-> "nothing"] /\ recent = None

-----------------------------------------------------------------------------
(* The sliding windows *)

\* (bug) one old entry is taken out at most
KeptOne(ts, window) == IF ts[1] > window THEN Tail(ts) ELSE ts

\* What is too old goes, from the front.
Kept(ts, window) ==
  SubSeq(ts, Min({i \in DOMAIN ts : ts[i] <= window}), Len(ts))

\* record_and_check_flood, record_connection_and_check_rapid_reconnect, on what
\* the monitor has so far.
Record(k, ts, said, rec) ==
  LET kept == Kept(Append(ts[k], 0), Window[k]) IN
  /\ rec[k][0] < Burst[k]
  /\ times' = [ts EXCEPT ![k] = kept]
  /\ told' = [said EXCEPT ![k] = IF Len(kept) > Threshold[k] THEN "warned" ELSE "normal"]
  /\ recent' = [rec EXCEPT ![k][0] = @ + 1]

Tick ==
  /\ times' = [k \in Kinds |-> [i \in DOMAIN times[k] |->
                 IF times[k][i] > Window[k] THEN times[k][i] ELSE times[k][i] + 1]]
  /\ told' = [k \in Kinds |-> "nothing"]
  /\ recent' = [k \in Kinds |-> [age \in 0..Window[k] |->
                  IF age = 0 THEN 0 ELSE recent[k][age - 1]]]
  /\ UNCHANGED conn

-----------------------------------------------------------------------------
(* The client *)

Send(b) ==
  /\ pc # "closed" /\ ~ended /\ Len(net) < MaxNet /\ net' = Append(net, b)
  /\ UNCHANGED <<ended, buffer, timed, connected, pc, line, monitor>>

\* A reset takes what has not been received with it.
End ==
  /\ ~ended /\ ended' = TRUE /\ net' \in {net, <<>>}
  /\ UNCHANGED <<buffer, timed, connected, pc, line, monitor>>

-----------------------------------------------------------------------------
(* The server *)

\* The accept loop, and the greeting.
Accept ==
  /\ pc = "closed"
  /\ Record("connect", [times EXCEPT !["command"] = <<>>], [told EXCEPT !["command"] = "nothing"],
            [recent EXCEPT !["command"] = None["command"]])
  /\ net' = <<>> /\ ended' = FALSE /\ buffer' = <<>> /\ timed' = FALSE
  /\ connected' = TRUE /\ pc' = "loop" /\ line' = <<>>

\* handle_disconnect, and the socket is closed.
Shut ==
  /\ pc' = "closed" /\ connected' = FALSE /\ ended' = TRUE /\ net' = <<>> /\ buffer' = <<>>
  /\ UNCHANGED <<timed, line, monitor>>

Leave == pc = "loop" /\ ~connected /\ Shut

\* Where the first line of the buffer ends.
Ends == {n \in DOMAIN buffer : buffer[n] = Newline}

TakeLine ==
  LET n == Min(Ends)
      l == SubSeq(buffer, 1, n - 1) IN
  /\ pc = "loop" /\ connected /\ Ends # {}
  /\ line' = (IF l # <<>> /\ Last(l) = Return THEN Front(l) ELSE l)
  /\ buffer' = SubSeq(buffer, n + 1, Len(buffer))
  /\ pc' = "handle" /\ UNCHANGED <<net, ended, timed, connected, monitor>>

\* line_too_long: said of what has no newline in it.
TooLong == pc = "loop" /\ connected /\ Ends = {} /\ Len(buffer) > Limit /\ Shut

\* (bug) the limit is not tested
SetTimeoutUnlimited ==
  /\ pc = "loop" /\ connected /\ Ends = {}
  /\ timed' = (buffer # <<>>) /\ pc' = "recv"
  /\ UNCHANGED <<net, ended, buffer, connected, line, monitor>>

\* (bug) the timeout stays on once a message has begun
SetTimeoutSticky ==
  /\ pc = "loop" /\ connected /\ Ends = {} /\ Len(buffer) <= Limit
  /\ timed' = (timed \/ buffer # <<>>) /\ pc' = "recv"
  /\ UNCHANGED <<net, ended, buffer, connected, line, monitor>>

\* (bug) there is no timeout
SetTimeoutNever ==
  /\ pc = "loop" /\ connected /\ Ends = {} /\ Len(buffer) <= Limit
  /\ pc' = "recv" /\ UNCHANGED <<net, ended, buffer, timed, connected, line, monitor>>

\* The timeout is for a message that has begun.
SetTimeout ==
  /\ pc = "loop" /\ connected /\ Ends = {} /\ Len(buffer) <= Limit
  /\ timed' = (buffer # <<>>) /\ pc' = "recv"
  /\ UNCHANGED <<net, ended, buffer, connected, line, monitor>>

Receive ==
  /\ pc = "recv"
  /\ \E n \in 1..Chunk :
       /\ n <= Len(net) /\ buffer' = buffer \o SubSeq(net, 1, n)
       /\ net' = SubSeq(net, n + 1, Len(net))
  /\ pc' = "loop" /\ UNCHANGED <<ended, timed, connected, line, monitor>>

\* recv gives no more: the client is gone.
ReceiveEnd == pc = "recv" /\ net = <<>> /\ ended /\ Shut

ReceiveTimeout == pc = "recv" /\ net = <<>> /\ timed /\ Shut

\* A line with no word in it is refused before it is counted.
HandleBlank ==
  /\ pc = "handle" /\ Letter \notin Range(line) /\ pc' = "loop"
  /\ UNCHANGED <<net, ended, buffer, timed, connected, line, monitor>>

\* QUIT, or any of the commands that Presence, Groups and Realm are about.
HandleCommand ==
  /\ pc = "handle" /\ Letter \in Range(line) /\ pc' = "loop"
  /\ Record("command", times, told, recent)
  /\ connected' \in BOOLEAN
  /\ UNCHANGED <<net, ended, buffer, timed, line>>

-----------------------------------------------------------------------------

\* The thread of the connection goes on by itself: recv waits for what has a
\* time limit only when one is set.
Thread ==
  \/ Leave \/ TakeLine \/ TooLong \/ SetTimeout \/ Receive \/ ReceiveEnd \/ ReceiveTimeout
  \/ HandleBlank \/ HandleCommand

Next == Tick \/ End \/ Accept \/ Thread \/ \E b \in Bytes : Send(b)

\* Threads are scheduled, and time goes on.
Spec == Init /\ [][Next]_vars /\ WF_vars(Thread) /\ WF_vars(Tick)

-----------------------------------------------------------------------------
(* Properties *)

\* Whatever the client sends, its buffer stays within the limit and one recv.
BufferBounded == Len(buffer) <= Limit + Chunk

\* Lines are taken in order, once and whole, whatever pieces they arrive in, and
\* the server closes on nobody who is idle or has a line within the limit to take.
F == INSTANCE Framing WITH open <- pc # "closed", pending <- buffer \o net, quit <- ~connected
ImplementsFraming == F!Spec

\* A message that has begun does not keep the server for ever: it is completed
\* or the connection closed, even on a client that sends a byte now and then.
BegunIsSettled == []<>(buffer = <<>> \/ pc \in {"handle", "closed"})

\* The commands of a connection, or connections of an address, that the window holds:
\* for each its age and its number among those of that age.
Happened(k) == {c \in (0..Window[k]) \X (1..Burst[k]) : c[2] <= recent[k][c[1]]}

\* The monitor warns exactly when there have been more of them than the threshold,
\* although it forgets the old ones only when there is a new one.
WarnsOfTooMany ==
  \A k \in Kinds : told[k] # "nothing" =>
    (told[k] = "warned" <=> Cardinality(Happened(k)) > Threshold[k])
=============================================================================
