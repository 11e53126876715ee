---------------------------- MODULE Client_proofs ----------------------------
(***************************************************************************)
(* What holds of Client however often the user acts, events come and the   *)
(* connection is cut off: the placeholder of the handshake is never sent,  *)
(* the news of a lost connection is on its way, and an answer that nothing *)
(* has disturbed is taken for the command it answers.                      *)
(***************************************************************************)
EXTENDS Client, TLAPS

\* Of the elements of a set, the sequence has one, at most one, or one at its end only.
Has(s, K) == \E i \in 1..Len(s) : s[i] \in K
AtMostOne(s, K) == \A i, j \in 1..Len(s) : s[i] \in K /\ s[j] \in K => i = j
OnlyLast(s, K) == \A i \in 1..Len(s) : s[i] \in K => i = Len(s)

\* From the window of an error of the server there is a way back.
WayBack(a) == a.phase = "ERROR" /\ a.window = "server" => a.lastPhase # "ND"

\* What the threads rely on besides the types: what a turn is to handle is
\* there, a server that is given up is not listened to, and a wake-up is the
\* user's or the one that ends the worker.
Shape ==
  /\ ui \in {"create", "store"} => app = Fresh
  /\ "in" \in turn => answers # <<>>
  /\ "cmd" \in turn => commandPipe # <<>>
  /\ split => answers # <<>>
  /\ "pipe" \in due => wakeups > 0
  /\ "serverError" \in due => due = {"serverError"} /\ conn \in {"closed", "broken"}
  /\ due \cap {"serverIn", "serverOut"} # {} => serverEvents # {}
  /\ WayBack(app) /\ (app.phase = "ND" => commandPipe = <<>>)
  /\ wakeups <= inputs + IF ui \in {"join", "stopped"} THEN 1 ELSE 0

\* The placeholder is the first of the queue or not in it, and there only
\* without a connection.  So PlaceholderNeverSent.
Placeholders == {c \in Commands : c.type = "WAIT_HANDSHAKE"}

WaitsFirst(a) ==
  \A i \in 1..Len(a.commandQueue) :
    a.commandQueue[i] \in Placeholders => i = 1 /\ ~a.connEstablished

OnlyWaited ==
  /\ WaitsFirst(app)
  /\ ~Has(commands, Placeholders) /\ ~Has(gameBuffer, Placeholders) /\ ~Has(serverIn, Placeholders)

\* Everything the server has said that the user interface has not handled:
\* what the client has read of it, and all of it.
Inbox == toGameBuffer \o (answers \o serverBuffer)
Pipe == Inbox \o serverOut

Event == Line("event", NoCommand)
Lost == Line("lost", NoCommand)
Torn == {l \in Lines : l.kind = "torn"}

TornCutOff == Has(Pipe, Torn) => cutOff

\* The news of the loss is the last line there will be, until it is handled.
\* So LostTold.
EndsLost(s) == s # <<>> => s[Len(s)].kind = "lost"

NewsOnItsWay ==
  serverEvents = {} /\ ~cutOff /\ ui \notin {"stopped", "aborted"} =>
    EndsLost(Inbox) /\ (Inbox = <<>> => ~app.connEstablished)

\* The commands that are sent and not yet answered, the oldest first.
Flight == serverIn \o (gameBuffer \o commands)

\* The user interface is about to send one.
Writing == app.speaking \/ "out" \in turn

Replies == {l \in Lines : l.to # NoCommand /\ l.kind # "torn"}
ToOthers(c) == {l \in Replies : l.to # c}
TornAnswers == {l \in Torn : l.to # NoCommand}

\* As long as nothing has come between a command and its answer,
Calm == ~disturbed /\ ui \notin {"join", "stopped", "aborted"}

\* the connection is the first one,
Unlost == wakeups = 0 /\ app.window # "lost"

\* whose greeting comes once, before anything is sent,
OneGreeting ==
  /\ AtMostOne(Pipe, {Hello})
  /\ Has(Pipe, {Hello}) => ~app.connEstablished

\* there is at most one answer on its way, and it is for the first of the queue,
OneAnswer ==
  /\ AtMostOne(Pipe, Replies)
  /\ ~Has(Pipe, ToOthers(Current(app)))
  /\ Has(toGameBuffer, Replies) => ui = "split"
  /\ ~app.connEstablished => Flight = <<>> /\ ~Has(Pipe, Replies)

\* an answer is cut off at the end of all that is said, and its command stays
\* unread by a server that answers no more,
TornAtEnd ==
  /\ OnlyLast(Pipe, TornAnswers)
  /\ Has(Pipe, TornAnswers) => serverIn # <<>> /\ conn \in {"closing", "reset"}
  /\ Has(Pipe, Torn) => conn # "open"

\* and a command is sent only when none is on its way, nor an answer.
OneAtATime ==
  conn = "open" =>
    /\ Flight # <<>> => /\ Flight = <<Current(app)>>
                        /\ ~Writing
                        /\ ~Has(Pipe, Replies)
    /\ Writing => ~Has(Pipe, Replies)
    /\ ui = "split" /\ toGameBuffer = <<>> => Flight = <<>> /\ ~Has(Pipe, Replies)

Answerable == Unlost /\ OneGreeting /\ OneAnswer /\ TornAtEnd /\ OneAtATime
Undisturbed == Calm => Answerable
-----------------------------------------------------------------------------
(* Sequences *)

\* Concatenation, element by element.
LEMMA Joined ==
  ASSUME NEW S, NEW s \in Seq(S), NEW t \in Seq(S)
  PROVE  /\ s \o t \in Seq(S) /\ Len(s \o t) = Len(s) + Len(t)
         /\ \A i \in 1..Len(s) : (s \o t)[i] = s[i]
         /\ \A i \in 1..Len(t) : (s \o t)[Len(s) + i] = t[i]
         /\ \A i \in 1..Len(s \o t) :
              \/ i \in 1..Len(s) /\ (s \o t)[i] = s[i]
              \/ i - Len(s) \in 1..Len(t) /\ (s \o t)[i] = t[i - Len(s)]
<1>1. /\ s \o t \in Seq(S) /\ Len(s \o t) = Len(s) + Len(t)
      /\ \A i \in 1..Len(s \o t) : (s \o t)[i] = IF i <= Len(s) THEN s[i] ELSE t[i - Len(s)]
  OBVIOUS
<1>2. Len(s) \in Nat /\ Len(t) \in Nat
  OBVIOUS
<1> QED BY <1>1, <1>2

\* What a concatenation has, each of its parts may have.
LEMMA HasJoined ==
  ASSUME NEW S, NEW s \in Seq(S), NEW t \in Seq(S), NEW K
  PROVE  Has(s \o t, K) <=> Has(s, K) \/ Has(t, K)
<1>1. Len(s) \in Nat /\ Len(t) \in Nat
  OBVIOUS
<1>2. Has(s, K) => Has(s \o t, K)
  BY <1>1, Joined DEF Has
<1>3. Has(t, K) => Has(s \o t, K)
  <2> SUFFICES ASSUME NEW i \in 1..Len(t), t[i] \in K PROVE Has(s \o t, K)
    BY DEF Has
  <2>1. Len(s) + i \in 1..Len(s \o t) /\ (s \o t)[Len(s) + i] = t[i]
    BY <1>1, Joined
  <2> QED BY <2>1 DEF Has
<1>4. Has(s \o t, K) => Has(s, K) \/ Has(t, K)
  BY Joined DEF Has
<1> QED BY <1>2, <1>3, <1>4

LEMMA AtMostOneJoined ==
  ASSUME NEW S, NEW s \in Seq(S), NEW t \in Seq(S), NEW K
  PROVE  AtMostOne(s \o t, K) <=>
           AtMostOne(s, K) /\ AtMostOne(t, K) /\ ~(Has(s, K) /\ Has(t, K))
<1>1. Len(s) \in Nat /\ Len(t) \in Nat
  OBVIOUS
<1>2. ASSUME AtMostOne(s \o t, K)
      PROVE  AtMostOne(s, K) /\ AtMostOne(t, K) /\ ~(Has(s, K) /\ Has(t, K))
  <2>1. AtMostOne(s, K)
    <3> SUFFICES ASSUME NEW i \in 1..Len(s), NEW j \in 1..Len(s), s[i] \in K, s[j] \in K
                 PROVE  i = j
      BY DEF AtMostOne
    <3>1. i \in 1..Len(s \o t) /\ j \in 1..Len(s \o t)
      BY <1>1, Joined
    <3>2. (s \o t)[i] = s[i] /\ (s \o t)[j] = s[j]
      BY Joined
    <3> QED BY <1>2, <3>1, <3>2 DEF AtMostOne
  <2>2. AtMostOne(t, K)
    <3> SUFFICES ASSUME NEW i \in 1..Len(t), NEW j \in 1..Len(t), t[i] \in K, t[j] \in K
                 PROVE  i = j
      BY DEF AtMostOne
    <3>1. Len(s) + i \in 1..Len(s \o t) /\ Len(s) + j \in 1..Len(s \o t)
      BY <1>1, Joined
    <3>2. (s \o t)[Len(s) + i] = t[i] /\ (s \o t)[Len(s) + j] = t[j]
      BY Joined
    <3>3. Len(s) + i = Len(s) + j
      BY <1>2, <3>1, <3>2 DEF AtMostOne
    <3> QED BY <1>1, <3>3
  <2>3. ASSUME Has(s, K), Has(t, K) PROVE FALSE
    <3>1. PICK i \in 1..Len(s) : s[i] \in K
      BY <2>3 DEF Has
    <3>2. PICK j \in 1..Len(t) : t[j] \in K
      BY <2>3 DEF Has
    <3>3. i \in 1..Len(s \o t) /\ Len(s) + j \in 1..Len(s \o t) /\ i # Len(s) + j
      BY <1>1, Joined
    <3>4. (s \o t)[i] = s[i] /\ (s \o t)[Len(s) + j] = t[j]
      BY Joined
    <3> QED BY <1>2, <3>1, <3>2, <3>3, <3>4 DEF AtMostOne
  <2> QED BY <2>1, <2>2, <2>3
<1>3. ASSUME AtMostOne(s, K), AtMostOne(t, K), ~(Has(s, K) /\ Has(t, K))
      PROVE  AtMostOne(s \o t, K)
  <2> SUFFICES ASSUME NEW i \in 1..Len(s \o t), NEW j \in 1..Len(s \o t),
                      (s \o t)[i] \in K, (s \o t)[j] \in K
               PROVE  i = j
    BY DEF AtMostOne
  <2>1. \/ i \in 1..Len(s) /\ s[i] \in K
        \/ i - Len(s) \in 1..Len(t) /\ t[i - Len(s)] \in K
    BY Joined
  <2>2. \/ j \in 1..Len(s) /\ s[j] \in K
        \/ j - Len(s) \in 1..Len(t) /\ t[j - Len(s)] \in K
    BY Joined
  <2>3. i \in Nat /\ j \in Nat
    BY <1>1, Joined
  <2> QED BY <1>1, <1>3, <2>1, <2>2, <2>3 DEF AtMostOne, Has
<1> QED BY <1>2, <1>3

LEMMA OnlyLastJoined ==
  ASSUME NEW S, NEW s \in Seq(S), NEW t \in Seq(S), NEW K
  PROVE  OnlyLast(s \o t, K) <=>
           OnlyLast(t, K) /\ OnlyLast(s, K) /\ (Has(s, K) => t = <<>>)
<1>1. Len(s) \in Nat /\ Len(t) \in Nat /\ Len(s \o t) = Len(s) + Len(t)
  OBVIOUS
<1>2. ASSUME OnlyLast(s \o t, K)
      PROVE  OnlyLast(t, K) /\ OnlyLast(s, K) /\ (Has(s, K) => t = <<>>)
  <2>1. OnlyLast(t, K)
    <3> SUFFICES ASSUME NEW i \in 1..Len(t), t[i] \in K PROVE i = Len(t)
      BY DEF OnlyLast
    <3>1. Len(s) + i \in 1..Len(s \o t) /\ (s \o t)[Len(s) + i] = t[i]
      BY <1>1, Joined
    <3> QED BY <1>1, <1>2, <3>1 DEF OnlyLast
  <2>2. ASSUME NEW i \in 1..Len(s), s[i] \in K PROVE t = <<>> /\ i = Len(s)
    <3>1. i \in 1..Len(s \o t) /\ (s \o t)[i] = s[i]
      BY <1>1, Joined
    <3>2. i = Len(s) + Len(t)
      BY <1>1, <1>2, <2>2, <3>1 DEF OnlyLast
    <3>3. Len(t) = 0 /\ i = Len(s)
      BY <1>1, <3>2
    <3> QED BY <3>3
  <2> QED BY <2>1, <2>2 DEF OnlyLast, Has
<1>3. ASSUME OnlyLast(t, K), OnlyLast(s, K), Has(s, K) => t = <<>>
      PROVE  OnlyLast(s \o t, K)
  <2> SUFFICES ASSUME NEW i \in 1..Len(s \o t), (s \o t)[i] \in K PROVE i = Len(s \o t)
    BY DEF OnlyLast
  <2>1. CASE i \in 1..Len(s) /\ (s \o t)[i] = s[i]
    <3>1. t = <<>> /\ i = Len(s)
      BY <1>3, <2>1 DEF OnlyLast, Has
    <3>2. Len(t) = 0
      BY <3>1
    <3> QED BY <1>1, <3>1, <3>2
  <2>2. CASE i - Len(s) \in 1..Len(t) /\ (s \o t)[i] = t[i - Len(s)]
    <3>1. i - Len(s) = Len(t)
      BY <1>3, <2>2 DEF OnlyLast
    <3> QED BY <1>1, <2>2, <3>1
  <2> QED BY <2>1, <2>2, Joined
<1> QED BY <1>2, <1>3

LEMMA Empty ==
  ASSUME NEW S, NEW K
  PROVE  /\ <<>> \in Seq(S) /\ Len(<<>>) = 0
         /\ ~Has(<<>>, K) /\ AtMostOne(<<>>, K) /\ OnlyLast(<<>>, K)
BY DEF Has, AtMostOne, OnlyLast

LEMMA Single ==
  ASSUME NEW S, NEW K, NEW x \in S
  PROVE  /\ <<x>> \in Seq(S) /\ Len(<<x>>) = 1
         /\ Has(<<x>>, K) <=> x \in K
         /\ AtMostOne(<<x>>, K) /\ OnlyLast(<<x>>, K)
BY DEF Has, AtMostOne, OnlyLast

\* Two sequences with the same elements are one.
LEMMA SameSeq ==
  ASSUME NEW S, NEW s \in Seq(S), NEW t \in Seq(S),
         Len(s) = Len(t), \A i \in 1..Len(s) : s[i] = t[i]
  PROVE  s = t
OBVIOUS

\* A sequence is what is before a place and what is after it.
LEMMA Cut ==
  ASSUME NEW S, NEW s \in Seq(S), NEW k \in 0..Len(s)
  PROVE  /\ SubSeq(s, 1, k) \in Seq(S) /\ SubSeq(s, k + 1, Len(s)) \in Seq(S)
         /\ Len(SubSeq(s, 1, k)) = k /\ Len(SubSeq(s, k + 1, Len(s))) = Len(s) - k
         /\ s = SubSeq(s, 1, k) \o SubSeq(s, k + 1, Len(s))
<1> DEFINE p == SubSeq(s, 1, k)
           q == SubSeq(s, k + 1, Len(s))
<1>1. Len(s) \in Nat /\ k \in Nat /\ k <= Len(s)
  OBVIOUS
<1>2. p \in Seq(S) /\ Len(p) = k /\ \A i \in 1..k : p[i] = s[i]
  BY <1>1
<1>3. q \in Seq(S) /\ Len(q) = Len(s) - k /\ \A i \in 1..Len(s) - k : q[i] = s[k + i]
  BY <1>1
<1> HIDE DEF p, q
<1>4. p \o q \in Seq(S) /\ Len(p \o q) = Len(s)
  BY <1>1, <1>2, <1>3
<1>5. ASSUME NEW i \in 1..Len(s) PROVE (p \o q)[i] = s[i]
  <2> i \in Nat
    BY <1>1
  <2>1. CASE i <= k
    BY <1>1, <1>2, <1>3, <2>1
  <2>2. CASE i > k
    <3>1. i - k \in 1..Len(s) - k /\ k + (i - k) = i
      BY <1>1, <2>2
    <3>2. (p \o q)[i] = q[i - k]
      BY <1>1, <1>2, <1>3, <2>2
    <3> QED BY <1>3, <3>1, <3>2
  <2>3. i <= k \/ i > k
    BY <1>1
  <2> QED BY <2>1, <2>2, <2>3
<1>6. s = p \o q
  BY <1>4, <1>5, SameSeq
<1> QED BY <1>2, <1>3, <1>6 DEF p, q

LEMMA HeadAndTail ==
  ASSUME NEW S, NEW s \in Seq(S), s # <<>>
  PROVE  /\ Head(s) \in S /\ Tail(s) \in Seq(S) /\ s = <<Head(s)>> \o Tail(s)
         /\ Head(s) = s[1] /\ Len(Tail(s)) = Len(s) - 1
         /\ \A i \in 1..Len(s) - 1 : Tail(s)[i] = s[i + 1]
OBVIOUS

LEMMA Associates ==
  ASSUME NEW S, NEW s \in Seq(S), NEW t \in Seq(S), NEW u \in Seq(S)
  PROVE  (s \o t) \o u = s \o (t \o u)
OBVIOUS

LEMMA Appended ==
  ASSUME NEW S, NEW s \in Seq(S), NEW x \in S
  PROVE  Append(s, x) = s \o <<x>> /\ Append(s, x) \in Seq(S)
OBVIOUS
-----------------------------------------------------------------------------
(* The user interface's operators *)

LEMMA NewCommand ==
  ASSUME NEW type \in CommandTypes, NEW n \in Nat
  PROVE  [type |-> type, n |-> n] \in Commands
BY DEF Commands

LEMMA TailJoined ==
  ASSUME NEW S, NEW s \in Seq(S), NEW t \in Seq(S), s # <<>>
  PROVE  s \o t # <<>> /\ Tail(s \o t) = Tail(s) \o t /\ Head(s \o t) = Head(s)
OBVIOUS

\* What each method of the user interface does to its state, field by field.
LEMMA PushType ==
  ASSUME NEW a \in Apps, NEW type \in CommandTypes
  PROVE  /\ Push(a, type) \in Apps
         /\ Push(a, type).commandQueue = a.commandQueue \o <<[type |-> type, n |-> a.pushed + 1]>>
         /\ Push(a, type).connEstablished = a.connEstablished
         /\ Push(a, type).window = a.window
         /\ Push(a, type).speaking = a.speaking
         /\ Push(a, type).phase = a.phase /\ Push(a, type).lastPhase = a.lastPhase
<1> DEFINE c == [type |-> type, n |-> a.pushed + 1]
<1>1. c \in Commands /\ a.commandQueue \in Seq(Commands)
  BY DEF Commands, Apps
<1>2. Append(a.commandQueue, c) \in Seq(Commands) /\ Append(a.commandQueue, c) = a.commandQueue \o <<c>>
  BY <1>1, Appended
<1>3. Push(a, type) = [a EXCEPT !.commandQueue = Append(a.commandQueue, c), !.pushed = a.pushed + 1]
  BY DEF Push
<1>4. a.pushed + 1 \in Nat
  BY DEF Apps
<1> HIDE DEF c
<1>5. Push(a, type) \in Apps
  BY <1>2, <1>3, <1>4 DEF Apps
<1>6. Push(a, type).commandQueue = Append(a.commandQueue, c)
  BY <1>3 DEF Apps
<1>7. /\ Push(a, type).connEstablished = a.connEstablished
      /\ Push(a, type).window = a.window
      /\ Push(a, type).speaking = a.speaking
      /\ Push(a, type).phase = a.phase /\ Push(a, type).lastPhase = a.lastPhase
  BY <1>3 DEF Apps
<1>8. Push(a, type).commandQueue = a.commandQueue \o <<c>>
  BY <1>2, <1>6
<1> QED BY <1>5, <1>7, <1>8 DEF c

LEMMA PopType ==
  ASSUME NEW a \in Apps, Pending(a)
  PROVE  /\ Pop(a) \in Apps
         /\ Pop(a).commandQueue = Tail(a.commandQueue)
         /\ Pop(a).connEstablished = a.connEstablished
         /\ Pop(a).window = a.window
         /\ Pop(a).speaking = a.speaking
         /\ Pop(a).phase = a.phase /\ Pop(a).lastPhase = a.lastPhase
         /\ Current(a) \in Commands
<1>1. a.commandQueue \in Seq(Commands) /\ a.commandQueue # <<>>
  BY DEF Apps, Pending
<1>2. Tail(a.commandQueue) \in Seq(Commands) /\ Head(a.commandQueue) \in Commands
  BY <1>1, HeadAndTail
<1> QED BY <1>2 DEF Pop, Apps, Current, Pending

LEMMA SpeakType ==
  ASSUME NEW a \in Apps
  PROVE  /\ Speak(a) \in Apps
         /\ Speak(a).commandQueue = a.commandQueue
         /\ Speak(a).connEstablished = a.connEstablished
         /\ Speak(a).window = a.window
         /\ Speak(a).phase = a.phase /\ Speak(a).lastPhase = a.lastPhase
BY DEF Speak, Apps

LEMMA UpdatePhaseType ==
  ASSUME NEW a \in Apps, NEW new \in Phases
  PROVE  /\ UpdatePhase(a, new) \in Apps
         /\ UpdatePhase(a, new).commandQueue = a.commandQueue
         /\ UpdatePhase(a, new).connEstablished = a.connEstablished
         /\ UpdatePhase(a, new).window = a.window
         /\ UpdatePhase(a, new).speaking => a.speaking
         /\ UpdatePhase(a, new).pushed = a.pushed
         /\ UpdatePhase(a, new).phase = new
         /\ new = "ERROR" => UpdatePhase(a, new).lastPhase = a.phase
BY DEF UpdatePhase, Apps, Phases

LEMMA SwitchWindowType ==
  ASSUME NEW a \in Apps, NEW new \in Phases
  PROVE  /\ SwitchWindow(a, new) \in Apps
         /\ SwitchWindow(a, new).commandQueue =
              IF new = "GAME"
              THEN a.commandQueue \o <<[type |-> "PROFILE", n |-> a.pushed + 1]>>
              ELSE a.commandQueue
         /\ SwitchWindow(a, new).connEstablished = a.connEstablished
         /\ SwitchWindow(a, new).window = a.window
         /\ SwitchWindow(a, new).speaking => a.speaking
         /\ SwitchWindow(a, new).phase = new
         /\ new = "ERROR" => SwitchWindow(a, new).lastPhase = a.phase
<1>1. "PROFILE" \in CommandTypes
  BY DEF CommandTypes
<1> DEFINE u == UpdatePhase(a, new)
<1>2. /\ u \in Apps /\ u.commandQueue = a.commandQueue /\ u.pushed = a.pushed
      /\ u.connEstablished = a.connEstablished /\ u.window = a.window
      /\ u.speaking => a.speaking
      /\ u.phase = new /\ (new = "ERROR" => u.lastPhase = a.phase)
  BY UpdatePhaseType
<1>3. SwitchWindow(a, new) = IF new = "GAME" THEN Push(u, "PROFILE") ELSE u
  BY DEF SwitchWindow
<1> HIDE DEF u
<1>4. /\ Push(u, "PROFILE") \in Apps
      /\ Push(u, "PROFILE").commandQueue = u.commandQueue \o <<[type |-> "PROFILE", n |-> u.pushed + 1]>>
      /\ Push(u, "PROFILE").connEstablished = u.connEstablished
      /\ Push(u, "PROFILE").window = u.window
      /\ Push(u, "PROFILE").speaking = u.speaking
      /\ Push(u, "PROFILE").phase = u.phase
      /\ Push(u, "PROFILE").lastPhase = u.lastPhase
  BY <1>1, <1>2, PushType
<1> QED BY <1>2, <1>3, <1>4

LEMMA HandleExceptionType ==
  ASSUME NEW a \in Apps, NEW code \in Windows
  PROVE  /\ HandleException(a, code) \in Apps
         /\ code # "lost" => /\ HandleException(a, code).commandQueue = a.commandQueue
                             /\ HandleException(a, code).connEstablished = a.connEstablished
                             /\ a.window # "lost" => HandleException(a, code).window # "lost"
         /\ code = "lost" => /\ HandleException(a, code).commandQueue = <<WaitHandshake>>
                             /\ HandleException(a, code).connEstablished = FALSE
         /\ HandleException(a, code).speaking => a.speaking
         /\ HandleException(a, code).phase = "ERROR"
         /\ HandleException(a, code).lastPhase = a.phase
         /\ HandleException(a, code).window = IF a.phase = "ERROR" THEN "double" ELSE code
<1> DEFINE shown == [a EXCEPT !.window = IF a.phase = "ERROR" THEN "double" ELSE code]
           lost == [shown EXCEPT !.commandQueue = <<WaitHandshake>>, !.connEstablished = FALSE]
<1>1. HandleException(a, code) = SwitchWindow(IF code # "lost" THEN shown ELSE lost, "ERROR")
  BY DEF HandleException, WaitHandshake
<1>2. /\ shown \in Apps /\ shown.commandQueue = a.commandQueue /\ shown.speaking = a.speaking
      /\ shown.connEstablished = a.connEstablished /\ shown.phase = a.phase
      /\ shown.window = IF a.phase = "ERROR" THEN "double" ELSE code
  BY DEF Apps, Windows
<1>3. WaitHandshake \in Commands
  BY DEF WaitHandshake, Commands, CommandTypes
<1>4. <<WaitHandshake>> \in Seq(Commands)
  BY <1>3
<1>5. /\ lost \in Apps /\ lost.commandQueue = <<WaitHandshake>> /\ lost.speaking = a.speaking
      /\ lost.connEstablished = FALSE /\ lost.phase = a.phase
      /\ lost.window = IF a.phase = "ERROR" THEN "double" ELSE code
  BY <1>4 DEF Apps, Windows
<1>6. "ERROR" \in Phases /\ "ERROR" # "GAME"
  BY DEF Phases
<1> HIDE DEF shown, lost
<1>7. CASE code # "lost"
  <2>1. HandleException(a, code) = SwitchWindow(shown, "ERROR")
    BY <1>1, <1>7
  <2>2. /\ SwitchWindow(shown, "ERROR") \in Apps
        /\ SwitchWindow(shown, "ERROR").commandQueue = shown.commandQueue
        /\ SwitchWindow(shown, "ERROR").connEstablished = shown.connEstablished
        /\ SwitchWindow(shown, "ERROR").window = shown.window
        /\ SwitchWindow(shown, "ERROR").speaking => shown.speaking
        /\ SwitchWindow(shown, "ERROR").phase = "ERROR"
        /\ SwitchWindow(shown, "ERROR").lastPhase = shown.phase
        /\ SwitchWindow(shown, "ERROR").window = shown.window
    BY <1>2, <1>6, SwitchWindowType
  <2> QED BY <1>2, <1>7, <2>1, <2>2
<1>8. CASE code = "lost"
  <2>1. HandleException(a, code) = SwitchWindow(lost, "ERROR")
    BY <1>1, <1>8
  <2>2. /\ SwitchWindow(lost, "ERROR") \in Apps
        /\ SwitchWindow(lost, "ERROR").commandQueue = lost.commandQueue
        /\ SwitchWindow(lost, "ERROR").connEstablished = lost.connEstablished
        /\ SwitchWindow(lost, "ERROR").speaking => lost.speaking
        /\ SwitchWindow(lost, "ERROR").phase = "ERROR"
        /\ SwitchWindow(lost, "ERROR").lastPhase = lost.phase
        /\ SwitchWindow(lost, "ERROR").window = lost.window
    <3>1. lost \in Apps
      BY <1>5
    <3> QED BY <3>1, <1>6, SwitchWindowType
  <2> QED BY <1>5, <1>8, <2>1, <2>2
<1> QED BY <1>7, <1>8

\* b is a with more commands in its queue, none of which stands for the handshake.
Grows(a, b) ==
  /\ b \in Apps /\ b.window = a.window
  /\ \E more \in Seq(Commands) :
       ~Has(more, Placeholders) /\ b.commandQueue = a.commandQueue \o more

LEMMA NothingGrows ==
  ASSUME NEW a \in Apps, NEW b \in Apps,
         b.window = a.window, b.commandQueue = a.commandQueue
  PROVE  Grows(a, b)
<1>1. <<>> \in Seq(Commands) /\ ~Has(<<>>, Placeholders)
  BY Empty
<1>2. a.commandQueue = a.commandQueue \o <<>>
  BY DEF Apps
<1> QED BY <1>1, <1>2 DEF Grows

LEMMA OneGrows ==
  ASSUME NEW a \in Apps, NEW b \in Apps, NEW type \in CommandTypes \ {"WAIT_HANDSHAKE"}, NEW n \in Nat,
         b.window = a.window, b.commandQueue = a.commandQueue \o <<[type |-> type, n |-> n]>>
  PROVE  Grows(a, b)
<1> DEFINE c == [type |-> type, n |-> n]
<1>1. c \in Commands /\ c \notin Placeholders
  BY DEF Commands, Placeholders
<1> HIDE DEF c
<1>2. <<c>> \in Seq(Commands) /\ ~Has(<<c>>, Placeholders)
  BY <1>1, Single
<1>3. b.commandQueue = a.commandQueue \o <<c>>
  BY DEF c
<1> QED BY <1>2, <1>3 DEF Grows

LEMMA GrowsTwice ==
  ASSUME NEW a \in Apps, NEW b, NEW c, Grows(a, b), Grows(b, c)
  PROVE  Grows(a, c)
<1>1. PICK more \in Seq(Commands) :
        ~Has(more, Placeholders) /\ b.commandQueue = a.commandQueue \o more
  BY DEF Grows
<1>2. PICK still \in Seq(Commands) :
        ~Has(still, Placeholders) /\ c.commandQueue = b.commandQueue \o still
  BY DEF Grows
<1>3. a.commandQueue \in Seq(Commands)
  BY DEF Apps
<1>4. (a.commandQueue \o more) \o still = a.commandQueue \o (more \o still)
  <2> DEFINE q == a.commandQueue
  <2>1. q \in Seq(Commands)
    BY <1>3
  <2> HIDE DEF q
  <2>2. (q \o more) \o still = q \o (more \o still)
    BY <2>1, Associates
  <2> QED BY <2>2 DEF q
<1>5. more \o still \in Seq(Commands) /\ ~Has(more \o still, Placeholders)
  BY <1>1, <1>2, HasJoined
<1>6. c.commandQueue = a.commandQueue \o (more \o still)
  BY <1>1, <1>2, <1>4
<1>7. c \in Apps /\ c.window = a.window
  BY DEF Grows
<1> QED BY <1>5, <1>6, <1>7 DEF Grows

LEMMA SwitchWindowGrows ==
  ASSUME NEW a \in Apps, NEW new \in Phases
  PROVE  /\ Grows(a, SwitchWindow(a, new))
         /\ SwitchWindow(a, new).connEstablished = a.connEstablished
         /\ SwitchWindow(a, new).speaking => a.speaking
<1>1. /\ SwitchWindow(a, new).connEstablished = a.connEstablished
      /\ SwitchWindow(a, new).speaking => a.speaking
  BY SwitchWindowType
<1>2. a.pushed + 1 \in Nat /\ "PROFILE" \in CommandTypes \ {"WAIT_HANDSHAKE"}
  BY DEF Apps, CommandTypes
<1>3. CASE new = "GAME"
  <2>1. /\ SwitchWindow(a, new) \in Apps /\ SwitchWindow(a, new).window = a.window
        /\ SwitchWindow(a, new).commandQueue =
             a.commandQueue \o <<[type |-> "PROFILE", n |-> a.pushed + 1]>>
    BY <1>3, SwitchWindowType
  <2>2. Grows(a, SwitchWindow(a, new))
    BY <1>2, <2>1, OneGrows
  <2> QED BY <1>1, <2>2
<1>4. CASE new # "GAME"
  <2>1. /\ SwitchWindow(a, new) \in Apps /\ SwitchWindow(a, new).window = a.window
        /\ SwitchWindow(a, new).commandQueue = a.commandQueue
    BY <1>4, SwitchWindowType
  <2>2. Grows(a, SwitchWindow(a, new))
    BY <2>1, NothingGrows
  <2> QED BY <1>1, <2>2
<1> QED BY <1>3, <1>4

LEMMA ShakeHandsGrows ==
  ASSUME NEW a \in Apps, a.phase \in {"ND", "ERROR"}
  PROVE  Grows(a, ShakeHands(a))
<1> DEFINE b == [a EXCEPT !.connEstablished = TRUE, !.keyboard = TRUE]
<1>1. b \in Apps /\ b.window = a.window /\ b.commandQueue = a.commandQueue
  BY DEF Apps
<1>2. Grows(a, b)
  BY <1>1, NothingGrows
<1>3. CASE a.phase = "ND"
  <2>1. ShakeHands(a) = SwitchWindow(b, "LOGIN")
    BY <1>3 DEF ShakeHands
  <2>2. Grows(b, SwitchWindow(b, "LOGIN"))
    BY <1>1, SwitchWindowGrows DEF Phases
  <2> HIDE DEF b
  <2> QED BY <1>2, <2>1, <2>2, GrowsTwice
<1>4. CASE a.phase = "ERROR" /\ a.named
  <2>1. ShakeHands(a) = Speak(Push(b, "CONNECT"))
    BY <1>4 DEF ShakeHands
  <2> HIDE DEF b
  <2>2. "CONNECT" \in CommandTypes \ {"WAIT_HANDSHAKE"} /\ b.pushed + 1 \in Nat
    BY <1>1 DEF Apps, CommandTypes
  <2> DEFINE p == Push(b, "CONNECT")
  <2>3. /\ p \in Apps /\ p.window = b.window
        /\ p.commandQueue = b.commandQueue \o <<[type |-> "CONNECT", n |-> b.pushed + 1]>>
    BY <1>1, <2>2, PushType
  <2> HIDE DEF p
  <2>4. /\ Speak(p) \in Apps /\ Speak(p).window = b.window
        /\ Speak(p).commandQueue = b.commandQueue \o <<[type |-> "CONNECT", n |-> b.pushed + 1]>>
    BY <2>3, SpeakType
  <2>5. Grows(b, Speak(p))
    BY <1>1, <2>2, <2>4, OneGrows
  <2> QED BY <1>2, <2>1, <2>5, GrowsTwice DEF p
<1>5. CASE a.phase = "ERROR" /\ ~a.named
  <2>1. ShakeHands(a) = SwitchWindow(b, b.lastPhase)
    BY <1>5 DEF ShakeHands, Restore
  <2>2. b.lastPhase \in Phases
    BY <1>1 DEF Apps
  <2>3. Grows(b, SwitchWindow(b, b.lastPhase))
    BY <1>1, <2>2, SwitchWindowGrows
  <2> HIDE DEF b
  <2> QED BY <1>2, <2>1, <2>3, GrowsTwice
<1>6. a.named \in BOOLEAN
  BY DEF Apps
<1> QED BY <1>3, <1>4, <1>5, <1>6

\* Only the greeting, or what is taken for it, changes the state of the connection.
Greets(a, l) ==
  \/ a.phase = "ND" /\ l.kind = "hello"
  \/ a.phase = "ERROR" /\ Current(a).type = "WAIT_HANDSHAKE"

\* An answer only ever adds to the queue before its command is popped.
LEMMA ResponseGrows ==
  ASSUME NEW a \in Apps, NEW l, NEW b \in Response(a, l)
  PROVE  /\ Grows(a, b)
         /\ ~Greets(a, l) => b.connEstablished = a.connEstablished /\ (b.speaking => a.speaking)
<1>1. Grows(a, a)
  BY NothingGrows
<1>2. CASE a.phase = "ND"
  <2>1. b = ShakeHands(a) \/ b = a
    BY <1>2 DEF Response
  <2>2. ~Greets(a, l) => b = a
    BY <1>2 DEF Response, Greets
  <2> QED BY <1>1, <1>2, <2>1, <2>2, ShakeHandsGrows
<1>3. CASE a.phase \in {"LOGIN", "PLAYER_CREATE"}
  <2>1. b = SwitchWindow(a, "GAME") \/ b = a
    BY <1>3 DEF Response
  <2>2. "GAME" \in Phases
    BY DEF Phases
  <2> QED BY <1>1, <2>1, <2>2, SwitchWindowGrows
<1>4. CASE a.phase = "GAME"
  <2>1. \/ b = a
        \/ \E n \in BOOLEAN : b = [a EXCEPT !.named = n]
    BY <1>4 DEF Response
  <2>2. ASSUME NEW n \in BOOLEAN, b = [a EXCEPT !.named = n]
        PROVE  /\ b \in Apps /\ b.window = a.window /\ b.commandQueue = a.commandQueue
               /\ b.connEstablished = a.connEstablished /\ b.speaking = a.speaking
    BY <2>2 DEF Apps
  <2>3. \/ b = a
        \/ /\ b \in Apps /\ b.window = a.window /\ b.commandQueue = a.commandQueue
           /\ b.connEstablished = a.connEstablished /\ b.speaking = a.speaking
    BY <2>1, <2>2
  <2> QED BY <1>1, <2>3, NothingGrows
<1>5. CASE a.phase = "ERROR"
  <2>1. CASE Current(a).type = "WAIT_HANDSHAKE"
    <3>1. b = ShakeHands(a)
      BY <1>5, <2>1 DEF Response
    <3> QED BY <1>5, <2>1, <3>1, ShakeHandsGrows DEF Greets
  <2>2. CASE Current(a).type # "WAIT_HANDSHAKE"
    <3>1. b = SwitchWindow(a, a.lastPhase) \/ b = a
      BY <1>5, <2>2 DEF Response, Restore
    <3>2. a.lastPhase \in Phases
      BY DEF Apps
    <3> QED BY <1>1, <3>1, <3>2, SwitchWindowGrows
  <2> QED BY <2>1, <2>2
<1>6. a.phase \in {"ND", "LOGIN", "PLAYER_CREATE", "GAME", "ERROR"}
  BY DEF Apps, Phases
<1> QED BY <1>2, <1>3, <1>4, <1>5, <1>6

\* What is popped is the first of the queue, whatever the answer has added behind it.
Popped(a, b) ==
  \E more \in Seq(Commands) :
    ~Has(more, Placeholders) /\ b.commandQueue = Tail(a.commandQueue) \o more

\* A line pops the first command or changes nothing.
LEMMA DispatchedPops ==
  ASSUME NEW a \in Apps, NEW l, NEW b \in Dispatched(a, l)
  PROVE  /\ b \in Apps /\ b.window = a.window
         /\ \/ b = a /\ (l.kind \notin Responses \cup Refusals \/ ~Pending(a))
            \/ l.kind \in Responses \cup Refusals /\ Pending(a) /\ Popped(a, b)
         /\ ~Greets(a, l) => b.connEstablished = a.connEstablished /\ (b.speaking => a.speaking)
<1>1. a.commandQueue \in Seq(Commands)
  BY DEF Apps
<1>2. CASE l.kind \in Responses /\ Pending(a)
  <2>1. Dispatched(a, l) = {Pop(d) : d \in Response(a, l)}
    BY <1>2 DEF Dispatched, Responses, Refusals
  <2>2. PICK c \in Response(a, l) : b = Pop(c)
    BY <2>1
  <2>3. /\ Grows(a, c)
        /\ ~Greets(a, l) => c.connEstablished = a.connEstablished /\ (c.speaking => a.speaking)
    BY ResponseGrows
  <2>4. PICK more \in Seq(Commands) :
          ~Has(more, Placeholders) /\ c.commandQueue = a.commandQueue \o more
    BY <2>3 DEF Grows
  <2>5. Pending(c) /\ Tail(c.commandQueue) = Tail(a.commandQueue) \o more
    BY <1>1, <1>2, <2>4, TailJoined DEF Pending
  <2>6. c \in Apps /\ c.window = a.window
    BY <2>3 DEF Grows
  <2>7. /\ b \in Apps /\ b.commandQueue = Tail(c.commandQueue) /\ b.window = c.window
        /\ b.connEstablished = c.connEstablished /\ b.speaking = c.speaking
    BY <2>2, <2>5, <2>6, PopType
  <2> QED BY <1>2, <2>3, <2>4, <2>5, <2>6, <2>7 DEF Popped
<1>3. CASE l.kind \in Refusals /\ Pending(a)
  <2>1. b = Pop(a)
    BY <1>3 DEF Dispatched, Responses, Refusals
  <2>2. /\ b \in Apps /\ b.commandQueue = Tail(a.commandQueue) /\ b.window = a.window
        /\ b.connEstablished = a.connEstablished /\ b.speaking = a.speaking
    BY <1>3, <2>1, PopType
  <2>3. Tail(a.commandQueue) \in Seq(Commands)
    BY <1>1, <1>3, HeadAndTail DEF Pending
  <2>4. Tail(a.commandQueue) = Tail(a.commandQueue) \o <<>> /\ <<>> \in Seq(Commands)
    BY <2>3
  <2>5. Popped(a, b)
    BY <2>2, <2>4, Empty DEF Popped
  <2> QED BY <1>3, <2>2, <2>5
<1>4. CASE (l.kind \notin Responses \cup Refusals) \/ ~Pending(a)
  <2>1. b = a
    BY <1>4 DEF Dispatched
  <2> QED BY <1>4, <2>1
<1> QED BY <1>2, <1>3, <1>4

LEMMA SwitchWindowWay ==
  ASSUME NEW a \in Apps, NEW new \in Phases, WayBack(a), new = "ERROR" => a.phase = "ERROR"
  PROVE  WayBack(SwitchWindow(a, new)) /\ SwitchWindow(a, new).phase = new
<1>1. /\ SwitchWindow(a, new).window = a.window /\ SwitchWindow(a, new).phase = new
      /\ new = "ERROR" => SwitchWindow(a, new).lastPhase = a.phase
  BY SwitchWindowType
<1> QED BY <1>1 DEF WayBack

\* Answered or not, there is a way back.
LEMMA ResponseWay ==
  ASSUME NEW a \in Apps, NEW l, NEW b \in Response(a, l),
         WayBack(a), Pending(a), l.kind \in Responses, ~Fails(a, l)
  PROVE  WayBack(b) /\ (b.phase = "ND" => a.phase = "ND")
<1> DEFINE greeted == [a EXCEPT !.connEstablished = TRUE, !.keyboard = TRUE]
<1>1. /\ greeted \in Apps /\ WayBack(greeted) /\ greeted.phase = a.phase
      /\ greeted.lastPhase = a.lastPhase
  BY DEF Apps, WayBack
<1>2. CASE a.phase = "ND"
  <2>1. b = SwitchWindow(greeted, "LOGIN") \/ b = a
    BY <1>2 DEF Response, ShakeHands
  <2> HIDE DEF greeted
  <2> QED BY <1>1, <1>2, <2>1, SwitchWindowWay DEF Phases
<1>3. CASE a.phase \in {"LOGIN", "PLAYER_CREATE"}
  <2>1. b = SwitchWindow(a, "GAME") \/ b = a
    BY <1>3 DEF Response
  <2> QED BY <2>1, SwitchWindowWay DEF Phases
<1>4. CASE a.phase = "GAME"
  <2>1. \/ b = a
        \/ \E n \in BOOLEAN : b = [a EXCEPT !.named = n]
    BY <1>4 DEF Response
  <2>2. ASSUME NEW n \in BOOLEAN, b = [a EXCEPT !.named = n]
        PROVE  b.phase = a.phase
    BY <2>2 DEF Apps
  <2> QED BY <1>4, <2>1, <2>2 DEF WayBack
<1>5. CASE a.phase = "ERROR" /\ Current(a).type = "WAIT_HANDSHAKE"
  <2>1. b = ShakeHands(a)
    BY <1>5 DEF Response
  <2>2. CASE a.named
    <3>1. b = Speak(Push(greeted, "CONNECT"))
      BY <1>5, <2>1, <2>2 DEF ShakeHands
    <3>2. "CONNECT" \in CommandTypes
      BY DEF CommandTypes
    <3> DEFINE p == Push(greeted, "CONNECT")
    <3>3. /\ p \in Apps /\ p.phase = greeted.phase /\ p.lastPhase = greeted.lastPhase
          /\ p.window = greeted.window
      BY <1>1, <3>2, PushType
    <3> HIDE DEF p
    <3>4. /\ Speak(p).phase = greeted.phase /\ Speak(p).lastPhase = greeted.lastPhase
          /\ Speak(p).window = greeted.window
      BY <3>3, SpeakType
    <3> HIDE DEF greeted
    <3> QED BY <1>1, <1>5, <3>1, <3>4 DEF WayBack, p
  <2>3. CASE ~a.named
    <3>1. b = SwitchWindow(greeted, greeted.lastPhase)
      BY <1>5, <2>1, <2>3 DEF ShakeHands, Restore
    <3>2. greeted.lastPhase # "ND"
      BY <1>1, <1>5, <2>3 DEF Fails
    <3>3. greeted.lastPhase \in Phases
      BY <1>1 DEF Apps
    <3> HIDE DEF greeted
    <3> QED BY <1>1, <1>5, <3>1, <3>2, <3>3, SwitchWindowWay
  <2> QED BY <2>2, <2>3
<1>6. CASE a.phase = "ERROR" /\ Current(a).type # "WAIT_HANDSHAKE"
  <2>1. (b = SwitchWindow(a, a.lastPhase) /\ Current(a).type = "CONNECT") \/ b = a
    BY <1>6 DEF Response, Restore
  <2>2. Current(a).type = "CONNECT" => a.lastPhase # "ND"
    BY <1>6 DEF Fails
  <2>3. a.lastPhase \in Phases
    BY DEF Apps
  <2> QED BY <1>6, <2>1, <2>2, <2>3, SwitchWindowWay
<1>7. a.phase \in {"ND", "LOGIN", "PLAYER_CREATE", "GAME", "ERROR"}
  BY DEF Apps, Phases
<1> QED BY <1>2, <1>3, <1>4, <1>5, <1>6, <1>7

LEMMA DispatchedWay ==
  ASSUME NEW a \in Apps, NEW l, NEW b \in Dispatched(a, l), WayBack(a), ~Fails(a, l)
  PROVE  WayBack(b) /\ (b.phase = "ND" => a.phase = "ND")
<1>1. CASE l.kind \in Responses /\ Pending(a)
  <2>1. Dispatched(a, l) = {Pop(d) : d \in Response(a, l)}
    BY <1>1 DEF Dispatched, Responses, Refusals
  <2>2. PICK c \in Response(a, l) : b = Pop(c)
    BY <2>1
  <2>3. WayBack(c) /\ (c.phase = "ND" => a.phase = "ND") /\ Grows(a, c)
    BY <1>1, ResponseWay, ResponseGrows
  <2>4. c \in Apps /\ Pending(c)
    <3>1. PICK more \in Seq(Commands) : c.commandQueue = a.commandQueue \o more
      BY <2>3 DEF Grows
    <3>2. a.commandQueue \in Seq(Commands)
      BY DEF Apps
    <3> QED BY <1>1, <2>3, <3>1, <3>2, TailJoined DEF Grows, Pending
  <2>5. b.phase = c.phase /\ b.lastPhase = c.lastPhase /\ b.window = c.window
    BY <2>2, <2>4, PopType
  <2> QED BY <2>3, <2>5 DEF WayBack
<1>2. CASE l.kind \in Refusals /\ Pending(a)
  <2>1. b = Pop(a)
    BY <1>2 DEF Dispatched, Responses, Refusals
  <2> QED BY <1>2, <2>1, PopType DEF WayBack
<1>3. CASE (l.kind \notin Responses \cup Refusals) \/ ~Pending(a)
  BY <1>3 DEF Dispatched
<1> QED BY <1>1, <1>2, <1>3

\* What HandleCommand does in a phase that has a window.
LEMMA HandleCommandType ==
  ASSUME NEW a \in Apps, NEW input \in {"name"} \cup Typed, a.phase # "ND"
  PROVE  LET b == HandleCommand(a, input) IN
         /\ b \in Apps /\ b.connEstablished = a.connEstablished
         /\ a.window # "lost" => b.window # "lost"
         /\ b.phase # "ND" /\ (WayBack(a) => WayBack(b))
         /\ \E more \in Seq(Commands) :
              /\ ~Has(more, Placeholders)
              /\ \/ b.commandQueue = a.commandQueue \o more
                 \/ /\ a.phase \in {"LOGIN", "PLAYER_CREATE"} /\ Pending(a)
                    /\ b.commandQueue = Tail(a.commandQueue) \o more
         /\ a.phase = "GAME" /\ b.speaking => a.speaking \/ ~Pending(a)
<1> DEFINE b == HandleCommand(a, input)
<1>1. a.commandQueue \in Seq(Commands) /\ a.pushed + 1 \in Nat
  BY DEF Apps
<1>2. CASE a.phase \in {"LOGIN", "PLAYER_CREATE"}
  <2>1. PICK type \in {"CONNECT", "CREATE_PLAYER"} : b = Request(a, type)
    BY <1>2 DEF HandleCommand
  <2>2. type \in CommandTypes \ {"WAIT_HANDSHAKE"}
    BY <2>1 DEF CommandTypes
  <2> DEFINE o == IF Pending(a) THEN Pop(a) ELSE a
             p == Push(o, type)
             c == [type |-> type, n |-> o.pushed + 1]
  <2>3. /\ o \in Apps /\ o.connEstablished = a.connEstablished /\ o.window = a.window
        /\ o.phase = a.phase
        /\ o.commandQueue = IF Pending(a) THEN Tail(a.commandQueue) ELSE a.commandQueue
    BY PopType
  <2>4. o.pushed + 1 \in Nat
    BY <2>3 DEF Apps
  <2> HIDE DEF o
  <2>5. /\ p \in Apps /\ p.connEstablished = o.connEstablished /\ p.window = o.window
        /\ p.phase = o.phase /\ p.commandQueue = o.commandQueue \o <<c>>
    BY <2>2, <2>3, PushType
  <2>6. c \in Commands /\ c \notin Placeholders
    BY <2>2, <2>4 DEF Commands, Placeholders
  <2>7. b = IF Len(p.commandQueue) = 1 THEN Speak(p) ELSE p
    BY <2>1 DEF Request, o
  <2> HIDE DEF p, c, b
  <2>8. <<c>> \in Seq(Commands) /\ ~Has(<<c>>, Placeholders)
    BY <2>6, Single
  <2>9. /\ b \in Apps /\ b.connEstablished = p.connEstablished /\ b.window = p.window
        /\ b.phase = p.phase /\ b.commandQueue = p.commandQueue
    BY <2>5, <2>7, SpeakType
  <2>10. b.commandQueue = (IF Pending(a) THEN Tail(a.commandQueue) ELSE a.commandQueue) \o <<c>>
    BY <2>3, <2>5, <2>9
  <2>11. b.phase = a.phase /\ b.window = a.window /\ b.connEstablished = a.connEstablished
    BY <2>3, <2>5, <2>9
  <2>12. \E more \in Seq(Commands) :
           /\ ~Has(more, Placeholders)
           /\ \/ b.commandQueue = a.commandQueue \o more
              \/ /\ a.phase \in {"LOGIN", "PLAYER_CREATE"} /\ Pending(a)
                 /\ b.commandQueue = Tail(a.commandQueue) \o more
    BY <1>2, <2>8, <2>10
  <2> QED BY <1>2, <2>9, <2>11, <2>12 DEF WayBack, b
<1>3. CASE a.phase \in {"GAME", "ERROR"} /\ input = "name"
  <2>1. b = HandleException(a, "other")
    BY <1>3 DEF HandleCommand
  <2>2. "other" \in Windows
    BY DEF Windows
  <2>3. a.commandQueue = a.commandQueue \o <<>> /\ <<>> \in Seq(Commands)
        /\ ~Has(<<>>, Placeholders)
    BY <1>1, Empty
  <2> HIDE DEF b
  <2>4. /\ b \in Apps /\ b.connEstablished = a.connEstablished
        /\ a.window # "lost" => b.window # "lost"
        /\ b.phase = "ERROR" /\ b.window # "server"
        /\ b.commandQueue = a.commandQueue /\ (b.speaking => a.speaking)
    BY <2>1, <2>2, HandleExceptionType
  <2> QED BY <2>3, <2>4 DEF b, WayBack
<1>4. CASE a.phase \in {"GAME", "ERROR"} /\ input # "name"
  <2>1. b = Enqueue(a, input)
    BY <1>4 DEF HandleCommand
  <2>2. input \in CommandTypes \ {"WAIT_HANDSHAKE"}
    BY <1>4 DEF CommandTypes, Typed
  <2> DEFINE p == Push(a, input)
             c == [type |-> input, n |-> a.pushed + 1]
  <2>3. c \in Commands /\ c \notin Placeholders
    BY <1>1, <2>2 DEF Commands, Placeholders
  <2>4. /\ p \in Apps /\ p.connEstablished = a.connEstablished /\ p.window = a.window
        /\ p.phase = a.phase /\ p.lastPhase = a.lastPhase /\ p.speaking = a.speaking
        /\ p.commandQueue = a.commandQueue \o <<c>>
    BY <2>2, PushType
  <2>5. b = IF Len(p.commandQueue) = 1 THEN Speak(p) ELSE p
    BY <2>1 DEF Enqueue
  <2> HIDE DEF p, c, b
  <2>6. <<c>> \in Seq(Commands) /\ ~Has(<<c>>, Placeholders)
    BY <2>3, Single
  <2>7. /\ b \in Apps /\ b.connEstablished = p.connEstablished /\ b.window = p.window
        /\ b.phase = p.phase /\ b.lastPhase = p.lastPhase /\ b.commandQueue = p.commandQueue
    BY <2>4, <2>5, SpeakType
  <2>8. b.speaking => a.speaking \/ ~Pending(a)
    <3>1. Len(p.commandQueue) = Len(a.commandQueue) + 1
      BY <1>1, <2>3, <2>4
    <3>2. Len(p.commandQueue) = 1 => ~Pending(a)
      <4> SUFFICES ASSUME Len(p.commandQueue) = 1 PROVE ~Pending(a)
        OBVIOUS
      <4>1. Len(a.commandQueue) \in Nat
        BY <1>1
      <4>2. Len(a.commandQueue) + 1 = 1
        BY <3>1
      <4>3. Len(a.commandQueue) = 0
        BY <4>1, <4>2
      <4> QED BY <1>1, <4>3 DEF Pending
    <3> QED BY <2>4, <2>5, <3>2
  <2>9. WayBack(a) => WayBack(b)
    BY <2>4, <2>7 DEF WayBack
  <2>10. \E more \in Seq(Commands) :
           ~Has(more, Placeholders) /\ b.commandQueue = a.commandQueue \o more
    BY <2>4, <2>6, <2>7
  <2> QED BY <1>4, <2>4, <2>7, <2>8, <2>9, <2>10 DEF b
<1>5. a.phase \in {"LOGIN", "PLAYER_CREATE", "GAME", "ERROR"}
  BY DEF Apps, Phases
<1> QED BY <1>2, <1>3, <1>4, <1>5
-----------------------------------------------------------------------------
(* Types and shape *)

LEMMA FreshType == Fresh \in Apps /\ Fresh.commandQueue = <<>> /\ ~Fresh.connEstablished
BY DEF Fresh, Apps, Phases, Windows

LEMMA InitTypeOK == Init => TypeOK /\ Shape
<1> SUFFICES ASSUME Init PROVE TypeOK /\ Shape
  OBVIOUS
<1>1. Hello \in Lines
  BY DEF Hello, Line, Lines
<1>2. <<Hello>> \in Seq(Lines)
  BY <1>1
<1>3. 0 \in 0..MaxInputs /\ 0 \in 0..(MaxInputs + 1) /\ 0 \in 0..MaxIncidents
  BY ClientAssumption DEF ClientAssumption
<1>4. TypeOK
  <2>1. <<>> \in Seq(Commands) /\ <<>> \in Seq(Lines) /\ <<>> \in Seq({"name"} \cup Typed) /\ Len(<<>>) = 0
    BY Empty
  <2>2. Len(<<>>) <= 1
    BY <2>1
  <2> QED BY <1>2, <1>3, <2>1, <2>2, FreshType DEF Init, TypeOK
<1>5. Shape
  BY <1>3 DEF Init, Shape, WayBack, Fresh
<1> QED BY <1>4, <1>5

\* What a thread handles next was ready (Next1 is a choice from what is due).
LEMMA TurnTaken ==
  ASSUME TypeOK, NEW e, Turn(e)
  PROVE  e \in due
<1> DEFINE P(k) == \E f \in due : Order[f] = k
<1>1. due # {} /\ due \subseteq DOMAIN Order
  BY DEF TypeOK, Turn, Order
<1>2. \A f \in due : Order[f] \in 1..6
  BY <1>1 DEF Order, TypeOK
<1>3. \E f \in due : \A g \in due : Order[f] <= Order[g]
  <2>1. CASE P(1)
    BY <2>1, <1>2
  <2>2. CASE ~P(1) /\ P(2)
    BY <2>2, <1>2
  <2>3. CASE ~P(1) /\ ~P(2) /\ P(3)
    BY <2>3, <1>2
  <2>4. CASE ~P(1) /\ ~P(2) /\ ~P(3) /\ P(4)
    BY <2>4, <1>2
  <2>5. CASE ~P(1) /\ ~P(2) /\ ~P(3) /\ ~P(4) /\ P(5)
    BY <2>5, <1>2
  <2>6. CASE ~P(1) /\ ~P(2) /\ ~P(3) /\ ~P(4) /\ ~P(5)
    BY <2>6, <1>1, <1>2
  <2> QED BY <2>1, <2>2, <2>3, <2>4, <2>5, <2>6
<1>4. Next1 \in due
  BY <1>3 DEF Next1
<1> QED BY <1>4 DEF Turn

\* The steps of the user interface that take no line and no input.
LEMMA ScreenTypeOK ==
  ASSUME TypeOK, Shape,
         \/ StartThread \/ StoreKeepAlive \/ PollUI \/ EndSplit \/ ExitLoop \/ WakeUpWorker \/ Join
         \/ PressClose \/ Reconnect
  PROVE  TypeOK' /\ Shape'
<1>1. CASE StartThread
  BY <1>1 DEF StartThread, TypeOK, Shape, pair, served, budget, history
<1>2. CASE StoreKeepAlive
  <2>1. WaitHandshake \in Commands
    BY DEF WaitHandshake, Commands, CommandTypes
  <2>2. Append(app.commandQueue, WaitHandshake) \in Seq(Commands)
    BY <2>1 DEF TypeOK, Apps
  <2>3. app' \in Apps /\ app'.phase = app.phase /\ app'.window = app.window /\ app'.lastPhase = app.lastPhase
    BY <1>2, <2>2 DEF StoreKeepAlive, TypeOK, Apps
  <2>4. TypeOK'
    BY <1>2, <2>3 DEF StoreKeepAlive, TypeOK, pair, served, budget, history
  <2>5. Shape'
    BY <1>2, <2>3 DEF StoreKeepAlive, Shape, WayBack, pair, served, budget, history
  <2> QED BY <2>4, <2>5
<1>3. CASE PollUI
  <2>1. turn' \subseteq Ready
    BY <1>3 DEF PollUI
  <2>2. turn' \subseteq {"in", "out", "cmd"} /\ ("in" \in turn' => answers # <<>>)
        /\ ("cmd" \in turn' => commandPipe # <<>>)
    BY <2>1 DEF Ready
  <2> QED BY <1>3, <2>2 DEF PollUI, TypeOK, Shape, worked, pair, served, budget, history
<1>4. CASE EndSplit
  <2>1. /\ app' \in Apps /\ app'.phase = app.phase /\ app'.window = app.window
        /\ app'.lastPhase = app.lastPhase
    BY <1>4, SpeakType DEF EndSplit, TypeOK
  <2> QED BY <1>4, <2>1 DEF EndSplit, TypeOK, Shape, WayBack, worked, pair, served, budget, history
<1>5. CASE ExitLoop
  <2>1. TypeOK'
    BY <1>5 DEF ExitLoop, TypeOK, pair, served, budget, history
  <2>2. Shape'
    BY <1>5 DEF ExitLoop, Shape, WayBack, pair, served, budget, history
  <2> QED BY <2>1, <2>2
<1>6. CASE WakeUpWorker
  <2>1. wakeups' \in 0..(MaxInputs + 1) /\ wakeups' <= inputs + 1
    <3>1. ui = "wake" /\ wakeups' = wakeups + 1
      BY <1>6 DEF WakeUpWorker
    <3>2. wakeups \in Nat /\ inputs \in 0..MaxInputs
      BY DEF TypeOK
    <3>3. wakeups <= inputs + 0
      BY <3>1 DEF Shape
    <3>4. MaxInputs \in Nat
      BY ClientAssumption DEF ClientAssumption
    <3> QED BY <3>1, <3>2, <3>3, <3>4
  <2> QED BY <1>6, <2>1 DEF WakeUpWorker, TypeOK, Shape, worked, pair, served, budget, history
<1>7. CASE Join
  BY <1>7 DEF Join, TypeOK, Shape, worked, pair, served, budget, history
<1>8. CASE PressClose
  BY <1>8 DEF PressClose, AtKeyboard, TypeOK, Shape, worked, pair, served, budget, history
<1>9. CASE Reconnect
  <2>1. /\ wakeups' \in 0..(MaxInputs + 1) /\ inputs' \in 0..MaxInputs
        /\ incidents' = incidents /\ ui' = "poll" /\ wakeups' > 0
        /\ wakeups' <= inputs' + 0
    <3>1. /\ ui = "poll" /\ inputs < MaxInputs /\ inputs' = inputs + 1 /\ wakeups' = wakeups + 1
          /\ incidents' = incidents
      BY <1>9 DEF Reconnect, AtKeyboard, UserActs
    <3>2. /\ wakeups \in Nat /\ inputs \in Nat /\ MaxInputs \in Nat /\ wakeups <= inputs
      BY <3>1, ClientAssumption DEF TypeOK, Shape, ClientAssumption
    <3>3. ui' = "poll"
      BY <1>9, <3>1 DEF Reconnect, screen
    <3> QED BY <3>1, <3>2, <3>3
  <2>2. TypeOK'
    BY <1>9, <2>1 DEF Reconnect, TypeOK, screen, worked, pair, served, history
  <2>3. wakeups' <= inputs' + IF ui' \in {"join", "stopped"} THEN 1 ELSE 0
    BY <2>1
  <2>4. wakeups > 0 => wakeups' > 0
    BY <2>1
  <2> QED BY <1>9, <2>1, <2>2, <2>3 DEF Reconnect, Shape, screen, worked, pair, served, history
<1> QED BY <1>1, <1>2, <1>3, <1>4, <1>5, <1>6, <1>7, <1>8, <1>9

\* Reading takes the lines to the buffer in order.
LEMMA ReadIs ==
  ASSUME TypeOK, Shape, ReadFromServer
  PROVE  /\ toGameBuffer' \in Seq(Lines) /\ answers' \in Seq(Lines)
         /\ toGameBuffer' \o answers' = toGameBuffer \o answers
         /\ split' \in BOOLEAN /\ disturbed' \in BOOLEAN
         /\ split' => answers' # <<>> /\ (disturbed' <=> disturbed \/ Awaiting)
         /\ ~split' => answers' = <<>> /\ disturbed' = disturbed /\ toGameBuffer' # <<>>
         /\ incidents' \in 0..MaxIncidents /\ inputs' = inputs
         /\ ui = "poll" /\ ui' = "split" /\ turn' = turn \ {"in"}
         /\ UNCHANGED <<app, commandPipe, worked, wakeups, commands, served, mismatched>>
<1>1. /\ answers \in Seq(Lines) /\ toGameBuffer \in Seq(Lines) /\ answers # <<>>
      /\ ui = "poll" /\ ui' = "split" /\ turn' = turn \ {"in"}
  BY DEF ReadFromServer, TypeOK, Shape
<1>2. PICK k \in {Len(answers)} \cup (IF split THEN {} ELSE {Len(answers) - 1}) :
        /\ toGameBuffer' = toGameBuffer \o SubSeq(answers, 1, k)
        /\ answers' = SubSeq(answers, k + 1, Len(answers))
        /\ split' = (k < Len(answers))
        /\ IF split' THEN Incident ELSE UNCHANGED budget
        /\ disturbed' = (disturbed \/ (split' /\ Awaiting))
  BY DEF ReadFromServer
<1>3. Len(answers) \in Nat /\ Len(answers) > 0 /\ k \in 0..Len(answers)
  <2>1. Len(answers) \in Nat
    BY <1>1
  <2>2. Len(answers) # 0
    BY <1>1
  <2>3. k = Len(answers) \/ k = Len(answers) - 1
    BY <1>2
  <2> QED BY <2>1, <2>2, <2>3
<1> DEFINE p == SubSeq(answers, 1, k)
           q == SubSeq(answers, k + 1, Len(answers))
<1>4. /\ p \in Seq(Lines) /\ q \in Seq(Lines) /\ Len(p) = k /\ Len(q) = Len(answers) - k
      /\ answers = p \o q
  BY <1>1, <1>3, Cut
<1>5. toGameBuffer' = toGameBuffer \o p /\ answers' = q
  BY <1>2
<1> HIDE DEF p, q
<1>6. toGameBuffer \in Seq(Lines) /\ p \in Seq(Lines) /\ q \in Seq(Lines)
  BY <1>1, <1>4
<1>7. (toGameBuffer \o p) \o q = toGameBuffer \o (p \o q)
  BY <1>6, Associates
<1>8. toGameBuffer' \in Seq(Lines) /\ answers' \in Seq(Lines)
  BY <1>1, <1>4, <1>5
<1>9. toGameBuffer' \o answers' = toGameBuffer \o answers
  BY <1>4, <1>5, <1>7
<1>10. split' \in BOOLEAN /\ disturbed' \in BOOLEAN
  BY <1>2
<1>11. ASSUME split' PROVE answers' # <<>> /\ (disturbed' <=> disturbed \/ Awaiting)
  <2>1. k < Len(answers)
    BY <1>2, <1>11
  <2>2. Len(q) # 0
    BY <1>3, <1>4, <2>1
  <2>3. q # <<>>
    BY <2>2, Empty
  <2> QED BY <1>2, <1>5, <1>11, <2>3
<1>12. ASSUME ~split' PROVE answers' = <<>> /\ disturbed' = disturbed /\ toGameBuffer' # <<>>
  <2>1. ~(k < Len(answers))
    BY <1>2, <1>12
  <2>2. k = Len(answers)
    BY <1>3, <2>1
  <2>3. Len(q) = 0
    BY <1>3, <1>4, <2>2
  <2>4. q = <<>>
    BY <1>4, <2>3
  <2>5. Len(toGameBuffer \o p) # 0
    <3>1. Len(toGameBuffer \o p) = Len(toGameBuffer) + Len(p) /\ Len(toGameBuffer) \in Nat
      BY <1>6, Joined
    <3> QED BY <1>3, <1>4, <2>2, <3>1
  <2>6. disturbed' = disturbed
    BY <1>2, <1>12 DEF TypeOK
  <2> QED BY <1>5, <2>4, <2>5, <2>6
<1>13. incidents' \in 0..MaxIncidents /\ inputs' = inputs
  <2>1. CASE split'
    <3>1. incidents < MaxIncidents /\ incidents' = incidents + 1 /\ inputs' = inputs
      BY <1>2, <2>1 DEF Incident
    <3> QED BY <3>1, ClientAssumption DEF TypeOK, ClientAssumption
  <2>2. CASE ~split'
    BY <1>2, <2>2 DEF budget, TypeOK
  <2> QED BY <2>1, <2>2
<1> QED BY <1>1, <1>8, <1>9, <1>10, <1>11, <1>12, <1>13 DEF ReadFromServer

\* A line cut off takes the next one with it; what is left of both is no line cut off.
LEMMA GluedIs ==
  ASSUME TypeOK, ReadGlued
  PROVE  /\ ui = "split" /\ toGameBuffer # <<>> /\ Head(toGameBuffer) \in Lines
         /\ Head(toGameBuffer).kind = "torn" /\ Len(toGameBuffer) > 1
         /\ toGameBuffer' \in Seq(Lines)
         /\ \E l \in Seq(Lines), cut \in Seq(Lines), rest \in Seq(Lines) :
              /\ toGameBuffer = cut \o rest /\ toGameBuffer' = l \o rest
              /\ Len(cut) = 2 /\ cut[1] = Head(toGameBuffer)
              /\ l = <<>> \/ \E x \in Lines : l = <<x>> /\ x.to = Head(toGameBuffer).to /\ x.kind # "torn"
                               /\ (x.to = NoCommand => x.kind = "event")
         /\ UNCHANGED <<ui, turn, app, commandPipe, worked, wakeups, pair, served, budget, history>>
<1> DEFINE h == Head(toGameBuffer)
           rest == SubSeq(toGameBuffer, 3, Len(toGameBuffer))
           cut == SubSeq(toGameBuffer, 1, 2)
           kinds == IF h.to = NoCommand THEN {"event"} ELSE {"ok", "refused"}
           read == {<<>>} \cup {<<Line(kind, h.to)>> : kind \in kinds}
<1>1. toGameBuffer \in Seq(Lines) /\ Len(toGameBuffer) > 1 /\ h.kind = "torn" /\ ui = "split"
  BY DEF TypeOK, ReadGlued, Glued
<1>2. toGameBuffer # <<>> /\ h \in Lines /\ h = toGameBuffer[1]
  <2>1. toGameBuffer # <<>>
    BY <1>1
  <2> QED BY <1>1, <2>1, HeadAndTail
<1>3. 2 \in 0..Len(toGameBuffer)
  BY <1>1
<1>4. /\ cut \in Seq(Lines) /\ rest \in Seq(Lines) /\ Len(cut) = 2 /\ toGameBuffer = cut \o rest
  BY <1>1, <1>3, Cut
<1>5. cut[1] = h
  BY <1>1, <1>2
<1>6. \E l \in read : toGameBuffer' = l \o rest
  BY DEF ReadGlued
<1> HIDE DEF rest, cut
<1>7. PICK l \in read : toGameBuffer' = l \o rest
  BY <1>6
<1>8. l = <<>> \/ \E kind \in kinds : l = <<Line(kind, h.to)>>
  BY <1>7
<1>9. l = <<>> \/ \E x \in Lines : l = <<x>> /\ x.to = h.to /\ x.kind # "torn"
                                  /\ (x.to = NoCommand => x.kind = "event")
  <2> SUFFICES ASSUME NEW kind \in kinds, l = <<Line(kind, h.to)>>
               PROVE  \E x \in Lines : l = <<x>> /\ x.to = h.to /\ x.kind # "torn"
                                  /\ (x.to = NoCommand => x.kind = "event")
    BY <1>8
  <2>1. h.to \in Commands \/ h.to = NoCommand
    BY <1>2 DEF Lines
  <2>2. Line(kind, h.to) \in Lines
    <3>1. CASE h.to = NoCommand
      BY <3>1 DEF Line, Lines
    <3>2. CASE h.to # NoCommand
      <4>1. kind \in (Responses \cup Refusals \cup {"torn"}) \ {"hello"}
        BY <3>2 DEF Responses, Refusals
      <4> QED BY <2>1, <3>2, <4>1 DEF Line, Lines
    <3> QED BY <3>1, <3>2
  <2>3. /\ Line(kind, h.to).to = h.to /\ Line(kind, h.to).kind = kind
    BY DEF Line
  <2> HIDE DEF h
  <2>4. kind # "torn" /\ (h.to = NoCommand => kind = "event")
    OBVIOUS
  <2> QED BY <2>2, <2>3, <2>4
<1>10. l \in Seq(Lines)
  <2>1. <<>> \in Seq(Lines)
    OBVIOUS
  <2>2. \A x \in Lines : <<x>> \in Seq(Lines)
    OBVIOUS
  <2> QED BY <1>9, <2>1, <2>2
<1>11. toGameBuffer' \in Seq(Lines)
  BY <1>4, <1>7, <1>10
<1> QED BY <1>1, <1>2, <1>4, <1>5, <1>7, <1>9, <1>10, <1>11 DEF ReadGlued

\* What becomes of the line that is first in the buffer.
TakenAsLost ==
  /\ Head(toGameBuffer).kind = "lost" /\ ui' = "poll" /\ turn' = {} /\ disturbed' = TRUE
  /\ toGameBuffer' = <<>> /\ split' = FALSE
  /\ answers' = answers \/ (answers # <<>> /\ answers' = Tail(answers))
  /\ app' = HandleException(app, "lost")

TakenFails ==
  /\ Fails(app, Head(toGameBuffer)) /\ ui' = "aborted" /\ turn' = {} /\ app' = app

TakenRaises ==
  /\ Head(toGameBuffer).kind \in Refusals /\ ui' = "poll" /\ turn' = {}
  /\ \E code \in Windows \ {"lost"} :
       /\ app' = HandleException(app, code)
       /\ code = "server" => app.phase # "ND"

TakenDispatched ==
  /\ ~Fails(app, Head(toGameBuffer)) /\ app' \in Dispatched(app, Head(toGameBuffer))
  /\ \/ ui' = "stop" /\ turn' = {} /\ Head(toGameBuffer).kind \in Responses
     \/ ui' = ui /\ turn' = turn

TakenInOrder ==
  /\ Head(toGameBuffer).kind # "lost"
  /\ toGameBuffer' = Tail(toGameBuffer) /\ answers' = answers /\ split' = split
  /\ disturbed' <=> disturbed \/ (Head(toGameBuffer).kind = "event" /\ Awaiting)
  /\ TakenFails \/ TakenRaises \/ TakenDispatched

\* A line is taken as the end of the connection, or in its turn.
LEMMA DispatchIs ==
  ASSUME TypeOK, Shape, DispatchMessage
  PROVE  /\ ui = "split" /\ toGameBuffer \in Seq(Lines) /\ toGameBuffer # <<>>
         /\ Head(toGameBuffer) \in Lines /\ Head(toGameBuffer).kind # "torn"
         /\ mismatched' = (mismatched \/ (/\ Head(toGameBuffer).to # NoCommand
                                          /\ Head(toGameBuffer).to # Current(app)))
         /\ TakenAsLost \/ TakenInOrder
         /\ disturbed' \in BOOLEAN
         /\ UNCHANGED <<commandPipe, worked, wakeups, commands, served, budget>>
<1> DEFINE l == Head(toGameBuffer)
<1>1. /\ ui = "split" /\ toGameBuffer \in Seq(Lines) /\ toGameBuffer # <<>> /\ l.kind # "torn"
  BY DEF TypeOK, DispatchMessage, Glued
<1>2. l \in Lines
  BY <1>1, HeadAndTail
<1>3. l.kind \in {"hello", "event", "lost", "torn"} \cup Responses \cup Refusals
  BY <1>2 DEF Lines
<1>4. /\ IF l.kind = "lost"
         THEN /\ toGameBuffer' = <<>> /\ split' = FALSE
              /\ answers' = IF split THEN Tail(answers) ELSE answers
         ELSE toGameBuffer' = Tail(toGameBuffer) /\ answers' = answers /\ split' = split
      /\ mismatched' = (mismatched \/ (l.to # NoCommand /\ l.to # Current(app)))
      /\ disturbed' = (disturbed \/ l.kind = "lost" \/ (l.kind = "event" /\ Awaiting))
      /\ IF Fails(app, l) THEN ui' = "aborted" /\ turn' = {} /\ app' = app
         ELSE IF Raises(app, l)
         THEN ui' = "poll" /\ turn' = {} /\ app' = HandleException(app, Raised(app, l))
         ELSE /\ app' \in Dispatched(app, l)
              /\ IF l.kind \in Responses /\ Current(app).type = "QUIT"
                 THEN ui' = "stop" /\ turn' = {}
                 ELSE ui' = ui /\ turn' = turn
      /\ UNCHANGED <<commandPipe, worked, wakeups, commands, served, budget>>
  BY Zenon DEF DispatchMessage
<1> HIDE DEF l
<1>5. CASE l.kind = "lost"
  <2>1. ~Fails(app, l) /\ Raises(app, l) /\ Raised(app, l) = "lost"
    BY <1>5 DEF Fails, Raises, Raised, Responses, Refusals
  <2>2. split => answers # <<>>
    BY DEF Shape
  <2>3. /\ toGameBuffer' = <<>> /\ split' = FALSE
        /\ answers' = IF split THEN Tail(answers) ELSE answers
    BY <1>4, <1>5
  <2>4. disturbed' = TRUE
    BY <1>4, <1>5, Zenon
  <2>5. ui' = "poll" /\ turn' = {} /\ app' = HandleException(app, "lost")
    BY <1>4, <2>1
  <2>6. TakenAsLost
    BY <1>5, <2>2, <2>3, <2>4, <2>5 DEF TakenAsLost, l
  <2> QED BY <1>1, <1>2, <1>4, <2>4, <2>6 DEF l
<1>6. CASE l.kind # "lost"
  <2>1. ASSUME Fails(app, l) PROVE TakenFails
    <3>1. ui' = "aborted" /\ turn' = {} /\ app' = app
      BY <1>4, <2>1
    <3> QED BY <2>1, <3>1 DEF TakenFails, l
  <2>2. ASSUME ~Fails(app, l), Raises(app, l) PROVE TakenRaises
    <3>1. Raised(app, l) \in Windows \ {"lost"}
      BY <1>6 DEF Raised, Windows
    <3>2. l.kind \in Refusals /\ app.phase # "ND"
      BY <1>6, <2>2 DEF Raises
    <3>3. ui' = "poll" /\ turn' = {} /\ app' = HandleException(app, Raised(app, l))
      BY <1>4, <2>2
    <3> QED BY <3>1, <3>2, <3>3 DEF TakenRaises, l
  <2>3. ASSUME ~Fails(app, l), ~Raises(app, l) PROVE TakenDispatched
    <3>1. /\ app' \in Dispatched(app, l)
          /\ IF l.kind \in Responses /\ Current(app).type = "QUIT"
             THEN ui' = "stop" /\ turn' = {}
             ELSE ui' = ui /\ turn' = turn
      BY <1>4, <2>3
    <3> QED BY <2>3, <3>1 DEF TakenDispatched, l
  <2>4. TakenFails \/ TakenRaises \/ TakenDispatched
    BY <2>1, <2>2, <2>3
  <2>5. disturbed' <=> disturbed \/ (l.kind = "event" /\ Awaiting)
    BY <1>4, <1>6
  <2>6. TakenInOrder
    BY <1>4, <1>6, <2>4, <2>5 DEF TakenInOrder, l
  <2> QED BY <1>1, <1>2, <1>4, <2>6 DEF l
<1> QED BY <1>5, <1>6

LEMMA DispatchTypeOK ==
  ASSUME TypeOK, Shape, DispatchMessage
  PROVE  /\ TypeOK' /\ Shape'
         /\ app.window # "lost" /\ Head(toGameBuffer).kind # "lost" => app'.window # "lost"
<1> DEFINE l == Head(toGameBuffer)
<1>1. /\ ui = "split" /\ toGameBuffer \in Seq(Lines) /\ toGameBuffer # <<>>
      /\ TakenAsLost \/ TakenInOrder
      /\ disturbed' \in BOOLEAN
      /\ UNCHANGED <<commandPipe, worked, wakeups, commands, served, budget>>
  BY DispatchIs
<1>2. app \in Apps /\ WayBack(app) /\ answers \in Seq(Lines) /\ mismatched' \in BOOLEAN
  <2>1. mismatched' \in BOOLEAN
    BY DispatchIs
  <2> QED BY <2>1 DEF TypeOK, Shape
<1>3. /\ toGameBuffer' \in Seq(Lines) /\ answers' \in Seq(Lines) /\ split' \in BOOLEAN
      /\ turn' \subseteq turn
      /\ split' \/ "in" \in turn' => answers' # <<>>
  <2>1. CASE TakenAsLost
    BY <1>2, <2>1, HeadAndTail, Empty DEF TakenAsLost
  <2>2. CASE TakenInOrder
    <3>1. turn' \subseteq turn
      BY <2>2 DEF TakenInOrder, TakenFails, TakenRaises, TakenDispatched
    <3>2. /\ toGameBuffer' \in Seq(Lines) /\ answers' = answers /\ split' = split
      BY <1>1, <2>2, HeadAndTail DEF TakenInOrder
    <3> QED BY <1>2, <3>1, <3>2 DEF TypeOK, Shape
  <2> QED BY <1>1, <2>1, <2>2
<1>4. /\ app' \in Apps /\ WayBack(app') /\ (app'.phase = "ND" => app.phase = "ND")
      /\ app.window # "lost" /\ l.kind # "lost" => app'.window # "lost"
      /\ ui' \in {"split", "poll", "stop", "aborted"}
  <2>1. CASE TakenAsLost
    <3>1. "lost" \in Windows
      BY DEF Windows
    <3>2. /\ app' \in Apps /\ app'.phase = "ERROR" /\ app'.lastPhase = app.phase
          /\ app'.window \in {"double", "lost"}
      BY <1>2, <2>1, <3>1, HandleExceptionType DEF TakenAsLost
    <3>3. l.kind = "lost" /\ ui' = "poll"
      BY <2>1 DEF TakenAsLost
    <3> QED BY <3>2, <3>3 DEF WayBack
  <2>2. CASE TakenInOrder /\ TakenFails
    BY <1>2, <2>2 DEF TakenFails
  <2>3. CASE TakenInOrder /\ TakenRaises
    <3>1. PICK code \in Windows \ {"lost"} :
            app' = HandleException(app, code) /\ (code = "server" => app.phase # "ND")
      BY <2>3 DEF TakenRaises
    <3>2. /\ app' \in Apps /\ app'.phase = "ERROR" /\ app'.lastPhase = app.phase
          /\ app'.window = IF app.phase = "ERROR" THEN "double" ELSE code
      BY <1>2, <3>1, HandleExceptionType
    <3> QED BY <2>3, <3>1, <3>2 DEF WayBack, TakenRaises
  <2>4. CASE TakenInOrder /\ TakenDispatched
    <3>1. app' \in Dispatched(app, l) /\ ~Fails(app, l) /\ ui' \in {"split", "stop"}
      BY <1>1, <2>4 DEF TakenDispatched
    <3>2. app' \in Apps /\ app'.window = app.window
      BY <1>2, <3>1, DispatchedPops
    <3>3. WayBack(app') /\ (app'.phase = "ND" => app.phase = "ND")
      BY <1>2, <3>1, DispatchedWay
    <3> QED BY <3>1, <3>2, <3>3
  <2> QED BY <1>1, <2>1, <2>2, <2>3, <2>4 DEF TakenInOrder
<1> HIDE DEF l
<1>5. TypeOK'
  BY <1>1, <1>2, <1>3, <1>4 DEF TypeOK, worked, served, budget
<1>6. Shape'
  BY <1>1, <1>3, <1>4 DEF Shape, worked, served, budget
<1> QED BY <1>4, <1>5, <1>6 DEF l

\* What the thread of the user interface does when the game's socket takes data.
WriteFails ==
  \/ /\ ~app.connEstablished /\ app' = HandleException(app, "other") /\ turn' = {} /\ ui' = ui
     /\ commands' = commands
  \/ ~Pending(app) /\ ui' = "aborted" /\ turn' = {} /\ UNCHANGED <<app, commands>>

Writes ==
  /\ app.connEstablished /\ Pending(app)
  /\ commands' = commands \o <<Current(app)>>
  /\ app' = [app EXCEPT !.speaking = FALSE]
  /\ turn' = turn \ {"out"} /\ ui' = ui

\* Nothing is sent without a connection and a command.
LEMMA WriteIs ==
  ASSUME TypeOK, WriteToServer
  PROVE  /\ ui = "poll" /\ (WriteFails \/ Writes)
         /\ app' \in Apps /\ (WayBack(app) => WayBack(app'))
         /\ (app'.phase = "ND" => app.phase = "ND")
         /\ app'.commandQueue = app.commandQueue /\ app'.connEstablished = app.connEstablished
         /\ app.window # "lost" => app'.window # "lost"
         /\ app'.speaking => app.speaking
         /\ Writes => ~app'.speaking
         /\ commands' \in Seq(Commands)
         /\ UNCHANGED <<commandPipe, toGameBuffer, worked, wakeups, answers, split, served,
                        budget, history>>
<1>1. app \in Apps /\ commands \in Seq(Commands) /\ app.connEstablished \in BOOLEAN
  BY DEF TypeOK, Apps
<1>2. /\ IF ~app.connEstablished
         THEN app' = HandleException(app, "other") /\ turn' = {} /\ UNCHANGED <<ui, commands>>
         ELSE IF ~Pending(app) THEN ui' = "aborted" /\ turn' = {} /\ UNCHANGED <<app, commands>>
         ELSE /\ commands' = Append(commands, Current(app))
              /\ app' = [app EXCEPT !.speaking = FALSE]
              /\ turn' = turn \ {"out"} /\ UNCHANGED ui
      /\ ui = "poll"
      /\ UNCHANGED <<commandPipe, toGameBuffer, worked, wakeups, answers, split, served,
                     budget, history>>
  BY DEF WriteToServer
<1>3. CASE ~app.connEstablished
  <2>1. "other" \in Windows /\ "other" # "lost" /\ "other" # "server"
    BY DEF Windows
  <2>2. app' = HandleException(app, "other") /\ turn' = {} /\ UNCHANGED <<ui, commands>>
    BY <1>2, <1>3
  <2>3. /\ app' \in Apps /\ app'.commandQueue = app.commandQueue
        /\ app'.connEstablished = app.connEstablished /\ (app'.speaking => app.speaking)
        /\ app.window # "lost" => app'.window # "lost"
        /\ app'.phase = "ERROR" /\ app'.window # "server"
    BY <1>1, <2>1, <2>2, HandleExceptionType
  <2>4. WriteFails /\ ~Writes
    BY <1>3, <2>2 DEF WriteFails, Writes
  <2> QED BY <1>1, <1>2, <2>2, <2>3, <2>4 DEF WayBack
<1>4. CASE app.connEstablished /\ ~Pending(app)
  <2>1. ui' = "aborted" /\ turn' = {} /\ UNCHANGED <<app, commands>>
    BY <1>2, <1>4
  <2>2. WriteFails /\ ~Writes
    BY <1>4, <2>1 DEF WriteFails, Writes
  <2> QED BY <1>1, <1>2, <2>1, <2>2
<1>5. CASE app.connEstablished /\ Pending(app)
  <2>1. /\ commands' = Append(commands, Current(app))
        /\ app' = [app EXCEPT !.speaking = FALSE]
        /\ turn' = turn \ {"out"} /\ ui' = ui
    BY <1>2, <1>5
  <2>2. Current(app) \in Commands
    BY <1>1, <1>5, PopType
  <2>3. commands' = commands \o <<Current(app)>> /\ commands' \in Seq(Commands)
    BY <1>1, <2>1, <2>2, Appended
  <2>4. /\ app' \in Apps /\ app'.commandQueue = app.commandQueue /\ app'.speaking = FALSE
        /\ app'.connEstablished = app.connEstablished /\ app'.window = app.window
        /\ app'.phase = app.phase /\ app'.lastPhase = app.lastPhase
    BY <1>1, <2>1 DEF Apps
  <2>5. Writes
    BY <1>5, <2>1, <2>3 DEF Writes
  <2> QED BY <1>2, <2>3, <2>4, <2>5 DEF WayBack
<1> QED BY <1>1, <1>3, <1>4, <1>5

LEMMA InputIs ==
  ASSUME TypeOK, Shape, HandleInput
  PROVE  /\ ui = "poll" /\ turn' = {} /\ ui' = ui
         /\ app.phase # "ND" /\ Head(commandPipe) \in {"name"} \cup Typed
         /\ app' = HandleCommand(app, Head(commandPipe)) /\ commandPipe' = <<>>
         /\ disturbed' \in BOOLEAN
         /\ disturbed' <=> disturbed \/ (app.phase # "GAME" /\ Awaiting)
         /\ UNCHANGED <<toGameBuffer, worked, wakeups, pair, served, budget, mismatched>>
<1>1. commandPipe # <<>> /\ commandPipe \in Seq({"name"} \cup Typed)
  BY DEF HandleInput, TypeOK, Shape
<1>2. Head(commandPipe) \in {"name"} \cup Typed
  BY <1>1, HeadAndTail
<1>3. app.phase # "ND"
  BY <1>1 DEF Shape
<1>4. disturbed' = (disturbed \/ (app.phase # "GAME" /\ Awaiting))
  BY DEF HandleInput
<1>5. disturbed' \in BOOLEAN /\ (disturbed' <=> disturbed \/ (app.phase # "GAME" /\ Awaiting))
  BY <1>4
<1> QED BY <1>2, <1>3, <1>5 DEF HandleInput

LEMMA DoorIs ==
  ASSUME NEW a \in Apps, NEW phase \in Doors(a), WayBack(a)
  PROVE  phase \in Phases \ {"ND"} /\ (phase = "ERROR" => a.phase = "ERROR")
BY DEF Doors, Apps, Phases, WayBack

LEMMA DoorTypeOK ==
  ASSUME TypeOK, Shape, NEW phase \in Phases, GoTo(phase)
  PROVE  /\ ui = "poll" /\ app' \in Apps /\ WayBack(app') /\ app'.phase # "ND"
         /\ app'.connEstablished = app.connEstablished /\ (app'.speaking => app.speaking)
         /\ app.window # "lost" => app'.window # "lost"
         /\ \E more \in Seq(Commands) :
              ~Has(more, Placeholders) /\ app'.commandQueue = app.commandQueue \o more
         /\ UNCHANGED <<ui, turn, commandPipe, toGameBuffer, worked, wakeups, pair, served,
                        budget, history>>
<1>1. /\ app \in Apps /\ WayBack(app) /\ phase \in Doors(app) /\ ui = "poll"
      /\ UNCHANGED <<ui, turn, commandPipe, toGameBuffer, worked, wakeups, pair, served,
                     budget, history>>
  BY DEF TypeOK, Shape, GoTo, AtKeyboard
<1>2. phase \in Phases \ {"ND"} /\ (phase = "ERROR" => app.phase = "ERROR")
  BY <1>1, DoorIs
<1>3. CASE app' = SwitchWindow(app, phase)
  <2>1. /\ Grows(app, app') /\ app'.connEstablished = app.connEstablished
        /\ app'.speaking => app.speaking
    BY <1>1, <1>2, <1>3, SwitchWindowGrows
  <2>2. WayBack(app') /\ app'.phase = phase
    BY <1>1, <1>2, <1>3, SwitchWindowWay
  <2> QED BY <1>1, <1>2, <2>1, <2>2 DEF Grows
<1>4. CASE app' = HandleException(app, "other")
  <2>1. "other" \in Windows /\ "other" # "lost"
    BY DEF Windows
  <2>2. /\ app' \in Apps /\ app'.commandQueue = app.commandQueue
        /\ app'.connEstablished = app.connEstablished /\ (app'.speaking => app.speaking)
        /\ app.window # "lost" => app'.window # "lost"
        /\ app'.phase = "ERROR" /\ app'.window # "server"
    BY <1>1, <1>4, <2>1, HandleExceptionType
  <2>3. app.commandQueue \in Seq(Commands)
    BY <1>1 DEF Apps
  <2>4. app.commandQueue = app.commandQueue \o <<>>
    BY <2>3
  <2>5. \E more \in Seq(Commands) :
          ~Has(more, Placeholders) /\ app'.commandQueue = app.commandQueue \o more
    BY <2>2, <2>4, Empty
  <2> QED BY <1>1, <2>2, <2>5 DEF WayBack
<1>5. app' = IF MayShow(app, phase) THEN SwitchWindow(app, phase) ELSE HandleException(app, "other")
  BY DEF GoTo
<1> QED BY <1>3, <1>4, <1>5

LEMMA InputTypeOK ==
  ASSUME TypeOK, Shape,
         \/ ReadFromServer \/ ReadGlued \/ WriteToServer \/ HandleInput
         \/ \E input \in {"name"} \cup Typed : Enter(input)
         \/ \E phase \in Phases : GoTo(phase)
  PROVE  TypeOK' /\ Shape'
<1>1. CASE ReadFromServer
  <2>1. /\ toGameBuffer' \in Seq(Lines) /\ answers' \in Seq(Lines) /\ split' \in BOOLEAN
        /\ disturbed' \in BOOLEAN /\ (split' => answers' # <<>>) /\ turn' = turn \ {"in"}
        /\ ui' = "split" /\ ui = "poll" /\ incidents' \in 0..MaxIncidents /\ inputs' = inputs
        /\ UNCHANGED <<app, commandPipe, worked, wakeups, commands, served, mismatched>>
    BY <1>1, ReadIs
  <2> QED BY <2>1 DEF TypeOK, Shape, worked, served
<1>2. CASE ReadGlued
  <2>1. toGameBuffer' \in Seq(Lines)
    BY <1>2, GluedIs
  <2>2. UNCHANGED <<ui, turn, app, commandPipe, worked, wakeups, pair, served, budget, history>>
    BY <1>2, GluedIs
  <2> QED BY <2>1, <2>2 DEF TypeOK, Shape, worked, pair, served, budget, history
<1>3. CASE WriteToServer
  <2>1. /\ app' \in Apps /\ WayBack(app') /\ (app'.phase = "ND" => app.phase = "ND")
        /\ commands' \in Seq(Commands) /\ ui = "poll" /\ ui' \in {"poll", "aborted"}
        /\ turn' \subseteq turn
        /\ UNCHANGED <<commandPipe, toGameBuffer, worked, wakeups, answers, split, served,
                        budget, history>>
    <3>1. ui' \in {ui, "aborted"} /\ turn' \subseteq turn
      BY <1>3, WriteIs DEF WriteFails, Writes
    <3>2. WayBack(app)
      BY DEF Shape
    <3> QED BY <1>3, <3>1, <3>2, WriteIs
  <2> QED BY <2>1 DEF TypeOK, Shape, worked, served, budget, history
<1>4. CASE HandleInput
  <2>1. /\ app.phase # "ND" /\ Head(commandPipe) \in {"name"} \cup Typed
        /\ app' = HandleCommand(app, Head(commandPipe)) /\ commandPipe' = <<>>
        /\ ui = "poll" /\ turn' = {} /\ ui' = ui /\ disturbed' \in BOOLEAN
        /\ UNCHANGED <<toGameBuffer, worked, wakeups, pair, served, budget, mismatched>>
    BY <1>4, InputIs
  <2>2. app \in Apps /\ WayBack(app)
    BY DEF TypeOK, Shape
  <2>3. app' \in Apps /\ WayBack(app') /\ app'.phase # "ND"
    BY <2>1, <2>2, HandleCommandType
  <2>4. commandPipe' \in Seq({"name"} \cup Typed) /\ Len(commandPipe') <= 1
    BY <2>1
  <2> QED BY <2>1, <2>3, <2>4 DEF TypeOK, Shape, worked, pair, served, budget
<1>5. ASSUME NEW input \in {"name"} \cup Typed, Enter(input) PROVE TypeOK' /\ Shape'
  <2>1. commandPipe' \in Seq({"name"} \cup Typed) /\ Len(commandPipe') <= 1 /\ commandPipe' # <<>>
    <3>1. commandPipe' = <<input>>
      BY <1>5 DEF Enter
    <3> QED BY <3>1
  <2>2. inputs' \in 0..MaxInputs /\ incidents' = incidents /\ inputs' > inputs
        /\ wakeups <= inputs' + IF ui \in {"join", "stopped"} THEN 1 ELSE 0
    <3>1. inputs < MaxInputs /\ inputs' = inputs + 1 /\ incidents' = incidents
      BY <1>5 DEF Enter, UserActs
    <3> QED BY <3>1, ClientAssumption DEF TypeOK, Shape, ClientAssumption
  <2>3. app.phase # "ND"
    BY <1>5 DEF Enter
  <2>4. UNCHANGED <<ui, turn, app, toGameBuffer, worked, wakeups, pair, served, history>>
    BY <1>5 DEF Enter
  <2>5. TypeOK'
    BY <2>1, <2>2, <2>4 DEF TypeOK, worked, pair, served, history
  <2>6. wakeups' <= inputs' + IF ui' \in {"join", "stopped"} THEN 1 ELSE 0
    BY <2>2, <2>4
  <2> QED BY <2>1, <2>3, <2>4, <2>5, <2>6 DEF Shape, worked, pair, served, history
<1>6. ASSUME NEW phase \in Phases, GoTo(phase) PROVE TypeOK' /\ Shape'
  <2>1. /\ app' \in Apps /\ WayBack(app') /\ app'.phase # "ND" /\ ui = "poll"
        /\ UNCHANGED <<ui, turn, commandPipe, toGameBuffer, worked, wakeups, pair, served,
                       budget, history>>
    BY <1>6, DoorTypeOK
  <2> QED BY <2>1 DEF TypeOK, Shape, worked, pair, served, budget, history
<1> QED BY <1>1, <1>2, <1>3, <1>4, <1>5, <1>6

LEMMA Tidings == Event \in Lines /\ Lost \in Lines /\ Hello \in Lines
BY DEF Event, Lost, Hello, Line, Lines

\* What the server says, and what of its state it changes.
LEMMA AnswersIs ==
  ASSUME TypeOK, ServerAnswers
  PROVE  /\ conn = "open" /\ serverIn \in Seq(Commands) /\ serverIn # <<>>
         /\ serverIn' = Tail(serverIn) /\ serverIn' \in Seq(Commands)
         /\ \E early \in Seq(Lines), reply \in Lines :
              /\ early \in {<<>>, <<Event>>}
              /\ reply.to = Head(serverIn) /\ reply.to \in Commands
              /\ reply.kind \in (Responses \cup Refusals) \ {"hello"}
              /\ serverOut' = serverOut \o (early \o <<reply>>)
         /\ serverOut' \in Seq(Lines) /\ loggedIn' \in BOOLEAN
         /\ incidents' \in 0..MaxIncidents /\ inputs' = inputs
         /\ conn' \in {"open", "closing"}
         /\ UNCHANGED <<screen, worked, wakeups, pair, cutOff, history>>
<1> DEFINE c == Head(serverIn)
<1>1. conn = "open" /\ serverIn \in Seq(Commands) /\ serverIn # <<>> /\ serverIn' = Tail(serverIn)
  BY DEF TypeOK, ServerAnswers
<1>2. c \in Commands /\ serverIn' \in Seq(Commands)
  BY <1>1, HeadAndTail
<1>3. PICK kind \in Answers(c), early \in BOOLEAN :
       /\ IF early THEN Incident ELSE UNCHANGED budget
       /\ serverOut' = serverOut \o (IF early THEN <<Line("event", NoCommand)>> ELSE <<>>)
                                \o <<Line(kind, c)>>
       /\ loggedIn' = (loggedIn \/ kind = "connected")
  BY DEF ServerAnswers
<1> DEFINE before == IF early THEN <<Event>> ELSE <<>>
           reply == Line(kind, c)
<1>4. kind \in {"ok", "connected", "inuse", "unknown", "refused"}
  BY DEF Answers
<1> HIDE DEF c
<1>5. /\ reply \in Lines /\ reply.to = c /\ reply.kind = kind
      /\ kind \in (Responses \cup Refusals) \ {"hello"}
  BY <1>2, <1>4 DEF Line, Lines, Responses, Refusals
<1>6. before \in Seq(Lines) /\ before \in {<<>>, <<Event>>} /\ <<reply>> \in Seq(Lines)
  BY <1>5, Tidings, Empty, Single
<1>7. serverOut' = (serverOut \o before) \o <<reply>> /\ serverOut \in Seq(Lines)
  BY <1>3 DEF Event, TypeOK
<1> HIDE DEF before, reply
<1>8. serverOut' = serverOut \o (before \o <<reply>>)
  BY <1>6, <1>7, Associates
<1>9. serverOut' \in Seq(Lines)
  BY <1>6, <1>7, Joined
<1>10. incidents' \in 0..MaxIncidents /\ inputs' = inputs
  BY <1>3, ClientAssumption DEF TypeOK, Incident, budget, ClientAssumption
<1>11. loggedIn' \in BOOLEAN
  BY <1>3
<1>12. conn' \in {"open", "closing"} /\ UNCHANGED <<screen, worked, wakeups, pair, cutOff, history>>
  BY <1>1 DEF ServerAnswers
<1> QED BY <1>1, <1>2, <1>5, <1>6, <1>8, <1>9, <1>10, <1>11, <1>12 DEF c

LEMMA EventIs ==
  ASSUME TypeOK, ServerEvent
  PROVE  /\ conn = "open" /\ loggedIn
         /\ serverOut' = serverOut \o <<Event>> /\ serverOut' \in Seq(Lines)
         /\ incidents' \in 0..MaxIncidents /\ inputs' = inputs
         /\ UNCHANGED <<screen, worked, wakeups, pair, conn, serverIn, loggedIn, cutOff, history>>
<1>1. serverOut \in Seq(Lines) /\ serverOut' = Append(serverOut, Event)
  BY DEF TypeOK, ServerEvent, Event
<1>2. serverOut' = serverOut \o <<Event>> /\ serverOut' \in Seq(Lines)
  BY <1>1, Tidings, Appended
<1>3. incidents' \in 0..MaxIncidents /\ inputs' = inputs
  BY ClientAssumption DEF TypeOK, ServerEvent, Incident, ClientAssumption
<1> QED BY <1>2, <1>3 DEF ServerEvent

LEMMA BreakIs ==
  ASSUME TypeOK, ServerBreaksOff
  PROVE  /\ conn = "open" /\ conn' = "closing" /\ cutOff' = TRUE
         /\ \E torn \in Lines :
              /\ torn.kind = "torn" /\ serverOut' = serverOut \o <<torn>>
              /\ torn.to # NoCommand => serverIn # <<>> /\ torn.to = Head(serverIn)
         /\ serverOut' \in Seq(Lines)
         /\ incidents' \in 0..MaxIncidents /\ inputs' = inputs
         /\ UNCHANGED <<screen, worked, wakeups, pair, serverIn, loggedIn, history>>
<1>1. serverOut \in Seq(Lines) /\ serverIn \in Seq(Commands)
  BY DEF TypeOK
<1>2. PICK to \in (IF loggedIn THEN {NoCommand} ELSE {})
                    \cup (IF serverIn = <<>> THEN {} ELSE {Head(serverIn)}) :
        serverOut' = Append(serverOut, Line("torn", to))
  BY DEF ServerBreaksOff
<1>3. to = NoCommand \/ (serverIn # <<>> /\ to = Head(serverIn) /\ to \in Commands)
  BY <1>1, <1>2, HeadAndTail
<1> DEFINE torn == Line("torn", to)
<1>4. torn \in Lines /\ torn.kind = "torn" /\ torn.to = to
  BY <1>3 DEF Line, Lines
<1>5. serverOut' = Append(serverOut, torn)
  BY <1>2
<1> HIDE DEF torn
<1>6. serverOut' = serverOut \o <<torn>> /\ serverOut' \in Seq(Lines)
  BY <1>1, <1>4, <1>5, Appended
<1>7. incidents' \in 0..MaxIncidents /\ inputs' = inputs
  BY ClientAssumption DEF TypeOK, ServerBreaksOff, Incident, ClientAssumption
<1> QED BY <1>3, <1>4, <1>6, <1>7 DEF ServerBreaksOff

LEMMA ServerTypeOK ==
  ASSUME TypeOK, Shape, Server
  PROVE  TypeOK' /\ Shape'
<1>1. CASE ServerAnswers
  <2>1. /\ conn = "open" /\ serverIn' \in Seq(Commands) /\ serverOut' \in Seq(Lines)
        /\ loggedIn' \in BOOLEAN /\ incidents' \in 0..MaxIncidents /\ inputs' = inputs
        /\ conn' \in {"open", "closing"}
        /\ UNCHANGED <<screen, worked, wakeups, pair, cutOff, history>>
    BY <1>1, AnswersIs
  <2> QED BY <2>1 DEF TypeOK, Shape, screen, worked, pair, history
<1>2. CASE ServerEvent
  <2>1. /\ serverOut' \in Seq(Lines) /\ incidents' \in 0..MaxIncidents /\ inputs' = inputs
        /\ UNCHANGED <<screen, worked, wakeups, pair, conn, serverIn, loggedIn, cutOff, history>>
    BY <1>2, EventIs
  <2> QED BY <2>1 DEF TypeOK, Shape, screen, worked, pair, history
<1>3. CASE ServerCloses
  <2>1. /\ conn \in {"open", "closing"} /\ conn' \in {"closed", "reset"}
        /\ incidents' \in 0..MaxIncidents /\ inputs' = inputs
    BY <1>3, ClientAssumption DEF ServerCloses, TypeOK, Incident, budget, ClientAssumption
  <2> QED BY <1>3, <2>1 DEF ServerCloses, TypeOK, Shape, screen, worked, pair, history
<1>4. CASE ServerBreaksOff
  <2>1. /\ conn = "open" /\ conn' = "closing" /\ cutOff' = TRUE /\ serverOut' \in Seq(Lines)
        /\ incidents' \in 0..MaxIncidents /\ inputs' = inputs
        /\ UNCHANGED <<screen, worked, wakeups, pair, serverIn, loggedIn, history>>
    BY <1>4, BreakIs
  <2> QED BY <2>1 DEF TypeOK, Shape, screen, worked, pair, history
<1> QED BY <1>1, <1>2, <1>3, <1>4 DEF Server

LEMMA WorkerTypeOK ==
  ASSUME TypeOK, Shape, WorkerStep
  PROVE  TypeOK' /\ Shape'
<1>1. CASE CheckKeepAlive
  BY <1>1 DEF CheckKeepAlive, TypeOK, Shape, screen, pair, served, budget, history
<1>2. CASE PollWorker
  <2>1. /\ Revents \subseteq {"pipe", "gameIn", "gameOut", "serverIn", "serverOut"}
        /\ "pipe" \in Revents => wakeups > 0
        /\ "serverIn" \in Revents => serverEvents # {}
        /\ "serverOut" \in Revents => serverEvents # {}
    BY DEF Revents, Order
  <2> QED BY <1>2, <2>1 DEF PollWorker, TypeOK, Shape, screen, pair, served, budget, history
<1>3. CASE FlushPipe
  <2>1. "pipe" \in due /\ wakeups > 0
    BY <1>3, TurnTaken DEF FlushPipe, Shape
  <2>2. /\ wakeups' \in 0..(MaxInputs + 1) /\ wakeups' <= wakeups
        /\ wakeups' <= inputs + IF ui \in {"join", "stopped"} THEN 1 ELSE 0
    <3>1. wakeups' = wakeups - 1
      BY <1>3 DEF FlushPipe
    <3> QED BY <2>1, <3>1, ClientAssumption DEF TypeOK, Shape, ClientAssumption
  <2>3. due' \subseteq due \ {"pipe"} /\ due \cap {"serverError"} = {}
    BY <1>3, <2>1 DEF FlushPipe, Shape
  <2>4. serverEvents' \subseteq {"in", "out"} /\ (serverEvents # {} => serverEvents' # {})
    BY <1>3 DEF FlushPipe, TypeOK
  <2>5. /\ conn' \in {"open", "closing", "closed", "broken", "reset"}
        /\ serverIn' \in Seq(Commands) /\ serverOut' \in Seq(Lines) /\ loggedIn' \in BOOLEAN
    BY <1>3, Tidings, Empty, Single DEF FlushPipe, TypeOK
  <2>6. UNCHANGED <<screen, worker, keepAlive, preStop, talking, gameBuffer, serverBuffer, pair,
                 cutOff, budget, history>>
    BY <1>3 DEF FlushPipe
  <2>7. TypeOK'
    BY <2>2, <2>3, <2>4, <2>5, <2>6 DEF TypeOK, screen, pair, budget, history
  <2>8. Shape'
    BY <2>2, <2>3, <2>4, <2>6 DEF Shape, screen, pair, budget, history
  <2> QED BY <2>7, <2>8
<1>4. CASE HandleDataFromGame
  <2>1. gameBuffer' \in Seq(Commands) /\ commands' \in Seq(Commands)
    BY <1>4, Joined, Empty DEF HandleDataFromGame, TypeOK
  <2> QED BY <1>4, <2>1 DEF HandleDataFromGame, TypeOK, Shape, screen, served, budget, history
<1>5. CASE HandleDataToGame
  <2>1. /\ answers' \in Seq(Lines) /\ serverBuffer' \in Seq(Lines)
        /\ answers # <<>> => answers' # <<>>
    <3>1. answers \in Seq(Lines) /\ serverBuffer \in Seq(Lines)
      BY DEF TypeOK
    <3>2. answers' = answers \o serverBuffer /\ serverBuffer' = <<>>
      BY <1>5 DEF HandleDataToGame
    <3> QED BY <3>1, <3>2
  <2>2. TypeOK'
    BY <1>5, <2>1 DEF HandleDataToGame, TypeOK, screen, served, budget, history
  <2>3. Shape'
    BY <1>5, <2>1 DEF HandleDataToGame, Shape, screen, served, budget, history
  <2> QED BY <2>2, <2>3
<1>6. CASE HandleDataFromServer
  <2>1. serverBuffer' \in Seq(Lines) /\ serverOut' = <<>> /\ serverOut' \in Seq(Lines)
    <3>1. serverBuffer' \in {serverBuffer, serverBuffer \o serverOut} /\ serverOut' = <<>>
      BY <1>6 DEF HandleDataFromServer
    <3>2. serverBuffer \in Seq(Lines) /\ serverOut \in Seq(Lines)
      BY DEF TypeOK
    <3>3. serverBuffer \o serverOut \in Seq(Lines)
      BY <3>2, Joined
    <3> QED BY <3>1, <3>2, <3>3, Empty
  <2>2. "serverIn" \in due
    BY <1>6, TurnTaken DEF HandleDataFromServer
  <2>3. /\ {talking', keepAlive'} \subseteq BOOLEAN
        /\ due' \subseteq due \/ (due' = {"serverError"} /\ conn \in {"closed", "broken"})
    BY <1>6 DEF HandleDataFromServer, TypeOK
  <2>4. "serverError" \notin due
    BY <2>2 DEF Shape
  <2>5. UNCHANGED <<screen, worker, preStop, serverEvents, gameBuffer, wakeups, pair, conn,
                 serverIn, loggedIn, cutOff, budget, history>>
    BY <1>6 DEF HandleDataFromServer
  <2>6. TypeOK'
    BY <2>1, <2>3, <2>5 DEF TypeOK, screen, pair, budget, history
  <2>7. Shape'
    BY <2>1, <2>3, <2>4, <2>5 DEF Shape, screen, pair, budget, history
  <2> QED BY <2>6, <2>7
<1>7. CASE HandleDataToServer
  <2>1. "serverOut" \in due
    BY <1>7, TurnTaken DEF HandleDataToServer
  <2>2. "serverError" \notin due
    BY <2>1 DEF Shape
  <2>3. /\ gameBuffer' \in Seq(Commands) /\ serverIn' \in Seq(Commands)
        /\ {preStop', keepAlive'} \subseteq BOOLEAN
        /\ serverEvents' \subseteq {"in", "out"} /\ (serverEvents # {} => serverEvents' # {})
        /\ conn' \in {"open", "closing", "closed", "broken", "reset"}
        /\ \/ due' \subseteq due
           \/ due' = {"serverError"} /\ conn' = "broken"
    <3>1. gameBuffer \in Seq(Commands) /\ serverIn \in Seq(Commands)
      BY DEF TypeOK
    <3>2. serverIn \o gameBuffer \in Seq(Commands) /\ <<>> \in Seq(Commands)
      BY <3>1, Joined, Empty
    <3>3. CASE Sends(TRUE)
      BY <1>7, <3>1, <3>2, <3>3 DEF HandleDataToServer, Sends, TypeOK
    <3>4. CASE Sends(FALSE)
      BY <1>7, <3>1, <3>2, <3>4 DEF HandleDataToServer, Sends, TypeOK
    <3>5. CASE ~Sends(TRUE) /\ ~Sends(FALSE)
      <4>1. /\ UNCHANGED <<gameBuffer, serverEvents, preStop, serverIn, conn>>
            /\ keepAlive' \in {keepAlive, FALSE}
            /\ due' = due \ {"serverOut"} \/ (due' = {"serverError"} /\ conn = "broken") \/ due' = {}
        BY <1>7, <3>5 DEF HandleDataToServer
      <4> QED BY <4>1 DEF TypeOK
    <3> QED BY <3>3, <3>4, <3>5
  <2>4. UNCHANGED <<screen, worker, talking, serverBuffer, wakeups, pair, serverOut, loggedIn,
                 cutOff, budget, history>>
    BY <1>7 DEF HandleDataToServer
  <2>5. TypeOK'
    BY <2>3, <2>4 DEF TypeOK, screen, pair, budget, history
  <2>6. Shape'
    BY <2>2, <2>3, <2>4 DEF Shape, screen, pair, budget, history
  <2> QED BY <2>5, <2>6
<1>8. CASE HandleServerError
  <2>1. serverBuffer' \in Seq(Lines)
    BY <1>8, Tidings, Appended DEF HandleServerError, TypeOK, Lost
  <2>2. talking' \in BOOLEAN /\ serverEvents' \subseteq {"in", "out"} /\ due' = {}
    BY <1>8 DEF HandleServerError, TypeOK
  <2> QED BY <1>8, <2>1, <2>2 DEF HandleServerError, TypeOK, Shape, screen, pair, served, budget, history
<1> QED BY <1>1, <1>2, <1>3, <1>4, <1>5, <1>6, <1>7, <1>8 DEF WorkerStep

\* Types and shape are inductive.
LEMMA NextTypeOK ==
  ASSUME TypeOK, Shape, [Next]_vars
  PROVE  TypeOK' /\ Shape'
<1>1. CASE UIStep
  BY <1>1, ScreenTypeOK, DispatchTypeOK, InputTypeOK DEF UIStep
<1>2. CASE WorkerStep
  BY <1>2, WorkerTypeOK
<1>3. CASE User
  BY <1>3, ScreenTypeOK, InputTypeOK DEF User
<1>4. CASE Server
  BY <1>4, ServerTypeOK
<1>5. CASE UNCHANGED vars
  BY <1>5 DEF vars, screen, worked, pair, served, budget, history, TypeOK, Shape
<1> QED BY <1>1, <1>2, <1>3, <1>4, <1>5 DEF Next
-----------------------------------------------------------------------------
(* The placeholder *)

\* Commands added behind or taken from the front leave the placeholder in its place.
LEMMA WaitsFirstGrows ==
  ASSUME NEW a \in Apps, NEW b \in Apps, WaitsFirst(a), NEW more \in Seq(Commands),
         ~Has(more, Placeholders), b.commandQueue = a.commandQueue \o more,
         b.connEstablished = a.connEstablished
  PROVE  WaitsFirst(b)
<1> DEFINE q == a.commandQueue
<1>1. q \in Seq(Commands)
  BY DEF Apps
<1> SUFFICES ASSUME NEW i \in 1..Len(b.commandQueue), b.commandQueue[i] \in Placeholders
             PROVE  i = 1 /\ ~b.connEstablished
  BY DEF WaitsFirst
<1> HIDE DEF q
<1>2. CASE i \in 1..Len(q) /\ (q \o more)[i] = q[i]
  BY <1>2 DEF WaitsFirst, q
<1>3. CASE i - Len(q) \in 1..Len(more) /\ (q \o more)[i] = more[i - Len(q)]
  BY <1>3 DEF Has, q
<1> QED BY <1>1, <1>2, <1>3, Joined DEF q

LEMMA WaitsFirstPops ==
  ASSUME NEW a \in Apps, NEW b \in Apps, WaitsFirst(a), Pending(a), NEW more \in Seq(Commands),
         ~Has(more, Placeholders), b.commandQueue = Tail(a.commandQueue) \o more
  PROVE  WaitsFirst(b)
<1> DEFINE q == a.commandQueue
<1>1. q \in Seq(Commands) /\ q # <<>> /\ Len(q) \in Nat
  BY DEF Apps, Pending
<1>2. ~Has(Tail(q), Placeholders)
  <2> SUFFICES ASSUME NEW i \in 1..Len(Tail(q)), Tail(q)[i] \in Placeholders PROVE FALSE
    BY DEF Has
  <2>1. i \in 1..Len(q) - 1 /\ Tail(q)[i] = q[i + 1]
    BY <1>1, HeadAndTail
  <2>2. i + 1 \in 1..Len(q) /\ i + 1 # 1
    BY <1>1, <2>1
  <2> QED BY <2>1, <2>2 DEF WaitsFirst
<1>3. Tail(q) \in Seq(Commands)
  BY <1>1
<1> HIDE DEF q
<1>4. ~Has(Tail(q) \o more, Placeholders)
  BY <1>2, <1>3, HasJoined
<1> QED BY <1>4 DEF WaitsFirst, Has, q

LEMMA WaitsFirstSame ==
  ASSUME NEW a, NEW b, WaitsFirst(a), b.commandQueue = a.commandQueue,
         b.connEstablished = a.connEstablished
  PROVE  WaitsFirst(b)
BY DEF WaitsFirst

LEMMA OtherWindowKeeps ==
  ASSUME NEW a \in Apps, NEW code \in Windows, code # "lost"
  PROVE  /\ HandleException(a, code).commandQueue = a.commandQueue
         /\ HandleException(a, code).connEstablished = a.connEstablished
BY HandleExceptionType

LEMMA InitOnlyWaited == Init => OnlyWaited
BY DEF Init, OnlyWaited, WaitsFirst, Has, Fresh

LEMMA ScreenOnlyWaited ==
  ASSUME TypeOK, Shape, OnlyWaited, UIStep \/ User
  PROVE  OnlyWaited'
<1>1. app \in Apps /\ WaitsFirst(app)
  BY DEF TypeOK, OnlyWaited
<1>2. app' \in Apps /\ gameBuffer' = gameBuffer /\ serverIn' = serverIn
  <2>1. TypeOK'
    BY NextTypeOK DEF Next
  <2>2. gameBuffer' = gameBuffer /\ serverIn' = serverIn
    BY Zenon DEF UIStep, User, StartThread, StoreKeepAlive, PollUI, ReadFromServer, ReadGlued,
      DispatchMessage, EndSplit, WriteToServer, HandleInput, ExitLoop, WakeUpWorker, Join, Enter,
      GoTo, Reconnect, PressClose, worked, served
  <2> QED BY <2>1, <2>2 DEF TypeOK
<1>3. ASSUME WaitsFirst(app'), commands' = commands PROVE OnlyWaited'
  BY <1>2, <1>3 DEF OnlyWaited, WaitsFirst
<1>4. ASSUME app' = app, commands' = commands PROVE OnlyWaited'
  BY <1>1, <1>3, <1>4
<1>5. CASE StartThread \/ PollUI \/ ExitLoop \/ WakeUpWorker \/ Join \/ PressClose \/ Reconnect
  <2>1. app' = app /\ commands' = commands
    BY <1>5, Zenon DEF StartThread, PollUI, ExitLoop, WakeUpWorker, Join, PressClose, Reconnect,
      screen, pair
  <2> QED BY <1>4, <2>1
<1>6. CASE ReadFromServer \/ ReadGlued \/ \E input \in {"name"} \cup Typed : Enter(input)
  <2>1. app' = app /\ commands' = commands
    BY <1>6, Zenon DEF ReadFromServer, ReadGlued, Enter, pair
  <2> QED BY <1>4, <2>1
<1>7. CASE StoreKeepAlive
  <2>1. app = Fresh
    BY <1>7 DEF StoreKeepAlive, Shape
  <2>2. app'.commandQueue = <<WaitHandshake>> /\ ~app'.connEstablished /\ commands' = commands
    BY <1>7, <2>1 DEF StoreKeepAlive, Fresh, pair
  <2>3. Len(app'.commandQueue) = 1
    BY <2>2
  <2>4. WaitsFirst(app')
    BY <2>2, <2>3 DEF WaitsFirst
  <2> QED BY <1>3, <2>2, <2>4
<1>8. CASE EndSplit
  <2>1. app' = app \/ app' = Speak(app)
    BY <1>8 DEF EndSplit
  <2>2. app'.commandQueue = app.commandQueue /\ app'.connEstablished = app.connEstablished
    BY <1>1, <2>1, SpeakType
  <2>3. commands' = commands
    BY <1>8 DEF EndSplit, pair
  <2> QED BY <1>1, <1>3, <2>2, <2>3, WaitsFirstSame
<1>9. CASE DispatchMessage
  <2>1. commands' = commands /\ (TakenAsLost \/ TakenInOrder)
    BY <1>9, DispatchIs
  <2>2. CASE TakenAsLost
    <3>1. "lost" \in Windows
      BY DEF Windows
    <3>2. app'.commandQueue = <<WaitHandshake>> /\ ~app'.connEstablished
      BY <1>1, <2>2, <3>1, HandleExceptionType DEF TakenAsLost
    <3>3. Len(app'.commandQueue) = 1
      BY <3>2
    <3>4. WaitsFirst(app')
      BY <3>2, <3>3 DEF WaitsFirst
    <3> QED BY <1>3, <2>1, <3>4
  <2>3. CASE TakenInOrder /\ TakenFails
    BY <1>4, <2>1, <2>3 DEF TakenFails
  <2>4. CASE TakenInOrder /\ TakenRaises
    <3>1. PICK code \in Windows \ {"lost"} : app' = HandleException(app, code)
      BY <2>4 DEF TakenRaises
    <3>2. app'.commandQueue = app.commandQueue /\ app'.connEstablished = app.connEstablished
      <4>1. code \in Windows /\ code # "lost" /\ app \in Apps
        BY <1>1
      <4>2. /\ HandleException(app, code).commandQueue = app.commandQueue
            /\ HandleException(app, code).connEstablished = app.connEstablished
        BY <4>1, OtherWindowKeeps
      <4> QED BY <3>1, <4>2
    <3> QED BY <1>1, <1>3, <2>1, <3>2, WaitsFirstSame
  <2>5. CASE TakenInOrder /\ TakenDispatched
    <3>1. app' \in Dispatched(app, Head(toGameBuffer))
      BY <2>5 DEF TakenDispatched
    <3>2. app' = app \/ (Pending(app) /\ Popped(app, app'))
      BY <1>1, <3>1, DispatchedPops
    <3>3. ASSUME Pending(app), Popped(app, app') PROVE WaitsFirst(app')
      BY <1>1, <1>2, <3>3, WaitsFirstPops DEF Popped
    <3> QED BY <1>3, <1>4, <2>1, <3>2, <3>3
  <2> QED BY <2>1, <2>2, <2>3, <2>4, <2>5 DEF TakenInOrder
<1>10. CASE WriteToServer
  <2>1. /\ app'.commandQueue = app.commandQueue /\ app'.connEstablished = app.connEstablished
        /\ WriteFails \/ Writes
    BY <1>10, WriteIs
  <2>2. WaitsFirst(app')
    BY <1>1, <2>1, WaitsFirstSame
  <2>3. CASE WriteFails
    BY <1>3, <2>2, <2>3 DEF WriteFails
  <2>4. CASE Writes
    <3>1. /\ app.connEstablished /\ Pending(app) /\ commands' = commands \o <<Current(app)>>
          /\ commands \in Seq(Commands)
      BY <2>4 DEF Writes, TypeOK
    <3>2. Current(app) \in Commands
      BY <1>1, <3>1, PopType
    <3>3. Current(app) \notin Placeholders
      <4>1. app.commandQueue \in Seq(Commands) /\ app.commandQueue # <<>>
        BY <1>1, <3>1 DEF Apps, Pending
      <4>2. 1 \in 1..Len(app.commandQueue) /\ Current(app) = app.commandQueue[1]
        BY <3>1, <4>1 DEF Current
      <4> QED BY <1>1, <3>1, <4>2 DEF WaitsFirst
    <3>4. <<Current(app)>> \in Seq(Commands) /\ ~Has(<<Current(app)>>, Placeholders)
      BY <3>2, <3>3, Single
    <3>5. ~Has(commands', Placeholders)
      <4>1. ~Has(commands, Placeholders) /\ commands \in Seq(Commands)
        BY <3>1 DEF OnlyWaited
      <4>2. ~Has(commands \o <<Current(app)>>, Placeholders)
        BY <3>4, <4>1, HasJoined
      <4> QED BY <3>1, <4>2
    <3> QED BY <1>2, <2>2, <3>5 DEF OnlyWaited, WaitsFirst
  <2> QED BY <2>1, <2>3, <2>4
<1>11. CASE HandleInput
  <2>1. /\ app.phase # "ND" /\ Head(commandPipe) \in {"name"} \cup Typed
        /\ app' = HandleCommand(app, Head(commandPipe)) /\ UNCHANGED pair
    BY <1>11, InputIs
  <2>2. commands' = commands
    BY <2>1 DEF pair
  <2>3. app'.connEstablished = app.connEstablished
    BY <1>1, <2>1, HandleCommandType
  <2>4. PICK more \in Seq(Commands) :
          /\ ~Has(more, Placeholders)
          /\ \/ app'.commandQueue = app.commandQueue \o more
             \/ Pending(app) /\ app'.commandQueue = Tail(app.commandQueue) \o more
    <3> DEFINE input == Head(commandPipe)
    <3>1. /\ app \in Apps /\ app.phase # "ND" /\ input \in {"name"} \cup Typed
          /\ app' = HandleCommand(app, input)
      BY <1>1, <2>1
    <3> HIDE DEF input
    <3>2. \E more \in Seq(Commands) :
            /\ ~Has(more, Placeholders)
            /\ \/ HandleCommand(app, input).commandQueue = app.commandQueue \o more
               \/ /\ app.phase \in {"LOGIN", "PLAYER_CREATE"} /\ Pending(app)
                  /\ HandleCommand(app, input).commandQueue = Tail(app.commandQueue) \o more
      BY <3>1, HandleCommandType
    <3> QED BY <3>1, <3>2
  <2>5. WaitsFirst(app')
    BY <1>1, <1>2, <2>3, <2>4, WaitsFirstGrows, WaitsFirstPops
  <2> QED BY <1>3, <2>2, <2>5
<1>12. ASSUME NEW phase \in Phases, GoTo(phase) PROVE OnlyWaited'
  <2>1. /\ app'.connEstablished = app.connEstablished
        /\ \E more \in Seq(Commands) :
              ~Has(more, Placeholders) /\ app'.commandQueue = app.commandQueue \o more
        /\ UNCHANGED pair
    BY <1>12, DoorTypeOK
  <2>2. WaitsFirst(app')
    BY <1>1, <1>2, <2>1, WaitsFirstGrows
  <2> QED BY <1>3, <2>1, <2>2 DEF pair
<1> QED BY <1>5, <1>6, <1>7, <1>8, <1>9, <1>10, <1>11, <1>12 DEF UIStep, User

LEMMA WorkerOnlyWaited ==
  ASSUME TypeOK, Shape, OnlyWaited, WorkerStep \/ Server
  PROVE  OnlyWaited'
<1> USE DEF OnlyWaited
<1>1. /\ commands \in Seq(Commands) /\ gameBuffer \in Seq(Commands) /\ serverIn \in Seq(Commands)
  BY DEF TypeOK
<1>2. WaitsFirst(app)' /\ ~Has(<<>>, Placeholders)
  <2>1. app' = app
    BY Zenon DEF WorkerStep, CheckKeepAlive, PollWorker, FlushPipe, HandleDataFromGame,
      HandleDataToGame, HandleDataFromServer, HandleDataToServer, HandleServerError,
      Server, ServerAnswers, ServerEvent, ServerCloses, ServerBreaksOff, screen
  <2> QED BY <2>1, Empty DEF WaitsFirst
<1>3. CASE CheckKeepAlive \/ PollWorker \/ HandleDataToGame \/ HandleDataFromServer \/ HandleServerError
           \/ ServerEvent \/ ServerCloses \/ ServerBreaksOff
  <2>1. UNCHANGED <<commands, gameBuffer, serverIn>>
    BY <1>3, Zenon DEF CheckKeepAlive, PollWorker, HandleDataToGame, HandleDataFromServer,
      HandleServerError, ServerEvent, ServerCloses, ServerBreaksOff, pair, worked, served
  <2> QED BY <1>2, <2>1
<1>4. CASE FlushPipe
  <2>1. UNCHANGED <<commands, gameBuffer>> /\ (serverIn' = serverIn \/ serverIn' = <<>>)
    BY <1>4 DEF FlushPipe, pair
  <2> QED BY <1>2, <2>1
<1>5. CASE HandleDataFromGame
  <2>1. gameBuffer' = gameBuffer \o commands /\ commands' = <<>> /\ serverIn' = serverIn
    BY <1>5 DEF HandleDataFromGame, served
  <2>2. ~Has(gameBuffer \o commands, Placeholders)
    BY <1>1, HasJoined
  <2> QED BY <1>2, <2>1, <2>2
<1>6. CASE HandleDataToServer
  <2>1. /\ commands' = commands /\ gameBuffer' \in {gameBuffer, <<>>}
        /\ serverIn' \in {serverIn, serverIn \o gameBuffer}
    BY <1>6 DEF HandleDataToServer, Sends, pair
  <2>2. ~Has(serverIn \o gameBuffer, Placeholders)
    BY <1>1, HasJoined
  <2> QED BY <1>2, <2>1, <2>2
<1>7. CASE ServerAnswers
  <2>1. serverIn # <<>> /\ serverIn' = Tail(serverIn) /\ UNCHANGED <<worked, pair>>
    BY <1>7, AnswersIs
  <2>2. ~Has(Tail(serverIn), Placeholders)
    <3>1. serverIn = <<Head(serverIn)>> \o Tail(serverIn) /\ Head(serverIn) \in Commands
          /\ Tail(serverIn) \in Seq(Commands) /\ <<Head(serverIn)>> \in Seq(Commands)
      BY <1>1, <2>1, HeadAndTail, Single
    <3>2. ~Has(serverIn, Placeholders)
      OBVIOUS
    <3> DEFINE h == <<Head(serverIn)>>
               t == Tail(serverIn)
    <3>3. serverIn = h \o t /\ h \in Seq(Commands) /\ t \in Seq(Commands)
      BY <3>1
    <3> HIDE DEF h, t
    <3>4. Has(h \o t, Placeholders) <=> Has(h, Placeholders) \/ Has(t, Placeholders)
      BY <3>3, HasJoined
    <3>5. ~Has(t, Placeholders)
      BY <3>2, <3>3, <3>4
    <3> QED BY <3>5 DEF t
  <2> QED BY <1>2, <2>1, <2>2 DEF worked, pair
<1> QED BY <1>3, <1>4, <1>5, <1>6, <1>7 DEF WorkerStep, Server

\* The placeholder stays where it is waited for.
LEMMA NextOnlyWaited ==
  ASSUME TypeOK, Shape, OnlyWaited, [Next]_vars
  PROVE  OnlyWaited'
<1>1. CASE UNCHANGED vars
  BY <1>1 DEF vars, screen, worked, pair, served, OnlyWaited, WaitsFirst
<1> QED BY <1>1, ScreenOnlyWaited, WorkerOnlyWaited DEF Next

LEMMA OnlyWaitedSuffices ==
  ASSUME TypeOK, OnlyWaited
  PROVE  PlaceholderNeverSent
<1> DEFINE sent == commands \o gameBuffer \o serverIn
<1>1. /\ commands \in Seq(Commands) /\ gameBuffer \in Seq(Commands) /\ serverIn \in Seq(Commands)
  BY DEF TypeOK
<1>2. commands \o gameBuffer \in Seq(Commands) /\ ~Has(commands \o gameBuffer, Placeholders)
  BY <1>1, Joined, HasJoined DEF OnlyWaited
<1>3. sent \in Seq(Commands) /\ ~Has(sent, Placeholders)
  <2> DEFINE s == commands \o gameBuffer
  <2>1. s \in Seq(Commands) /\ serverIn \in Seq(Commands)
    BY <1>1, <1>2
  <2>2. ~Has(s, Placeholders) /\ ~Has(serverIn, Placeholders)
    BY <1>2 DEF OnlyWaited
  <2> HIDE DEF s
  <2>3. s \o serverIn \in Seq(Commands)
    BY <2>1, Joined
  <2>4. ~Has(s \o serverIn, Placeholders)
    BY <2>1, <2>2, HasJoined
  <2> QED BY <2>3, <2>4 DEF s
<1> HIDE DEF sent
<1>4. ASSUME NEW c \in Range(sent) PROVE c.type # "WAIT_HANDSHAKE"
  <2>1. PICK i \in DOMAIN sent : c = sent[i]
    BY DEF Range
  <2>2. i \in 1..Len(sent) /\ c \in Commands
    BY <1>3, <2>1
  <2> QED BY <1>3, <2>1, <2>2 DEF Has, Placeholders
<1> QED BY <1>4 DEF PlaceholderNeverSent, sent

\* TypeOK: every variable keeps its type in every step of both threads, the user
\* and the server.
THEOREM TypeCorrect == Spec => []TypeOK
<1>1. TypeOK /\ Shape /\ [Next]_vars => TypeOK' /\ Shape'
  BY NextTypeOK
<1> QED BY <1>1, InitTypeOK, PTL DEF Spec

\* The command that stands for the handshake (UI.cpp:53-54) never reaches the
\* socket pair, the worker or the server.
THEOREM PlaceholderTheorem == Spec => []PlaceholderNeverSent
<1> DEFINE I == TypeOK /\ Shape /\ OnlyWaited
<1>1. Init => I
  BY InitTypeOK, InitOnlyWaited
<1>2. I /\ [Next]_vars => I'
  BY NextTypeOK, NextOnlyWaited
<1>3. I => PlaceholderNeverSent
  BY OnlyWaitedSuffices
<1> QED BY <1>1, <1>2, <1>3, PTL DEF Spec
-----------------------------------------------------------------------------
(* What is said *)

LEMMA Regroups ==
  ASSUME NEW S, NEW t \in Seq(S), NEW a \in Seq(S), NEW b \in Seq(S)
  PROVE  t \o (a \o b) = (t \o a) \o b
BY Associates

LEMMA InboxType ==
  ASSUME TypeOK
  PROVE  /\ toGameBuffer \in Seq(Lines) /\ answers \in Seq(Lines) /\ serverBuffer \in Seq(Lines)
         /\ answers \o serverBuffer \in Seq(Lines)
         /\ Inbox \in Seq(Lines) /\ serverOut \in Seq(Lines) /\ Pipe \in Seq(Lines)
<1>1. /\ toGameBuffer \in Seq(Lines) /\ answers \in Seq(Lines) /\ serverBuffer \in Seq(Lines)
      /\ serverOut \in Seq(Lines)
  BY DEF TypeOK
<1>2. answers \o serverBuffer \in Seq(Lines)
  BY <1>1, Joined
<1>3. Inbox \in Seq(Lines)
  BY <1>1, <1>2, Joined DEF Inbox
<1>4. Pipe \in Seq(Lines)
  BY <1>1, <1>3, Joined DEF Pipe
<1> QED BY <1>1, <1>2, <1>3, <1>4

\* What each step does to all that is said: only new lines at the end and the first line handled.
LEMMA InboxSame ==
  ASSUME UNCHANGED <<toGameBuffer, answers, serverBuffer>>
  PROVE  Inbox' = Inbox
BY DEF Inbox

LEMMA PipeSame ==
  ASSUME UNCHANGED <<toGameBuffer, answers, serverBuffer, serverOut>>
  PROVE  Inbox' = Inbox /\ Pipe' = Pipe
BY DEF Inbox, Pipe

LEMMA InboxRead ==
  ASSUME TypeOK, Shape, ReadFromServer
  PROVE  Inbox' = Inbox /\ Pipe' = Pipe
<1>1. /\ toGameBuffer' \in Seq(Lines) /\ answers' \in Seq(Lines)
      /\ toGameBuffer' \o answers' = toGameBuffer \o answers
      /\ UNCHANGED <<worked, served>>
  BY ReadIs
<1>2. serverBuffer' = serverBuffer /\ serverOut' = serverOut
  BY <1>1 DEF worked, served
<1>3. toGameBuffer \o (answers \o serverBuffer) = (toGameBuffer \o answers) \o serverBuffer
  <2>1. toGameBuffer \in Seq(Lines) /\ answers \in Seq(Lines) /\ serverBuffer \in Seq(Lines)
    BY InboxType
  <2> QED BY <2>1, Regroups
<1>4. toGameBuffer' \o (answers' \o serverBuffer) = (toGameBuffer' \o answers') \o serverBuffer
  <2> DEFINE t == toGameBuffer'
             a == answers'
             b == serverBuffer
  <2>1. t \in Seq(Lines) /\ a \in Seq(Lines) /\ b \in Seq(Lines)
    BY <1>1, InboxType
  <2> HIDE DEF t, a, b
  <2>2. t \o (a \o b) = (t \o a) \o b
    BY <2>1
  <2> QED BY <2>2 DEF t, a, b
<1>5. Inbox' = Inbox
  BY <1>1, <1>2, <1>3, <1>4 DEF Inbox
<1> QED BY <1>2, <1>5 DEF Pipe

LEMMA InboxHandedOver ==
  ASSUME TypeOK, HandleDataToGame
  PROVE  Inbox' = Inbox /\ Pipe' = Pipe
<1>1. /\ toGameBuffer' = toGameBuffer /\ answers' = answers \o serverBuffer /\ serverBuffer' = <<>>
      /\ serverOut' = serverOut
  BY DEF HandleDataToGame, screen, served
<1>2. answers \o serverBuffer \in Seq(Lines)
  BY InboxType
<1>3. (answers \o serverBuffer) \o <<>> = answers \o serverBuffer
  BY <1>2
<1>4. Inbox' = Inbox
  BY <1>1, <1>3 DEF Inbox
<1> QED BY <1>1, <1>4 DEF Pipe

LEMMA InboxTaken ==
  ASSUME TypeOK, Shape, DispatchMessage, TakenInOrder
  PROVE  /\ Head(toGameBuffer) \in Lines /\ Inbox' \in Seq(Lines) /\ Pipe' \in Seq(Lines)
         /\ Inbox = <<Head(toGameBuffer)>> \o Inbox'
         /\ Pipe = <<Head(toGameBuffer)>> \o Pipe'
<1> DEFINE h == Head(toGameBuffer)
           t == Tail(toGameBuffer)
           a == answers \o serverBuffer
<1>1. /\ toGameBuffer \in Seq(Lines) /\ toGameBuffer # <<>>
      /\ UNCHANGED <<worked, served>>
  BY DispatchIs
<1>2. h \in Lines /\ t \in Seq(Lines) /\ toGameBuffer = <<h>> \o t
  BY <1>1, HeadAndTail
<1>3. toGameBuffer' = t /\ answers' = answers
  BY DEF TakenInOrder
<1>4. serverBuffer' = serverBuffer /\ serverOut' = serverOut
  BY <1>1 DEF worked, served
<1>5. a \in Seq(Lines) /\ serverOut \in Seq(Lines)
  BY InboxType
<1>6. Inbox = toGameBuffer \o a /\ Inbox' = t \o a
  BY <1>3, <1>4 DEF Inbox
<1>7. <<h>> \in Seq(Lines)
  BY <1>2, Single
<1> HIDE DEF h, t, a
<1>8. (<<h>> \o t) \o a = <<h>> \o (t \o a)
  BY <1>2, <1>5, <1>7, Associates
<1>9. t \o a \in Seq(Lines)
  BY <1>2, <1>5, Joined
<1>10. ((<<h>> \o (t \o a)) \o serverOut) = <<h>> \o ((t \o a) \o serverOut)
  BY <1>5, <1>7, <1>9, Associates
<1>11. (t \o a) \o serverOut \in Seq(Lines)
  BY <1>5, <1>9, Joined
<1>12. Inbox = <<h>> \o Inbox'
  BY <1>2, <1>6, <1>8
<1>13. Pipe' = (t \o a) \o serverOut
  BY <1>4, <1>6 DEF Pipe
<1>14. Pipe = <<h>> \o Pipe'
  BY <1>6, <1>10, <1>12, <1>13 DEF Pipe
<1> QED BY <1>2, <1>6, <1>9, <1>11, <1>12, <1>13, <1>14 DEF h

LEMMA InboxDropped ==
  ASSUME TypeOK, Shape, DispatchMessage, TakenAsLost
  PROVE  /\ \E cut \in Seq(Lines) : Inbox = cut \o Inbox'
         /\ Inbox' \in Seq(Lines) /\ serverOut' = serverOut
<1>1. /\ serverBuffer' = serverBuffer /\ serverOut' = serverOut
  BY DispatchIs DEF worked, served
<1>2. /\ toGameBuffer' = <<>>
      /\ answers' = answers \/ (answers # <<>> /\ answers' = Tail(answers))
  BY DEF TakenAsLost
<1>3. \E cut \in Seq(Lines) : answers = cut \o answers' /\ answers' \in Seq(Lines)
  <2>1. answers \in Seq(Lines)
    BY DEF TypeOK
  <2>2. CASE answers' = answers
    <3>1. answers = <<>> \o answers /\ <<>> \in Seq(Lines)
      BY <2>1
    <3> QED BY <2>1, <2>2, <3>1
  <2>3. CASE answers # <<>> /\ answers' = Tail(answers)
    <3>1. /\ Head(answers) \in Lines /\ Tail(answers) \in Seq(Lines)
          /\ answers = <<Head(answers)>> \o Tail(answers)
      BY <2>1, <2>3, HeadAndTail
    <3>2. <<Head(answers)>> \in Seq(Lines)
      BY <3>1, Single
    <3> QED BY <2>3, <3>1, <3>2
  <2> QED BY <1>2, <2>2, <2>3
<1>4. PICK cut \in Seq(Lines) : answers = cut \o answers' /\ answers' \in Seq(Lines)
  BY <1>3
<1>5. toGameBuffer \in Seq(Lines) /\ serverBuffer \in Seq(Lines)
  BY DEF TypeOK
<1> DEFINE rest == answers' \o serverBuffer
<1>6. rest \in Seq(Lines)
  BY <1>4, <1>5, Joined
<1>7. answers \o serverBuffer = cut \o rest
  <2>1. cut \o (answers' \o serverBuffer) = (cut \o answers') \o serverBuffer
    BY <1>4, <1>5, Regroups
  <2> QED BY <1>4, <2>1
<1>8. Inbox' = rest
  <2>1. Inbox' = <<>> \o rest
    BY <1>1, <1>2 DEF Inbox
  <2> HIDE DEF rest
  <2>2. <<>> \o rest = rest
    BY <1>6
  <2> QED BY <2>1, <2>2
<1> HIDE DEF rest
<1>9. Inbox = (toGameBuffer \o cut) \o rest
  <2>1. toGameBuffer \in Seq(Lines) /\ rest \in Seq(Lines)
    BY <1>5, <1>6
  <2>2. toGameBuffer \o (cut \o rest) = (toGameBuffer \o cut) \o rest
    BY <2>1
  <2> QED BY <1>7, <2>2 DEF Inbox
<1>10. toGameBuffer \o cut \in Seq(Lines)
  BY <1>5, Joined
<1> QED BY <1>1, <1>6, <1>8, <1>9, <1>10

LEMMA InboxGlued ==
  ASSUME TypeOK, ReadGlued
  PROVE  /\ serverOut' = serverOut /\ Head(toGameBuffer) \in Lines /\ Inbox' \in Seq(Lines)
         /\ \E l \in Seq(Lines), cut \in Seq(Lines), rest \in Seq(Lines) :
              /\ Inbox = cut \o rest /\ Inbox' = l \o rest
              /\ Len(cut) = 2 /\ cut[1] = Head(toGameBuffer)
              /\ l = <<>> \/ \E x \in Lines :
                   l = <<x>> /\ x.to = Head(toGameBuffer).to /\ x.kind # "torn"
                     /\ (x.to = NoCommand => x.kind = "event")
<1>1. /\ Head(toGameBuffer) \in Lines
      /\ UNCHANGED <<ui, turn, app, commandPipe, worked, wakeups, pair, served, budget, history>>
  BY GluedIs
<1>2. PICK l \in Seq(Lines), cut \in Seq(Lines), rest \in Seq(Lines) :
        /\ toGameBuffer = cut \o rest /\ toGameBuffer' = l \o rest
        /\ Len(cut) = 2 /\ cut[1] = Head(toGameBuffer)
        /\ l = <<>> \/ \E x \in Lines : l = <<x>> /\ x.to = Head(toGameBuffer).to /\ x.kind # "torn"
                         /\ (x.to = NoCommand => x.kind = "event")
  BY GluedIs
<1> DEFINE a == answers \o serverBuffer
<1>3. a \in Seq(Lines)
  BY InboxType
<1>4. Inbox = toGameBuffer \o a /\ Inbox' = toGameBuffer' \o a /\ serverOut' = serverOut
  BY <1>1 DEF Inbox, worked, pair, served
<1> HIDE DEF a
<1>5. rest \o a \in Seq(Lines)
  BY <1>3, Joined
<1>6. Inbox = cut \o (rest \o a)
  <2>1. (cut \o rest) \o a = cut \o (rest \o a)
    BY <1>3
  <2> QED BY <1>2, <1>4, <2>1
<1>7. Inbox' = l \o (rest \o a)
  <2>1. (l \o rest) \o a = l \o (rest \o a)
    BY <1>3
  <2> QED BY <1>2, <1>4, <2>1
<1>8. Inbox' \in Seq(Lines)
  BY <1>5, <1>7, Joined
<1>9. \E m \in Seq(Lines) : Inbox = cut \o m /\ Inbox' = l \o m
  BY <1>5, <1>6, <1>7
<1> QED BY <1>1, <1>2, <1>4, <1>8, <1>9

LEMMA InboxFills ==
  ASSUME TypeOK, Shape, HandleDataFromServer
  PROVE  /\ serverEvents' = serverEvents /\ serverEvents # {}
         /\ serverOut' = <<>>
         /\ \/ Inbox' = Inbox \o serverOut /\ Pipe' = Pipe
            \/ Inbox' = Inbox /\ Pipe' = Inbox /\ conn \notin {"open", "closing"}
<1>1. "serverIn" \in due
  BY TurnTaken DEF HandleDataFromServer
<1>2. serverEvents # {} /\ serverEvents' = serverEvents /\ serverOut' = <<>>
      /\ toGameBuffer' = toGameBuffer /\ answers' = answers
  BY <1>1 DEF Shape, HandleDataFromServer, screen, pair
<1>3. /\ Inbox \in Seq(Lines) /\ serverOut \in Seq(Lines) /\ Inbox \o serverOut \in Seq(Lines)
  BY InboxType DEF Pipe
<1>4. CASE serverBuffer' = serverBuffer /\ conn \notin {"open", "closing"}
  <2>1. Inbox' = Inbox
    BY <1>2, <1>4 DEF Inbox
  <2>2. Inbox \o <<>> = Inbox
    BY <1>3
  <2> QED BY <1>2, <1>4, <2>1, <2>2 DEF Pipe
<1>5. CASE serverBuffer' = serverBuffer \o serverOut
  <2> DEFINE t == toGameBuffer
             a == answers
             s == serverBuffer
             o == serverOut
  <2>1. t \in Seq(Lines) /\ a \in Seq(Lines) /\ s \in Seq(Lines) /\ o \in Seq(Lines)
        /\ a \o s \in Seq(Lines)
    BY InboxType
  <2>2. Inbox' = t \o (a \o (s \o o)) /\ Inbox = t \o (a \o s)
    BY <1>2, <1>5 DEF Inbox
  <2> HIDE DEF t, a, s, o
  <2>3. t \o (a \o (s \o o)) = (t \o (a \o s)) \o o
    <3> DEFINE m == a \o s
    <3>1. m \in Seq(Lines)
      BY <2>1
    <3>2. a \o (s \o o) = m \o o
      BY <2>1
    <3> HIDE DEF m
    <3>3. t \in Seq(Lines) /\ o \in Seq(Lines)
      BY <2>1
    <3>4. t \o (m \o o) = (t \o m) \o o
      BY <3>1, <3>3
    <3> QED BY <3>2, <3>4 DEF m
  <2>4. Inbox' = Inbox \o serverOut
    BY <2>2, <2>3 DEF o
  <2>5. (Inbox \o serverOut) \o <<>> = Inbox \o serverOut
    BY <1>3
  <2> QED BY <1>2, <2>4, <2>5 DEF Pipe
<1>6. \/ serverBuffer' = serverBuffer /\ conn \notin {"open", "closing"}
      \/ serverBuffer' = serverBuffer \o serverOut
  BY DEF HandleDataFromServer
<1> QED BY <1>4, <1>5, <1>6

LEMMA InboxTold ==
  ASSUME TypeOK, Shape, HandleServerError
  PROVE  /\ conn \in {"closed", "broken"} /\ serverOut' = serverOut
         /\ \/ Inbox' = Inbox /\ serverEvents' = serverEvents
            \/ Inbox' = Inbox \o <<Lost>> /\ serverEvents' = {}
<1>1. conn \in {"closed", "broken"}
  BY TurnTaken DEF HandleServerError, Shape
<1>2. toGameBuffer' = toGameBuffer /\ answers' = answers /\ serverOut' = serverOut
  BY DEF HandleServerError, screen, pair, served
<1>3. CASE serverBuffer' = serverBuffer /\ serverEvents' = serverEvents
  BY <1>1, <1>2, <1>3 DEF Inbox
<1>4. CASE serverBuffer' = Append(serverBuffer, Lost) /\ serverEvents' = {}
  <2> DEFINE t == toGameBuffer
             a == answers
             s == serverBuffer
             o == <<Lost>>
  <2>1. t \in Seq(Lines) /\ a \in Seq(Lines) /\ s \in Seq(Lines) /\ o \in Seq(Lines)
        /\ a \o s \in Seq(Lines)
    BY InboxType, Tidings, Single
  <2>2. Append(s, Lost) = s \o o
    BY <2>1, Tidings, Appended
  <2>3. Inbox' = t \o (a \o (s \o o)) /\ Inbox = t \o (a \o s)
    BY <1>2, <1>4, <2>2 DEF Inbox
  <2> HIDE DEF t, a, s, o
  <2>4. t \o (a \o (s \o o)) = (t \o (a \o s)) \o o
    <3> DEFINE m == a \o s
    <3>1. m \in Seq(Lines)
      BY <2>1
    <3>2. a \o (s \o o) = m \o o
      BY <2>1
    <3> HIDE DEF m
    <3>3. t \in Seq(Lines) /\ o \in Seq(Lines)
      BY <2>1
    <3>4. t \o (m \o o) = (t \o m) \o o
      BY <3>1, <3>3
    <3> QED BY <3>2, <3>4 DEF m
  <2>5. Inbox' = Inbox \o <<Lost>>
    BY <2>3, <2>4 DEF o
  <2> QED BY <1>1, <1>2, <1>4, <2>5
<1>5. \/ serverBuffer' = serverBuffer /\ serverEvents' = serverEvents
      \/ serverBuffer' = Append(serverBuffer, Lost) /\ serverEvents' = {}
  BY DEF HandleServerError, Lost
<1> QED BY <1>3, <1>4, <1>5

\* The steps that leave alone what the server has said, and the news of it.
Still ==
  /\ UNCHANGED <<toGameBuffer, answers, serverBuffer, serverOut, cutOff>>
  /\ serverEvents' = {} => serverEvents = {}
  /\ app'.connEstablished = app.connEstablished
  /\ ui' \notin {"stopped", "aborted"} => ui \notin {"stopped", "aborted"}
-----------------------------------------------------------------------------
(* The news of a loss *)

LEMMA StillIs ==
  ASSUME TypeOK, Shape,
         \/ StartThread \/ StoreKeepAlive \/ PollUI \/ EndSplit \/ WriteToServer \/ HandleInput
         \/ \E input \in {"name"} \cup Typed : Enter(input)
         \/ \E phase \in Phases : GoTo(phase)
         \/ ExitLoop \/ WakeUpWorker \/ Join \/ Reconnect \/ PressClose
         \/ CheckKeepAlive \/ PollWorker \/ HandleDataFromGame \/ HandleDataToServer
         \/ ServerCloses
  PROVE  Still
<1>1. app \in Apps
  BY DEF TypeOK
<1>2. CASE \/ StartThread \/ PollUI \/ ExitLoop \/ WakeUpWorker \/ Join \/ PressClose
           \/ \E input \in {"name"} \cup Typed : Enter(input)
  BY <1>2 DEF StartThread, PollUI, ExitLoop, WakeUpWorker, Join, PressClose, Enter, AtKeyboard,
    worked, pair, served, Still
<1>3. CASE StoreKeepAlive
  <2>1. app'.connEstablished = app.connEstablished
    BY <1>1, <1>3 DEF StoreKeepAlive, Apps
  <2> QED BY <1>3, <2>1 DEF StoreKeepAlive, pair, served, Still
<1>4. CASE EndSplit
  <2>1. app'.connEstablished = app.connEstablished
    <3>1. app' = app \/ app' = Speak(app)
      BY <1>4 DEF EndSplit
    <3>2. Speak(app).connEstablished = app.connEstablished
      BY <1>1, SpeakType
    <3> QED BY <3>1, <3>2
  <2> QED BY <1>4, <2>1 DEF EndSplit, worked, pair, served, Still
<1>5. CASE WriteToServer
  <2>1. /\ ui = "poll" /\ app'.connEstablished = app.connEstablished
        /\ UNCHANGED <<toGameBuffer, worked, answers, served>>
    BY <1>5, WriteIs
  <2> QED BY <2>1 DEF worked, served, Still
<1>6. CASE HandleInput
  <2>1. /\ app.phase # "ND" /\ Head(commandPipe) \in {"name"} \cup Typed
        /\ app' = HandleCommand(app, Head(commandPipe)) /\ ui = "poll"
        /\ UNCHANGED <<toGameBuffer, worked, pair, served>>
    BY <1>6, InputIs
  <2>2. app'.connEstablished = app.connEstablished
    BY <1>1, <2>1, HandleCommandType
  <2> QED BY <2>1, <2>2 DEF worked, pair, served, Still
<1>7. ASSUME NEW phase \in Phases, GoTo(phase) PROVE Still
  <2>1. /\ app'.connEstablished = app.connEstablished
        /\ UNCHANGED <<ui, toGameBuffer, worked, pair, served>>
    BY <1>7, DoorTypeOK
  <2> QED BY <2>1 DEF worked, pair, served, Still
<1>8. CASE Reconnect
  BY <1>8 DEF Reconnect, screen, worked, pair, served, Still
<1>9. CASE CheckKeepAlive \/ PollWorker \/ HandleDataFromGame \/ ServerCloses
  BY <1>9 DEF CheckKeepAlive, PollWorker, HandleDataFromGame, ServerCloses, screen, worked, pair,
    served, Still
<1>10. CASE HandleDataToServer
  <2>1. "serverOut" \in due
    BY <1>10, TurnTaken DEF HandleDataToServer
  <2>2. serverEvents # {}
    BY <2>1 DEF Shape
  <2>3. serverEvents' # {}
    BY <1>10, <2>2 DEF HandleDataToServer, Sends
  <2> QED BY <1>10, <2>3 DEF HandleDataToServer, screen, pair, served, Still
<1> QED BY <1>2, <1>3, <1>4, <1>5, <1>6, <1>7, <1>8, <1>9, <1>10

LEMMA EndsLostJoined ==
  ASSUME NEW s \in Seq(Lines), NEW t \in Seq(Lines), t # <<>>
  PROVE  EndsLost(s \o t) <=> EndsLost(t)
<1>1. Len(t) \in 1..Len(t) /\ Len(s) + Len(t) = Len(s \o t) /\ s \o t # <<>>
  <2>1. Len(t) \in Nat /\ Len(t) # 0 /\ Len(s) \in Nat
    OBVIOUS
  <2>2. Len(s \o t) = Len(s) + Len(t) /\ s \o t \in Seq(Lines)
    BY Joined
  <2>3. Len(s \o t) # 0
    BY <2>1, <2>2
  <2> QED BY <2>1, <2>2, <2>3
<1>2. (s \o t)[Len(s) + Len(t)] = t[Len(t)]
  BY <1>1, Joined
<1> QED BY <1>1, <1>2 DEF EndsLost

LEMMA NewsOf ==
  ASSUME NEW s \in Seq(Lines), NEW t \in Seq(Lines), EndsLost(s \o t)
  PROVE  EndsLost(t)
<1>1. CASE t = <<>>
  BY <1>1 DEF EndsLost
<1> QED BY <1>1, EndsLostJoined

LEMMA StillCutOff ==
  ASSUME TypeOK, TornCutOff, Still
  PROVE  TornCutOff'
BY PipeSame DEF Still, TornCutOff

LEMMA StillNews ==
  ASSUME TypeOK, NewsOnItsWay, Still
  PROVE  NewsOnItsWay'
BY InboxSame DEF Still, NewsOnItsWay

LEMMA HasPipe ==
  ASSUME TypeOK, NEW K
  PROVE  Has(Pipe, K) <=> Has(Inbox, K) \/ Has(serverOut, K)
<1>1. Inbox \in Seq(Lines) /\ serverOut \in Seq(Lines)
  BY InboxType
<1> QED BY <1>1, HasJoined DEF Pipe

\* A line more at the server's end, or lines fewer at the screen's.
LEMMA HasMore ==
  ASSUME TypeOK, TypeOK', NEW K, Inbox' = Inbox, NEW x \in Seq(Lines), serverOut' = serverOut \o x
  PROVE  /\ Pipe' = Pipe \o x
         /\ Has(Pipe', K) <=> Has(Pipe, K) \/ Has(x, K)
<1>1. Inbox \in Seq(Lines) /\ serverOut \in Seq(Lines) /\ Pipe \in Seq(Lines)
  BY InboxType
<1>2. Pipe' = Inbox \o (serverOut \o x)
  BY DEF Pipe
<1>3. Inbox \o (serverOut \o x) = (Inbox \o serverOut) \o x
  <2> DEFINE i == Inbox
             o == serverOut
  <2>1. i \in Seq(Lines) /\ o \in Seq(Lines)
    BY <1>1
  <2> HIDE DEF i, o
  <2>2. i \o (o \o x) = (i \o o) \o x
    BY <2>1
  <2> QED BY <2>2 DEF i, o
<1>4. Pipe' = Pipe \o x
  BY <1>2, <1>3 DEF Pipe
<1>5. Has(Pipe \o x, K) <=> Has(Pipe, K) \/ Has(x, K)
  BY <1>1, HasJoined
<1> QED BY <1>4, <1>5

LEMMA InitCutOff == Init => TornCutOff /\ NewsOnItsWay
<1> SUFFICES ASSUME Init PROVE TornCutOff /\ NewsOnItsWay
  OBVIOUS
<1>1. TypeOK
  BY InitTypeOK
<1>2. toGameBuffer = <<>> /\ answers = <<>> /\ serverBuffer = <<>> /\ serverOut = <<Hello>>
      /\ serverEvents # {}
  BY DEF Init
<1>3. Hello \notin Torn
  BY DEF Hello, Line, Torn
<1>4. ~Has(<<Hello>>, Torn) /\ ~Has(<<>>, Torn)
  BY <1>3, Tidings, Empty, Single
<1>5. ~Has(Inbox, Torn)
  <2>1. Inbox = <<>>
    BY <1>2 DEF Inbox
  <2> QED BY <1>4, <2>1
<1>6. TornCutOff
  BY <1>1, <1>2, <1>4, <1>5, HasPipe DEF TornCutOff
<1> QED BY <1>2, <1>6 DEF NewsOnItsWay

\* A line is cut off only with the connection.
LEMMA NextCutOff ==
  ASSUME TypeOK, Shape, TypeOK', TornCutOff, [Next]_vars
  PROVE  TornCutOff'
<1>1. /\ Inbox \in Seq(Lines) /\ serverOut \in Seq(Lines) /\ Pipe \in Seq(Lines)
      /\ Inbox' \in Seq(Lines) /\ serverOut' \in Seq(Lines) /\ Pipe' \in Seq(Lines)
  <2>1. Inbox \in Seq(Lines) /\ serverOut \in Seq(Lines) /\ Pipe \in Seq(Lines)
    BY InboxType
  <2>2. /\ toGameBuffer' \in Seq(Lines) /\ answers' \in Seq(Lines) /\ serverBuffer' \in Seq(Lines)
        /\ serverOut' \in Seq(Lines)
    BY DEF TypeOK
  <2>3. answers' \o serverBuffer' \in Seq(Lines)
    BY <2>2, Joined
  <2>4. Inbox' \in Seq(Lines)
    BY <2>2, <2>3, Joined DEF Inbox
  <2>5. Pipe' \in Seq(Lines)
    BY <2>2, <2>4, Joined DEF Pipe
  <2> QED BY <2>1, <2>2, <2>4, <2>5
<1>2. /\ Has(Pipe, Torn) <=> Has(Inbox, Torn) \/ Has(serverOut, Torn)
      /\ Has(Pipe', Torn) <=> Has(Inbox', Torn) \/ Has(serverOut', Torn)
  <2>1. Has(Inbox' \o serverOut', Torn) <=> Has(Inbox', Torn) \/ Has(serverOut', Torn)
    BY <1>1, HasJoined
  <2>2. Pipe' = Inbox' \o serverOut'
    BY DEF Pipe
  <2> QED BY <2>1, <2>2, HasPipe
<1>3. ASSUME Has(Pipe', Torn) => Has(Pipe, Torn), cutOff' = cutOff
      PROVE  TornCutOff'
  BY <1>3 DEF TornCutOff
<1>4. CASE ReadFromServer
  BY <1>3, <1>4, InboxRead, ReadIs DEF served
<1>5. CASE ReadGlued
  <2>1. PICK l \in Seq(Lines), cut \in Seq(Lines), rest \in Seq(Lines) :
          /\ Inbox = cut \o rest /\ Inbox' = l \o rest
          /\ l = <<>> \/ \E x \in Lines : l = <<x>> /\ x.kind # "torn"
    BY <1>5, InboxGlued
  <2>2. ~Has(l, Torn)
    <3>1. CASE l = <<>>
      BY <3>1, Empty
    <3>2. ASSUME NEW x \in Lines, l = <<x>>, x.kind # "torn" PROVE ~Has(l, Torn)
      <4>1. x \notin Torn
        BY <3>2 DEF Torn
      <4> QED BY <3>2, <4>1, Single
    <3> QED BY <2>1, <3>1, <3>2
  <2>3. Has(l \o rest, Torn) => Has(rest, Torn)
    BY <2>2, HasJoined
  <2>4. Has(rest, Torn) => Has(cut \o rest, Torn)
    BY HasJoined
  <2>5. serverOut' = serverOut /\ cutOff' = cutOff
    BY <1>5 DEF ReadGlued, served
  <2> QED BY <1>2, <1>3, <2>1, <2>3, <2>4, <2>5
<1>6. CASE DispatchMessage
  <2>1. (TakenAsLost \/ TakenInOrder) /\ UNCHANGED served
    BY <1>6, DispatchIs
  <2>2. cutOff' = cutOff
    BY <2>1 DEF served
  <2>3. CASE TakenAsLost
    <3>1. serverOut' = serverOut
      BY <2>1 DEF served
    <3>2. PICK cut \in Seq(Lines) : Inbox = cut \o Inbox'
      BY <1>6, <2>3, InboxDropped
    <3>3. Has(Inbox', Torn) => Has(cut \o Inbox', Torn)
      BY <1>1, HasJoined
    <3>4. Has(Inbox', Torn) => Has(Inbox, Torn)
      BY <3>2, <3>3
    <3> QED BY <1>2, <1>3, <2>2, <3>1, <3>4
  <2>4. CASE TakenInOrder
    <3> DEFINE h == <<Head(toGameBuffer)>>
    <3>1. Head(toGameBuffer) \in Lines /\ Pipe = h \o Pipe'
      BY <1>6, <2>4, InboxTaken
    <3>2. h \in Seq(Lines)
      BY <3>1, Single
    <3> HIDE DEF h
    <3>3. Has(Pipe', Torn) => Has(h \o Pipe', Torn)
      BY <1>1, <3>2, HasJoined
    <3>4. Has(Pipe', Torn) => Has(Pipe, Torn)
      BY <3>1, <3>3
    <3> QED BY <1>3, <2>2, <3>4
  <2> QED BY <2>1, <2>3, <2>4
<1>7. CASE FlushPipe
  <2>1. Inbox' = Inbox /\ cutOff' = cutOff
    BY <1>7 DEF FlushPipe, screen, pair, Inbox
  <2>2. serverOut' = serverOut \/ serverOut' = <<Hello>>
    BY <1>7 DEF FlushPipe
  <2>3. ~Has(<<Hello>>, Torn)
    <3>1. Hello \notin Torn
      BY DEF Hello, Line, Torn
    <3> QED BY <3>1, Tidings, Single
  <2> QED BY <1>2, <1>3, <2>1, <2>2, <2>3
<1>8. CASE HandleDataToGame
  <2>1. cutOff' = cutOff
    BY <1>8 DEF HandleDataToGame, served
  <2> QED BY <1>3, <1>8, <2>1, InboxHandedOver
<1>9. CASE HandleDataFromServer
  <2>1. cutOff' = cutOff
    BY <1>9 DEF HandleDataFromServer
  <2>2. Pipe' = Pipe \/ Pipe' = Inbox
    BY <1>9, InboxFills
  <2> QED BY <1>2, <1>3, <2>1, <2>2
<1>10. CASE HandleServerError
  <2>1. cutOff' = cutOff /\ serverOut' = serverOut
    BY <1>10 DEF HandleServerError, served
  <2>2. Inbox' = Inbox \/ Inbox' = Inbox \o <<Lost>>
    BY <1>10, InboxTold
  <2>3. ~Has(<<Lost>>, Torn) /\ <<Lost>> \in Seq(Lines)
    <3>1. Lost \notin Torn
      BY DEF Lost, Line, Torn
    <3> QED BY <3>1, Tidings, Single
  <2>4. Has(Inbox \o <<Lost>>, Torn) => Has(Inbox, Torn)
    BY <1>1, <2>3, HasJoined
  <2> QED BY <1>2, <1>3, <2>1, <2>2, <2>4
<1>11. CASE ServerAnswers
  <2>1. PICK early \in Seq(Lines), reply \in Lines :
          /\ early \in {<<>>, <<Event>>}
          /\ reply.kind \in (Responses \cup Refusals) \ {"hello"}
          /\ serverOut' = serverOut \o (early \o <<reply>>)
    BY <1>11, AnswersIs
  <2>2. UNCHANGED <<screen, worked, pair, cutOff>>
    BY <1>11, AnswersIs
  <2>3. Inbox' = Inbox /\ cutOff' = cutOff
    BY <2>2 DEF screen, worked, pair, Inbox
  <2>4. <<reply>> \in Seq(Lines) /\ ~Has(<<reply>>, Torn) /\ ~Has(early, Torn)
    <3>1. reply \notin Torn /\ Event \notin Torn
      BY <2>1 DEF Torn, Event, Line, Responses, Refusals
    <3> QED BY <2>1, <3>1, Tidings, Single, Empty
  <2>5. early \o <<reply>> \in Seq(Lines) /\ ~Has(early \o <<reply>>, Torn)
    BY <2>4, Joined, HasJoined
  <2>6. Has(Pipe', Torn) => Has(Pipe, Torn)
    BY <2>1, <2>3, <2>5, HasMore
  <2> QED BY <1>3, <2>3, <2>6
<1>12. CASE ServerEvent
  <2>1. serverOut' = serverOut \o <<Event>> /\ UNCHANGED <<screen, worked, pair, cutOff>>
    BY <1>12, EventIs
  <2>2. Inbox' = Inbox /\ cutOff' = cutOff
    BY <2>1 DEF screen, worked, pair, Inbox
  <2>3. <<Event>> \in Seq(Lines) /\ ~Has(<<Event>>, Torn)
    <3>1. Event \notin Torn
      BY DEF Torn, Event, Line
    <3> QED BY <3>1, Tidings, Single
  <2>4. Has(Pipe', Torn) => Has(Pipe, Torn)
    BY <2>1, <2>2, <2>3, HasMore
  <2> QED BY <1>3, <2>2, <2>4
<1>13. CASE ServerBreaksOff
  BY <1>13 DEF ServerBreaksOff, TornCutOff
<1>14. CASE UNCHANGED vars
  <2>1. Still
    BY <1>14 DEF vars, screen, worked, pair, served, Still
  <2> QED BY <2>1, StillCutOff
<1>15. ASSUME Still PROVE TornCutOff'
  BY <1>15, StillCutOff
<1> QED BY <1>4, <1>5, <1>6, <1>7, <1>8, <1>9, <1>10, <1>11, <1>12, <1>13, <1>14, <1>15, StillIs
        DEF Next, UIStep, WorkerStep, User, Server

\* The news stays the last line until it is handled.
LEMMA NextNews ==
  ASSUME TypeOK, Shape, TypeOK', TornCutOff, NewsOnItsWay, [Next]_vars
  PROVE  NewsOnItsWay'
<1>1. Inbox \in Seq(Lines)
  BY InboxType
<1>2. ASSUME Inbox' = Inbox, cutOff' = cutOff, app'.connEstablished = app.connEstablished,
             serverEvents' = {} => serverEvents = {},
             ui' \notin {"stopped", "aborted"} => ui \notin {"stopped", "aborted"}
      PROVE  NewsOnItsWay'
  BY <1>2 DEF NewsOnItsWay
<1>3. CASE ReadFromServer
  <2>1. Inbox' = Inbox /\ ui = "poll" /\ UNCHANGED <<app, worked, served>>
    BY <1>3, InboxRead, ReadIs
  <2> QED BY <1>2, <2>1 DEF worked, served
<1>4. CASE ReadGlued
  <2>1. /\ ui = "split" /\ Head(toGameBuffer).kind = "torn" /\ Head(toGameBuffer) \in Lines
        /\ toGameBuffer # <<>>
        /\ UNCHANGED <<ui, app, worked, served>>
    BY <1>4, GluedIs
  <2>2. cutOff
    <3>1. 1 \in 1..Len(toGameBuffer) /\ toGameBuffer[1] \in Torn
      <4>1. toGameBuffer \in Seq(Lines)
        BY InboxType
      <4> QED BY <2>1, <4>1 DEF Torn
    <3>2. Has(toGameBuffer, Torn)
      BY <3>1 DEF Has
    <3>3. Has(Inbox, Torn)
      <4>1. toGameBuffer \in Seq(Lines) /\ answers \o serverBuffer \in Seq(Lines)
        BY InboxType
      <4> QED BY <3>2, <4>1, HasJoined DEF Inbox
    <3> QED BY <3>3, HasPipe DEF TornCutOff
  <2> QED BY <2>1, <2>2 DEF NewsOnItsWay, worked, served
<1>5. CASE DispatchMessage
  <2>1. /\ ui = "split" /\ (TakenAsLost \/ TakenInOrder)
        /\ serverEvents' = serverEvents /\ cutOff' = cutOff
    BY <1>5, DispatchIs DEF worked, served
  <2>2. ASSUME EndsLost(Inbox) PROVE EndsLost(Inbox') /\ (Inbox' = <<>> => ~app'.connEstablished)
    <3>1. CASE TakenAsLost
      <4>1. Inbox' \in Seq(Lines) /\ \E cut \in Seq(Lines) : Inbox = cut \o Inbox'
        BY <1>5, <3>1, InboxDropped
      <4>2. EndsLost(Inbox')
        BY <2>2, <4>1, NewsOf
      <4>3. "lost" \in Windows /\ app \in Apps
        BY DEF Windows, TypeOK
      <4>4. ~app'.connEstablished
        BY <3>1, <4>3, HandleExceptionType DEF TakenAsLost
      <4> QED BY <4>2, <4>4
    <3>2. CASE TakenInOrder
      <4> DEFINE h == Head(toGameBuffer)
      <4>1. /\ h \in Lines /\ Inbox' \in Seq(Lines) /\ Inbox = <<h>> \o Inbox'
        BY <1>5, <3>2, InboxTaken
      <4>2. h.kind # "lost"
        BY <3>2 DEF TakenInOrder
      <4> HIDE DEF h
      <4>3. <<h>> \in Seq(Lines) /\ <<h>> # <<>> /\ Len(<<h>>) = 1
        BY <4>1
      <4>4. Inbox' # <<>>
        <5> SUFFICES ASSUME Inbox' = <<>> PROVE FALSE
          OBVIOUS
        <5>1. Inbox = <<h>>
          <6>1. <<h>> \o <<>> = <<h>>
            BY <4>3
          <6> QED BY <4>1, <6>1
        <5>2. Inbox # <<>> /\ Inbox[Len(Inbox)] = h
          BY <4>3, <5>1
        <5> QED BY <2>2, <4>2, <5>2 DEF EndsLost
      <4>5. EndsLost(Inbox')
        BY <2>2, <4>1, <4>3, NewsOf
      <4> QED BY <4>4, <4>5
    <3> QED BY <2>1, <3>1, <3>2
  <2> QED BY <2>1, <2>2 DEF NewsOnItsWay
<1>6. CASE FlushPipe
  <2>1. Inbox' = Inbox /\ cutOff' = cutOff /\ app' = app /\ ui' = ui
    BY <1>6 DEF FlushPipe, screen, pair, Inbox
  <2>2. serverEvents' = {} => serverEvents = {}
    BY <1>6 DEF FlushPipe
  <2> QED BY <1>2, <2>1, <2>2
<1>7. CASE HandleDataToGame
  <2>1. UNCHANGED <<screen, serverEvents, served>>
    BY <1>7 DEF HandleDataToGame
  <2> QED BY <1>2, <1>7, <2>1, InboxHandedOver DEF screen, served
<1>8. CASE HandleDataFromServer
  BY <1>8, InboxFills DEF NewsOnItsWay
<1>9. CASE HandleServerError
  <2>1. UNCHANGED <<screen, served>>
    BY <1>9 DEF HandleServerError
  <2>2. \/ Inbox' = Inbox /\ serverEvents' = serverEvents
        \/ Inbox' = Inbox \o <<Lost>>
    BY <1>9, InboxTold
  <2>3. CASE Inbox' = Inbox /\ serverEvents' = serverEvents
    BY <1>2, <2>1, <2>3 DEF screen, served
  <2>4. CASE Inbox' = Inbox \o <<Lost>>
    <3>1. <<Lost>> \in Seq(Lines) /\ <<Lost>> # <<>> /\ EndsLost(<<Lost>>)
      BY Tidings DEF EndsLost, Lost, Line
    <3>2. EndsLost(Inbox \o <<Lost>>)
      BY <1>1, <3>1, EndsLostJoined
    <3>3. Inbox \o <<Lost>> # <<>>
      <4>1. Len(Inbox \o <<Lost>>) = Len(Inbox) + Len(<<Lost>>) /\ Len(Inbox) \in Nat /\ Len(<<Lost>>) = 1
        BY <1>1, <3>1, Joined
      <4> QED BY <4>1
    <3> QED BY <2>4, <3>2, <3>3 DEF NewsOnItsWay
  <2> QED BY <2>2, <2>3, <2>4
<1>10. CASE ServerAnswers
  <2>1. UNCHANGED <<screen, worked, pair, cutOff>>
    BY <1>10, AnswersIs
  <2> QED BY <1>2, <2>1 DEF screen, worked, pair, Inbox
<1>11. CASE ServerEvent
  <2>1. UNCHANGED <<screen, worked, pair, cutOff>>
    BY <1>11, EventIs
  <2> QED BY <1>2, <2>1 DEF screen, worked, pair, Inbox
<1>12. CASE ServerBreaksOff
  BY <1>12 DEF ServerBreaksOff, NewsOnItsWay
<1>13. CASE UNCHANGED vars
  <2>1. Still
    BY <1>13 DEF vars, screen, worked, pair, served, Still
  <2> QED BY <2>1, StillNews
<1>14. ASSUME Still PROVE NewsOnItsWay'
  BY <1>14, StillNews
<1> QED BY <1>3, <1>4, <1>5, <1>6, <1>7, <1>8, <1>9, <1>10, <1>11, <1>12, <1>13, <1>14, StillIs
        DEF Next, UIStep, WorkerStep, User, Server

LEMMA NewsSuffices ==
  ASSUME TypeOK, NewsOnItsWay
  PROVE  LostTold
<1> DEFINE told == serverBuffer \o answers \o toGameBuffer
<1> SUFFICES ASSUME serverEvents = {}, app.connEstablished, ui \notin {"stopped", "aborted"}, ~cutOff
             PROVE  \E l \in Range(told) : l.kind = "lost"
  BY DEF LostTold
<1> DEFINE LostLines == {l \in Lines : l.kind = "lost"}
<1>1. /\ toGameBuffer \in Seq(Lines) /\ answers \in Seq(Lines) /\ serverBuffer \in Seq(Lines)
      /\ answers \o serverBuffer \in Seq(Lines) /\ Inbox \in Seq(Lines)
  BY InboxType
<1>2. Inbox # <<>> /\ Inbox[Len(Inbox)].kind = "lost"
  BY DEF NewsOnItsWay, EndsLost
<1>3. Len(Inbox) \in 1..Len(Inbox) /\ Inbox[Len(Inbox)] \in LostLines
  <2>1. Len(Inbox) \in Nat /\ Len(Inbox) # 0
    BY <1>1, <1>2
  <2> QED BY <1>1, <1>2, <2>1
<1>4. Has(Inbox, LostLines)
  BY <1>3 DEF Has
<1> HIDE DEF LostLines
<1>5. Has(toGameBuffer, LostLines) \/ Has(answers \o serverBuffer, LostLines)
  BY <1>1, <1>4, HasJoined DEF Inbox
<1>6. Has(answers \o serverBuffer, LostLines) <=> Has(answers, LostLines) \/ Has(serverBuffer, LostLines)
  BY <1>1, HasJoined
<1> DEFINE first == serverBuffer \o answers
<1>7. first \in Seq(Lines) /\ (Has(first, LostLines) <=> Has(serverBuffer, LostLines) \/ Has(answers, LostLines))
  BY <1>1, Joined, HasJoined
<1> HIDE DEF first
<1>8. first \o toGameBuffer \in Seq(Lines) /\ Has(first \o toGameBuffer, LostLines)
  <2>1. Has(first \o toGameBuffer, LostLines) <=> Has(first, LostLines) \/ Has(toGameBuffer, LostLines)
    BY <1>1, <1>7, HasJoined
  <2>2. first \o toGameBuffer \in Seq(Lines)
    BY <1>1, <1>7, Joined
  <2> QED BY <1>5, <1>6, <1>7, <2>1, <2>2
<1>9. told = first \o toGameBuffer
  BY DEF first
<1> HIDE DEF told
<1>10. PICK i \in 1..Len(told) : told[i] \in LostLines
  <2>1. Has(told, LostLines)
    BY <1>8, <1>9
  <2> QED BY <2>1 DEF Has
<1>11. told[i] \in Range(told)
  <2>1. told \in Seq(Lines)
    BY <1>8, <1>9
  <2>2. i \in DOMAIN told
    BY <1>10, <2>1
  <2> QED BY <2>2 DEF Range
<1> QED BY <1>10, <1>11 DEF LostLines
-----------------------------------------------------------------------------
(* Commands and their answers *)

\* The commands on their way, and what each step does to them.
LEMMA FlightType ==
  ASSUME TypeOK
  PROVE  /\ commands \in Seq(Commands) /\ gameBuffer \in Seq(Commands) /\ serverIn \in Seq(Commands)
         /\ gameBuffer \o commands \in Seq(Commands) /\ Flight \in Seq(Commands)
         /\ Flight = <<>> <=> commands = <<>> /\ gameBuffer = <<>> /\ serverIn = <<>>
<1>1. commands \in Seq(Commands) /\ gameBuffer \in Seq(Commands) /\ serverIn \in Seq(Commands)
  BY DEF TypeOK
<1> DEFINE c == commands
           g == gameBuffer
           s == serverIn
<1>2. c \in Seq(Commands) /\ g \in Seq(Commands) /\ s \in Seq(Commands)
  BY <1>1
<1>3. Flight = s \o (g \o c)
  BY DEF Flight
<1> HIDE DEF c, g, s
<1>4. g \o c \in Seq(Commands) /\ Len(g \o c) = Len(g) + Len(c)
  BY <1>2, Joined
<1>5. s \o (g \o c) \in Seq(Commands) /\ Len(s \o (g \o c)) = Len(s) + Len(g \o c)
  BY <1>2, <1>4, Joined
<1>6. /\ Len(c) \in Nat /\ Len(g) \in Nat /\ Len(s) \in Nat
      /\ (Len(c) = 0 <=> c = <<>>) /\ (Len(g) = 0 <=> g = <<>>) /\ (Len(s) = 0 <=> s = <<>>)
  BY <1>2
<1>7. s \o (g \o c) = <<>> <=> Len(s \o (g \o c)) = 0
  BY <1>5
<1>8. s \o (g \o c) = <<>> <=> c = <<>> /\ g = <<>> /\ s = <<>>
  BY <1>4, <1>5, <1>6, <1>7
<1> QED BY <1>1, <1>3, <1>4, <1>5, <1>8 DEF c, g, s

LEMMA FlightSame ==
  ASSUME UNCHANGED <<commands, gameBuffer, serverIn>>
  PROVE  Flight' = Flight
BY DEF Flight

LEMMA FlightMoves ==
  ASSUME TypeOK,
         \/ gameBuffer' = gameBuffer \o commands /\ commands' = <<>> /\ serverIn' = serverIn
         \/ serverIn' = serverIn \o gameBuffer /\ gameBuffer' = <<>> /\ commands' = commands
  PROVE  Flight' = Flight
<1> DEFINE c == commands
           g == gameBuffer
           s == serverIn
<1>1. /\ c \in Seq(Commands) /\ g \in Seq(Commands) /\ s \in Seq(Commands)
      /\ g \o c \in Seq(Commands) /\ s \o g \in Seq(Commands)
  BY FlightType, Joined
<1>2. \/ Flight' = s \o ((g \o c) \o <<>>)
      \/ Flight' = (s \o g) \o (<<>> \o c)
  BY DEF Flight
<1>3. Flight = s \o (g \o c)
  BY DEF Flight
<1> HIDE DEF c, g, s
<1>4. (g \o c) \o <<>> = g \o c /\ <<>> \o c = c
  BY <1>1
<1>5. (s \o g) \o c = s \o (g \o c)
  BY <1>1, Associates
<1> QED BY <1>2, <1>3, <1>4, <1>5

LEMMA FlightGrows ==
  ASSUME TypeOK, NEW c \in Commands, commands' = commands \o <<c>>,
         UNCHANGED <<gameBuffer, serverIn>>
  PROVE  Flight' = Flight \o <<c>>
<1> DEFINE d == commands
           g == gameBuffer
           s == serverIn
           x == <<c>>
<1>1. /\ d \in Seq(Commands) /\ g \in Seq(Commands) /\ s \in Seq(Commands) /\ x \in Seq(Commands)
      /\ g \o d \in Seq(Commands)
  BY FlightType, Single
<1>2. Flight' = s \o (g \o (d \o x)) /\ Flight = s \o (g \o d)
  BY DEF Flight
<1> HIDE DEF d, g, s, x
<1> DEFINE m == g \o d
<1>3. m \in Seq(Commands)
  BY <1>1
<1>4. g \o (d \o x) = (g \o d) \o x
  <2>1. d \in Seq(Commands) /\ g \in Seq(Commands) /\ x \in Seq(Commands)
    BY <1>1
  <2> QED BY <2>1
<1>5. m = g \o d
  OBVIOUS
<1> HIDE DEF m
<1>6. Flight' = s \o (m \o x) /\ Flight = s \o m
  BY <1>2, <1>4, <1>5, Zenon
<1>7. s \in Seq(Commands) /\ x \in Seq(Commands)
  BY <1>1
<1>8. s \o (m \o x) = (s \o m) \o x
  BY <1>3, <1>7
<1> QED BY <1>6, <1>8 DEF x

LEMMA FlightAnswered ==
  ASSUME TypeOK, serverIn # <<>>, serverIn' = Tail(serverIn), UNCHANGED <<commands, gameBuffer>>,
         NEW c, Flight = <<c>>
  PROVE  Head(serverIn) = c /\ Flight' = <<>>
<1> DEFINE h == Head(serverIn)
           t == Tail(serverIn)
           r == gameBuffer \o commands
<1>1. /\ serverIn \in Seq(Commands) /\ r \in Seq(Commands)
  BY FlightType
<1>2. h \in Commands /\ t \in Seq(Commands) /\ serverIn = <<h>> \o t
  BY <1>1, HeadAndTail
<1>3. Flight = serverIn \o r /\ Flight' = t \o r
  BY DEF Flight
<1> HIDE DEF h, t, r
<1>4. <<h>> \in Seq(Commands)
  BY <1>2
<1>5. Flight = <<h>> \o (t \o r)
  <2>1. (<<h>> \o t) \o r = <<h>> \o (t \o r)
    BY <1>1, <1>2, <1>4, Associates
  <2> QED BY <1>2, <1>3, <2>1
<1>6. t \o r \in Seq(Commands)
  BY <1>1, <1>2, Joined
<1> DEFINE m == t \o r
<1>7. m \in Seq(Commands) /\ <<c>> = <<h>> \o m
  BY <1>5, <1>6
<1> HIDE DEF m
<1>8. Len(<<h>> \o m) = 1 + Len(m) /\ Len(m) \in Nat /\ (<<h>> \o m)[1] = h
  BY <1>2, <1>7
<1>9. Len(m) = 0 /\ c = h
  <2>1. Len(<<c>>) = 1 /\ <<c>>[1] = c
    OBVIOUS
  <2> QED BY <1>7, <1>8, <2>1
<1>10. m = <<>>
  BY <1>7, <1>9
<1> QED BY <1>3, <1>9, <1>10 DEF m, h

\* The kinds of lines exclude each other.
LEMMA RepliesOf ==
  /\ Replies \subseteq Lines /\ TornAnswers \subseteq Torn /\ Torn \subseteq Lines
  /\ Replies \cap Torn = {} /\ Hello \notin Replies \cup Torn
  /\ Event \notin Replies \cup Torn \cup {Hello} /\ Lost \notin Replies \cup Torn \cup {Hello}
  /\ \A c : ToOthers(c) \subseteq Replies
  /\ ToOthers(NoCommand) = Replies
  /\ NoCommand \notin Commands
  /\ \A l \in Lines : l.kind \in Refusals \cup Responses => l = Hello \/ l \in Replies
BY DEF Replies, Torn, TornAnswers, ToOthers, Lines, Hello, Event, Lost, Line, NoCommand, Commands,
  CommandTypes, Typed, Responses, Refusals

LEMMA HasFewer ==
  ASSUME NEW s, NEW K, NEW L, L \subseteq K, ~Has(s, K)
  PROVE  ~Has(s, L)
BY DEF Has

\* Nothing is asked for.
Idle == Flight = <<>> /\ ~Has(Pipe, Replies)

\* When nothing is awaited, nothing is on its way.
LEMMA NotAwaited ==
  ASSUME TypeOK, ~Awaiting, ~Has(toGameBuffer, Replies)
  PROVE  ~app.speaking /\ Idle
<1> DEFINE sent == commands \o gameBuffer \o serverIn
           said == serverOut \o serverBuffer \o answers
<1>1. ~app.speaking /\ sent = <<>> /\ \A l \in Range(said) : l.to = NoCommand
  BY DEF Awaiting
<1>2. Flight = <<>>
  <2> DEFINE c == commands
             g == gameBuffer
             s == serverIn
  <2>1. c \in Seq(Commands) /\ g \in Seq(Commands) /\ s \in Seq(Commands)
    BY FlightType
  <2>2. (c \o g) \o s = <<>>
    BY <1>1
  <2> HIDE DEF c, g, s
  <2>3. c \o g \in Seq(Commands) /\ Len(c \o g) = Len(c) + Len(g)
    BY <2>1, Joined
  <2>4. Len((c \o g) \o s) = Len(c \o g) + Len(s)
    BY <2>1, <2>3, Joined
  <2>5. Len(c) \in Nat /\ Len(g) \in Nat /\ Len(s) \in Nat /\ Len(<<>>) = 0
    BY <2>1, Empty
  <2>6. Len(c) = 0 /\ Len(g) = 0 /\ Len(s) = 0
    BY <2>2, <2>3, <2>4, <2>5
  <2>7. c = <<>> /\ g = <<>> /\ s = <<>>
    BY <2>1, <2>6
  <2> QED BY <2>7, FlightType DEF c, g, s
<1>3. /\ serverOut \in Seq(Lines) /\ serverBuffer \in Seq(Lines) /\ answers \in Seq(Lines)
      /\ toGameBuffer \in Seq(Lines) /\ answers \o serverBuffer \in Seq(Lines)
  BY InboxType
<1> DEFINE first == serverOut \o serverBuffer
<1>4. first \in Seq(Lines)
      /\ (Has(first, Replies) <=> Has(serverOut, Replies) \/ Has(serverBuffer, Replies))
  BY <1>3, Joined, HasJoined
<1>5. said = first \o answers
  OBVIOUS
<1> HIDE DEF first
<1>6. said \in Seq(Lines) /\ (Has(said, Replies) <=> Has(first, Replies) \/ Has(answers, Replies))
  <2>1. Has(first \o answers, Replies) <=> Has(first, Replies) \/ Has(answers, Replies)
    BY <1>3, <1>4, HasJoined
  <2>2. first \o answers \in Seq(Lines)
    BY <1>3, <1>4, Joined
  <2> QED BY <1>5, <2>1, <2>2
<1> HIDE DEF said
<1>7. ~Has(said, Replies)
  <2> SUFFICES ASSUME NEW i \in 1..Len(said), said[i] \in Replies PROVE FALSE
    BY DEF Has
  <2>1. i \in DOMAIN said
    BY <1>6
  <2>2. said[i] \in Range(said)
    BY <2>1 DEF Range
  <2> QED BY <1>1, <2>2 DEF Replies
<1>8. ~Has(serverOut, Replies) /\ ~Has(answers \o serverBuffer, Replies)
  <2>1. Has(answers \o serverBuffer, Replies) <=> Has(answers, Replies) \/ Has(serverBuffer, Replies)
    BY <1>3, HasJoined
  <2> QED BY <1>4, <1>6, <1>7, <2>1
<1>9. ~Has(Inbox, Replies)
  <2> DEFINE m == answers \o serverBuffer
  <2>1. toGameBuffer \in Seq(Lines) /\ m \in Seq(Lines) /\ ~Has(m, Replies)
    BY <1>3, <1>8
  <2> HIDE DEF m
  <2>2. ~Has(toGameBuffer \o m, Replies)
    BY <2>1, HasJoined
  <2> QED BY <2>2 DEF Inbox, m
<1> QED BY <1>1, <1>2, <1>8, <1>9, HasPipe DEF Idle
-----------------------------------------------------------------------------
(* The steps that keep an answer for its command *)

\* The steps that neither send nor answer anything.
LEMMA AnswerableKept ==
  ASSUME TypeOK, Answerable,
         wakeups' = wakeups, app.window # "lost" => app'.window # "lost",
         app'.connEstablished = app.connEstablished,
         Current(app') = Current(app) \/ ~Pending(app),
         Pipe' = Pipe,
         Flight' = Flight \/ (conn' # "open" /\ (Flight = <<>> => Flight' = <<>>)),
         conn' = "open" => conn = "open",
         serverIn # <<>> /\ conn \in {"closing", "reset"} =>
           serverIn' # <<>> /\ conn' \in {"closing", "reset"},
         conn' = "open" /\ Writing' => Writing \/ Idle,
         Has(toGameBuffer', Replies) => ui' = "split",
         ui' = "split" /\ toGameBuffer' = <<>> => (ui = "split" /\ toGameBuffer = <<>>) \/ Idle
  PROVE  Answerable'
<1>1. Unlost'
  BY DEF Answerable, Unlost
<1>2. OneGreeting'
  BY DEF Answerable, OneGreeting
<1>3. ASSUME ~Pending(app) PROVE ~Has(Pipe, Replies) /\ (conn = "open" => Idle)
  <2>1. Current(app) = NoCommand
    BY <1>3 DEF Current
  <2>2. ~Has(Pipe, Replies)
    BY <2>1, RepliesOf DEF Answerable, OneAnswer
  <2>3. ASSUME conn = "open", Flight # <<>> PROVE FALSE
    <3>1. Flight = <<NoCommand>> /\ Flight \in Seq(Commands)
      BY <2>1, <2>3, FlightType DEF Answerable, OneAtATime
    <3>2. NoCommand \in Commands
      BY <3>1
    <3> QED BY <3>2, RepliesOf
  <2> QED BY <2>2, <2>3 DEF Idle
<1>4. OneAnswer'
  <2>1. ~Has(Pipe, ToOthers(Current(app')))
    <3>1. CASE Current(app') = Current(app)
      BY <3>1 DEF Answerable, OneAnswer
    <3>2. CASE ~Pending(app)
      BY <1>3, <3>2, RepliesOf, HasFewer
    <3> QED BY <3>1, <3>2
  <2> QED BY <2>1 DEF Answerable, OneAnswer
<1>5. TornAtEnd'
  BY DEF Answerable, TornAtEnd
<1>6. OneAtATime'
  <2> SUFFICES ASSUME conn' = "open"
               PROVE  /\ Flight # <<>> => /\ Flight = <<Current(app')>>
                                          /\ ~Writing'
                                          /\ ~Has(Pipe, Replies)
                      /\ Writing' => ~Has(Pipe, Replies)
                      /\ ui' = "split" /\ toGameBuffer' = <<>> =>
                           Flight = <<>> /\ ~Has(Pipe, Replies)
    BY DEF OneAtATime
  <2>1. conn = "open"
    OBVIOUS
  <2>2. CASE Idle
    BY <2>2 DEF Idle
  <2>3. CASE ~Idle
    <3>1. Current(app') = Current(app)
      BY <1>3, <2>1, <2>3
    <3> QED BY <2>1, <2>3, <3>1 DEF Answerable, OneAtATime
  <2> QED BY <2>2, <2>3
<1> QED BY <1>1, <1>2, <1>4, <1>5, <1>6 DEF Answerable

LEMMA CurrentSame ==
  ASSUME NEW a, NEW b, b.commandQueue = a.commandQueue
  PROVE  Current(b) = Current(a) /\ (Pending(b) <=> Pending(a))
BY DEF Current, Pending

LEMMA CurrentGrows ==
  ASSUME NEW a \in Apps, NEW b, NEW more \in Seq(Commands),
         b.commandQueue = a.commandQueue \o more
  PROVE  Current(b) = Current(a) \/ ~Pending(a)
<1> SUFFICES ASSUME Pending(a) PROVE Current(b) = Current(a)
  OBVIOUS
<1>1. a.commandQueue \in Seq(Commands) /\ a.commandQueue # <<>>
  BY DEF Apps, Pending
<1>2. /\ a.commandQueue \o more # <<>>
      /\ Head(a.commandQueue \o more) = Head(a.commandQueue)
  BY <1>1, TailJoined
<1> QED BY <1>1, <1>2 DEF Current, Pending

\* No answer is in the buffer of the user interface but while it is emptied.
LEMMA PolledWithoutReply ==
  ASSUME OneAnswer, ui # "split"
  PROVE  ~Has(toGameBuffer, Replies)
BY DEF OneAnswer

\* Nothing comes and goes.
StillAnswerable ==
  /\ UNCHANGED <<toGameBuffer, answers, serverBuffer, serverOut, commands, gameBuffer, serverIn, conn>>
  /\ wakeups' = wakeups
  /\ app.window # "lost" => app'.window # "lost"
  /\ app'.connEstablished = app.connEstablished
  /\ Current(app') = Current(app) \/ ~Pending(app)
  /\ Writing' => Writing \/ Idle
  /\ ui # "split" /\ ui' # "split"

LEMMA StillAnswerableKept ==
  ASSUME TypeOK, Answerable, StillAnswerable
  PROVE  Answerable'
<1>1. Pipe' = Pipe /\ Flight' = Flight
  BY PipeSame, FlightSame DEF StillAnswerable
<1>2. ~Has(toGameBuffer, Replies)
  BY PolledWithoutReply DEF Answerable, StillAnswerable
<1>3. toGameBuffer' = toGameBuffer /\ ui' # "split" /\ conn' = conn /\ serverIn' = serverIn
  BY DEF StillAnswerable
<1> QED BY <1>1, <1>2, <1>3, AnswerableKept DEF StillAnswerable

\* The user interface between two lines.
LEMMA ScreenAnswerable ==
  ASSUME TypeOK, Shape, Answerable,
         \/ StartThread \/ StoreKeepAlive \/ PollUI \/ (HandleInput /\ ~disturbed')
         \/ \E input \in {"name"} \cup Typed : Enter(input)
         \/ \E phase \in Phases : GoTo(phase)
         \/ ExitLoop \/ PressClose \/ (WriteToServer /\ WriteFails)
  PROVE  Answerable'
<1>1. app \in Apps
  BY DEF TypeOK
<1>2. CASE StartThread \/ ExitLoop \/ PressClose \/ \E input \in {"name"} \cup Typed : Enter(input)
  <2>1. StillAnswerable
    BY <1>2, Zenon DEF StartThread, ExitLoop, PressClose, Enter, AtKeyboard, worked, pair, served,
      StillAnswerable, Writing
  <2> QED BY <2>1, StillAnswerableKept
<1>3. CASE PollUI
  <2>1. turn' \subseteq Ready
    BY <1>3 DEF PollUI
  <2>2. Writing' => Writing
    BY <1>3, <2>1 DEF PollUI, Ready, Writing
  <2>3. StillAnswerable
    BY <1>3, <2>2 DEF PollUI, worked, pair, served, StillAnswerable
  <2> QED BY <2>3, StillAnswerableKept
<1>4. CASE StoreKeepAlive
  <2>1. app = Fresh /\ ui = "store" /\ ui' = "poll"
    BY <1>4 DEF StoreKeepAlive, Shape
  <2>2. /\ ~Pending(app) /\ app'.window = app.window /\ app'.speaking = app.speaking
        /\ app'.connEstablished = app.connEstablished
    BY <1>4, <2>1 DEF StoreKeepAlive, Fresh, Pending
  <2>3. turn' = turn /\ UNCHANGED <<toGameBuffer, answers, serverBuffer, serverOut, commands,
                                    gameBuffer, serverIn, conn, wakeups>>
    BY <1>4 DEF StoreKeepAlive, pair, served
  <2>4. StillAnswerable
    BY <2>1, <2>2, <2>3 DEF StillAnswerable, Writing
  <2> QED BY <2>4, StillAnswerableKept
<1>5. ASSUME NEW phase \in Phases, GoTo(phase) PROVE Answerable'
  <2>1. /\ ui = "poll" /\ app'.connEstablished = app.connEstablished
        /\ app'.speaking => app.speaking
        /\ app.window # "lost" => app'.window # "lost"
        /\ \E more \in Seq(Commands) : app'.commandQueue = app.commandQueue \o more
        /\ UNCHANGED <<ui, turn, commandPipe, toGameBuffer, worked, wakeups, pair, served,
                        budget, history>>
    BY <1>5, DoorTypeOK
  <2>2. Current(app') = Current(app) \/ ~Pending(app)
    BY <1>1, <2>1, CurrentGrows
  <2>3. StillAnswerable
    BY <2>1, <2>2 DEF StillAnswerable, Writing, worked, pair, served
  <2> QED BY <2>3, StillAnswerableKept
<1>6. CASE WriteToServer /\ WriteFails
  <2>1. /\ ui = "poll" /\ app'.commandQueue = app.commandQueue
        /\ app'.connEstablished = app.connEstablished
        /\ app.window # "lost" => app'.window # "lost"
        /\ app'.speaking => app.speaking
        /\ UNCHANGED <<commandPipe, toGameBuffer, worked, wakeups, answers, split, served,
                        budget, history>>
    BY <1>6, WriteIs
  <2>2. Current(app') = Current(app)
    BY <2>1, CurrentSame
  <2>3. commands' = commands /\ turn' \subseteq turn /\ ui' # "split"
    BY <1>6, <2>1 DEF WriteFails
  <2>4. StillAnswerable
    BY <2>1, <2>2, <2>3 DEF StillAnswerable, Writing, worked, served
  <2> QED BY <2>4, StillAnswerableKept
<1>7. CASE HandleInput /\ ~disturbed'
  <2>1. /\ ui = "poll" /\ turn' = {} /\ ui' = ui /\ app.phase # "ND"
        /\ Head(commandPipe) \in {"name"} \cup Typed
        /\ app' = HandleCommand(app, Head(commandPipe))
        /\ app.phase = "GAME" \/ ~Awaiting
        /\ UNCHANGED <<toGameBuffer, worked, wakeups, pair, served, budget, mismatched>>
    BY <1>7, InputIs
  <2> DEFINE input == Head(commandPipe)
  <2>2. input \in {"name"} \cup Typed /\ app' = HandleCommand(app, input)
    BY <2>1
  <2> HIDE DEF input
  <2> DEFINE b == HandleCommand(app, input)
  <2>3. /\ b.connEstablished = app.connEstablished
        /\ app.window # "lost" => b.window # "lost"
        /\ app.phase = "GAME" /\ b.speaking => app.speaking \/ ~Pending(app)
    BY <1>1, <2>1, <2>2, HandleCommandType
  <2>4. \E more \in Seq(Commands) :
          /\ ~Has(more, Placeholders)
          /\ \/ b.commandQueue = app.commandQueue \o more
             \/ /\ app.phase \in {"LOGIN", "PLAYER_CREATE"} /\ Pending(app)
                /\ b.commandQueue = Tail(app.commandQueue) \o more
    BY <1>1, <2>1, <2>2, HandleCommandType
  <2>5. ~Has(toGameBuffer, Replies)
    BY <2>1, PolledWithoutReply DEF Answerable
  <2>6. Pipe' = Pipe /\ Flight' = Flight
    <3>1. UNCHANGED <<toGameBuffer, answers, serverBuffer, serverOut, commands, gameBuffer, serverIn>>
      BY <2>1 DEF worked, pair, served
    <3> QED BY <3>1, PipeSame, FlightSame
  <2>7. conn' = conn /\ serverIn' = serverIn /\ wakeups' = wakeups /\ toGameBuffer' = toGameBuffer
        /\ ui' = "poll"
    BY <2>1 DEF served
  <2>8. CASE ~Awaiting
    <3>1. Idle
      BY <2>5, <2>8, NotAwaited
    <3>2. ~Has(Pipe, ToOthers(Current(app')))
      BY <3>1, RepliesOf, HasFewer DEF Idle
    <3> QED BY <2>2, <2>3, <2>5, <2>6, <2>7, <3>1, <3>2
            DEF Answerable, Unlost, OneGreeting, OneAnswer, TornAtEnd, OneAtATime, Idle
  <2>9. CASE app.phase = "GAME"
    <3>1. PICK more \in Seq(Commands) : app'.commandQueue = app.commandQueue \o more
      BY <2>2, <2>9, <2>4
    <3>2. Current(app') = Current(app) \/ ~Pending(app)
      BY <1>1, <3>1, CurrentGrows
    <3>3. app'.speaking => app.speaking \/ ~Pending(app)
      BY <2>2, <2>3, <2>9
    <3>4. ASSUME ~Pending(app), conn = "open" PROVE Idle
      <4>1. Current(app) = NoCommand
        BY <3>4 DEF Current
      <4>2. ~Has(Pipe, Replies)
        BY <4>1, RepliesOf DEF Answerable, OneAnswer
      <4>3. ASSUME Flight # <<>> PROVE FALSE
        <5>1. Flight = <<NoCommand>> /\ Flight \in Seq(Commands)
          BY <3>4, <4>1, <4>3, FlightType DEF Answerable, OneAtATime
        <5>2. NoCommand \in Commands
          BY <5>1
        <5> QED BY <5>2, RepliesOf
      <4> QED BY <4>2, <4>3 DEF Idle
    <3>5. conn' = "open" /\ Writing' => Writing \/ Idle
      <4> SUFFICES ASSUME conn' = "open", Writing' PROVE Writing \/ Idle
        OBVIOUS
      <4>1. app'.speaking
        BY <2>1 DEF Writing
      <4> QED BY <2>7, <3>3, <3>4, <4>1 DEF Writing
    <3>6. app'.connEstablished = app.connEstablished /\ (app.window # "lost" => app'.window # "lost")
      BY <2>2, <2>3
    <3> QED BY <2>5, <2>6, <2>7, <3>2, <3>5, <3>6, AnswerableKept
  <2> QED BY <2>1, <2>8, <2>9
<1> QED BY <1>2, <1>3, <1>4, <1>5, <1>6, <1>7

\* Lines read in part are read when nothing is awaited, or disturb.
LEMMA ReadAnswerable ==
  ASSUME TypeOK, Shape, Answerable, ReadFromServer, ~disturbed'
  PROVE  Answerable'
<1>1. /\ ui = "poll" /\ ui' = "split" /\ turn' = turn \ {"in"}
      /\ split' => (disturbed' <=> disturbed \/ Awaiting)
      /\ ~split' => toGameBuffer' # <<>>
      /\ UNCHANGED <<app, commandPipe, worked, wakeups, commands, served, mismatched>>
  BY ReadIs
<1>2. Pipe' = Pipe
  BY InboxRead
<1>3. Flight' = Flight
  BY <1>1, FlightSame DEF worked, served
<1>4. ~Has(toGameBuffer, Replies)
  BY <1>1, PolledWithoutReply DEF Answerable
<1>5. split' => Idle
  BY <1>1, <1>4, NotAwaited
<1>6. toGameBuffer' = <<>> => Idle
  BY <1>1, <1>5
<1>7. Writing' => Writing
  BY <1>1 DEF Writing
<1>8. conn' = conn /\ serverIn' = serverIn /\ wakeups' = wakeups /\ app' = app
  BY <1>1 DEF served
<1> QED BY <1>1, <1>2, <1>3, <1>6, <1>7, <1>8, AnswerableKept

\* The next command is sent when the buffer is empty.
LEMMA EndSplitAnswerable ==
  ASSUME TypeOK, Shape, Answerable, EndSplit
  PROVE  Answerable'
<1>1. /\ ui = "split" /\ ui' = "poll" /\ turn' = turn
      /\ toGameBuffer = <<>> \/ (Len(toGameBuffer) = 1 /\ Glued)
      /\ app' = app \/ app' = Speak(app)
      /\ UNCHANGED <<toGameBuffer, worked, wakeups, pair, served>>
  BY DEF EndSplit
<1>2. app \in Apps
  BY DEF TypeOK
<1>3. /\ app'.commandQueue = app.commandQueue /\ app'.connEstablished = app.connEstablished
      /\ app'.window = app.window
  <2>1. /\ Speak(app).commandQueue = app.commandQueue
        /\ Speak(app).connEstablished = app.connEstablished
        /\ Speak(app).window = app.window
    BY <1>2, SpeakType
  <2> QED BY <1>1, <2>1
<1>4. Current(app') = Current(app)
  BY <1>3, CurrentSame
<1>5. Pipe' = Pipe /\ Flight' = Flight
  <2>1. UNCHANGED <<toGameBuffer, answers, serverBuffer, serverOut, commands, gameBuffer, serverIn>>
    BY <1>1 DEF worked, pair, served
  <2> QED BY <2>1, PipeSame, FlightSame
<1>6. ~Has(toGameBuffer, Replies) /\ (conn = "open" => toGameBuffer = <<>>)
  <2>1. CASE toGameBuffer = <<>>
    BY <2>1, Empty
  <2>2. CASE Len(toGameBuffer) = 1 /\ Glued
    <3>1. toGameBuffer \in Seq(Lines) /\ answers \o serverBuffer \in Seq(Lines)
      BY InboxType
    <3>2. toGameBuffer[1] \in Torn
      BY <2>2, <3>1 DEF Glued, Torn
    <3>3. ~Has(toGameBuffer, Replies) /\ Has(toGameBuffer, Torn)
      BY <2>2, <3>2, RepliesOf DEF Has
    <3>4. Has(Inbox, Torn)
      BY <3>1, <3>3, HasJoined DEF Inbox
    <3>5. conn # "open"
      BY <3>4, HasPipe DEF Answerable, TornAtEnd
    <3> QED BY <3>3, <3>5
  <2> QED BY <1>1, <2>1, <2>2
<1>7. conn = "open" => Idle
  BY <1>1, <1>6 DEF Answerable, OneAtATime, Idle
<1>8. /\ toGameBuffer' = toGameBuffer /\ wakeups' = wakeups
      /\ serverIn' = serverIn /\ conn' = conn
  BY <1>1 DEF served
<1> QED BY <1>1, <1>3, <1>4, <1>5, <1>6, <1>7, <1>8, AnswerableKept

\* A command sent is the only one on its way.
LEMMA WritesAnswerable ==
  ASSUME TypeOK, Shape, Answerable, WriteToServer, Writes
  PROVE  Answerable'
<1>1. /\ ui = "poll" /\ ui' = "poll" /\ "out" \in turn /\ app.connEstablished /\ Pending(app)
      /\ commands' = commands \o <<Current(app)>> /\ turn' = turn \ {"out"}
  BY WriteIs DEF Writes, WriteToServer
<1>2. /\ app \in Apps /\ app'.commandQueue = app.commandQueue
      /\ app'.connEstablished = app.connEstablished
      /\ app.window # "lost" => app'.window # "lost"
      /\ ~app'.speaking
      /\ UNCHANGED <<commandPipe, toGameBuffer, worked, wakeups, answers, split, served,
                        budget, history>>
  BY WriteIs DEF TypeOK
<1>3. Current(app') = Current(app) /\ Current(app) \in Commands
  BY <1>1, <1>2, CurrentSame, PopType
<1>4. UNCHANGED <<toGameBuffer, answers, serverBuffer, serverOut, gameBuffer, serverIn, conn, wakeups>>
  BY <1>2 DEF worked, served
<1>5. Pipe' = Pipe
  BY <1>4, PipeSame
<1>6. ~Writing'
  BY <1>1, <1>2 DEF Writing
<1>7. conn = "open" => Flight = <<>> /\ ~Has(Pipe, Replies)
  BY <1>1 DEF Answerable, OneAtATime, Writing
<1>8. conn = "open" => Flight' = <<Current(app)>>
  <2>1. Flight' = Flight \o <<Current(app)>>
    BY <1>1, <1>3, <1>4, FlightGrows
  <2>2. <<>> \o <<Current(app)>> = <<Current(app)>>
    BY <1>3
  <2> QED BY <1>7, <2>1, <2>2
<1>9. Unlost' /\ OneGreeting' /\ TornAtEnd'
  BY <1>2, <1>4, <1>5 DEF Answerable, Unlost, OneGreeting, TornAtEnd
<1>10. OneAnswer'
  BY <1>1, <1>2, <1>3, <1>4, <1>5 DEF Answerable, OneAnswer
<1>11. OneAtATime'
  BY <1>1, <1>3, <1>4, <1>5, <1>6, <1>7, <1>8 DEF OneAtATime
<1> QED BY <1>9, <1>10, <1>11 DEF Answerable

\* The worker hands commands and lines on, and the server ends.
LEMMA MovesAnswerable ==
  ASSUME TypeOK, Shape, Answerable,
         \/ CheckKeepAlive \/ PollWorker \/ HandleDataFromGame \/ HandleDataToGame
         \/ HandleDataToServer \/ ServerCloses
  PROVE  Answerable'
<1>1. /\ UNCHANGED <<screen, wakeups>>
  BY Zenon DEF CheckKeepAlive, PollWorker, HandleDataFromGame, HandleDataToGame,
    HandleDataToServer, ServerCloses
<1>2. /\ ui' = ui /\ turn' = turn /\ app' = app /\ toGameBuffer' = toGameBuffer /\ wakeups' = wakeups
  BY <1>1 DEF screen
<1>3. Writing' = Writing
  BY <1>2 DEF Writing
<1>4. ASSUME Pipe' = Pipe,
             Flight' = Flight \/ (conn' # "open" /\ (Flight = <<>> => Flight' = <<>>)),
             conn' = "open" => conn = "open",
             serverIn # <<>> /\ conn \in {"closing", "reset"} =>
               serverIn' # <<>> /\ conn' \in {"closing", "reset"}
      PROVE  Answerable'
  <2>1. Has(toGameBuffer', Replies) => ui' = "split"
    BY <1>2 DEF Answerable, OneAnswer
  <2> QED BY <1>2, <1>3, <1>4, <2>1, AnswerableKept
<1>5. CASE CheckKeepAlive \/ PollWorker
  <2>1. UNCHANGED <<toGameBuffer, answers, serverBuffer, serverOut, commands, gameBuffer, serverIn, conn>>
    BY <1>5 DEF CheckKeepAlive, PollWorker, screen, pair, served
  <2> QED BY <1>4, <2>1, PipeSame, FlightSame
<1>6. CASE HandleDataFromGame
  <2>1. /\ UNCHANGED <<toGameBuffer, answers, serverBuffer, serverOut, serverIn, conn>>
        /\ gameBuffer' = gameBuffer \o commands /\ commands' = <<>>
    BY <1>6 DEF HandleDataFromGame, screen, served
  <2> QED BY <1>4, <2>1, PipeSame, FlightMoves
<1>7. CASE HandleDataToGame
  <2>1. UNCHANGED <<commands, gameBuffer, serverIn, conn>>
    BY <1>7 DEF HandleDataToGame, served
  <2> QED BY <1>4, <1>7, <2>1, InboxHandedOver, FlightSame
<1>8. CASE HandleDataToServer
  <2>1. UNCHANGED <<toGameBuffer, answers, serverBuffer, serverOut, commands>>
    BY <1>8 DEF HandleDataToServer, screen, pair
  <2>2. CASE Sends(TRUE) /\ conn' = conn
    <3>1. serverIn' = serverIn \o gameBuffer /\ gameBuffer' = <<>>
      BY <2>2 DEF Sends
    <3>2. Flight' = Flight
      BY <2>1, <3>1, FlightMoves
    <3>3. serverIn # <<>> => serverIn' # <<>>
      <4>1. serverIn \in Seq(Commands) /\ gameBuffer \in Seq(Commands)
        BY FlightType
      <4> QED BY <3>1, <4>1, TailJoined
    <3> QED BY <1>4, <2>1, <2>2, <3>2, <3>3, PipeSame
  <2>3. CASE Sends(FALSE) /\ conn = "closed" /\ conn' = "broken"
    <3>1. serverIn' = serverIn /\ gameBuffer' = <<>>
      BY <2>3 DEF Sends
    <3>2. Flight = <<>> => Flight' = <<>>
      <4>1. Flight = <<>> => serverIn = <<>> /\ gameBuffer = <<>> /\ commands = <<>>
        BY FlightType
      <4>2. Flight = <<>> => Flight' = Flight
        BY <2>1, <3>1, <4>1, FlightSame
      <4> QED BY <4>2
    <3> QED BY <1>4, <2>1, <2>3, <3>2, PipeSame
  <2>4. CASE UNCHANGED <<gameBuffer, serverIn, conn>>
    BY <1>4, <2>1, <2>4, PipeSame, FlightSame
  <2>5. \/ Sends(TRUE) /\ conn' = conn
        \/ Sends(FALSE) /\ conn = "closed" /\ conn' = "broken"
        \/ UNCHANGED <<gameBuffer, serverIn, conn>>
    BY <1>8 DEF HandleDataToServer
  <2> QED BY <2>2, <2>3, <2>4, <2>5
<1>9. CASE ServerCloses
  <2>1. UNCHANGED <<toGameBuffer, answers, serverBuffer, serverOut, commands, gameBuffer, serverIn>>
    BY <1>9 DEF ServerCloses, screen, worked, pair
  <2>2. /\ conn \in {"open", "closing"} /\ conn' # "open"
        /\ conn = "closing" /\ serverIn # <<>> => conn' = "reset"
    BY <1>9 DEF ServerCloses
  <2> QED BY <1>4, <2>1, <2>2, PipeSame, FlightSame
<1> QED BY <1>5, <1>6, <1>7, <1>8, <1>9

\* Another front before the same rest.
LEMMA Behind ==
  ASSUME NEW S, NEW cut \in Seq(S), NEW l \in Seq(S), NEW rest \in Seq(S), NEW K, ~Has(l, K)
  PROVE  /\ Has(l \o rest, K) => Has(cut \o rest, K)
         /\ AtMostOne(cut \o rest, K) => AtMostOne(l \o rest, K)
         /\ AtMostOne(cut \o rest, K) /\ Has(cut, K) => ~Has(l \o rest, K)
         /\ OnlyLast(cut \o rest, K) => OnlyLast(l \o rest, K)
<1>1. /\ Has(l \o rest, K) <=> Has(l, K) \/ Has(rest, K)
      /\ Has(cut \o rest, K) <=> Has(cut, K) \/ Has(rest, K)
  BY HasJoined
<1>2. /\ AtMostOne(l \o rest, K) <=>
           AtMostOne(l, K) /\ AtMostOne(rest, K) /\ ~(Has(l, K) /\ Has(rest, K))
      /\ AtMostOne(cut \o rest, K) <=>
           AtMostOne(cut, K) /\ AtMostOne(rest, K) /\ ~(Has(cut, K) /\ Has(rest, K))
  BY AtMostOneJoined
<1>3. /\ OnlyLast(l \o rest, K) <=>
           OnlyLast(rest, K) /\ OnlyLast(l, K) /\ (Has(l, K) => rest = <<>>)
      /\ OnlyLast(cut \o rest, K) <=>
           OnlyLast(rest, K) /\ OnlyLast(cut, K) /\ (Has(cut, K) => rest = <<>>)
  BY OnlyLastJoined
<1>4. AtMostOne(l, K) /\ OnlyLast(l, K)
  BY DEF AtMostOne, OnlyLast, Has
<1> QED BY <1>1, <1>2, <1>3, <1>4

\* The first line gone.
LEMMA FrontGone ==
  ASSUME NEW S, NEW h \in S, NEW rest \in Seq(S), NEW s, s = <<h>> \o rest, NEW K
  PROVE  /\ Has(rest, K) => Has(s, K)
         /\ h \in K => Has(s, K)
         /\ AtMostOne(s, K) => AtMostOne(rest, K)
         /\ AtMostOne(s, K) /\ h \in K => ~Has(rest, K)
         /\ OnlyLast(s, K) => OnlyLast(rest, K)
<1> DEFINE f == <<h>>
<1>1. /\ f \in Seq(S) /\ (Has(f, K) <=> h \in K)
  BY Single
<1>2. s = f \o rest
  OBVIOUS
<1> HIDE DEF f
<1>3. Has(f \o rest, K) <=> Has(f, K) \/ Has(rest, K)
  BY <1>1, HasJoined
<1>4. AtMostOne(f \o rest, K) =>
        AtMostOne(rest, K) /\ ~(Has(f, K) /\ Has(rest, K))
  BY <1>1, AtMostOneJoined
<1>5. OnlyLast(f \o rest, K) => OnlyLast(rest, K)
  BY <1>1, OnlyLastJoined
<1> QED BY <1>1, <1>2, <1>3, <1>4, <1>5

\* An answer cut off is the last line, so what is glued to a line is glued to an event.
LEMMA GluedAnswerable ==
  ASSUME TypeOK, Shape, Answerable, ReadGlued
  PROVE  Answerable'
<1> DEFINE h == Head(toGameBuffer)
<1>1. /\ ui = "split" /\ toGameBuffer # <<>> /\ h \in Lines /\ h.kind = "torn"
      /\ Len(toGameBuffer) > 1
      /\ UNCHANGED <<ui, turn, app, commandPipe, worked, wakeups, pair, served, budget, history>>
  BY GluedIs
<1>2. PICK l \in Seq(Lines), cut \in Seq(Lines), rest \in Seq(Lines) :
        /\ Inbox = cut \o rest /\ Inbox' = l \o rest
        /\ Len(cut) = 2 /\ cut[1] = h
        /\ l = <<>> \/ \E x \in Lines :
             l = <<x>> /\ x.to = h.to /\ x.kind # "torn" /\ (x.to = NoCommand => x.kind = "event")
  BY InboxGlued
<1>3. serverOut \in Seq(Lines) /\ serverOut' = serverOut /\ conn' = conn /\ serverIn' = serverIn
  BY <1>1, InboxType DEF served
<1> DEFINE more == rest \o serverOut
<1>4. more \in Seq(Lines)
  BY <1>3, Joined
<1>5. Pipe = cut \o more
  <2> DEFINE o == serverOut
  <2>1. o \in Seq(Lines)
    BY <1>3
  <2>2. Pipe = (cut \o rest) \o o
    BY <1>2 DEF Pipe
  <2> HIDE DEF o
  <2>3. (cut \o rest) \o o = cut \o (rest \o o)
    BY <2>1
  <2> QED BY <2>2, <2>3 DEF o
<1>6. Pipe' = l \o more
  <2> DEFINE o == serverOut
  <2>1. o \in Seq(Lines)
    BY <1>3
  <2>2. Pipe' = (l \o rest) \o o
    BY <1>2, <1>3 DEF Pipe
  <2> HIDE DEF o
  <2>3. (l \o rest) \o o = l \o (rest \o o)
    BY <2>1
  <2> QED BY <2>2, <2>3 DEF o
<1> HIDE DEF more, h
<1>7. 1 \in 1..Len(cut) /\ cut[1] \in Torn
  BY <1>1, <1>2 DEF Torn
<1>8. Has(Pipe, Torn) /\ h.to = NoCommand
  <2>1. Has(cut, Torn)
    BY <1>7 DEF Has
  <2>2. Has(Pipe, Torn)
    BY <1>4, <1>5, <2>1, HasJoined
  <2>3. ASSUME h.to # NoCommand PROVE FALSE
    <3>1. cut[1] \in TornAnswers
      BY <1>2, <1>7, <2>3 DEF TornAnswers
    <3>2. OnlyLast(cut, TornAnswers)
      BY <1>4, <1>5, OnlyLastJoined DEF Answerable, TornAtEnd
    <3>3. 1 = Len(cut)
      BY <1>7, <3>1, <3>2 DEF OnlyLast
    <3> QED BY <1>2, <3>3
  <2> QED BY <2>2, <2>3
<1>9. conn # "open"
  BY <1>8 DEF Answerable, TornAtEnd
<1>10. ASSUME NEW K, K \subseteq Replies \cup Torn \cup {Hello} PROVE ~Has(l, K)
  <2>1. CASE l = <<>>
    BY <2>1, Empty
  <2>2. ASSUME NEW x \in Lines, l = <<x>>, x.to = h.to, x.to = NoCommand => x.kind = "event"
        PROVE  ~Has(l, K)
    <3>1. x.to = NoCommand /\ x.kind = "event"
      BY <1>8, <2>2
    <3>2. x \notin Replies \cup Torn \cup {Hello}
      BY <3>1 DEF Replies, Torn, Hello, Line
    <3>3. x \notin K
      BY <1>10, <3>2
    <3> QED BY <2>2, <3>3, Single
  <2> QED BY <1>2, <2>1, <2>2
<1>11. ASSUME NEW K, K \subseteq Replies \cup Torn \cup {Hello}
       PROVE  /\ Has(Pipe', K) => Has(Pipe, K)
              /\ AtMostOne(Pipe, K) => AtMostOne(Pipe', K)
              /\ OnlyLast(Pipe, K) => OnlyLast(Pipe', K)
  <2>1. ~Has(l, K)
    BY <1>10, <1>11
  <2> QED BY <1>4, <1>5, <1>6, <2>1, Behind
<1>12. /\ Replies \subseteq Replies \cup Torn \cup {Hello}
       /\ ToOthers(Current(app)) \subseteq Replies \cup Torn \cup {Hello}
       /\ Torn \subseteq Replies \cup Torn \cup {Hello}
       /\ TornAnswers \subseteq Replies \cup Torn \cup {Hello}
       /\ {Hello} \subseteq Replies \cup Torn \cup {Hello}
  BY RepliesOf
<1>13. app' = app /\ ui' = ui /\ wakeups' = wakeups
  BY <1>1
<1>14. Flight' = Flight
  BY <1>1, FlightSame DEF worked, pair, served
<1>15. Unlost' /\ OneGreeting'
  BY <1>11, <1>12, <1>13 DEF Answerable, Unlost, OneGreeting
<1>16. OneAnswer'
  BY <1>1, <1>11, <1>12, <1>13, <1>14 DEF Answerable, OneAnswer
<1>17. TornAtEnd'
  BY <1>3, <1>11, <1>12 DEF Answerable, TornAtEnd
<1>18. OneAtATime'
  BY <1>3, <1>9 DEF OneAtATime
<1> QED BY <1>15, <1>16, <1>17, <1>18 DEF Answerable

LEMMA FillsAnswerable ==
  ASSUME TypeOK, Shape, Answerable, HandleDataFromServer
  PROVE  Answerable'
<1>1. /\ UNCHANGED <<screen, wakeups, pair, gameBuffer, serverIn, conn>>
  BY DEF HandleDataFromServer
<1>2. app' = app /\ ui' = ui /\ turn' = turn /\ toGameBuffer' = toGameBuffer /\ wakeups' = wakeups
      /\ conn' = conn /\ serverIn' = serverIn
  BY <1>1 DEF screen
<1>3. Flight' = Flight /\ Writing' = Writing
  BY <1>1, <1>2, FlightSame DEF pair, Writing
<1>4. Has(toGameBuffer', Replies) => ui' = "split"
  BY <1>2 DEF Answerable, OneAnswer
<1>5. CASE Pipe' = Pipe
  BY <1>2, <1>3, <1>4, <1>5, AnswerableKept
<1>6. CASE Pipe' = Inbox /\ conn \notin {"open", "closing"}
  <2>1. Inbox \in Seq(Lines) /\ serverOut \in Seq(Lines)
    BY InboxType
  <2>2. ASSUME NEW K
        PROVE  /\ Has(Pipe', K) => Has(Pipe, K)
               /\ AtMostOne(Pipe, K) => AtMostOne(Pipe', K)
               /\ OnlyLast(Pipe, K) => OnlyLast(Pipe', K)
    <3>1. Has(Inbox \o serverOut, K) <=> Has(Inbox, K) \/ Has(serverOut, K)
      BY <2>1, HasJoined
    <3>2. AtMostOne(Inbox \o serverOut, K) => AtMostOne(Inbox, K)
      BY <2>1, AtMostOneJoined
    <3>3. OnlyLast(Inbox \o serverOut, K) => OnlyLast(Inbox, K)
      BY <2>1, OnlyLastJoined
    <3> QED BY <1>6, <3>1, <3>2, <3>3 DEF Pipe
  <2>3. Unlost' /\ OneGreeting'
    BY <1>2, <2>2 DEF Answerable, Unlost, OneGreeting
  <2>4. OneAnswer'
    BY <1>2, <1>3, <1>4, <2>2 DEF Answerable, OneAnswer
  <2>5. TornAtEnd'
    BY <1>2, <2>2 DEF Answerable, TornAtEnd
  <2>6. OneAtATime'
    BY <1>2, <1>6 DEF OneAtATime
  <2> QED BY <2>3, <2>4, <2>5, <2>6 DEF Answerable
<1> QED BY <1>5, <1>6, InboxFills

LEMMA ToldAnswerable ==
  ASSUME TypeOK, Shape, Answerable, HandleServerError
  PROVE  Answerable'
<1>1. /\ conn \in {"closed", "broken"}
      /\ Inbox' = Inbox \/ Inbox' = Inbox \o <<Lost>>
  BY InboxTold
<1>2. UNCHANGED <<screen, wakeups, pair, gameBuffer, served>>
  BY DEF HandleServerError
<1>3. app' = app /\ ui' = ui /\ toGameBuffer' = toGameBuffer /\ wakeups' = wakeups
      /\ conn' = conn /\ serverIn' = serverIn /\ serverOut' = serverOut
  BY <1>2 DEF screen, served
<1>4. Flight' = Flight
  BY <1>2, FlightSame DEF pair, served
<1>5. Inbox \in Seq(Lines) /\ serverOut \in Seq(Lines)
  BY InboxType
<1>6. ASSUME NEW K, K \subseteq Replies \cup Torn \cup {Hello}
      PROVE  /\ Has(Pipe', K) <=> Has(Pipe, K)
             /\ AtMostOne(Pipe, K) => AtMostOne(Pipe', K)
  <2>1. CASE Inbox' = Inbox
    BY <1>3, <2>1 DEF Pipe
  <2>2. CASE Inbox' = Inbox \o <<Lost>>
    <3> DEFINE i == Inbox
               x == <<Lost>>
               o == serverOut
    <3>1. i \in Seq(Lines) /\ x \in Seq(Lines) /\ o \in Seq(Lines)
      BY <1>5, Tidings, Single
    <3>2. ~Has(x, K) /\ AtMostOne(x, K)
      <4>1. Lost \notin K
        BY <1>6, RepliesOf
      <4> QED BY <4>1, Tidings, Single
    <3>3. Pipe = i \o o /\ Pipe' = (i \o x) \o o
      BY <1>3, <2>2 DEF Pipe
    <3> HIDE DEF i, x, o
    <3> DEFINE j == i \o x
    <3>4. j \in Seq(Lines) /\ (Has(j, K) <=> Has(i, K))
      BY <3>1, <3>2, Joined, HasJoined
    <3>5. AtMostOne(j, K) <=> AtMostOne(i, K)
      BY <3>1, <3>2, AtMostOneJoined
    <3>6. Pipe' = j \o o
      BY <3>3
    <3> HIDE DEF j
    <3>7. /\ Has(j \o o, K) <=> Has(j, K) \/ Has(o, K)
          /\ Has(i \o o, K) <=> Has(i, K) \/ Has(o, K)
      BY <3>1, <3>4, HasJoined
    <3>8. /\ AtMostOne(j \o o, K) <=> AtMostOne(j, K) /\ AtMostOne(o, K) /\ ~(Has(j, K) /\ Has(o, K))
          /\ AtMostOne(i \o o, K) <=> AtMostOne(i, K) /\ AtMostOne(o, K) /\ ~(Has(i, K) /\ Has(o, K))
      BY <3>1, <3>4, AtMostOneJoined
    <3> QED BY <3>3, <3>4, <3>5, <3>6, <3>7, <3>8
  <2> QED BY <1>1, <2>1, <2>2
<1>7. /\ Replies \subseteq Replies \cup Torn \cup {Hello}
      /\ ToOthers(Current(app)) \subseteq Replies \cup Torn \cup {Hello}
      /\ Torn \subseteq Replies \cup Torn \cup {Hello}
      /\ TornAnswers \subseteq Replies \cup Torn \cup {Hello}
      /\ {Hello} \subseteq Replies \cup Torn \cup {Hello}
  BY RepliesOf
<1>8. Unlost' /\ OneGreeting'
  BY <1>3, <1>6, <1>7 DEF Answerable, Unlost, OneGreeting
<1>9. OneAnswer'
  BY <1>3, <1>4, <1>6, <1>7 DEF Answerable, OneAnswer
<1>10. TornAtEnd'
  <2>1. ~Has(Pipe, TornAnswers)
    BY <1>1 DEF Answerable, TornAtEnd
  <2>2. ~Has(Pipe', TornAnswers)
    BY <1>6, <1>7, <2>1
  <2>3. OnlyLast(Pipe', TornAnswers)
    BY <2>2 DEF OnlyLast, Has
  <2> QED BY <1>1, <1>3, <2>2, <2>3 DEF TornAtEnd
<1>11. OneAtATime'
  BY <1>1, <1>3 DEF OneAtATime
<1> QED BY <1>8, <1>9, <1>10, <1>11 DEF Answerable

LEMMA PartOfPipe ==
  ASSUME NEW S, NEW t \in Seq(S), NEW a \in Seq(S), NEW s \in Seq(S), NEW o \in Seq(S), NEW K
  PROVE  Has(t, K) => Has((t \o (a \o s)) \o o, K)
<1> DEFINE m == a \o s
           n == t \o m
<1>1. m \in Seq(S)
  BY Joined
<1> HIDE DEF m
<1>2. n \in Seq(S) /\ (Has(n, K) <=> Has(t, K) \/ Has(m, K))
  BY <1>1, Joined, HasJoined
<1> HIDE DEF n
<1>3. Has(n \o o, K) <=> Has(n, K) \/ Has(o, K)
  BY <1>2, HasJoined
<1> QED BY <1>2, <1>3 DEF m, n

LEMMA LineIs ==
  ASSUME NEW l \in Lines, l.kind # "lost", l.kind # "torn"
  PROVE  l = Event \/ l = Hello \/ l \in Replies
<1>1. CASE l \in [kind : {"hello", "event", "lost", "torn"}, to : {NoCommand}]
  <2>1. l = [kind |-> l.kind, to |-> NoCommand] /\ l.kind \in {"hello", "event"}
    BY <1>1
  <2> QED BY <2>1 DEF Event, Hello, Line
<1>2. CASE l \in [kind : (Responses \cup Refusals \cup {"torn"}) \ {"hello"}, to : Commands]
  <2>1. l.to \in Commands
    BY <1>2
  <2> QED BY <2>1, RepliesOf DEF Replies
<1> QED BY <1>1, <1>2 DEF Lines

\* The line handled is an event while nothing is awaited, the greeting before any
\* command, or the one answer, for the first command of the queue.
LEMMA DispatchAnswerable ==
  ASSUME TypeOK, Shape, OnlyWaited, Answerable, DispatchMessage, Calm'
  PROVE  Answerable'
<1> DEFINE h == Head(toGameBuffer)
<1>1. /\ ui = "split" /\ toGameBuffer \in Seq(Lines) /\ toGameBuffer # <<>>
      /\ h \in Lines /\ h.kind # "torn" /\ (TakenAsLost \/ TakenInOrder)
      /\ UNCHANGED <<commandPipe, worked, wakeups, commands, served, budget>>
  BY DispatchIs
<1>2. ~disturbed' /\ ui' # "aborted"
  BY DEF Calm
<1>3. /\ TakenInOrder /\ h.kind # "lost" /\ (h.kind = "event" => ~Awaiting)
      /\ TakenRaises \/ TakenDispatched
      /\ toGameBuffer' = Tail(toGameBuffer) /\ answers' = answers
  BY <1>1, <1>2 DEF TakenAsLost, TakenInOrder, TakenFails
<1>4. Pipe = <<h>> \o Pipe' /\ Pipe' \in Seq(Lines)
  BY <1>3, InboxTaken
<1>5. /\ app \in Apps /\ WaitsFirst(app) /\ TypeOK'
      /\ app.window # "lost" => app'.window # "lost"
  BY <1>3, DispatchTypeOK DEF TypeOK, OnlyWaited
<1>6. /\ Flight' = Flight /\ conn' = conn /\ serverIn' = serverIn /\ wakeups' = wakeups
      /\ turn' \subseteq turn /\ ui' \in {"split", "poll", "stop"}
  <2>1. Flight' = Flight
    BY <1>1, FlightSame DEF worked, served
  <2> QED BY <1>1, <1>3, <2>1 DEF served, TakenRaises, TakenDispatched
<1> DEFINE rest == Tail(toGameBuffer)
<1>7. rest \in Seq(Lines) /\ toGameBuffer = <<h>> \o rest /\ toGameBuffer' = rest
  BY <1>1, <1>3, HeadAndTail
<1>8. ASSUME NEW K PROVE Has(toGameBuffer', K) => Has(Pipe', K)
  <2>1. /\ toGameBuffer' \in Seq(Lines) /\ answers' \in Seq(Lines) /\ serverBuffer' \in Seq(Lines)
        /\ serverOut' \in Seq(Lines)
    BY <1>5 DEF TypeOK
  <2>2. Has(toGameBuffer', K) =>
          Has((toGameBuffer' \o (answers' \o serverBuffer')) \o serverOut', K)
    BY <2>1, PartOfPipe
  <2> QED BY <2>2 DEF Pipe, Inbox
<1>9. h = Event \/ h = Hello \/ h \in Replies
  BY <1>1, <1>3, LineIs
<1> HIDE DEF h, rest
<1>10. ASSUME NEW K
       PROVE  /\ Has(Pipe', K) => Has(Pipe, K)
              /\ h \in K => Has(Pipe, K)
              /\ AtMostOne(Pipe, K) => AtMostOne(Pipe', K)
              /\ AtMostOne(Pipe, K) /\ h \in K => ~Has(Pipe', K)
              /\ OnlyLast(Pipe, K) => OnlyLast(Pipe', K)
  BY <1>1, <1>4, FrontGone
<1>11. Unlost'
  BY <1>5, <1>6 DEF Answerable, Unlost
<1>12. TornAtEnd'
  BY <1>6, <1>10 DEF Answerable, TornAtEnd
<1>13. AtMostOne(Pipe', {Hello}) /\ AtMostOne(Pipe', Replies)
  BY <1>10 DEF Answerable, OneGreeting, OneAnswer
<1>14. ASSUME Has(Pipe', {Hello}) => ~app'.connEstablished, ~Has(Pipe', Replies),
              ~app'.connEstablished \/ conn = "open" => Flight = <<>>
       PROVE  Answerable'
  <2>1. ~Has(Pipe', ToOthers(Current(app'))) /\ ~Has(toGameBuffer', Replies)
    BY <1>8, <1>14, RepliesOf, HasFewer
  <2>2. OneGreeting' /\ OneAnswer'
    BY <1>6, <1>13, <1>14, <2>1 DEF OneGreeting, OneAnswer
  <2>3. OneAtATime'
    BY <1>6, <1>14 DEF OneAtATime
  <2> QED BY <1>11, <1>12, <2>2, <2>3 DEF Answerable
<1>15. CASE h = Event
  <2>1. h.kind = "event" /\ h \notin Replies \cup Torn \cup {Hello}
    BY <1>15, RepliesOf DEF Event, Line
  <2>2. app' = app /\ ui' = "split" /\ turn' = turn
    <3>1. h.kind \notin Responses \cup Refusals
      BY <2>1 DEF Responses, Refusals
    <3>2. app' \in Dispatched(app, h) /\ ui' = ui /\ turn' = turn
      BY <1>3, <3>1 DEF TakenRaises, TakenDispatched, h
    <3> QED BY <1>1, <1>5, <3>1, <3>2, DispatchedPops
  <2>3. rest = <<>> => Idle
    <3> SUFFICES ASSUME rest = <<>> PROVE Idle
      OBVIOUS
    <3>1. toGameBuffer = <<h>>
      <4>1. <<h>> \in Seq(Lines) /\ <<h>> \o <<>> = <<h>>
        BY <1>1
      <4> QED BY <1>7, <4>1
    <3>2. ~Has(toGameBuffer, Replies)
      <4>1. h \in Lines /\ h \notin Replies
        BY <1>1, <2>1
      <4>2. ~Has(<<h>>, Replies)
        BY <4>1, Single
      <4> QED BY <3>1, <4>2
    <3>3. ~Awaiting
      BY <1>3, <2>1
    <3> QED BY <3>2, <3>3, NotAwaited
  <2>4. OneGreeting'
    BY <1>10, <1>13, <2>2 DEF Answerable, OneGreeting
  <2>5. OneAnswer'
    BY <1>6, <1>10, <1>13, <2>2 DEF Answerable, OneAnswer
  <2>6. Writing' = Writing
    BY <2>2 DEF Writing
  <2>7. OneAtATime'
    BY <1>6, <1>7, <1>10, <2>2, <2>3, <2>6 DEF Answerable, OneAtATime, Idle
  <2> QED BY <1>11, <1>12, <2>4, <2>5, <2>7 DEF Answerable
<1>16. CASE h = Hello
  <2>1. Has(Pipe, {Hello}) /\ ~Has(Pipe', {Hello})
    BY <1>10, <1>16 DEF Answerable, OneGreeting
  <2>2. Flight = <<>> /\ ~Has(Pipe, Replies)
    BY <2>1 DEF Answerable, OneGreeting, OneAnswer
  <2> QED BY <1>10, <1>14, <2>1, <2>2
<1>17. CASE h \in Replies
  <2>1. /\ Has(Pipe, Replies) /\ ~Has(Pipe', Replies)
        /\ app.connEstablished /\ (conn = "open" => Flight = <<>>)
    BY <1>10, <1>17 DEF Answerable, OneAnswer, OneAtATime
  <2>2. app'.connEstablished = app.connEstablished
    <3>1. CASE TakenRaises
      <4>1. PICK code \in Windows \ {"lost"} : app' = HandleException(app, code)
        BY <3>1 DEF TakenRaises
      <4>2. HandleException(app, code).connEstablished = app.connEstablished
        BY <1>5, OtherWindowKeeps
      <4> QED BY <4>1, <4>2
    <3>2. CASE TakenDispatched
      <4>1. app' \in Dispatched(app, h)
        BY <3>2 DEF TakenDispatched, h
      <4>2. h.kind # "hello"
        BY <1>17 DEF Replies, Lines, NoCommand, Commands
      <4>3. Current(app).type # "WAIT_HANDSHAKE"
        <5>1. CASE ~Pending(app)
          BY <5>1 DEF Current, NoCommand
        <5>2. CASE Pending(app)
          <6>1. app.commandQueue \in Seq(Commands) /\ app.commandQueue # <<>>
            BY <1>5, <5>2 DEF Apps, Pending
          <6>2. /\ 1 \in 1..Len(app.commandQueue) /\ Current(app) = app.commandQueue[1]
                /\ Current(app) \in Commands
            BY <5>2, <6>1 DEF Current
          <6>3. Current(app) \notin Placeholders
            BY <1>5, <2>1, <6>2 DEF WaitsFirst
          <6> QED BY <6>2, <6>3 DEF Placeholders
        <5> QED BY <5>1, <5>2
      <4>4. ~Greets(app, h)
        BY <4>2, <4>3 DEF Greets
      <4> QED BY <1>5, <4>1, <4>4, DispatchedPops
    <3> QED BY <1>3, <3>1, <3>2
  <2>3. Has(Pipe', {Hello}) => ~app'.connEstablished
    BY <1>10, <2>2 DEF Answerable, OneGreeting
  <2> QED BY <1>14, <2>1, <2>2, <2>3
<1> QED BY <1>9, <1>15, <1>16, <1>17

\* More is said, and none of it of a kind.
LEMMA SaidMore ==
  ASSUME NEW S, NEW s \in Seq(S), NEW x \in Seq(S), NEW K, ~Has(x, K)
  PROVE  /\ Has(s \o x, K) <=> Has(s, K)
         /\ AtMostOne(s \o x, K) <=> AtMostOne(s, K)
<1>1. AtMostOne(x, K)
  BY DEF AtMostOne, Has
<1>2. Has(s \o x, K) <=> Has(s, K) \/ Has(x, K)
  BY HasJoined
<1>3. AtMostOne(s \o x, K) <=> AtMostOne(s, K) /\ AtMostOne(x, K) /\ ~(Has(s, K) /\ Has(x, K))
  BY AtMostOneJoined
<1> QED BY <1>1, <1>2, <1>3

\* The server answers the one command on its way, which is the first of the queue.
LEMMA AnswersAnswerable ==
  ASSUME TypeOK, TypeOK', Answerable, ServerAnswers
  PROVE  Answerable'
<1>1. /\ conn = "open" /\ serverIn \in Seq(Commands) /\ serverIn # <<>>
      /\ serverIn' = Tail(serverIn) /\ conn' \in {"open", "closing"}
      /\ UNCHANGED <<screen, worked, wakeups, pair, cutOff, history>>
  BY AnswersIs
<1>2. PICK early \in Seq(Lines), reply \in Lines :
        /\ early \in {<<>>, <<Event>>}
        /\ reply.to = Head(serverIn) /\ reply.to \in Commands
        /\ reply.kind \in (Responses \cup Refusals) \ {"hello"}
        /\ serverOut' = serverOut \o (early \o <<reply>>)
  BY AnswersIs
<1>3. /\ ui' = ui /\ turn' = turn /\ app' = app /\ toGameBuffer' = toGameBuffer /\ wakeups' = wakeups
      /\ commands' = commands /\ gameBuffer' = gameBuffer
      /\ answers' = answers /\ serverBuffer' = serverBuffer
  BY <1>1 DEF screen, worked, pair
<1>4. /\ Flight = <<Current(app)>> /\ ~Writing /\ ~Has(Pipe, Replies) /\ app.connEstablished
      /\ ~(ui = "split" /\ toGameBuffer = <<>>)
  <2>1. Flight # <<>>
    BY <1>1, FlightType
  <2> QED BY <1>1, <2>1 DEF Answerable, OneAtATime, OneAnswer
<1>5. Head(serverIn) = Current(app) /\ Flight' = <<>>
  BY <1>1, <1>3, <1>4, FlightAnswered
<1>6. /\ <<reply>> \in Seq(Lines) /\ AtMostOne(<<reply>>, Replies)
      /\ ~Has(<<reply>>, {Hello}) /\ ~Has(<<reply>>, Torn)
      /\ ~Has(<<reply>>, ToOthers(Current(app)))
  <2>1. /\ reply \notin {Hello} /\ reply \notin Torn /\ reply \notin ToOthers(Current(app))
    BY <1>2, <1>5 DEF Hello, Line, Torn, ToOthers, Responses, Refusals
  <2> QED BY <2>1, Single
<1>7. ASSUME NEW K, K \subseteq Replies \cup Torn \cup {Hello} PROVE ~Has(early, K)
  <2>1. Event \notin K
    BY <1>7, RepliesOf
  <2> QED BY <1>2, <2>1, Tidings, Single, Empty
<1> DEFINE last == <<reply>>
           x == early \o last
<1>8. x \in Seq(Lines)
  BY <1>6, Joined
<1>9. serverOut' = serverOut \o x
  BY <1>2
<1> HIDE DEF last
<1>10. /\ Replies \subseteq Replies \cup Torn \cup {Hello}
       /\ ToOthers(Current(app)) \subseteq Replies \cup Torn \cup {Hello}
       /\ Torn \subseteq Replies \cup Torn \cup {Hello}
       /\ {Hello} \subseteq Replies \cup Torn \cup {Hello}
  BY RepliesOf
<1>11. ASSUME NEW K, K \subseteq Replies \cup Torn \cup {Hello}, ~Has(last, K)
       PROVE  ~Has(x, K)
  <2>1. ~Has(early, K) /\ last \in Seq(Lines)
    BY <1>6, <1>7, <1>11 DEF last
  <2> QED BY <1>11, <2>1, HasJoined
<1>12. AtMostOne(x, Replies)
  <2>1. ~Has(early, Replies) /\ last \in Seq(Lines) /\ AtMostOne(last, Replies)
    BY <1>6, <1>7, <1>10 DEF last
  <2>2. AtMostOne(early, Replies)
    BY <2>1 DEF AtMostOne, Has
  <2> QED BY <2>1, <2>2, AtMostOneJoined
<1>13. ~Has(x, {Hello}) /\ ~Has(x, Torn) /\ ~Has(x, ToOthers(Current(app)))
  BY <1>6, <1>10, <1>11 DEF last
<1> HIDE DEF x
<1>14. Inbox' = Inbox /\ Pipe \in Seq(Lines)
  BY <1>3, InboxSame, InboxType
<1>15. Pipe' = Pipe \o x
  BY <1>8, <1>9, <1>14, HasMore
<1>16. OneGreeting'
  <2>1. /\ Has(Pipe', {Hello}) <=> Has(Pipe, {Hello})
        /\ AtMostOne(Pipe', {Hello}) <=> AtMostOne(Pipe, {Hello})
    BY <1>8, <1>13, <1>14, <1>15, SaidMore
  <2> QED BY <1>3, <2>1 DEF Answerable, OneGreeting
<1>17. OneAnswer'
  <2>1. AtMostOne(Pipe', Replies)
    <3>1. AtMostOne(Pipe, Replies)
      BY DEF Answerable, OneAnswer
    <3>2. AtMostOne(Pipe \o x, Replies)
      BY <1>4, <1>8, <1>12, <1>14, <3>1, AtMostOneJoined
    <3> QED BY <1>15, <3>2
  <2>2. ~Has(Pipe', ToOthers(Current(app)))
    <3>1. ~Has(Pipe, ToOthers(Current(app)))
      BY DEF Answerable, OneAnswer
    <3>2. ~Has(Pipe \o x, ToOthers(Current(app)))
      BY <1>8, <1>13, <1>14, <3>1, SaidMore
    <3> QED BY <1>15, <3>2
  <2> QED BY <1>3, <1>4, <2>1, <2>2 DEF Answerable, OneAnswer
<1>18. TornAtEnd'
  <2>1. ~Has(Pipe, Torn)
    BY <1>1 DEF Answerable, TornAtEnd
  <2>2. ~Has(Pipe', Torn)
    <3>1. ~Has(Pipe \o x, Torn)
      BY <1>8, <1>13, <1>14, <2>1, SaidMore
    <3> QED BY <1>15, <3>1
  <2>3. ~Has(Pipe', TornAnswers)
    BY <2>2, RepliesOf, HasFewer
  <2>4. OnlyLast(Pipe', TornAnswers)
    BY <2>3 DEF OnlyLast, Has
  <2> QED BY <2>2, <2>3, <2>4 DEF TornAtEnd
<1>19. Unlost' /\ OneAtATime'
  <2>1. ~Writing' /\ Unlost'
    BY <1>3, <1>4 DEF Writing, Answerable, Unlost
  <2> QED BY <1>3, <1>4, <1>5, <2>1 DEF OneAtATime
<1> QED BY <1>16, <1>17, <1>18, <1>19 DEF Answerable

LEMMA EventAnswerable ==
  ASSUME TypeOK, TypeOK', Answerable, ServerEvent
  PROVE  Answerable'
<1>1. /\ serverOut' = serverOut \o <<Event>>
      /\ UNCHANGED <<screen, worked, wakeups, pair, conn, serverIn, loggedIn, cutOff, history>>
      /\ conn = "open"
  BY EventIs
<1>2. /\ ui' = ui /\ turn' = turn /\ app' = app /\ toGameBuffer' = toGameBuffer /\ wakeups' = wakeups
      /\ commands' = commands /\ gameBuffer' = gameBuffer /\ serverIn' = serverIn /\ conn' = conn
      /\ answers' = answers /\ serverBuffer' = serverBuffer
  BY <1>1 DEF screen, worked, pair
<1> DEFINE x == <<Event>>
<1>3. x \in Seq(Lines)
  BY Tidings, Single
<1>4. ASSUME NEW K, K \subseteq Replies \cup Torn \cup {Hello} PROVE ~Has(x, K)
  <2>1. Event \notin K
    BY <1>4, RepliesOf
  <2> QED BY <2>1, Tidings, Single
<1>5. serverOut' = serverOut \o x
  BY <1>1
<1> HIDE DEF x
<1>6. Inbox' = Inbox /\ Pipe \in Seq(Lines)
  BY <1>2, InboxSame, InboxType
<1>7. Pipe' = Pipe \o x
  BY <1>3, <1>5, <1>6, HasMore
<1>8. ASSUME NEW K, K \subseteq Replies \cup Torn \cup {Hello}
      PROVE  (Has(Pipe', K) <=> Has(Pipe, K)) /\ (AtMostOne(Pipe', K) <=> AtMostOne(Pipe, K))
  <2>1. ~Has(x, K)
    BY <1>4, <1>8
  <2>2. (Has(Pipe \o x, K) <=> Has(Pipe, K)) /\ (AtMostOne(Pipe \o x, K) <=> AtMostOne(Pipe, K))
    BY <1>3, <1>6, <2>1, SaidMore
  <2> QED BY <1>7, <2>2
<1>9. /\ Replies \subseteq Replies \cup Torn \cup {Hello}
      /\ ToOthers(Current(app)) \subseteq Replies \cup Torn \cup {Hello}
      /\ Torn \subseteq Replies \cup Torn \cup {Hello}
      /\ TornAnswers \subseteq Replies \cup Torn \cup {Hello}
      /\ {Hello} \subseteq Replies \cup Torn \cup {Hello}
  BY RepliesOf
<1>10. Flight' = Flight /\ Writing' = Writing
  BY <1>2, FlightSame DEF Writing
<1>11. Unlost' /\ OneGreeting'
  BY <1>2, <1>8, <1>9 DEF Answerable, Unlost, OneGreeting
<1>12. OneAnswer'
  BY <1>2, <1>8, <1>9, <1>10 DEF Answerable, OneAnswer
<1>13. TornAtEnd'
  <2>1. ~Has(Pipe, Torn) /\ ~Has(Pipe, TornAnswers)
    BY <1>1, RepliesOf, HasFewer DEF Answerable, TornAtEnd
  <2>2. ~Has(Pipe', Torn) /\ ~Has(Pipe', TornAnswers)
    BY <1>8, <1>9, <2>1
  <2>3. OnlyLast(Pipe', TornAnswers)
    BY <2>2 DEF OnlyLast, Has
  <2> QED BY <2>2, <2>3 DEF TornAtEnd
<1>14. OneAtATime'
  BY <1>2, <1>8, <1>9, <1>10 DEF Answerable, OneAtATime
<1> QED BY <1>11, <1>12, <1>13, <1>14 DEF Answerable

LEMMA BreakAnswerable ==
  ASSUME TypeOK, TypeOK', Answerable, ServerBreaksOff
  PROVE  Answerable'
<1>1. /\ conn = "open" /\ conn' = "closing"
      /\ UNCHANGED <<screen, worked, wakeups, pair, serverIn, loggedIn, history>>
  BY BreakIs
<1>2. PICK torn \in Lines :
        /\ torn.kind = "torn" /\ serverOut' = serverOut \o <<torn>>
        /\ torn.to # NoCommand => serverIn # <<>> /\ torn.to = Head(serverIn)
  BY BreakIs
<1>3. /\ ui' = ui /\ turn' = turn /\ app' = app /\ toGameBuffer' = toGameBuffer /\ wakeups' = wakeups
      /\ commands' = commands /\ gameBuffer' = gameBuffer /\ serverIn' = serverIn
      /\ answers' = answers /\ serverBuffer' = serverBuffer
  BY <1>1 DEF screen, worked, pair
<1> DEFINE x == <<torn>>
<1>4. /\ x \in Seq(Lines) /\ OnlyLast(x, TornAnswers)
      /\ Has(x, TornAnswers) => serverIn # <<>>
      /\ ~Has(x, Replies) /\ ~Has(x, ToOthers(Current(app))) /\ ~Has(x, {Hello})
  <2>1. torn \notin Replies /\ torn \notin ToOthers(Current(app)) /\ torn \notin {Hello}
    BY <1>2 DEF Replies, ToOthers, Hello, Line
  <2>2. torn \in TornAnswers => serverIn # <<>>
    BY <1>2 DEF TornAnswers
  <2> QED BY <2>1, <2>2, Single
<1>5. serverOut' = serverOut \o x
  BY <1>2
<1> HIDE DEF x
<1>6. Inbox' = Inbox /\ Pipe \in Seq(Lines)
  BY <1>3, InboxSame, InboxType
<1>7. Pipe' = Pipe \o x
  BY <1>4, <1>5, <1>6, HasMore
<1>8. /\ (Has(Pipe', Replies) <=> Has(Pipe, Replies))
      /\ (AtMostOne(Pipe', Replies) <=> AtMostOne(Pipe, Replies))
  BY <1>4, <1>6, <1>7, SaidMore
<1>9. /\ (Has(Pipe', {Hello}) <=> Has(Pipe, {Hello}))
      /\ (AtMostOne(Pipe', {Hello}) <=> AtMostOne(Pipe, {Hello}))
  BY <1>4, <1>6, <1>7, SaidMore
<1>10. Has(Pipe', ToOthers(Current(app))) <=> Has(Pipe, ToOthers(Current(app)))
  BY <1>4, <1>6, <1>7, SaidMore
<1>11. Flight' = Flight
  BY <1>3, FlightSame
<1>12. Unlost' /\ OneGreeting'
  BY <1>3, <1>9 DEF Answerable, Unlost, OneGreeting
<1>13. OneAnswer'
  BY <1>3, <1>8, <1>10, <1>11 DEF Answerable, OneAnswer
<1>14. TornAtEnd'
  <2>1. ~Has(Pipe, TornAnswers)
    BY <1>1, RepliesOf, HasFewer DEF Answerable, TornAtEnd
  <2>2. OnlyLast(Pipe, TornAnswers)
    BY DEF Answerable, TornAtEnd
  <2>3. OnlyLast(Pipe \o x, TornAnswers)
    BY <1>4, <1>6, <2>1, <2>2, OnlyLastJoined
  <2>4. Has(Pipe \o x, TornAnswers) => serverIn # <<>>
    BY <1>4, <1>6, <2>1, HasJoined
  <2> QED BY <1>1, <1>3, <1>7, <2>3, <2>4 DEF TornAtEnd
<1>15. OneAtATime'
  BY <1>1 DEF OneAtATime
<1> QED BY <1>12, <1>13, <1>14, <1>15 DEF Answerable

LEMMA InitUndisturbed == Init => Undisturbed
<1> SUFFICES ASSUME Init PROVE Answerable
  BY DEF Undisturbed
<1>1. /\ app = Fresh /\ wakeups = 0 /\ ui = "create" /\ turn = {} /\ conn = "open"
      /\ toGameBuffer = <<>> /\ answers = <<>> /\ serverBuffer = <<>> /\ serverOut = <<Hello>>
      /\ commands = <<>> /\ gameBuffer = <<>> /\ serverIn = <<>>
  BY DEF Init
<1>2. TypeOK
  BY InitTypeOK
<1>3. Pipe = <<Hello>>
  <2>1. Inbox = <<>>
    BY <1>1 DEF Inbox
  <2>2. <<Hello>> \in Seq(Lines) /\ <<>> \o <<Hello>> = <<Hello>>
    BY Tidings
  <2> QED BY <1>1, <2>1, <2>2 DEF Pipe
<1>4. /\ AtMostOne(Pipe, {Hello}) /\ AtMostOne(Pipe, Replies)
      /\ ~Has(Pipe, Replies) /\ ~Has(Pipe, ToOthers(Current(app)))
      /\ ~Has(Pipe, Torn) /\ ~Has(Pipe, TornAnswers) /\ OnlyLast(Pipe, TornAnswers)
  <2>1. /\ Hello \notin Replies /\ Hello \notin ToOthers(Current(app)) /\ Hello \notin Torn
        /\ Hello \notin TornAnswers
    BY RepliesOf
  <2> QED BY <1>3, <2>1, Tidings, Single
<1>5. Flight = <<>>
  BY <1>1, <1>2, FlightType
<1>6. ~Has(toGameBuffer, Replies)
  BY <1>1, Empty
<1>7. app.window # "lost" /\ ~app.connEstablished
  BY <1>1 DEF Fresh
<1> QED BY <1>1, <1>4, <1>5, <1>6, <1>7
        DEF Answerable, Unlost, OneGreeting, OneAnswer, TornAtEnd, OneAtATime

\* What has disturbed an answer is not undone, nor is the end of the loop.
LEMMA CalmBefore ==
  ASSUME TypeOK, Shape, [Next]_vars, Calm'
  PROVE  Calm
<1>1. CASE UNCHANGED vars
  BY <1>1 DEF vars, screen, history, Calm
<1>2. CASE ReadFromServer \/ HandleInput
  BY <1>2 DEF ReadFromServer, HandleInput, Calm
<1>3. CASE DispatchMessage
  <2>1. ui = "split" /\ (TakenAsLost \/ TakenInOrder)
    BY <1>3, DispatchIs
  <2> QED BY <2>1 DEF TakenAsLost, TakenInOrder, Calm
<1>4. CASE \/ StartThread \/ StoreKeepAlive \/ PollUI \/ ReadGlued \/ EndSplit \/ WriteToServer
           \/ ExitLoop \/ WakeUpWorker \/ Join \/ Reconnect \/ PressClose
           \/ \E input \in {"name"} \cup Typed : Enter(input)
           \/ \E phase \in Phases : GoTo(phase)
  <2>1. UNCHANGED history
    BY <1>4, Zenon DEF StartThread, StoreKeepAlive, PollUI, ReadGlued, EndSplit, WriteToServer,
      ExitLoop, WakeUpWorker, Join, Reconnect, PressClose, Enter, GoTo
  <2>2. ui \notin {"stopped", "aborted"} /\ (ui = "join" => ui' = "stopped")
    BY <1>4 DEF StartThread, StoreKeepAlive, PollUI, ReadGlued, EndSplit, WriteToServer,
      ExitLoop, WakeUpWorker, Join, Reconnect, PressClose, Enter, GoTo, AtKeyboard
  <2> QED BY <2>1, <2>2 DEF history, Calm
<1>5. CASE WorkerStep \/ Server
  <2>1. UNCHANGED <<screen, history>>
    BY <1>5, Zenon DEF WorkerStep, CheckKeepAlive, PollWorker, FlushPipe, HandleDataFromGame,
      HandleDataToGame, HandleDataFromServer, HandleDataToServer, HandleServerError,
      Server, ServerAnswers, ServerEvent, ServerCloses, ServerBreaksOff
  <2> QED BY <2>1 DEF screen, history, Calm
<1> QED BY <1>1, <1>2, <1>3, <1>4, <1>5 DEF Next, UIStep, User

\* Undisturbed is inductive.
LEMMA NextUndisturbed ==
  ASSUME TypeOK, Shape, OnlyWaited, TypeOK', Undisturbed, [Next]_vars
  PROVE  Undisturbed'
<1> SUFFICES ASSUME Calm' PROVE Answerable'
  BY DEF Undisturbed
<1>1. Answerable /\ ~disturbed' /\ ui' \notin {"join", "stopped"}
  BY CalmBefore DEF Undisturbed, Calm
<1>2. CASE \/ StartThread \/ StoreKeepAlive \/ PollUI \/ HandleInput \/ ExitLoop \/ PressClose
           \/ \E input \in {"name"} \cup Typed : Enter(input)
           \/ \E phase \in Phases : GoTo(phase)
  BY <1>1, <1>2, ScreenAnswerable
<1>3. CASE ReadFromServer
  BY <1>1, <1>3, ReadAnswerable
<1>4. CASE ReadGlued
  BY <1>1, <1>4, GluedAnswerable
<1>5. CASE DispatchMessage
  BY <1>1, <1>5, DispatchAnswerable
<1>6. CASE EndSplit
  BY <1>1, <1>6, EndSplitAnswerable
<1>7. CASE WriteToServer
  BY <1>1, <1>7, WriteIs, ScreenAnswerable, WritesAnswerable
<1>8. CASE WakeUpWorker \/ Join
  BY <1>1, <1>8 DEF WakeUpWorker, Join
<1>9. CASE Reconnect
  BY <1>1, <1>9 DEF Reconnect, Answerable, Unlost
<1>10. CASE FlushPipe
  <2>1. "pipe" \in due
    BY <1>10, TurnTaken DEF FlushPipe
  <2> QED BY <1>1, <2>1 DEF Shape, Answerable, Unlost
<1>11. CASE \/ CheckKeepAlive \/ PollWorker \/ HandleDataFromGame \/ HandleDataToGame
            \/ HandleDataToServer \/ ServerCloses
  BY <1>1, <1>11, MovesAnswerable
<1>12. CASE HandleDataFromServer
  BY <1>1, <1>12, FillsAnswerable
<1>13. CASE HandleServerError
  BY <1>1, <1>13, ToldAnswerable
<1>14. CASE ServerAnswers \/ ServerEvent \/ ServerBreaksOff
  BY <1>1, <1>14, AnswersAnswerable, EventAnswerable, BreakAnswerable
<1>15. CASE UNCHANGED vars
  BY <1>1, <1>15 DEF vars, screen, worked, pair, served, Answerable, Unlost, OneGreeting, OneAnswer,
    TornAtEnd, OneAtATime, Pipe, Inbox, Flight, Writing
<1> QED BY <1>2, <1>3, <1>4, <1>5, <1>6, <1>7, <1>8, <1>9, <1>10, <1>11, <1>12, <1>13, <1>14, <1>15
        DEF Next, UIStep, WorkerStep, User, Server

\* The answer handled is for the first command of the queue.
LEMMA NextMatch ==
  ASSUME TypeOK, Shape, Undisturbed, AnswersMatch, [Next]_vars
  PROVE  AnswersMatch'
<1>1. CASE DispatchMessage
  <2> SUFFICES ASSUME ~disturbed' PROVE ~mismatched'
    BY DEF AnswersMatch
  <2> DEFINE h == Head(toGameBuffer)
  <2>1. /\ ui = "split" /\ h \in Lines /\ h.kind # "torn" /\ (TakenAsLost \/ TakenInOrder)
        /\ mismatched' = (mismatched \/ (h.to # NoCommand /\ h.to # Current(app)))
    BY <1>1, DispatchIs
  <2>2. TakenInOrder /\ ~disturbed
    BY <2>1 DEF TakenAsLost, TakenInOrder
  <2>3. ~Has(Pipe, ToOthers(Current(app)))
    BY <2>1, <2>2 DEF Undisturbed, Answerable, Calm, OneAnswer
  <2>4. /\ Pipe = <<h>> \o Pipe' /\ Pipe' \in Seq(Lines)
    BY <1>1, <2>2, InboxTaken
  <2> HIDE DEF h
  <2>5. h \notin ToOthers(Current(app))
    BY <2>1, <2>3, <2>4, FrontGone
  <2>6. ~(h.to # NoCommand /\ h.to # Current(app))
    BY <2>1, <2>5 DEF ToOthers, Replies
  <2>7. ~mismatched
    BY <2>2 DEF AnswersMatch
  <2> QED BY <2>1, <2>6, <2>7
<1>2. CASE ReadFromServer \/ HandleInput
  BY <1>2 DEF ReadFromServer, HandleInput, AnswersMatch
<1>3. CASE \/ StartThread \/ StoreKeepAlive \/ PollUI \/ ReadGlued \/ EndSplit \/ WriteToServer
           \/ ExitLoop \/ WakeUpWorker \/ Join \/ WorkerStep \/ User \/ Server \/ UNCHANGED vars
  <2>1. UNCHANGED history
    BY <1>3, Zenon DEF StartThread, StoreKeepAlive, PollUI, ReadGlued, EndSplit, WriteToServer,
      ExitLoop, WakeUpWorker, Join, User, Reconnect, PressClose, Enter, GoTo, vars,
      WorkerStep, CheckKeepAlive, PollWorker, FlushPipe, HandleDataFromGame,
      HandleDataToGame, HandleDataFromServer, HandleDataToServer, HandleServerError,
      Server, ServerAnswers, ServerEvent, ServerCloses, ServerBreaksOff
  <2> QED BY <2>1 DEF history, AnswersMatch
<1> QED BY <1>1, <1>2, <1>3 DEF Next, UIStep

\* A worker that has given the connection up has told the user interface so, or the
\* news is on its way (ClientHTTP.cpp:242-255).
THEOREM LostToldTheorem == Spec => []LostTold
<1> DEFINE I == TypeOK /\ Shape /\ TornCutOff /\ NewsOnItsWay
<1>1. Init => I
  BY InitTypeOK, InitCutOff
<1>2. I /\ [Next]_vars => I'
  BY NextTypeOK, NextCutOff, NextNews
<1>3. I => LostTold
  BY NewsSuffices
<1> QED BY <1>1, <1>2, <1>3, PTL DEF Spec

\* Answers carry no name of their command, and still each is taken for the command
\* it answers, until something comes between the two (UI.cpp:187-206).
THEOREM AnswersMatchTheorem == Spec => []AnswersMatch
<1> DEFINE I == TypeOK /\ Shape /\ OnlyWaited /\ Undisturbed /\ AnswersMatch
<1>1. Init => I
  <2>1. Init => AnswersMatch
    BY DEF Init, AnswersMatch
  <2> QED BY <2>1, InitTypeOK, InitOnlyWaited, InitUndisturbed
<1>2. I /\ [Next]_vars => I'
  BY NextTypeOK, NextOnlyWaited, NextUndisturbed, NextMatch
<1>3. I => AnswersMatch
  OBVIOUS
<1> QED BY <1>1, <1>2, <1>3, PTL DEF Spec
=============================================================================
