----------------------------- MODULE SessionIO ------------------------------
(***************************************************************************)
(* The connections of the TAP42 server and the threads that write to them  *)
(* (network/server.cpp, network/session.cpp, network/platform_socket.cpp). *)
(*                                                                         *)
(* Each accepted connection has a Session and a thread that runs           *)
(* client_loop.  Any thread may write to any session it holds a pointer    *)
(* to: its own to reply, another's to broadcast.  A write is a sequence of *)
(* send() calls on a descriptor number, and the kernel hands the number of *)
(* a closed descriptor to the next accept(): write_mutex and the check of  *)
(* `connected' under it are what keeps a line from reaching the wrong      *)
(* client or from being cut by another.  What the commands do is left out  *)
(* (see Presence, Groups, Realm): only that a handler takes World::mutex,  *)
(* releases it, and sends lines, which it does with the mutex released     *)
(* except where cmd_connect refuses a name that is online.                 *)
(***************************************************************************)
EXTENDS Naturals, Sequences, FiniteSets

CONSTANTS
  Conns,     \* connections over the life of the server, each named as its thread is
  Fds,       \* the descriptor numbers the kernel can give to accept()
  Stallers,  \* the clients that may stop reading while they keep the connection
  Parts,     \* send() calls it takes to write one line
  MaxLines,  \* bound: lines a thread writes
  None

ASSUME SessionIOAssumption ==
  /\ Stallers \subseteq Conns
  /\ Parts \in Nat \ {0}
  /\ MaxLines \in Nat \ {0}
  /\ None \notin Conns
  /\ None \notin Fds

VARIABLES
  fdConn,      \* kernel: the connection a descriptor number stands for, or None
  socketFd,    \* Session::socket_fd
  connected,   \* Session::connected
  writeMutex,  \* the thread that holds Session::write_mutex, or None
  worldMutex,  \* the thread that holds World::mutex, or None
  shared,      \* sessions that logged in: other threads can hold a pointer to them
  pc,          \* where the thread of a connection is
  call,        \* its send_line call: the session, the next part, where it returns to
  lines,       \* lines the thread has begun
  peer,        \* the client: "reading", "stalled" or "gone"
  partial,     \* parts that reached a client since its last newline
  framed       \* the lines a client has cut at the newlines, in order

vars == <<fdConn, socketFd, connected, writeMutex, worldMutex, shared, pc, call,
          lines, peer, partial, framed>>

kernelVars == <<fdConn, peer, partial, framed>>
sessionVars == <<socketFd, connected, shared>>

Returns == {"loop", "leave", "unlock", "quit"}
Labels == Returns \cup {"off", "world", "worldLeave", "over", "lock", "check", "send", "done"}

Call == [to : Conns, part : 1..Parts, back : Returns]

\* One send() worth of a line: for whom it was written, by which thread, as
\* which of its lines, and which part of the line it is.
Part == [for : Conns, by : Conns, n : Nat, k : 1..Parts]

WholeLine(c, by, n) == [k \in 1..Parts |-> [for |-> c, by |-> by, n |-> n, k |-> k]]

WholeLines(c) == {WholeLine(c, by, n) : by \in Conns, n \in 1..MaxLines}

TypeOK ==
  /\ fdConn \in [Fds -> Conns \cup {None}]
  /\ socketFd \in [Conns -> Fds \cup {None}]
  /\ connected \in [Conns -> BOOLEAN]
  /\ writeMutex \in [Conns -> Conns \cup {None}]
  /\ worldMutex \in Conns \cup {None}
  /\ shared \subseteq Conns
  /\ pc \in [Conns -> Labels]
  /\ call \in [Conns -> Call]
  /\ lines \in [Conns -> Nat]
  /\ peer \in [Conns -> {"reading", "stalled", "gone"}]
  /\ partial \in [Conns -> Seq(Part)]
  /\ framed \in [Conns -> Seq(Seq(Part))]

Init ==
  /\ fdConn = [f \in Fds |-> None]
  /\ socketFd = [c \in Conns |-> None]
  /\ connected = [c \in Conns |-> TRUE]
  /\ writeMutex = [c \in Conns |-> None]
  /\ worldMutex = None
  /\ shared = {}
  /\ pc = [c \in Conns |-> "off"]
  /\ call = [c \in Conns |-> [to |-> c, part |-> 1, back |-> "loop"]]
  /\ lines = [c \in Conns |-> 0]
  /\ peer = [c \in Conns |-> "reading"]
  /\ partial = [c \in Conns |-> << >>]
  /\ framed = [c \in Conns |-> << >>]

Goto(t, label) == pc' = [pc EXCEPT ![t] = label]

-----------------------------------------------------------------------------
(* send_line *)

\* Thread t calls send_line on session s and goes on at `back' afterwards.
StartSend(t, s, back) ==
  /\ lines[t] < MaxLines
  /\ Goto(t, "lock")
  /\ call' = [call EXCEPT ![t] = [to |-> s, part |-> 1, back |-> back]]
  /\ lines' = [lines EXCEPT ![t] = @ + 1]

Unlock(t) ==
  /\ writeMutex' = [writeMutex EXCEPT ![call[t].to] = None]
  /\ Goto(t, call[t].back)

\* (bug) send_line writes without waiting for write_mutex
LockWriteIgnored(t) ==
  /\ pc[t] = "lock"
  /\ writeMutex' = [writeMutex EXCEPT ![call[t].to] = t]
  /\ Goto(t, "check")
  /\ UNCHANGED <<kernelVars, sessionVars, worldMutex, call, lines>>

LockWrite(t) ==
  /\ pc[t] = "lock"
  /\ writeMutex[call[t].to] = None
  /\ writeMutex' = [writeMutex EXCEPT ![call[t].to] = t]
  /\ Goto(t, "check")
  /\ UNCHANGED <<kernelVars, sessionVars, worldMutex, call, lines>>

\* (bug) `connected' is tested before the lock is taken, so its value is old
CheckConnectedStale(t) ==
  /\ pc[t] = "check"
  /\ Goto(t, "send")
  /\ UNCHANGED <<kernelVars, sessionVars, worldMutex, writeMutex, call, lines>>

CheckConnected(t) ==
  /\ pc[t] = "check"
  /\ \/ /\ connected[call[t].to]
        /\ Goto(t, "send")
        /\ UNCHANGED writeMutex
     \/ /\ ~connected[call[t].to]
        /\ Unlock(t)
  /\ UNCHANGED <<kernelVars, sessionVars, worldMutex, call, lines>>

\* The part arrives at the connection the descriptor number stands for now,
\* and the client cuts a line when the part carries the newline.
Arrive(c, part) ==
  IF part.k = Parts
  THEN /\ framed' = [framed EXCEPT ![c] = Append(@, Append(partial[c], part))]
       /\ partial' = [partial EXCEPT ![c] = << >>]
  ELSE /\ partial' = [partial EXCEPT ![c] = Append(@, part)]
       /\ UNCHANGED framed

SendPart(t) ==
  LET s == call[t].to
      c == fdConn[socketFd[s]]
  IN /\ pc[t] = "send"
     /\ c # None /\ peer[c] = "reading"
     /\ Arrive(c, [for |-> s, by |-> t, n |-> lines[t], k |-> call[t].part])
     /\ IF call[t].part = Parts
        THEN Unlock(t) /\ UNCHANGED call
        ELSE /\ call' = [call EXCEPT ![t].part = @ + 1]
             /\ UNCHANGED <<writeMutex, pc>>
     /\ UNCHANGED <<fdConn, peer, sessionVars, worldMutex, lines>>

\* (bug) the error path of send_line keeps write_mutex
SendFailsLocked(t) ==
  LET c == fdConn[socketFd[call[t].to]]
  IN /\ pc[t] = "send"
     /\ c # None => peer[c] = "gone"
     /\ Goto(t, call[t].back)
     /\ UNCHANGED <<kernelVars, sessionVars, worldMutex, writeMutex, call, lines>>

\* send() returns an error: the client is gone, or the descriptor is closed.
SendFails(t) ==
  LET c == fdConn[socketFd[call[t].to]]
  IN /\ pc[t] = "send"
     /\ c # None => peer[c] = "gone"
     /\ Unlock(t)
     /\ UNCHANGED <<kernelVars, sessionVars, worldMutex, call, lines>>
-----------------------------------------------------------------------------
(* client_loop and run_server *)

\* accept() returns, the connection gets its Session and its thread, and the
\* thread starts with the greeting.
Accept(t) ==
  /\ pc[t] = "off"
  /\ \E f \in Fds :
       /\ fdConn[f] = None
       /\ fdConn' = [fdConn EXCEPT ![f] = t]
       /\ socketFd' = [socketFd EXCEPT ![t] = f]
  /\ StartSend(t, t, "loop")
  /\ UNCHANGED <<connected, shared, writeMutex, worldMutex, peer, partial, framed>>

\* CONNECT or CREATE_CHARACTER succeeds: SessionRegistry::add.
Login(t) ==
  /\ pc[t] = "loop"
  /\ t \notin shared
  /\ shared' = shared \cup {t}
  /\ UNCHANGED <<kernelVars, socketFd, connected, writeMutex, worldMutex, pc, call, lines>>

\* A handler runs the game logic under World::mutex, then sends its reply;
\* handle_disconnect takes the character out of the world the same way.
LockWorld(t) ==
  /\ worldMutex = None
  /\ worldMutex' = t
  /\ \/ pc[t] = "loop" /\ lines[t] < MaxLines /\ Goto(t, "world")
     \/ pc[t] = "over" /\ t \in shared /\ Goto(t, "worldLeave")
  /\ UNCHANGED <<kernelVars, sessionVars, writeMutex, call, lines>>

UnlockWorld(t) ==
  /\ worldMutex = t
  /\ worldMutex' = None
  /\ \/ pc[t] = "world" /\ StartSend(t, t, "loop")
     \/ pc[t] = "worldLeave" /\ Goto(t, "leave") /\ UNCHANGED <<call, lines>>
  /\ UNCHANGED <<kernelVars, sessionVars, writeMutex>>

\* handle_disconnect of a session that never logged in returns at once.
NeverLoggedIn(t) ==
  /\ pc[t] = "over"
  /\ t \notin shared
  /\ Goto(t, "leave")
  /\ UNCHANGED <<kernelVars, sessionVars, writeMutex, worldMutex, call, lines>>

\* cmd_connect answers NAME_IN_USE from inside its first critical section,
\* and releases the mutex as it returns.
RefuseOnline(t) ==
  /\ pc[t] = "world"
  /\ t \notin shared
  /\ StartSend(t, t, "unlock")
  /\ UNCHANGED <<kernelVars, sessionVars, writeMutex, worldMutex>>

ReturnRefused(t) ==
  /\ pc[t] = "unlock"
  /\ worldMutex' = None
  /\ Goto(t, "loop")
  /\ UNCHANGED <<kernelVars, sessionVars, writeMutex, call, lines>>

\* A reply that needs no game logic, or a line of a broadcast.
Send(t, s) ==
  /\ s = t \/ s \in shared
  /\ \/ pc[t] = "loop" /\ StartSend(t, s, "loop")
     \/ pc[t] = "leave" /\ t \in shared /\ s # t /\ StartSend(t, s, "leave")
  /\ UNCHANGED <<kernelVars, sessionVars, writeMutex, worldMutex>>

\* QUIT: "OK bye", then connected = false with no lock held.
Quit(t) ==
  /\ pc[t] = "loop"
  /\ StartSend(t, t, "quit")
  /\ UNCHANGED <<kernelVars, sessionVars, writeMutex, worldMutex>>

QuitFlag(t) ==
  /\ pc[t] = "quit"
  /\ connected' = [connected EXCEPT ![t] = FALSE]
  /\ Goto(t, "over")
  /\ UNCHANGED <<kernelVars, socketFd, shared, writeMutex, worldMutex, call, lines>>

\* read_line returns false: end of file, an error, a stalled or endless line.
ReadFails(t) ==
  /\ pc[t] = "loop"
  /\ Goto(t, "over")
  /\ UNCHANGED <<kernelVars, sessionVars, writeMutex, worldMutex, call, lines>>

\* (bug) close() without write_mutex
CloseSessionUnlocked(t) ==
  /\ pc[t] = "leave"
  /\ connected' = [connected EXCEPT ![t] = FALSE]
  /\ fdConn' = [fdConn EXCEPT ![socketFd[t]] = None]
  /\ Goto(t, "done")
  /\ UNCHANGED <<peer, partial, framed, socketFd, shared, writeMutex, worldMutex, call, lines>>

\* connected = false and close(), both under the session's own write_mutex.
CloseSession(t) ==
  /\ pc[t] = "leave"
  /\ writeMutex[t] = None
  /\ connected' = [connected EXCEPT ![t] = FALSE]
  /\ fdConn' = [fdConn EXCEPT ![socketFd[t]] = None]
  /\ Goto(t, "done")
  /\ UNCHANGED <<peer, partial, framed, socketFd, shared, writeMutex, worldMutex, call, lines>>
-----------------------------------------------------------------------------
(* The client's end of the connection *)

PeerGone(c) ==
  /\ pc[c] \notin {"off", "done"}
  /\ peer[c] # "gone"
  /\ peer' = [peer EXCEPT ![c] = "gone"]
  /\ UNCHANGED <<fdConn, partial, framed, sessionVars, writeMutex, worldMutex, pc, call, lines>>

PeerStalls(c) ==
  /\ c \in Stallers
  /\ pc[c] \notin {"off", "done"}
  /\ \/ peer[c] = "reading" /\ peer' = [peer EXCEPT ![c] = "stalled"]
     \/ peer[c] = "stalled" /\ peer' = [peer EXCEPT ![c] = "reading"]
  /\ UNCHANGED <<fdConn, partial, framed, sessionVars, writeMutex, worldMutex, pc, call, lines>>

\* Steps a thread takes by itself.
Step(t) ==
  \/ LockWrite(t) \/ CheckConnected(t) \/ SendPart(t) \/ SendFails(t)
  \/ UnlockWorld(t) \/ ReturnRefused(t) \/ QuitFlag(t) \/ NeverLoggedIn(t)
  \/ pc[t] = "over" /\ LockWorld(t)
  \/ CloseSession(t)

\* What a thread does because of what the client asked.
Serve(t) ==
  \/ Accept(t) \/ Login(t) \/ LockWorld(t) \/ RefuseOnline(t) \/ Quit(t) \/ ReadFails(t)
  \/ \E s \in Conns : Send(t, s)

Next == \E t \in Conns : Step(t) \/ Serve(t) \/ PeerGone(t) \/ PeerStalls(t)

Spec == Init /\ [][Next]_vars

\* Threads are scheduled, and a client that is gone left finitely many
\* commands, so recv() in the end says that it is.  Nothing makes a client
\* send.
Fairness ==
  \A t \in Conns : WF_vars(Step(t)) /\ WF_vars(ReadFails(t) /\ peer[t] = "gone")

FairSpec == Spec /\ Fairness
-----------------------------------------------------------------------------
(* Properties *)

\* Every byte that reaches a client was written for that client's session
\* (the comment in send_line: never send() on a descriptor that has been
\* closed and reassigned by a concurrent accept()).
OnlyOwnBytes ==
  \A c \in Conns :
    /\ \A i \in 1..Len(partial[c]) : partial[c][i].for = c
    /\ \A j \in 1..Len(framed[c]) :
         \A i \in 1..Len(framed[c][j]) : framed[c][j][i].for = c

\* Every line a client cuts at a newline is one line of one thread, with all
\* its parts in order: concurrent broadcasts never splice each other's lines
\* (README, Writes: all outgoing lines go through send_line under write_mutex).
LinesIntact ==
  \A c \in Conns : \A j \in 1..Len(framed[c]) : framed[c][j] \in WholeLines(c)

\* A thread between the check of `connected' and the end of send_all works on
\* a descriptor that still belongs to the session it checked.
NoSendAfterClose ==
  \A t \in Conns : pc[t] = "send" => fdConn[socketFd[call[t].to]] = call[t].to

\* Once a client is gone its thread ends and the descriptor goes back to the
\* kernel, whatever other threads are writing to that session meanwhile, unless
\* some client again and again stops reading: send() has no time limit.
DescriptorReturned ==
  \/ []<>(\E c \in Conns : peer[c] = "stalled")
  \/ \A t \in Conns : (peer[t] = "gone" /\ pc[t] # "off") ~> (pc[t] = "done")

\* No thread is inside send() while it holds World::mutex (world.hpp: hold the
\* mutex never during send()/recv(); common.cpp: never hold a mutex while
\* doing network I/O).
NoSendUnderWorldMutex ==
  \A t \in Conns : pc[t] = "send" => worldMutex # t

\* The connection layer as its callers see it.
ConnState(c) ==
  IF pc[c] = "off" THEN "new" ELSE IF pc[c] = "done" THEN "closed" ELSE "open"

D == INSTANCE Delivery WITH
       LinesFor <- WholeLines,
       state <- [c \in Conns |-> ConnState(c)],
       inbox <- framed

\* Seen from outside, SessionIO delivers whole lines to open connections only.
ImplementsDelivery == D!DSpec
=============================================================================
