-------------------------- MODULE SessionIO_proofs ---------------------------
(***************************************************************************)
(* No line reaches a connection it was not written for, and every line     *)
(* that does is whole, for any number of connections and descriptors.  The *)
(* argument is the one of the comments in send_line and client_loop: a     *)
(* thread that sends holds the write_mutex of the session, it has seen     *)
(* `connected' true since it took it, and close() needs the same mutex; so *)
(* the session is still open, an open session's descriptor number stands   *)
(* for that session, and nobody else sends to it before the line is ended. *)
(***************************************************************************)
EXTENDS SessionIO, TLAPS

\* Between LockWrite and Unlock a thread holds the mutex of the session it
\* writes to.
Holds == \A t \in Conns : pc[t] \in {"check", "send"} => writeMutex[call[t].to] = t

\* From accept() to close() a descriptor number stands for its connection.
OpenOwnsFd ==
  \A c \in Conns : pc[c] \notin {"off", "done"} =>
    socketFd[c] \in Fds /\ fdConn[socketFd[c]] = c

\* Threads write to sessions that exist.
Started ==
  /\ \A c \in shared : pc[c] # "off"
  /\ \A t \in Conns : pc[t] \in {"lock", "check", "send"} => pc[call[t].to] # "off"

\* `connected' is false once the connection is closed, and a thread that found
\* it true sends before that.
ClosedIsNotConnected == \A c \in Conns : pc[c] = "done" => ~connected[c]

SendingIsOpen == \A t \in Conns : pc[t] = "send" => pc[call[t].to] # "done"

Locking == Holds /\ OpenOwnsFd /\ Started /\ ClosedIsNotConnected /\ SendingIsOpen

\* A thread that is sending does so on the descriptor of the session it names.
LEMMA LockingProtects == TypeOK /\ Locking => NoSendAfterClose
BY DEF TypeOK, Call, Locking, OpenOwnsFd, Started, SendingIsOpen, NoSendAfterClose

-----------------------------------------------------------------------------
LEMMA InitLocking == Init => TypeOK /\ Locking /\ OnlyOwnBytes
BY SessionIOAssumption
   DEF Init, TypeOK, Labels, Returns, Call, Locking, Holds, OpenOwnsFd, Started,
       ClosedIsNotConnected, SendingIsOpen, OnlyOwnBytes

LEMMA CallTarget == TypeOK => \A t \in Conns : call[t].to \in Conns
BY DEF TypeOK, Call

LEMMA StartSendType ==
  ASSUME TypeOK, NEW t \in Conns, NEW s \in Conns, NEW back \in Returns,
         StartSend(t, s, back)
  PROVE  /\ pc' \in [Conns -> Labels]
         /\ call' \in [Conns -> Call]
         /\ lines' \in [Conns -> Nat]
<1>1. [to |-> s, part |-> 1, back |-> back] \in Call
  BY SessionIOAssumption DEF Call
<1> QED
  BY <1>1 DEF StartSend, Goto, TypeOK, Labels

LEMMA UnlockType ==
  ASSUME TypeOK, NEW t \in Conns, Unlock(t)
  PROVE  /\ writeMutex' \in [Conns -> Conns \cup {None}]
         /\ pc' \in [Conns -> Labels]
<1>1. call[t].back \in Labels
  BY DEF TypeOK, Call, Labels
<1> QED
  BY <1>1 DEF Unlock, Goto, TypeOK

LEMMA ArriveType ==
  ASSUME TypeOK, NEW c \in Conns, NEW part \in Part, Arrive(c, part)
  PROVE  partial' \in [Conns -> Seq(Part)] /\ framed' \in [Conns -> Seq(Seq(Part))]
<1>1. Append(partial[c], part) \in Seq(Part)
  BY DEF TypeOK
<1>2. Append(framed[c], Append(partial[c], part)) \in Seq(Seq(Part))
  BY <1>1 DEF TypeOK
<1>3. << >> \in Seq(Part)
  OBVIOUS
<1> QED
  BY <1>1, <1>2, <1>3 DEF Arrive, TypeOK

\* Types are kept by every step.
LEMMA NextTypeOK == TypeOK /\ Locking /\ [Next]_vars => TypeOK'
<1> SUFFICES ASSUME TypeOK, Locking, [Next]_vars PROVE TypeOK'
  OBVIOUS
<1> USE DEF kernelVars, sessionVars
<1>1. CASE UNCHANGED vars
  BY <1>1 DEF vars, TypeOK
<1>2. ASSUME NEW t \in Conns, LockWrite(t) PROVE TypeOK'
  BY <1>2 DEF LockWrite, Goto, TypeOK, Labels, Call
<1>3. ASSUME NEW t \in Conns, CheckConnected(t) PROVE TypeOK'
  BY <1>3, UnlockType DEF CheckConnected, Goto, TypeOK, Labels
<1>4. ASSUME NEW t \in Conns, SendPart(t) PROVE TypeOK'
  <2> DEFINE s == call[t].to
             c == fdConn[socketFd[s]]
             part == [for |-> s, by |-> t, n |-> lines[t], k |-> call[t].part]
  <2>1. /\ pc[t] = "send" /\ c # None /\ peer[c] = "reading" /\ Arrive(c, part)
        /\ IF call[t].part = Parts
           THEN Unlock(t) /\ UNCHANGED call
           ELSE call' = [call EXCEPT ![t].part = @ + 1] /\ UNCHANGED <<writeMutex, pc>>
        /\ UNCHANGED <<fdConn, peer, sessionVars, worldMutex, lines>>
    BY <1>4 DEF SendPart
  <2>2. call[t] \in Call /\ part \in Part
    BY DEF TypeOK, Call, Part
  <2>3. partial' \in [Conns -> Seq(Part)] /\ framed' \in [Conns -> Seq(Seq(Part))]
    <3>1. c = s /\ s \in Conns
      BY <2>1, <2>2, LockingProtects DEF NoSendAfterClose, Call
    <3> QED
      BY <2>1, <2>2, <3>1, ArriveType
  <2>4. call' \in [Conns -> Call] /\ pc' \in [Conns -> Labels]
        /\ writeMutex' \in [Conns -> Conns \cup {None}]
    <3>1. CASE call[t].part = Parts
      BY <2>1, <3>1, UnlockType DEF TypeOK
    <3>2. CASE call[t].part # Parts
      <4>1. call[t].part + 1 \in 1..Parts
        BY <2>2, <3>2, SessionIOAssumption DEF Call
      <4>2. [call[t] EXCEPT !.part = @ + 1] \in Call
        BY <2>2, <4>1 DEF Call
      <4> QED
        BY <2>1, <3>2, <4>2 DEF TypeOK
    <3> QED
      BY <3>1, <3>2
  <2> QED
    BY <2>1, <2>3, <2>4 DEF TypeOK
<1>5. ASSUME NEW t \in Conns, SendFails(t) PROVE TypeOK'
  BY <1>5, UnlockType DEF SendFails, TypeOK
<1>6. ASSUME NEW t \in Conns, UnlockWorld(t) PROVE TypeOK'
  BY <1>6, StartSendType DEF UnlockWorld, Goto, TypeOK, Labels, Returns
<1>7. ASSUME NEW t \in Conns, ReturnRefused(t) PROVE TypeOK'
  BY <1>7 DEF ReturnRefused, Goto, TypeOK, Labels, Returns
<1>8. ASSUME NEW t \in Conns, QuitFlag(t) PROVE TypeOK'
  BY <1>8 DEF QuitFlag, Goto, TypeOK, Labels
<1>9. ASSUME NEW t \in Conns, NeverLoggedIn(t) PROVE TypeOK'
  BY <1>9 DEF NeverLoggedIn, Goto, TypeOK, Labels, Returns
<1>10. ASSUME NEW t \in Conns, LockWorld(t) PROVE TypeOK'
  BY <1>10 DEF LockWorld, Goto, TypeOK, Labels
<1>11. ASSUME NEW t \in Conns, CloseSession(t) PROVE TypeOK'
  BY <1>11 DEF CloseSession, Goto, TypeOK, Labels
<1>12. ASSUME NEW t \in Conns, Accept(t) PROVE TypeOK'
  <2>1. fdConn' \in [Fds -> Conns \cup {None}] /\ socketFd' \in [Conns -> Fds \cup {None}]
    BY <1>12 DEF Accept, TypeOK
  <2>2. pc' \in [Conns -> Labels] /\ call' \in [Conns -> Call] /\ lines' \in [Conns -> Nat]
    BY <1>12, StartSendType DEF Accept, Returns
  <2> QED BY <1>12, <2>1, <2>2 DEF Accept, TypeOK
<1>13. ASSUME NEW t \in Conns, Login(t) PROVE TypeOK'
  BY <1>13 DEF Login, TypeOK
<1>14. ASSUME NEW t \in Conns, RefuseOnline(t) PROVE TypeOK'
  BY <1>14, StartSendType DEF RefuseOnline, TypeOK, Returns
<1>15. ASSUME NEW t \in Conns, Quit(t) PROVE TypeOK'
  BY <1>15, StartSendType DEF Quit, TypeOK, Returns
<1>16. ASSUME NEW t \in Conns, ReadFails(t) PROVE TypeOK'
  BY <1>16 DEF ReadFails, Goto, TypeOK, Labels
<1>17. ASSUME NEW t \in Conns, NEW s \in Conns, Send(t, s) PROVE TypeOK'
  BY <1>17, StartSendType DEF Send, TypeOK, Returns
<1>18. ASSUME NEW t \in Conns, PeerGone(t) \/ PeerStalls(t) PROVE TypeOK'
  BY <1>18 DEF PeerGone, PeerStalls, TypeOK
<1> QED
  BY <1>1, <1>2, <1>3, <1>4, <1>5, <1>6, <1>7, <1>8, <1>9, <1>10, <1>11, <1>12, <1>13,
     <1>14, <1>15, <1>16, <1>17, <1>18 DEF Next, Step, Serve
-----------------------------------------------------------------------------
(* The locking discipline is kept by every step *)

\* What StartSend leaves: the thread waits for the mutex of a session that was
\* accepted, and no other thread moved.
LEMMA StartSendKeeps ==
  ASSUME TypeOK, Locking, NEW t \in Conns, NEW s \in Conns, NEW back \in Returns,
         StartSend(t, s, back), pc[t] \notin {"off", "done"}, pc[s] # "off",
         UNCHANGED <<fdConn, sessionVars, writeMutex>>
  PROVE  Locking'
<1>1. /\ pc' = [pc EXCEPT ![t] = "lock"]
      /\ call' = [call EXCEPT ![t] = [to |-> s, part |-> 1, back |-> back]]
  BY DEF StartSend, Goto
<1>2. \A u \in Conns : u # t => pc'[u] = pc[u] /\ call'[u] = call[u]
  BY <1>1 DEF TypeOK
<1>3. pc'[t] = "lock" /\ call'[t].to = s
  BY <1>1 DEF TypeOK
<1>4. \A u \in Conns : call[u].to \in Conns
  BY CallTarget
<1>5. Holds' /\ SendingIsOpen'
  BY <1>2, <1>3, <1>4 DEF sessionVars, Locking, Holds, SendingIsOpen
<1>6. OpenOwnsFd' /\ ClosedIsNotConnected'
  BY <1>2, <1>3 DEF sessionVars, Locking, OpenOwnsFd, ClosedIsNotConnected
<1>7. \A c \in Conns : pc[c] # "off" => pc'[c] # "off"
  BY <1>2, <1>3
<1>8. shared' \subseteq Conns /\ shared' = shared
  BY DEF TypeOK, sessionVars
<1>9. Started'
  BY <1>2, <1>3, <1>4, <1>7, <1>8 DEF Locking, Started
<1> QED
  BY <1>5, <1>6, <1>9 DEF Locking

\* What Unlock leaves: the mutex that is released is one the thread held, so
\* the mutexes other threads hold are still theirs.
LEMMA UnlockKeeps ==
  ASSUME TypeOK, Locking, NEW t \in Conns, Unlock(t), pc[t] \in {"check", "send"},
         UNCHANGED <<fdConn, sessionVars, call>>
  PROVE  Locking'
<1>1. call[t].back \in Returns /\ call[t].to \in Conns
  BY DEF TypeOK, Call
<1>2. /\ \A u \in Conns : u # t => pc'[u] = pc[u]
      /\ pc'[t] \in Returns
      /\ \A c \in Conns : c # call[t].to => writeMutex'[c] = writeMutex[c]
  BY <1>1 DEF Unlock, Goto, TypeOK
<1>3. Holds'
  <2> SUFFICES ASSUME NEW u \in Conns, pc'[u] \in {"check", "send"}
               PROVE  writeMutex'[call[u].to] = u
    BY DEF Holds
  <2>1. u # t /\ writeMutex[call[u].to] = u /\ writeMutex[call[t].to] = t
    BY <1>2 DEF Locking, Holds, Returns
  <2> QED
    BY <1>2, <2>1 DEF TypeOK, Call
<1>4. \A u \in Conns : pc'[u] \in {"off", "done", "lock", "check", "send"} => pc'[u] = pc[u]
  BY <1>2 DEF Returns
<1>5. OpenOwnsFd'
  BY <1>2 DEF sessionVars, Locking, OpenOwnsFd
<1>6. Started'
  BY <1>4, CallTarget DEF TypeOK, sessionVars, Locking, Started
<1>7. ClosedIsNotConnected'
  BY <1>4 DEF sessionVars, Locking, ClosedIsNotConnected
<1>8. SendingIsOpen'
  BY <1>4, CallTarget DEF Locking, SendingIsOpen
<1> QED
  BY <1>3, <1>5, <1>6, <1>7, <1>8 DEF Locking

\* A thread goes from one label to another outside send_line.
LEMMA GotoKeeps ==
  ASSUME TypeOK, Locking, NEW t \in Conns, NEW label \in Labels, Goto(t, label),
         pc[t] \notin {"off", "done"},
         label \notin {"off", "lock", "check", "send", "done"},
         UNCHANGED <<fdConn, socketFd, shared, writeMutex, call>>,
         \A c \in Conns : pc[c] = "done" => connected'[c] = connected[c]
  PROVE  Locking'
<1>1. pc' = [pc EXCEPT ![t] = label]
  BY DEF Goto
<1>2. \A u \in Conns : pc'[u] = IF u = t THEN label ELSE pc[u]
  BY <1>1 DEF TypeOK
<1>3. \A u \in Conns : call[u].to \in Conns
  BY CallTarget
<1>4. Holds' /\ SendingIsOpen'
  BY <1>2, <1>3 DEF Locking, Holds, SendingIsOpen
<1>5. OpenOwnsFd' /\ ClosedIsNotConnected'
  BY <1>2 DEF Locking, OpenOwnsFd, ClosedIsNotConnected
<1>6. \A c \in Conns : pc[c] # "off" => pc'[c] # "off"
  BY <1>2
<1>7. shared \subseteq Conns
  BY DEF TypeOK
<1>8. Started'
  BY <1>2, <1>3, <1>6, <1>7 DEF Locking, Started
<1> QED
  BY <1>4, <1>5, <1>8 DEF Locking

\* connected = false and close() happen with the mutex of the session free: no
\* thread is sending to it.
LEMMA CloseSessionKeeps ==
  ASSUME TypeOK, Locking, NEW t \in Conns, CloseSession(t)
  PROVE  Locking'
<1>1. /\ pc[t] = "leave" /\ writeMutex[t] = None
      /\ \A u \in Conns : pc'[u] = IF u = t THEN "done" ELSE pc[u]
      /\ \A u \in Conns : connected'[u] = IF u = t THEN FALSE ELSE connected[u]
      /\ fdConn' = [fdConn EXCEPT ![socketFd[t]] = None]
      /\ UNCHANGED <<socketFd, shared, writeMutex, call>>
  BY DEF CloseSession, Goto, TypeOK
<1>2. Holds'
  BY <1>1 DEF Locking, Holds
<1>3. OpenOwnsFd'
  <2> SUFFICES ASSUME NEW c \in Conns, pc'[c] \notin {"off", "done"}
               PROVE  socketFd[c] \in Fds /\ fdConn'[socketFd[c]] = c
    BY <1>1 DEF OpenOwnsFd
  <2>1. c # t /\ socketFd[c] \in Fds /\ fdConn[socketFd[c]] = c
    BY <1>1 DEF Locking, OpenOwnsFd
  <2>2. socketFd[t] \in Fds /\ fdConn[socketFd[t]] = t
    BY <1>1 DEF Locking, OpenOwnsFd
  <2> QED
    BY <1>1, <2>1, <2>2 DEF TypeOK
<1>4. Started'
  <2>1. \A c \in Conns : pc[c] # "off" => pc'[c] # "off"
    BY <1>1
  <2>2. shared \subseteq Conns
    BY DEF TypeOK
  <2> QED
    BY <1>1, <2>1, <2>2, CallTarget DEF Locking, Started
<1>5. ClosedIsNotConnected'
  BY <1>1 DEF Locking, ClosedIsNotConnected
<1>6. SendingIsOpen'
  <2>1. \A u \in Conns : pc[u] = "send" => call[u].to # t
    BY <1>1, SessionIOAssumption DEF Locking, Holds
  <2> QED
    BY <1>1, <2>1, CallTarget DEF Locking, SendingIsOpen
<1> QED
  BY <1>2, <1>3, <1>4, <1>5, <1>6 DEF Locking

\* accept() takes a number that stands for no connection.
LEMMA AcceptKeeps ==
  ASSUME TypeOK, Locking, NEW t \in Conns, Accept(t)
  PROVE  Locking'
<1>1. PICK f \in Fds : /\ fdConn[f] = None
                       /\ fdConn' = [fdConn EXCEPT ![f] = t]
                       /\ socketFd' = [socketFd EXCEPT ![t] = f]
  BY DEF Accept
<1>2. /\ pc[t] = "off"
      /\ \A u \in Conns : pc'[u] = IF u = t THEN "lock" ELSE pc[u]
      /\ \A u \in Conns : u # t => call'[u] = call[u]
      /\ call'[t].to = t
      /\ UNCHANGED <<connected, shared, writeMutex>>
  <2>1. /\ pc[t] = "off" /\ pc' = [pc EXCEPT ![t] = "lock"]
        /\ call' = [call EXCEPT ![t] = [to |-> t, part |-> 1, back |-> "loop"]]
        /\ UNCHANGED <<connected, shared, writeMutex>>
    BY DEF Accept, StartSend, Goto
  <2>2. \A u \in Conns : pc'[u] = IF u = t THEN "lock" ELSE pc[u]
    BY <2>1 DEF TypeOK
  <2>3. /\ \A u \in Conns : u # t => call'[u] = call[u]
        /\ call'[t].to = t
    BY <2>1 DEF TypeOK
  <2> QED BY <2>1, <2>2, <2>3
<1>3. OpenOwnsFd'
  <2>1. \A c \in Conns : c # t /\ pc'[c] \notin {"off", "done"} => socketFd[c] # f
    BY <1>1, <1>2, SessionIOAssumption DEF Locking, OpenOwnsFd
  <2> QED
    BY <1>1, <1>2, <2>1 DEF TypeOK, Locking, OpenOwnsFd
<1>4. Holds'
  BY <1>2 DEF Locking, Holds
<1>5. Started'
  <2>1. \A c \in Conns : pc[c] # "off" => pc'[c] # "off"
    BY <1>2
  <2>2. shared \subseteq Conns
    BY DEF TypeOK
  <2> QED
    BY <1>2, <2>1, <2>2, CallTarget DEF Locking, Started
<1>6. ClosedIsNotConnected'
  BY <1>2 DEF Locking, ClosedIsNotConnected
<1>7. SendingIsOpen'
  BY <1>2, CallTarget DEF Locking, SendingIsOpen
<1> QED
  BY <1>3, <1>4, <1>5, <1>6, <1>7 DEF Locking

LEMMA NextLocking == TypeOK /\ Locking /\ [Next]_vars => Locking'
<1> SUFFICES ASSUME TypeOK, Locking, [Next]_vars PROVE Locking'
  OBVIOUS
<1> USE DEF kernelVars, sessionVars
<1>1. CASE UNCHANGED vars
  BY <1>1
     DEF vars, Locking, Holds, OpenOwnsFd, Started, ClosedIsNotConnected, SendingIsOpen
<1>2. ASSUME NEW t \in Conns, LockWrite(t) PROVE Locking'
  <2>1. /\ pc[t] = "lock" /\ writeMutex[call[t].to] = None /\ call[t].to \in Conns
        /\ \A u \in Conns : pc'[u] = IF u = t THEN "check" ELSE pc[u]
        /\ \A c \in Conns :
             writeMutex'[c] = IF c = call[t].to THEN t ELSE writeMutex[c]
        /\ UNCHANGED <<fdConn, sessionVars, call>>
    BY <1>2 DEF LockWrite, Goto, TypeOK, Call
  <2>2. Holds'
    <3>1. \A u \in Conns : pc[u] \in {"check", "send"} => call[u].to # call[t].to
      BY <2>1, SessionIOAssumption DEF Locking, Holds
    <3> QED
      BY <2>1, <3>1, CallTarget DEF Locking, Holds
  <2>3. OpenOwnsFd'
    BY <2>1 DEF Locking, OpenOwnsFd
  <2>4. Started'
    <3>1. /\ \A c \in Conns : pc[c] # "off" => pc'[c] # "off"
          /\ \A u \in Conns : pc'[u] \in {"lock", "check", "send"} =>
                              pc[u] \in {"lock", "check", "send"}
      BY <2>1
    <3> QED
      BY <2>1, <3>1, CallTarget DEF TypeOK, Locking, Started
  <2>5. ClosedIsNotConnected'
    BY <2>1 DEF Locking, ClosedIsNotConnected
  <2>6. SendingIsOpen'
    BY <2>1, CallTarget DEF Locking, SendingIsOpen
  <2> QED
    BY <2>2, <2>3, <2>4, <2>5, <2>6 DEF Locking
<1>3. ASSUME NEW t \in Conns, CheckConnected(t) PROVE Locking'
  <2>1. CASE ~connected[call[t].to]
    BY <1>3, <2>1, UnlockKeeps DEF CheckConnected
  <2>2. CASE connected[call[t].to]
    <3>1. /\ pc[t] = "check" /\ call[t].to \in Conns
          /\ \A u \in Conns : pc'[u] = IF u = t THEN "send" ELSE pc[u]
          /\ UNCHANGED <<fdConn, sessionVars, writeMutex, call>>
      BY <1>3, <2>2 DEF CheckConnected, Goto, TypeOK, Call
    <3>2. Holds'
      BY <3>1 DEF Locking, Holds
    <3>3. OpenOwnsFd'
      BY <3>1 DEF Locking, OpenOwnsFd
    <3>4. Started'
      <4>1. \A c \in Conns : pc[c] # "off" => pc'[c] # "off"
        BY <3>1
      <4>2. shared \subseteq Conns
        BY DEF TypeOK
      <4> QED
        BY <3>1, <4>1, <4>2, CallTarget DEF Locking, Started
    <3>5. ClosedIsNotConnected'
      BY <3>1 DEF Locking, ClosedIsNotConnected
    <3>6. SendingIsOpen'
      <4>1. pc[call[t].to] # "done"
        BY <2>2, <3>1 DEF Locking, ClosedIsNotConnected
      <4> QED
        BY <3>1, <4>1, CallTarget DEF Locking, SendingIsOpen
    <3> QED
      BY <3>2, <3>3, <3>4, <3>5, <3>6 DEF Locking
  <2> QED
    BY <2>1, <2>2
<1>4. ASSUME NEW t \in Conns, SendPart(t) PROVE Locking'
  <2>1. CASE call[t].part = Parts
    BY <1>4, <2>1, UnlockKeeps DEF SendPart
  <2>2. CASE call[t].part # Parts
    <3>1. \A u \in Conns : call'[u].to = call[u].to
      <4>1. call' = [call EXCEPT ![t].part = @ + 1]
        BY <1>4, <2>2 DEF SendPart
      <4>2. call[t] \in [to : Conns, part : 1..Parts, back : Returns]
        BY DEF TypeOK, Call
      <4> QED
        BY <4>1, <4>2 DEF TypeOK
    <3>2. UNCHANGED <<pc, fdConn, sessionVars, writeMutex>>
      BY <1>4, <2>2 DEF SendPart
    <3> QED
      BY <3>1, <3>2
         DEF TypeOK, Locking, Holds, OpenOwnsFd, Started, ClosedIsNotConnected, SendingIsOpen
  <2> QED
    BY <2>1, <2>2
<1>5. ASSUME NEW t \in Conns, SendFails(t) PROVE Locking'
  BY <1>5, UnlockKeeps DEF SendFails
<1>6. ASSUME NEW t \in Conns, UnlockWorld(t) PROVE Locking'
  <2>1. CASE pc[t] = "world"
    BY <1>6, <2>1, StartSendKeeps DEF UnlockWorld, Returns
  <2>2. CASE pc[t] = "worldLeave"
    BY <1>6, <2>2, GotoKeeps DEF UnlockWorld, Labels, Returns
  <2> QED
    BY <1>6, <2>1, <2>2 DEF UnlockWorld
<1>7. ASSUME NEW t \in Conns, ReturnRefused(t) PROVE Locking'
  BY <1>7, GotoKeeps DEF ReturnRefused, Labels, Returns
<1>8. ASSUME NEW t \in Conns, QuitFlag(t) PROVE Locking'
  <2>1. \A c \in Conns : pc[c] = "done" => connected'[c] = connected[c]
    BY <1>8 DEF QuitFlag, TypeOK
  <2> QED
    BY <1>8, <2>1, GotoKeeps DEF QuitFlag, Labels
<1>9. ASSUME NEW t \in Conns, NeverLoggedIn(t) PROVE Locking'
  BY <1>9, GotoKeeps DEF NeverLoggedIn, Labels, Returns
<1>10. ASSUME NEW t \in Conns, LockWorld(t) PROVE Locking'
  BY <1>10, GotoKeeps DEF LockWorld, Labels
<1>11. ASSUME NEW t \in Conns, CloseSession(t) PROVE Locking'
  BY <1>11, CloseSessionKeeps
<1>12. ASSUME NEW t \in Conns, Accept(t) PROVE Locking'
  BY <1>12, AcceptKeeps
<1>13. ASSUME NEW t \in Conns, Login(t) PROVE Locking'
  BY <1>13
     DEF Login, TypeOK, Locking, Holds, OpenOwnsFd, Started, ClosedIsNotConnected, SendingIsOpen
<1>14. ASSUME NEW t \in Conns, RefuseOnline(t) PROVE Locking'
  BY <1>14, StartSendKeeps DEF RefuseOnline, Returns
<1>15. ASSUME NEW t \in Conns, Quit(t) PROVE Locking'
  BY <1>15, StartSendKeeps DEF Quit, Returns
<1>16. ASSUME NEW t \in Conns, ReadFails(t) PROVE Locking'
  BY <1>16, GotoKeeps DEF ReadFails, Labels
<1>17. ASSUME NEW t \in Conns, NEW s \in Conns, Send(t, s) PROVE Locking'
  <2>1. pc[t] \in {"loop", "leave"} /\ pc[s] # "off"
    BY <1>17 DEF Send, Locking, Started
  <2> QED
    BY <1>17, <2>1, StartSendKeeps DEF Send, Returns
<1>18. ASSUME NEW t \in Conns, PeerGone(t) \/ PeerStalls(t) PROVE Locking'
  BY <1>18
     DEF PeerGone, PeerStalls, Locking, Holds, OpenOwnsFd, Started, ClosedIsNotConnected,
         SendingIsOpen
<1> QED
  BY <1>1, <1>2, <1>3, <1>4, <1>5, <1>6, <1>7, <1>8, <1>9, <1>10, <1>11, <1>12, <1>13,
     <1>14, <1>15, <1>16, <1>17, <1>18 DEF Next, Step, Serve
-----------------------------------------------------------------------------
(* What reaches a client *)

\* A part written for c keeps what the client of c got its own.
LEMMA ArriveKeeps ==
  ASSUME TypeOK, OnlyOwnBytes, NEW c \in Conns, NEW part \in Part, part.for = c,
         Arrive(c, part)
  PROVE  OnlyOwnBytes'
<1> DEFINE line == Append(partial[c], part)
<1>1. partial[c] \in Seq(Part) /\ framed[c] \in Seq(Seq(Part))
  BY DEF TypeOK
<1>2. /\ line \in Seq(Part)
      /\ \A i \in 1..Len(line) : line[i].for = c
  BY <1>1 DEF OnlyOwnBytes
<1>3. \A d \in Conns : d # c => partial'[d] = partial[d] /\ framed'[d] = framed[d]
  BY DEF Arrive, TypeOK
<1>4. \A i \in 1..Len(partial'[c]) : partial'[c][i].for = c
  <2>1. partial'[c] = IF part.k = Parts THEN << >> ELSE line
    BY DEF Arrive, TypeOK
  <2> QED
    BY <1>2, <2>1
<1>5. \A j \in 1..Len(framed'[c]) : \A i \in 1..Len(framed'[c][j]) : framed'[c][j][i].for = c
  <2>1. framed'[c] = IF part.k = Parts THEN Append(framed[c], line) ELSE framed[c]
    BY DEF Arrive, TypeOK
  <2>2. \A j \in 1..Len(framed[c]) : \A i \in 1..Len(framed[c][j]) : framed[c][j][i].for = c
    BY DEF OnlyOwnBytes
  <2> HIDE DEF line
  <2>3. CASE part.k = Parts
    <3>1. /\ Len(framed'[c]) = Len(framed[c]) + 1
          /\ \A j \in 1..Len(framed[c]) : framed'[c][j] = framed[c][j]
          /\ framed'[c][Len(framed[c]) + 1] = line
      BY <1>1, <1>2, <2>1, <2>3
    <3>2. \A j \in 1..Len(framed'[c]) : j \in 1..Len(framed[c]) \/ j = Len(framed[c]) + 1
      BY <1>1, <3>1
    <3>3. ASSUME NEW j \in 1..Len(framed'[c])
          PROVE  \A i \in 1..Len(framed'[c][j]) : framed'[c][j][i].for = c
      <4>1. CASE j \in 1..Len(framed[c])
        <5>1. framed'[c][j] = framed[c][j]
          BY <3>1, <4>1
        <5> QED BY <2>2, <4>1, <5>1
      <4>2. CASE j = Len(framed[c]) + 1
        <5>1. framed'[c][j] = line
          BY <3>1, <4>2
        <5> QED BY <1>2, <5>1
      <4> QED BY <3>2, <4>1, <4>2
    <3> QED BY <3>3
  <2>4. CASE part.k # Parts
    BY <2>1, <2>2, <2>4
  <2> QED
    BY <2>3, <2>4
<1> QED
  BY <1>3, <1>4, <1>5 DEF OnlyOwnBytes

LEMMA NextOwnBytes == TypeOK /\ Locking /\ OnlyOwnBytes /\ [Next]_vars => OnlyOwnBytes'
<1> SUFFICES ASSUME TypeOK, Locking, OnlyOwnBytes, [Next]_vars PROVE OnlyOwnBytes'
  OBVIOUS
<1>1. ASSUME NEW t \in Conns, SendPart(t) PROVE OnlyOwnBytes'
  <2> DEFINE s == call[t].to
             part == [for |-> s, by |-> t, n |-> lines[t], k |-> call[t].part]
  <2>1. pc[t] = "send" /\ Arrive(fdConn[socketFd[s]], part)
    BY <1>1 DEF SendPart
  <2>2. fdConn[socketFd[s]] = s /\ s \in Conns
    BY <2>1, LockingProtects, CallTarget DEF NoSendAfterClose
  <2>3. part \in Part /\ part.for = s
    BY DEF TypeOK, Call, Part
  <2> QED
    BY <2>1, <2>2, <2>3, ArriveKeeps
<1>2. CASE UNCHANGED <<partial, framed>>
  <2>1. partial' = partial /\ framed' = framed
    BY <1>2
  <2>2. /\ \A c \in Conns : \A i \in 1..Len(partial[c]) : partial[c][i].for = c
        /\ \A c \in Conns : \A j \in 1..Len(framed[c]) :
             \A i \in 1..Len(framed[c][j]) : framed[c][j][i].for = c
    BY DEF OnlyOwnBytes
  <2> QED BY <2>1, <2>2 DEF OnlyOwnBytes
<1>3. (\A t \in Conns : ~SendPart(t)) => UNCHANGED <<partial, framed>>
  BY DEF Next, Step, Serve, LockWrite, CheckConnected, SendFails, UnlockWorld,
         ReturnRefused, QuitFlag, NeverLoggedIn, LockWorld, CloseSession, Accept, Login,
         RefuseOnline, Quit, ReadFails, Send, PeerGone, PeerStalls, vars, kernelVars
<1> QED
  BY <1>1, <1>2, <1>3
-----------------------------------------------------------------------------
(* What a client has of a line *)

\* The first m parts of the line thread t is writing to c.
Begun(c, t, m) == [k \in 1..m |-> [for |-> c, by |-> t, n |-> lines[t], k |-> k]]

Sending(t, c) == pc[t] = "send" /\ call[t].to = c

\* As long as the client of c reads, what it has since its last newline is what
\* the one thread that sends to it has sent of its line.
PartialIsBegun ==
  \A c \in Conns : peer[c] # "gone" =>
    /\ \A t \in Conns : Sending(t, c) => partial[c] = Begun(c, t, call[t].part - 1)
    /\ (\A t \in Conns : ~Sending(t, c)) => partial[c] = << >>

\* A line starts with its first part, and threads write no more than MaxLines.
AtFirstPart == \A t \in Conns : pc[t] \in {"lock", "check"} => call[t].part = 1

LinesCounted ==
  \A t \in Conns : lines[t] <= MaxLines /\ (pc[t] \in {"lock", "check", "send"} => lines[t] >= 1)

Splicing == PartialIsBegun /\ AtFirstPart /\ LinesCounted

\* At most one thread is sending to a client, and that client is connected to the
\* number it sends on.
LEMMA OneSends ==
  ASSUME Locking, NEW c \in Conns, NEW t \in Conns, NEW u \in Conns,
         pc[t] \in {"check", "send"}, call[t].to = c,
         pc[u] \in {"check", "send"}, call[u].to = c
  PROVE  t = u
BY DEF Locking, Holds

LEMMA BegunNothing == \A c, t : Begun(c, t, 0) = << >>
BY DEF Begun

LEMMA BegunType ==
  ASSUME TypeOK, NEW c \in Conns, NEW t \in Conns, NEW m \in 0..Parts
  PROVE  Begun(c, t, m) \in Seq(Part) /\ Len(Begun(c, t, m)) = m
<1>1. \A k \in 1..m : [for |-> c, by |-> t, n |-> lines[t], k |-> k] \in Part
  BY SessionIOAssumption DEF TypeOK, Part
<1> QED BY <1>1, SessionIOAssumption DEF Begun

LEMMA BegunNext ==
  ASSUME TypeOK, NEW c \in Conns, NEW t \in Conns, NEW m \in 1..Parts
  PROVE  Append(Begun(c, t, m - 1), [for |-> c, by |-> t, n |-> lines[t], k |-> m])
           = Begun(c, t, m)
<1> DEFINE part == [for |-> c, by |-> t, n |-> lines[t], k |-> m]
           longer == Append(Begun(c, t, m - 1), part)
<1>1. m - 1 \in 0..Parts /\ m - 1 \in Nat /\ m \in 0..Parts
  BY SessionIOAssumption
<1>2. Begun(c, t, m - 1) \in Seq(Part) /\ Len(Begun(c, t, m - 1)) = m - 1
  BY <1>1, BegunType
<1>3. part \in Part
  BY SessionIOAssumption DEF TypeOK, Part
<1>4. /\ longer \in Seq(Part) /\ Len(longer) = m
      /\ \A k \in 1..m : longer[k] = IF k <= m - 1 THEN Begun(c, t, m - 1)[k] ELSE part
  BY <1>1, <1>2, <1>3
<1>5. \A k \in 1..m : longer[k] = [for |-> c, by |-> t, n |-> lines[t], k |-> k]
  BY <1>1, <1>4 DEF Begun
<1>6. longer = [k \in 1..m |-> longer[k]]
  BY <1>4
<1> HIDE DEF longer
<1> QED BY <1>5, <1>6 DEF Begun

\* Apart from three steps inside send_line, who is sending what stays as it is.
LEMMA ElseSendingStays ==
  ASSUME TypeOK, [Next]_vars,
         \A t \in Conns : ~SendPart(t) /\ ~CheckConnected(t) /\ ~SendFails(t)
  PROVE  /\ UNCHANGED <<partial, framed>>
         /\ \A c \in Conns : peer[c] = "gone" => peer'[c] = "gone"
         /\ \A t \in Conns : /\ pc'[t] = "send" <=> pc[t] = "send"
                             /\ pc[t] = "send" => call'[t] = call[t] /\ lines'[t] = lines[t]
<1> USE DEF kernelVars, sessionVars
<1>1. CASE UNCHANGED vars
  BY <1>1 DEF vars
<1>2. ASSUME NEW t \in Conns, Step(t)
      PROVE  /\ UNCHANGED <<partial, framed, peer>>
             /\ \A u \in Conns : u # t => UNCHANGED <<pc[u], call[u], lines[u]>>
             /\ pc[t] # "send" /\ pc'[t] # "send"
  BY <1>2 DEF Step, LockWrite, UnlockWorld, ReturnRefused, QuitFlag, NeverLoggedIn, LockWorld,
              CloseSession, StartSend, Goto, TypeOK
<1>3. ASSUME NEW t \in Conns, Serve(t)
      PROVE  /\ UNCHANGED <<partial, framed, peer>>
             /\ \A u \in Conns : u # t => UNCHANGED <<pc[u], call[u], lines[u]>>
             /\ pc'[t] # "send"
             /\ pc[t] # "send"
  BY <1>3 DEF Serve, Accept, Login, LockWorld, RefuseOnline, Quit, ReadFails, Send, StartSend,
              Goto, TypeOK
<1>4. ASSUME NEW t \in Conns, PeerGone(t) \/ PeerStalls(t)
      PROVE  /\ UNCHANGED <<partial, framed, pc, call, lines>>
             /\ \A c \in Conns : peer[c] = "gone" => peer'[c] = "gone"
  BY <1>4 DEF PeerGone, PeerStalls, TypeOK
<1> QED BY <1>1, <1>2, <1>3, <1>4 DEF Next

\* What a thread inside send_all does to the client it writes to.
LEMMA SendPartIs ==
  ASSUME TypeOK, Locking, Splicing, NEW t \in Conns, SendPart(t)
  PROVE  LET c == call[t].to
             m == call[t].part
         IN /\ c \in Conns /\ m \in 1..Parts /\ pc[t] = "send" /\ peer[c] = "reading"
            /\ pc[c] \notin {"off", "done"}
            /\ UNCHANGED <<peer, lines>>
            /\ \A d \in Conns : d # c => partial'[d] = partial[d] /\ framed'[d] = framed[d]
            /\ \A u \in Conns : u # t => pc'[u] = pc[u] /\ call'[u] = call[u]
            /\ \/ /\ m = Parts /\ pc'[t] \in Returns
                  /\ partial'[c] = << >>
                  /\ framed' = [framed EXCEPT ![c] = Append(@, WholeLine(c, t, lines[t]))]
               \/ /\ m < Parts /\ pc'[t] = "send"
                  /\ call'[t].to = c /\ call'[t].part = m + 1
                  /\ partial'[c] = Begun(c, t, m) /\ UNCHANGED framed
<1> DEFINE c == call[t].to
           m == call[t].part
           part == [for |-> c, by |-> t, n |-> lines[t], k |-> m]
<1>1. /\ call[t] \in [to : Conns, part : 1..Parts, back : Returns]
      /\ c \in Conns /\ m \in 1..Parts /\ call[t].back \in Returns
  BY DEF TypeOK, Call
<1>2. /\ pc[t] = "send" /\ peer[fdConn[socketFd[c]]] = "reading"
      /\ Arrive(fdConn[socketFd[c]], part)
      /\ IF m = Parts THEN Unlock(t) /\ UNCHANGED call
         ELSE call' = [call EXCEPT ![t].part = @ + 1] /\ UNCHANGED <<writeMutex, pc>>
      /\ UNCHANGED <<peer, lines>>
  BY DEF SendPart
<1>3. fdConn[socketFd[c]] = c
  BY <1>2, LockingProtects DEF NoSendAfterClose
<1>4. Append(partial[c], part) = Begun(c, t, m)
  <2>1. partial[c] = Begun(c, t, m - 1)
    BY <1>1, <1>2, <1>3 DEF Splicing, PartialIsBegun, Sending
  <2> QED BY <1>1, <2>1, BegunNext
<1>5. pc[c] \notin {"off", "done"}
  BY <1>1, <1>2 DEF Locking, Started, SendingIsOpen
<1>6. \A d \in Conns : d # c => partial'[d] = partial[d] /\ framed'[d] = framed[d]
  BY <1>2, <1>3 DEF Arrive, TypeOK
<1>7. CASE m = Parts
  <2>1. framed' = [framed EXCEPT ![c] = Append(@, WholeLine(c, t, lines[t]))]
    BY <1>2, <1>3, <1>4, <1>7 DEF Arrive, Begun, WholeLine
  <2>2. partial'[c] = << >>
    BY <1>1, <1>2, <1>3, <1>7 DEF Arrive, TypeOK
  <2>3. pc' = [pc EXCEPT ![t] = call[t].back] /\ UNCHANGED call
    BY <1>2, <1>7 DEF Unlock, Goto
  <2>4. pc'[t] \in Returns /\ \A u \in Conns : u # t => pc'[u] = pc[u] /\ call'[u] = call[u]
    BY <1>1, <2>3 DEF TypeOK
  <2> QED BY <1>1, <1>2, <1>3, <1>5, <1>6, <1>7, <2>1, <2>2, <2>4
<1>8. CASE m # Parts
  <2>1. partial'[c] = Begun(c, t, m) /\ UNCHANGED framed
    <3>1. part.k # Parts
      BY <1>8
    <3>2. partial' = [partial EXCEPT ![c] = Append(partial[c], part)] /\ UNCHANGED framed
      BY <1>2, <1>3, <3>1 DEF Arrive
    <3> QED BY <1>1, <1>4, <3>2 DEF TypeOK
  <2>2. UNCHANGED pc /\ call' = [call EXCEPT ![t].part = @ + 1]
    BY <1>2, <1>8
  <2>3. /\ call'[t].to = c /\ call'[t].part = m + 1
        /\ \A u \in Conns : u # t => pc'[u] = pc[u] /\ call'[u] = call[u]
    BY <1>1, <2>2 DEF TypeOK
  <2>4. m < Parts
    BY <1>1, <1>8, SessionIOAssumption
  <2> QED BY <1>1, <1>2, <1>3, <1>5, <1>6, <2>1, <2>2, <2>3, <2>4
<1> QED BY <1>7, <1>8

LEMMA NextPartialIsBegun ==
  TypeOK /\ Locking /\ Splicing /\ [Next]_vars => PartialIsBegun'
<1> SUFFICES ASSUME TypeOK, Locking, Splicing, [Next]_vars,
                    NEW d \in Conns, peer'[d] # "gone"
             PROVE  /\ \A t \in Conns : Sending(t, d)' => partial'[d] = Begun(d, t, call[t].part - 1)'
                    /\ (\A t \in Conns : ~Sending(t, d)') => partial'[d] = << >>
  BY DEF PartialIsBegun
<1> DEFINE Kept == /\ \A t \in Conns : Sending(t, d) => partial[d] = Begun(d, t, call[t].part - 1)
                   /\ (\A t \in Conns : ~Sending(t, d)) => partial[d] = << >>
<1>1. peer[d] # "gone" => Kept
  BY DEF Splicing, PartialIsBegun
<1>2. ASSUME NEW t \in Conns, SendPart(t)
      PROVE  /\ \A u \in Conns : Sending(u, d)' => partial'[d] = Begun(d, u, call[u].part - 1)'
             /\ (\A u \in Conns : ~Sending(u, d)') => partial'[d] = << >>
  <2> HIDE DEF Kept
  <2>0. PICK c, m : c = call[t].to /\ m = call[t].part
    OBVIOUS
  <2>1. /\ c \in Conns /\ m \in 1..Parts /\ pc[t] = "send" /\ UNCHANGED <<peer, lines>>
        /\ \A e \in Conns : e # c => partial'[e] = partial[e]
        /\ \A u \in Conns : u # t => pc'[u] = pc[u] /\ call'[u] = call[u]
        /\ \/ pc'[t] \in Returns /\ partial'[c] = << >>
           \/ /\ pc'[t] = "send" /\ call'[t].to = c /\ call'[t].part = m + 1
              /\ partial'[c] = Begun(c, t, m)
    BY <1>2, <2>0, SendPartIs
  <2>2. \A u \in Conns : u # t => ~Sending(u, c)'
    BY <2>0, <2>1, OneSends DEF Sending
  <2>3. CASE d # c
    <3>1. \A u \in Conns : Sending(u, d)' <=> Sending(u, d)
      BY <2>0, <2>1, <2>3 DEF Sending, Returns
    <3>2. \A u \in Conns : Sending(u, d) => u # t
      BY <2>0, <2>3 DEF Sending
    <3>3. \A u \in Conns : Sending(u, d) => Begun(d, u, call[u].part - 1)' = Begun(d, u, call[u].part - 1)
      BY <2>1, <3>2 DEF Begun
    <3>4. Kept
      BY <1>1, <2>1
    <3> QED BY <2>1, <2>3, <3>1, <3>3, <3>4 DEF Kept
  <2>4. CASE d = c /\ pc'[t] = "send"
    <3>1. Begun(c, t, call[t].part - 1)' = Begun(c, t, m)
      <4>1. call'[t].part - 1 = m
        BY <2>1, <2>4 DEF Returns
      <4> QED BY <2>1, <4>1 DEF Begun
    <3>2. Sending(t, c)'
      BY <2>1, <2>4 DEF Sending, Returns
    <3> QED BY <2>1, <2>2, <2>4, <3>1, <3>2 DEF Returns
  <2>5. CASE d = c /\ pc'[t] # "send"
    <3>1. \A u \in Conns : ~Sending(u, c)'
      BY <2>2, <2>5 DEF Sending
    <3> QED BY <2>1, <2>5, <3>1
  <2> QED BY <2>3, <2>4, <2>5
<1>3. ASSUME NEW t \in Conns, CheckConnected(t)
      PROVE  /\ \A u \in Conns : Sending(u, d)' => partial'[d] = Begun(d, u, call[u].part - 1)'
             /\ (\A u \in Conns : ~Sending(u, d)') => partial'[d] = << >>
  <2> HIDE DEF Kept
  <2>1. /\ pc[t] = "check" /\ call[t].to \in Conns /\ call[t].part = 1
        /\ UNCHANGED <<peer, lines, call, partial>>
        /\ \A u \in Conns : u # t => pc'[u] = pc[u]
        /\ \/ pc'[t] = "send" \/ pc'[t] \in Returns
    BY <1>3 DEF CheckConnected, Unlock, Goto, TypeOK, Call, kernelVars, Splicing, AtFirstPart
  <2>2. \A u \in Conns : ~Sending(u, call[t].to)
    BY <2>1, OneSends DEF Sending
  <2>3. \A u, e : Begun(e, u, call[u].part - 1)' = Begun(e, u, call[u].part - 1)
    BY <2>1 DEF Begun
  <2>4. Kept
    BY <1>1, <2>1
  <2>5. CASE d # call[t].to
    <3>1. \A u \in Conns : Sending(u, d)' <=> Sending(u, d)
      BY <2>1, <2>5 DEF Sending
    <3> QED BY <2>1, <2>3, <2>4, <3>1 DEF Kept
  <2>6. CASE d = call[t].to
    <3>1. partial[d] = << >>
      BY <2>2, <2>4, <2>6 DEF Kept
    <3>2. \A u \in Conns : Sending(u, d)' => u = t
      BY <2>1, <2>2, <2>6 DEF Sending
    <3>3. Begun(d, t, call[t].part - 1) = << >>
      BY <2>1, BegunNothing
    <3> QED BY <2>1, <2>3, <3>1, <3>2, <3>3
  <2> QED BY <2>5, <2>6
<1>4. ASSUME NEW t \in Conns, SendFails(t)
      PROVE  /\ \A u \in Conns : Sending(u, d)' => partial'[d] = Begun(d, u, call[u].part - 1)'
             /\ (\A u \in Conns : ~Sending(u, d)') => partial'[d] = << >>
  <2> HIDE DEF Kept
  <2>1. /\ pc[t] = "send" /\ call[t].to \in Conns
        /\ fdConn[socketFd[call[t].to]] # None => peer[fdConn[socketFd[call[t].to]]] = "gone"
        /\ UNCHANGED <<peer, lines, call, partial>>
        /\ \A u \in Conns : u # t => pc'[u] = pc[u]
    BY <1>4 DEF SendFails, Unlock, Goto, TypeOK, Call, kernelVars
  <2>2. fdConn[socketFd[call[t].to]] = call[t].to
    BY <2>1, LockingProtects DEF NoSendAfterClose
  <2>3. d # call[t].to
    BY <2>1, <2>2, SessionIOAssumption
  <2>4. \A u \in Conns : Sending(u, d)' <=> Sending(u, d)
    BY <2>1, <2>3 DEF Sending
  <2>5. \A u \in Conns : Begun(d, u, call[u].part - 1)' = Begun(d, u, call[u].part - 1)
    BY <2>1 DEF Begun
  <2>6. Kept
    BY <1>1, <2>1
  <2> QED BY <2>1, <2>4, <2>5, <2>6 DEF Kept
<1>5. CASE \A t \in Conns : ~SendPart(t) /\ ~CheckConnected(t) /\ ~SendFails(t)
  <2> HIDE DEF Kept
  <2>1. /\ UNCHANGED partial /\ peer[d] # "gone"
        /\ \A t \in Conns : /\ pc'[t] = "send" <=> pc[t] = "send"
                            /\ pc[t] = "send" => call'[t] = call[t] /\ lines'[t] = lines[t]
    BY <1>5, ElseSendingStays
  <2>2. \A t \in Conns : Sending(t, d)' <=> Sending(t, d)
    BY <2>1 DEF Sending
  <2>3. \A t \in Conns : Sending(t, d) => Begun(d, t, call[t].part - 1)' = Begun(d, t, call[t].part - 1)
    BY <2>1 DEF Begun, Sending
  <2> QED BY <1>1, <2>1, <2>2, <2>3 DEF Kept
<1> HIDE DEF Kept
<1> QED BY <1>2, <1>3, <1>4, <1>5

\* A line begins with its first part, and is counted first.
LEMMA StartSendCounts ==
  ASSUME TypeOK, AtFirstPart, LinesCounted, NEW t \in Conns, NEW s \in Conns, NEW back,
         StartSend(t, s, back)
  PROVE  AtFirstPart' /\ LinesCounted'
<1>1. /\ lines[t] < MaxLines /\ lines[t] \in Nat /\ lines'[t] = lines[t] + 1
      /\ call'[t].part = 1
      /\ \A u \in Conns : u # t => UNCHANGED <<pc[u], call[u], lines[u]>>
  BY DEF StartSend, Goto, TypeOK
<1>2. AtFirstPart'
  BY <1>1 DEF AtFirstPart
<1>3. LinesCounted'
  BY <1>1, SessionIOAssumption DEF LinesCounted
<1> QED BY <1>2, <1>3

\* And so it stays, whatever is done.
LEMMA NextCounts ==
  ASSUME TypeOK, Locking, Splicing, [Next]_vars
  PROVE  AtFirstPart' /\ LinesCounted'
<1> USE SessionIOAssumption DEF Splicing, AtFirstPart, LinesCounted
<1>1. CASE UNCHANGED vars
  BY <1>1 DEF vars
<1>2. ASSUME NEW t \in Conns, Step(t) PROVE AtFirstPart' /\ LinesCounted'
  <2>1. CASE SendPart(t)
    <3>1. /\ UNCHANGED lines /\ pc[t] = "send"
          /\ \A u \in Conns : u # t => pc'[u] = pc[u] /\ call'[u] = call[u]
          /\ pc'[t] \in Returns \cup {"send"}
      BY <2>1, SendPartIs
    <3> QED BY <3>1 DEF Returns
  <2>2. CASE SendFails(t) \/ CheckConnected(t)
    <3>1. /\ UNCHANGED <<lines, call>> /\ pc[t] \in {"check", "send"}
          /\ \A u \in Conns : u # t => pc'[u] = pc[u]
          /\ pc'[t] \in Returns \cup {"send"}
      BY <2>2 DEF SendFails, CheckConnected, Unlock, Goto, TypeOK, Call
    <3> QED BY <3>1 DEF Returns
  <2>3. CASE UnlockWorld(t)
    <3>1. CASE pc[t] = "world"
      BY <2>3, <3>1, StartSendCounts DEF UnlockWorld
    <3>2. CASE pc[t] = "worldLeave"
      BY <2>3, <3>2 DEF UnlockWorld, Goto, TypeOK
    <3> QED BY <2>3, <3>1, <3>2 DEF UnlockWorld
  <2>4. CASE LockWrite(t) \/ ReturnRefused(t) \/ QuitFlag(t) \/ NeverLoggedIn(t) \/ LockWorld(t)
             \/ CloseSession(t)
    BY <2>4 DEF LockWrite, ReturnRefused, QuitFlag, NeverLoggedIn, LockWorld, CloseSession,
                Goto, TypeOK
  <2> QED BY <1>2, <2>1, <2>2, <2>3, <2>4 DEF Step
<1>3. ASSUME NEW t \in Conns, Serve(t) PROVE AtFirstPart' /\ LinesCounted'
  <2>1. CASE Accept(t) \/ RefuseOnline(t) \/ Quit(t) \/ \E s \in Conns : Send(t, s)
    BY <2>1, StartSendCounts DEF Accept, RefuseOnline, Quit, Send
  <2>2. CASE Login(t) \/ LockWorld(t) \/ ReadFails(t)
    BY <2>2 DEF Login, LockWorld, ReadFails, Goto, TypeOK
  <2> QED BY <1>3, <2>1, <2>2 DEF Serve
<1>4. ASSUME NEW t \in Conns, PeerGone(t) \/ PeerStalls(t) PROVE AtFirstPart' /\ LinesCounted'
  BY <1>4 DEF PeerGone, PeerStalls
<1> QED BY <1>1, <1>2, <1>3, <1>4 DEF Next

\* The line a thread has written to the end is one of the whole ones.
LEMMA WholeWhenSent ==
  ASSUME TypeOK, Splicing, NEW t \in Conns, NEW c \in Conns, pc[t] = "send"
  PROVE  WholeLine(c, t, lines[t]) \in WholeLines(c)
<1>1. lines[t] \in 1..MaxLines
  BY SessionIOAssumption DEF TypeOK, Splicing, LinesCounted
<1> QED BY <1>1 DEF WholeLines

LEMMA NextLinesIntact ==
  TypeOK /\ Locking /\ Splicing /\ LinesIntact /\ [Next]_vars => LinesIntact'
<1> SUFFICES ASSUME TypeOK, Locking, Splicing, LinesIntact, [Next]_vars,
                    NEW c \in Conns, NEW j \in 1..Len(framed'[c])
             PROVE  framed'[c][j] \in WholeLines(c)
  BY DEF LinesIntact, WholeLines, WholeLine
<1>1. CASE framed'[c] = framed[c]
  BY <1>1 DEF LinesIntact
<1>2. CASE framed'[c] # framed[c]
  <2>1. PICK t \in Conns : SendPart(t)
    BY <1>2, ElseSendingStays DEF SendFails, CheckConnected, kernelVars
  <2>2. pc[t] = "send" /\ framed' = [framed EXCEPT ![c] = Append(@, WholeLine(c, t, lines[t]))]
    BY <1>2, <2>1, SendPartIs
  <2>3. WholeLine(c, t, lines[t]) \in WholeLines(c)
    BY <2>2, WholeWhenSent
  <2>4. framed[c] \in Seq(Seq(Part)) /\ framed'[c] = Append(framed[c], WholeLine(c, t, lines[t]))
    BY <2>2 DEF TypeOK
  <2>5. j \in 1..Len(framed[c]) \/ j = Len(framed[c]) + 1
    BY <2>4
  <2>6. CASE j \in 1..Len(framed[c])
    BY <2>4, <2>6 DEF LinesIntact
  <2>7. CASE j = Len(framed[c]) + 1
    BY <2>3, <2>4, <2>7
  <2> QED BY <2>5, <2>6, <2>7
<1> QED BY <1>1, <1>2

-----------------------------------------------------------------------------
(* The connection layer as its callers see it *)

\* Only accept and close change what a connection is to them.
LEMMA ConnStateIs ==
  ASSUME TypeOK, Locking, [Next]_vars
  PROVE  \/ \A c \in Conns : ConnState(c)' = ConnState(c)
         \/ \E t \in Conns :
              /\ \/ ConnState(t) = "new" /\ ConnState(t)' = "open"
                 \/ ConnState(t) = "open" /\ ConnState(t)' = "closed"
              /\ \A c \in Conns : c # t => ConnState(c)' = ConnState(c)
              /\ UNCHANGED framed
<1> USE DEF ConnState
<1>1. CASE UNCHANGED vars \/ \E t \in Conns : PeerGone(t) \/ PeerStalls(t) \/ Login(t)
  BY <1>1 DEF vars, PeerGone, PeerStalls, Login
<1>2. ASSUME NEW t \in Conns, Accept(t)
      PROVE  /\ ConnState(t) = "new" /\ ConnState(t)' = "open"
             /\ \A c \in Conns : c # t => ConnState(c)' = ConnState(c)
             /\ UNCHANGED framed
  BY <1>2 DEF Accept, StartSend, Goto, TypeOK
<1>3. ASSUME NEW t \in Conns, CloseSession(t)
      PROVE  /\ ConnState(t) = "open" /\ ConnState(t)' = "closed"
             /\ \A c \in Conns : c # t => ConnState(c)' = ConnState(c)
             /\ UNCHANGED framed
  BY <1>3 DEF CloseSession, Goto, TypeOK
<1>4. ASSUME NEW t \in Conns, NEW label \in Labels \ {"off", "done"},
             Goto(t, label), pc[t] \notin {"off", "done"}
      PROVE  \A c \in Conns : ConnState(c)' = ConnState(c)
  BY <1>4 DEF Goto, TypeOK
<1>5. ASSUME NEW t \in Conns, SendFails(t) \/ CheckConnected(t) \/ SendPart(t)
      PROVE  \A c \in Conns : ConnState(c)' = ConnState(c)
  <2>1. call[t].back \in Labels \ {"off", "done"} /\ pc[t] \in {"check", "send"}
    BY <1>5 DEF TypeOK, Call, Labels, Returns, SendFails, CheckConnected, SendPart
  <2>2. Goto(t, call[t].back) \/ Goto(t, "send") \/ UNCHANGED pc
    BY <1>5 DEF SendFails, CheckConnected, SendPart, Unlock
  <2> QED BY <1>4, <2>1, <2>2 DEF Labels
<1>6. ASSUME NEW t \in Conns, LockWrite(t) \/ ReturnRefused(t) \/ QuitFlag(t) \/ NeverLoggedIn(t)
                              \/ LockWorld(t) \/ UnlockWorld(t)
      PROVE  \A c \in Conns : ConnState(c)' = ConnState(c)
  BY <1>6, <1>4 DEF Labels, Returns, LockWrite, ReturnRefused, QuitFlag, NeverLoggedIn, LockWorld,
                    UnlockWorld, StartSend
<1>7. ASSUME NEW t \in Conns, RefuseOnline(t) \/ Quit(t) \/ ReadFails(t) \/ \E s \in Conns : Send(t, s)
      PROVE  \A c \in Conns : ConnState(c)' = ConnState(c)
  BY <1>7, <1>4 DEF Labels, Returns, RefuseOnline, Quit, ReadFails, Send, StartSend
<1> QED BY <1>1, <1>2, <1>3, <1>5, <1>6, <1>7 DEF Next, Step, Serve

\* A step opens or closes one connection, or gives one client that is connected
\* one whole line, or cannot be seen.
LEMMA NextDelivers ==
  ASSUME TypeOK, Locking, Splicing, [Next]_vars
  PROVE  [D!DNext]_(D!dvars)
<1> DEFINE state == [c \in Conns |-> ConnState(c)]
<1>1. ASSUME NEW t \in Conns, SendPart(t), framed' # framed
      PROVE  D!Deliver(call[t].to)
  <2> DEFINE c == call[t].to
  <2>1. /\ c \in Conns /\ pc[t] = "send" /\ pc[c] \notin {"off", "done"}
        /\ framed' = [framed EXCEPT ![c] = Append(@, WholeLine(c, t, lines[t]))]
    BY <1>1, SendPartIs
  <2>2. WholeLine(c, t, lines[t]) \in WholeLines(c)
    BY <2>1, WholeWhenSent
  <2>3. state[c] = "open"
    BY <2>1 DEF ConnState
  <2>4. UNCHANGED state
    <3>1. \A d \in Conns : ConnState(d)' = ConnState(d)
      BY <1>1, ConnStateIs
    <3> QED BY <3>1
  <2> QED BY <2>1, <2>2, <2>3, <2>4 DEF D!Deliver
<1>2. CASE framed' = framed
  <2>1. CASE \A c \in Conns : ConnState(c)' = ConnState(c)
    BY <1>2, <2>1 DEF D!dvars
  <2>2. ASSUME NEW t \in Conns,
               \/ ConnState(t) = "new" /\ ConnState(t)' = "open"
               \/ ConnState(t) = "open" /\ ConnState(t)' = "closed",
               \A c \in Conns : c # t => ConnState(c)' = ConnState(c)
        PROVE  D!Open(t) \/ D!Close(t)
    <3>1. state' = [state EXCEPT ![t] = ConnState(t)']
      BY <2>2
    <3>2. state[t] = ConnState(t)
      OBVIOUS
    <3> QED BY <1>2, <2>2, <3>1, <3>2 DEF D!Open, D!Close
  <2> QED BY <2>1, <2>2, ConnStateIs DEF D!DNext
<1>3. CASE framed' # framed
  <2>1. PICK t \in Conns : SendPart(t)
    BY <1>3, ElseSendingStays DEF SendFails, CheckConnected, kernelVars
  <2>2. call[t].to \in Conns
    BY CallTarget
  <2> QED BY <1>1, <1>3, <2>1, <2>2 DEF D!DNext
<1> QED BY <1>2, <1>3

LEMMA InitDelivers == Init => D!DInit
BY DEF Init, D!DInit, ConnState

-----------------------------------------------------------------------------
(* The theorems *)

IInv == TypeOK /\ Locking /\ OnlyOwnBytes /\ Splicing /\ LinesIntact

\* Types, the locking discipline and what the clients have hold together.
THEOREM Invariant == Spec => []IInv
<1>1. Init => IInv
  <2>1. Init => Splicing /\ LinesIntact
    BY SessionIOAssumption
       DEF Init, Splicing, PartialIsBegun, Sending, AtFirstPart, LinesCounted, LinesIntact
  <2> QED BY <2>1, InitLocking DEF IInv
<1>2. IInv /\ [Next]_vars => IInv'
  BY NextTypeOK, NextLocking, NextOwnBytes, NextPartialIsBegun, NextCounts, NextLinesIntact
     DEF IInv, Splicing
<1> QED
  BY <1>1, <1>2, PTL DEF Spec

\* The variables keep their types; the parts of a line are counted within bounds
\* (send_all).
THEOREM TypeCorrect == Spec => []TypeOK
BY Invariant, PTL DEF IInv

\* send() is only ever called on the descriptor of the session that was checked
\* (send_line, client_loop).
THEOREM SendTheorem == Spec => []NoSendAfterClose
<1>1. IInv => NoSendAfterClose
  BY LockingProtects DEF IInv
<1> QED
  BY <1>1, Invariant, PTL

\* What reaches a client was written for it (send_line, client_loop).
THEOREM OwnBytesTheorem == Spec => []OnlyOwnBytes
BY Invariant, PTL DEF IInv

\* Every line a client gets is one line of one thread with its parts in order,
\* although it takes several send() calls and any thread may be writing (send_line).
THEOREM IntactTheorem == Spec => []LinesIntact
BY Invariant, PTL DEF IInv

\* Seen from outside send_line hands over whole lines, to open connections only:
\* threads, mutexes and descriptor numbers that are used again cannot be seen.
THEOREM DeliveryTheorem == Spec => ImplementsDelivery
<1>1. IInv /\ [Next]_vars => [D!DNext]_(D!dvars)
  BY NextDelivers DEF IInv
<1> QED
  BY <1>1, InitDelivers, Invariant, PTL DEF Spec, ImplementsDelivery, D!DSpec
=============================================================================
