------------------------------ MODULE Broadcast ------------------------------
(***************************************************************************)
(* Who is told what: broadcast_to_room, broadcast_to_group and CHAT GLOBAL *)
(* (commands/common.cpp, dispatcher.cpp), the commands, logins and         *)
(* disconnects that end in them, and LOOK.  STATS is in Stats.             *)
(*                                                                         *)
(* A command changes World in one critical section and tells others after  *)
(* it: each event first collects the names of its audience under the lock  *)
(* and then, with no lock held, looks each up in SessionRegistry and       *)
(* writes to what it finds.  CHAT GLOBAL lists the sessions themselves.    *)
(* The events of several threads overlap, and their audience moves on.     *)
(*                                                                         *)
(* Presence says when a login succeeds and Groups who may join: here a     *)
(* name that is not in use can log in and a group can be joined.  A        *)
(* session that is looked up is written to in the same step.               *)
(***************************************************************************)
EXTENDS Naturals, Sequences, FiniteSets

CONSTANTS
  Sessions, Players, Rooms, Groups,
  Start,        \* the room new characters are in
  Owner,        \* the name each session logs in with
  MaxCommands,  \* bound: commands given
  None

ASSUME BroadcastAssumption ==
  /\ Start \in Rooms /\ IsFiniteSet(Sessions) /\ Owner \in [Sessions -> Players]
  /\ None \notin Sessions \cup Groups /\ Sessions \cap Players = {}
  /\ MaxCommands \in Nat

VARIABLES
  online,    \* the keys of World::players
  room,      \* PlayerState::current_room, which is saved
  group,     \* World::player_group
  registry,  \* SessionRegistry
  pc,        \* where each session's thread is
  ended,     \* the sessions whose disconnect has begun
  events,    \* what each thread has to tell, the event it is at first
  targets,   \* who it has still to write to; after LOOK, who it has seen
  heard,     \* what each client knows about the players in its room
  misled,    \* history: clients and players an event of another time was on its way to or from
  commands

vars == <<online, room, group, registry, pc, ended, events, targets, heard,
          misled, commands>>

Labels == {"new", "register", "greet", "play", "looked", "unregister", "collect",
           "tell", "done"}
Kinds == {"enter", "leave", "chat", "group"}

Registered == {s \in Sessions : registry[Owner[s]] = s}

TypeOK ==
  /\ online \subseteq Players /\ room \in [Players -> Rooms]
  /\ group \in [Players -> Groups \cup {None}]
  /\ \A p \in Players : registry[p] \in {None} \cup {s \in Sessions : Owner[s] = p}
  /\ pc \in [Sessions -> Labels] /\ ended \subseteq Sessions
  /\ \A s \in Sessions :
       /\ targets[s] \subseteq Players \cup Sessions
       /\ pc[s] \in {"collect", "tell"} <=> events[s] # <<>> /\ pc[s] # "unregister"
       /\ \A i \in DOMAIN events[s] : events[s][i].kind \in Kinds
  /\ heard \in [Sessions -> [Players -> {"unknown", "here", "gone"}]]
  /\ misled \subseteq Sessions \cup Players /\ commands \in 0..MaxCommands

Init ==
  /\ online = {} /\ room = [p \in Players |-> Start]
  /\ group = [p \in Players |-> None] /\ registry = [p \in Players |-> None]
  /\ pc = [s \in Sessions |-> "new"] /\ ended = {}
  /\ events = [s \in Sessions |-> <<>>] /\ targets = [s \in Sessions |-> {}]
  /\ heard = [s \in Sessions |-> [p \in Players |-> "unknown"]]
  /\ misled = {} /\ commands = 0

-----------------------------------------------------------------------------
(* Events and their audience *)

\* The sessions an event is meant for: those of the players it is about to
\* collect, or all.
Audience(e, on, in, of, reg) ==
  {s \in Sessions : LET p == Owner[s] IN
     /\ reg[p] = s
     /\ \/ e.to = "all"
        \/ e.to = "room" /\ p \in on \ {e.except} /\ in[p] = e.at
        \/ e.to = "group" /\ p # e.except /\ of[p] = e.at}

NextAudience(e) == Audience(e, online', room', group', registry') \ ended'

\* owed: who has been in the audience since the event came up and has not been sent it.
Event(kind, to, at, except) ==
  [kind |-> kind, to |-> to, at |-> at, except |-> except, owed |-> Sessions]

StillOwed(es) == [i \in DOMAIN es |-> [es[i] EXCEPT !.owed = @ \cap NextAudience(es[i])]]

Now(s) == Head(events[s])

\* The thread of s goes on with these events; whoever has left the audience of
\* one is owed it no more.
Raise(s, new) == events' = [t \in Sessions |-> StillOwed(IF t = s THEN new ELSE events[t])]

InFlight(p, t) == pc[t] = "tell" /\ Now(t).kind \in {"enter", "leave"} /\ p \in targets[t]

\* What s is about to know belongs to another room when such an event is on its way.
Unsettled(s) == {s : t \in {u \in Sessions : InFlight(Owner[s], u)}}

-----------------------------------------------------------------------------
(* Logins and disconnects *)

\* Nobody is told that a player has come into a room by logging in, and the
\* disconnect of its session before may still be telling that it went.
Login(s) ==
  LET p == Owner[s] IN
  /\ pc[s] = "new" /\ p \notin online
  /\ online' = online \cup {p} /\ pc' = [pc EXCEPT ![s] = "register"]
  /\ heard' = [o \in Sessions |-> [q \in Players |->
                 IF o = s \/ q = p THEN "unknown" ELSE heard[o][q]]]
  /\ misled' = misled \cup Unsettled(s) \cup {o \in Sessions : pc[o] = "looked"}
               \cup {p : t \in {u \in Sessions : Owner[u] = p /\ pc[u] \notin {"new", "done"}}}
  /\ UNCHANGED <<room, group, registry, ended, events, targets, commands>>

Register(s) ==
  /\ pc[s] = "register" /\ pc' = [pc EXCEPT ![s] = "greet"]
  /\ registry' = [registry EXCEPT ![Owner[s]] = s]
  /\ UNCHANGED <<online, room, group, ended, targets, heard, misled, commands>>
  /\ Raise(s, <<>>)

\* "OK connected".
Greet(s) ==
  /\ pc[s] = "greet" /\ pc' = [pc EXCEPT ![s] = "play"]
  /\ UNCHANGED <<online, room, group, registry, ended, events, targets, heard, misled, commands>>

GroupEvent(p, except) ==
  IF group[p] = None THEN <<>> ELSE <<Event("group", "group", group[p], except)>>

\* There is no client any more, and nothing it could know.
Forget(s) == heard' = [heard EXCEPT ![s] = [q \in Players |-> "unknown"]] /\ misled' = misled \ {s}

\* (bug) the others are not told that the player has left
DisconnectSilent(s) ==
  LET p == Owner[s] IN
  /\ pc[s] = "play" /\ pc' = [pc EXCEPT ![s] = "unregister"]
  /\ online' = online \ {p} /\ group' = [group EXCEPT ![p] = None] /\ ended' = ended \cup {s}
  /\ Forget(s) /\ UNCHANGED <<room, registry, targets, commands>>
  /\ Raise(s, GroupEvent(p, p))

Disconnect(s) ==
  LET p == Owner[s] IN
  /\ pc[s] = "play" /\ pc' = [pc EXCEPT ![s] = "unregister"]
  /\ online' = online \ {p} /\ group' = [group EXCEPT ![p] = None] /\ ended' = ended \cup {s}
  /\ Forget(s) /\ UNCHANGED <<room, registry, targets, commands>>
  /\ Raise(s, <<Event("leave", "room", room[p], p)>> \o GroupEvent(p, p))

\* By name: a session that has logged in with it meanwhile is taken out as well.
Unregister(s) ==
  /\ pc[s] = "unregister" /\ pc' = [pc EXCEPT ![s] = IF events[s] = <<>> THEN "done" ELSE "collect"]
  /\ registry' = [registry EXCEPT ![Owner[s]] = None]
  /\ UNCHANGED <<online, room, group, ended, targets, heard, misled, commands>>
  /\ Raise(s, events[s])

-----------------------------------------------------------------------------
(* Commands *)

Command(s) ==
  /\ pc[s] = "play" /\ commands < MaxCommands /\ commands' = commands + 1
  /\ UNCHANGED <<online, registry, ended>>

Tells(s, new) == pc' = [pc EXCEPT ![s] = "collect"] /\ Raise(s, new)

\* A client that goes elsewhere knows nothing of that room yet.
Move(s, r) ==
  LET p == Owner[s] IN
  /\ Command(s) /\ r # room[p] /\ room' = [room EXCEPT ![p] = r]
  /\ heard' = [heard EXCEPT ![s] = [q \in Players |-> "unknown"]]
  /\ misled' = misled \cup Unsettled(s)
  /\ UNCHANGED <<group, targets>>
  /\ Tells(s, <<Event("leave", "room", room[p], p), Event("enter", "room", r, p)>>)

Chat(s) ==
  LET p == Owner[s] IN
  /\ Command(s) /\ UNCHANGED <<room, group, targets, heard, misled>>
  /\ \/ Tells(s, <<Event("chat", "all", None, None)>>)
     \/ Tells(s, <<Event("chat", "room", room[p], None)>>)
     \/ group[p] # None /\ Tells(s, <<Event("chat", "group", group[p], None)>>)

\* GROUP ACCEPT leaves the group before without a word.
JoinGroup(s, g) ==
  LET p == Owner[s] IN
  /\ Command(s) /\ group' = [group EXCEPT ![p] = g]
  /\ UNCHANGED <<room, targets, heard, misled>>
  /\ Tells(s, <<Event("group", "group", g, p)>>)

LeaveGroup(s) ==
  LET p == Owner[s] IN
  /\ Command(s) /\ group[p] # None /\ group' = [group EXCEPT ![p] = None]
  /\ UNCHANGED <<room, targets, heard, misled>>
  /\ Tells(s, GroupEvent(p, None))

\* LOOK reads the room under the lock and answers after it.
Look(s) ==
  /\ Command(s) /\ pc' = [pc EXCEPT ![s] = "looked"]
  /\ targets' = [targets EXCEPT ![s] = {p \in online : room[p] = room[Owner[s]]}]
  /\ UNCHANGED <<room, group, events, heard, misled>>

LookReply(s) ==
  /\ pc[s] = "looked" /\ pc' = [pc EXCEPT ![s] = "play"]
  /\ heard' = [heard EXCEPT ![s] = [p \in Players |-> CASE p = Owner[s] -> "unknown"
                                   [] p \in targets[s] -> "here"
                                   [] OTHER -> "gone"]]
  /\ targets' = [targets EXCEPT ![s] = {}]
  /\ UNCHANGED <<online, room, group, registry, ended, events, misled, commands>>

-----------------------------------------------------------------------------
(* Telling *)

Collect(s) ==
  LET e == Now(s) IN
  /\ pc[s] = "collect" /\ pc' = [pc EXCEPT ![s] = "tell"]
  /\ targets' = [targets EXCEPT ![s] =
       CASE e.to = "all" -> Registered
         [] e.to = "room" -> {p \in online \ {e.except} : room[p] = e.at}
         [] e.to = "group" -> {p \in Players \ {e.except} : group[p] = e.at}]
  /\ UNCHANGED <<online, room, group, registry, ended, events, heard, misled, commands>>

\* send_line: what the client of t learns from the event of s.
Learn(s, t) ==
  LET e == Now(s) IN
  /\ IF e.kind \in {"enter", "leave"} /\ Owner[s] # Owner[t]
     THEN /\ heard' = [heard EXCEPT ![t][Owner[s]] = IF e.kind = "enter" THEN "here" ELSE "gone"]
          /\ misled' = misled \cup IF pc[t] = "looked" THEN {t} ELSE {}   \* before the older answer
     ELSE UNCHANGED <<heard, misled>>
  /\ events' = [events EXCEPT ![s][1].owed = @ \ {t}]

\* (bug) a player with no session ends the loop
TellStops(s) ==
  /\ pc[s] = "tell"
  /\ \E x \in targets[s] :
       LET t == IF Now(s).to = "all" THEN x ELSE registry[x] IN
       IF t = None
       THEN targets' = [targets EXCEPT ![s] = {}] /\ UNCHANGED <<events, heard, misled>>
       ELSE targets' = [targets EXCEPT ![s] = @ \ {x}] /\ Learn(s, t)
  /\ UNCHANGED <<online, room, group, registry, pc, ended, commands>>

Tell(s) ==
  /\ pc[s] = "tell"
  /\ \E x \in targets[s] :
       LET t == IF Now(s).to = "all" THEN x ELSE registry[x] IN
       /\ targets' = [targets EXCEPT ![s] = @ \ {x}]
       /\ IF t = None \/ t \in ended   \* nobody reads what is sent to it any more
          THEN UNCHANGED <<events, heard, misled>>
          ELSE Learn(s, t)
  /\ UNCHANGED <<online, room, group, registry, pc, ended, commands>>

Finish(s) ==
  LET rest == Tail(events[s]) IN
  /\ pc[s] = "tell" /\ targets[s] = {}
  /\ events' = [events EXCEPT ![s] = rest]
  /\ pc' = [pc EXCEPT ![s] = CASE rest # <<>> -> "collect"
                               [] rest = <<>> /\ s \in ended -> "done"
                               [] OTHER -> "play"]
  /\ UNCHANGED <<online, room, group, registry, ended, targets, heard, misled, commands>>

-----------------------------------------------------------------------------

\* What a thread goes on with by itself, once begun.
Progress(s) ==
  \/ Register(s) \/ Greet(s) \/ Unregister(s) \/ LookReply(s)
  \/ Collect(s) \/ Tell(s) \/ Finish(s)

Next ==
  \E s \in Sessions :
    \/ Login(s) \/ Disconnect(s) \/ Progress(s)
    \/ \E r \in Rooms : Move(s, r)
    \/ \E g \in Groups : JoinGroup(s, g)
    \/ Chat(s) \/ LeaveGroup(s) \/ Look(s)

Spec == Init /\ [][Next]_vars

-----------------------------------------------------------------------------
(* Properties *)

AtRest == \A s \in Sessions : pc[s] \in {"new", "play", "done"}

\* Whoever is in the audience of an event all along, from the command that
\* raised it until the telling is over, has been told it, although the audience
\* is collected later and its names are looked up one by one while others come,
\* go and take over names.
EventReaches ==
  \A s \in Sessions : pc[s] = "tell" /\ targets[s] = {} => Now(s).owed = {}

\* A client that looks around and listens knows who is in its room, as far as
\* PRESENCE_ENTER and PRESENCE_LEAVE can tell: except where an event was on its
\* way while the client or the player in question moved on (misled).
OnlookersKnow ==
  AtRest =>
    \A s \in Registered \ misled : \A p \in Players \ (misled \cup {Owner[s]}) :
      IF p \in online /\ room[p] = room[Owner[s]] THEN heard[s][p] # "gone" ELSE heard[s][p] # "here"

\* A client that looks around and listens knows who is in its room, always.
OnlookersAlwaysKnow ==
  AtRest =>
    \A s \in Registered : \A p \in Players \ {Owner[s]} :
      IF p \in online /\ room[p] = room[Owner[s]] THEN heard[s][p] # "gone" ELSE heard[s][p] # "here"
=============================================================================
