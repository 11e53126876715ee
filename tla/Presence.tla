------------------------------ MODULE Presence ------------------------------
(***************************************************************************)
(* Characters coming online and going offline: CREATE_CHARACTER, CONNECT   *)
(* and handle_disconnect of commands/dispatcher.cpp, with the maps they    *)
(* change (World::players, SessionRegistry) and the character files.       *)
(*                                                                         *)
(* Each critical section under World::mutex, each registry call and each   *)
(* file operation is one step; the steps of different threads interleave.  *)
(* The contents of a PlayerState are a number: every change of a character *)
(* gives it a number it never had, so that two states can be told apart    *)
(* and compared in age.  A session in play changes its own character       *)
(* (MOVE, TAKE, ATTACK, ...) and, when it kills the last target of a       *)
(* defeat quest, the characters of everyone online (on_npc_defeated).      *)
(* Refused commands change nothing and have no action.  A save is atomic   *)
(* here, and may fail without a word to its caller: CharacterStore looks   *)
(* inside it.                                                              *)
(***************************************************************************)
EXTENDS Naturals

CONSTANTS
  Sessions,    \* connections, each served by its own thread
  Names,       \* character names
  MaxVersion,  \* bound: states a character goes through
  None

ASSUME PresenceAssumption == None \notin Sessions /\ None \notin Names
                             /\ MaxVersion \in Nat \ {0}

VARIABLES
  players,   \* World::players: the current state of each character, 0 when offline
  registry,  \* SessionRegistry: the session of each name, or None
  disk,      \* the state in each character's file, 0 when there is no file
  pc,        \* where each session's thread is
  name,      \* the name the session is logging in with, then Session::player_id
  snap,      \* copies of player states the thread took under the lock and has to save
  fresh,     \* history: the number of the newest state of each character
  created,   \* history: the states in which each character was created
  written,   \* history: the states of each character that reached its file
  lost,      \* history: the states of each character a save of which failed
  final      \* history: the state in which each character last went offline

vars == <<players, registry, disk, pc, name, snap, fresh, created, written, lost, final>>

Labels == {"new", "load", "enter", "create", "register", "play", "save", "erase",
           "lastSave", "remove", "done"}

\* A copy of the state of character n.
Copies == [n : Names, v : 1..MaxVersion]

\* The thread's session owns an entry of World::players.
InWorld == {"create", "register", "play", "save", "erase"}

TypeOK ==
  /\ players \in [Names -> 0..MaxVersion]
  /\ registry \in [Names -> Sessions \cup {None}]
  /\ disk \in [Names -> 0..MaxVersion]
  /\ pc \in [Sessions -> Labels]
  /\ name \in [Sessions -> Names \cup {None}]
  /\ snap \in [Sessions -> SUBSET Copies]
  /\ fresh \in [Names -> 0..MaxVersion]
  /\ created \in [Names -> SUBSET (1..MaxVersion)]
  /\ written \in [Names -> SUBSET (1..MaxVersion)]
  /\ lost \in [Names -> SUBSET (1..MaxVersion)]
  /\ final \in [Names -> 0..MaxVersion]

Init ==
  /\ players = [n \in Names |-> 0]
  /\ registry = [n \in Names |-> None]
  /\ disk = [n \in Names |-> 0]
  /\ pc = [s \in Sessions |-> "new"]
  /\ name = [s \in Sessions |-> None]
  /\ snap = [s \in Sessions |-> {}]
  /\ fresh = [n \in Names |-> 0]
  /\ created = [n \in Names |-> {}]
  /\ written = [n \in Names |-> {}]
  /\ lost = [n \in Names |-> {}]
  /\ final = [n \in Names |-> 0]

Online(n) == players[n] # 0

Owns(s, n) == name[s] = n /\ pc[s] \in InWorld

Step(s, from, to) == pc[s] = from /\ pc' = [pc EXCEPT ![s] = to]

\* character_store::save of one of the copies the thread holds.  When the
\* temporary file cannot be opened or the rename fails it logs the error and
\* returns; none of its callers can tell.
Save(s, copy) ==
  /\ snap' = [snap EXCEPT ![s] = @ \ {copy}]
  /\ \/ /\ disk' = [disk EXCEPT ![copy.n] = copy.v]
        /\ written' = [written EXCEPT ![copy.n] = @ \cup {copy.v}]
        /\ UNCHANGED lost
     \/ /\ lost' = [lost EXCEPT ![copy.n] = @ \cup {copy.v}]
        /\ UNCHANGED <<disk, written>>

-----------------------------------------------------------------------------
(* cmd_create_character *)

\* (bug) only the file is looked at, not World::players
CreateReserveUnchecked(s, n) ==
  /\ Step(s, "new", "create")
  /\ disk[n] = 0
  /\ fresh[n] < MaxVersion
  /\ players' = [players EXCEPT ![n] = fresh[n] + 1]
  /\ fresh' = [fresh EXCEPT ![n] = @ + 1]
  /\ snap' = [snap EXCEPT ![s] = {[n |-> n, v |-> fresh[n] + 1]}]
  /\ name' = [name EXCEPT ![s] = n]
  /\ created' = [created EXCEPT ![n] = @ \cup {fresh[n] + 1}]
  /\ UNCHANGED <<registry, disk, written, lost, final>>

\* The name must be free in memory and on disk; it is reserved in the same
\* critical section.
CreateReserve(s, n) ==
  /\ Step(s, "new", "create")
  /\ ~Online(n) /\ disk[n] = 0
  /\ fresh[n] < MaxVersion
  /\ players' = [players EXCEPT ![n] = fresh[n] + 1]
  /\ fresh' = [fresh EXCEPT ![n] = @ + 1]
  /\ snap' = [snap EXCEPT ![s] = {[n |-> n, v |-> fresh[n] + 1]}]
  /\ name' = [name EXCEPT ![s] = n]
  /\ created' = [created EXCEPT ![n] = @ \cup {fresh[n] + 1}]
  /\ UNCHANGED <<registry, disk, written, lost, final>>

\* (bug) the new character waits for its first command to be saved
SaveCreatedSkipped(s) ==
  /\ Step(s, "create", "register")
  /\ UNCHANGED <<players, registry, disk, name, snap, fresh, created, written, lost, final>>

SaveCreated(s) ==
  /\ Step(s, "create", "register")
  /\ \E copy \in snap[s] : Save(s, copy)
  /\ UNCHANGED <<players, registry, name, fresh, created, final>>
-----------------------------------------------------------------------------
(* cmd_connect *)

\* The first look under the lock.
ConnectCheck(s, n) ==
  /\ Step(s, "new", "load")
  /\ ~Online(n)
  /\ name' = [name EXCEPT ![s] = n]
  /\ UNCHANGED <<players, registry, disk, snap, fresh, created, written, lost, final>>

\* character_store::load, with no lock held; 404 when there is no file, or none
\* that can be opened and parsed.
ConnectLoad(s) ==
  LET n == name[s]
  IN /\ pc[s] = "load"
     /\ \/ /\ pc' = [pc EXCEPT ![s] = "new"]
           /\ name' = [name EXCEPT ![s] = None]
           /\ UNCHANGED snap
        \/ /\ disk[n] # 0
           /\ pc' = [pc EXCEPT ![s] = "enter"]
           /\ snap' = [snap EXCEPT ![s] = {[n |-> n, v |-> disk[n]]}]
           /\ UNCHANGED name
     /\ UNCHANGED <<players, registry, disk, fresh, created, written, lost, final>>

\* (bug) no second look at World::players after the load
ConnectEnterUnchecked(s) ==
  /\ Step(s, "enter", "register")
  /\ snap' = [snap EXCEPT ![s] = {}]
  /\ \E copy \in snap[s] : players' = [players EXCEPT ![name[s]] = copy.v]
  /\ UNCHANGED <<registry, disk, name, fresh, created, written, lost, final>>

\* The second look: the name may have come online since the first.
ConnectEnter(s) ==
  LET n == name[s]
  IN /\ pc[s] = "enter"
     /\ snap' = [snap EXCEPT ![s] = {}]
     /\ \/ /\ Online(n)
           /\ pc' = [pc EXCEPT ![s] = "new"]
           /\ name' = [name EXCEPT ![s] = None]
           /\ UNCHANGED players
        \/ /\ ~Online(n)
           /\ pc' = [pc EXCEPT ![s] = "register"]
           /\ \E copy \in snap[s] : players' = [players EXCEPT ![n] = copy.v]
           /\ UNCHANGED name
     /\ UNCHANGED <<registry, disk, fresh, created, written, lost, final>>

\* SessionRegistry::add, at the end of both logins.
Register(s) ==
  /\ Step(s, "register", "play")
  /\ registry' = [registry EXCEPT ![name[s]] = s]
  /\ UNCHANGED <<players, disk, name, snap, fresh, created, written, lost, final>>
-----------------------------------------------------------------------------
(* Commands of a session in play that change characters *)

\* The states of the characters in `who' change under the lock, and the thread
\* keeps a copy of each new state to save.
Change(s, who) ==
  /\ \A n \in who : fresh[n] < MaxVersion
  /\ players' = [n \in Names |-> IF n \in who THEN fresh[n] + 1 ELSE players[n]]
  /\ fresh' = [n \in Names |-> IF n \in who THEN fresh[n] + 1 ELSE fresh[n]]
  /\ snap' = [snap EXCEPT ![s] = {[n |-> n, v |-> fresh[n] + 1] : n \in who}]

\* (bug) a command changes the player and leaves the save to the disconnect
ChangeOwnUnsaved(s) ==
  /\ Step(s, "play", "play")
  /\ fresh[name[s]] < MaxVersion
  /\ players' = [players EXCEPT ![name[s]] = fresh[name[s]] + 1]
  /\ fresh' = [fresh EXCEPT ![name[s]] = @ + 1]
  /\ UNCHANGED <<registry, disk, name, snap, created, written, lost, final>>

\* MOVE, TAKE, DROP, USE, ATTACK, TALK, a fetch quest: the player's own state.
ChangeOwn(s) ==
  /\ Step(s, "play", "save")
  /\ Change(s, {name[s]})
  /\ UNCHANGED <<registry, disk, name, created, written, lost, final>>

\* on_npc_defeated: everyone online who still has the quest in progress.
DefeatQuest(s) ==
  /\ Step(s, "play", "save")
  /\ \E who \in SUBSET {n \in Names : Online(n)} : who # {} /\ Change(s, who)
  /\ UNCHANGED <<registry, disk, name, created, written, lost, final>>

\* The saves that follow, one after the other, with no lock of the world held.
SaveChanged(s) ==
  /\ pc[s] = "save"
  /\ \E copy \in snap[s] :
       /\ Save(s, copy)
       /\ pc' = [pc EXCEPT ![s] = IF snap[s] = {copy} THEN "play" ELSE "save"]
  /\ UNCHANGED <<players, registry, name, fresh, created, final>>
-----------------------------------------------------------------------------
(* handle_disconnect *)

\* The read loop ends: QUIT, or the client is gone.  A session that never
\* logged in has nothing to undo.
Leave(s) ==
  /\ Step(s, "play", "erase") \/ Step(s, "new", "done")
  /\ UNCHANGED <<players, registry, disk, name, snap, fresh, created, written, lost, final>>

\* The player leaves the world; its last state is kept aside.
ErasePlayer(s) ==
  LET n == name[s]
  IN /\ Step(s, "erase", "lastSave")
     /\ snap' = [snap EXCEPT ![s] = {[n |-> n, v |-> players[n]]}]
     /\ final' = [final EXCEPT ![n] = players[n]]
     /\ players' = [players EXCEPT ![n] = 0]
     /\ UNCHANGED <<registry, disk, name, fresh, created, written, lost>>

LastSave(s) ==
  /\ Step(s, "lastSave", "remove")
  /\ \E copy \in snap[s] : Save(s, copy)
  /\ UNCHANGED <<players, registry, name, fresh, created, final>>

\* (bug) the disconnect forgets the registry
RemoveForgotten(s) ==
  /\ Step(s, "remove", "done")
  /\ UNCHANGED <<players, registry, disk, name, snap, fresh, created, written, lost, final>>

\* SessionRegistry::remove takes out whatever the name is mapped to.
Remove(s) ==
  /\ Step(s, "remove", "done")
  /\ registry' = [registry EXCEPT ![name[s]] = None]
  /\ UNCHANGED <<players, disk, name, snap, fresh, created, written, lost, final>>

Next == \E s \in Sessions :
  \/ \E n \in Names : CreateReserve(s, n) \/ ConnectCheck(s, n)
  \/ SaveCreated(s) \/ ConnectLoad(s) \/ ConnectEnter(s) \/ Register(s)
  \/ ChangeOwn(s) \/ DefeatQuest(s) \/ SaveChanged(s)
  \/ Leave(s) \/ ErasePlayer(s) \/ LastSave(s) \/ Remove(s)

Spec == Init /\ [][Next]_vars
-----------------------------------------------------------------------------
(* Properties *)

\* A name in World::players belongs to exactly one session, and every session
\* in play has its entry there: two clients never play one character, and
\* players.at(player_id) in the handlers never throws.
OneSessionPerName ==
  \A n \in Names :
    /\ Online(n) <=> \E s \in Sessions : Owns(s, n)
    /\ \A s, t \in Sessions : Owns(s, n) /\ Owns(t, n) => s = t

\* Two clients racing to create one name cannot both win, and a name that was
\* created is created again only if the save of its creation failed (the
\* comment on cmd_create_character makes no exception).
NameCreatedOnce ==
  \A n \in Names : \A c, d \in created[n] : c < d => c \in lost[n]

\* A player who was told the character exists finds it again: it has a file,
\* or the thread that creates it still holds the state to save, or that save
\* failed.
CreatedIsOnDisk ==
  \A n \in Names : \A v \in created[n] :
    \/ disk[n] # 0
    \/ v \in lost[n]
    \/ \E s \in Sessions : pc[s] = "create" /\ [n |-> n, v |-> v] \in snap[s]

\* No session is registered once its disconnection has been handled: a
\* broadcast that starts afterwards does not reach for it.
NoDeadSessionRegistered ==
  \A n \in Names, s \in Sessions :
    registry[n] = s => name[s] = n /\ pc[s] \in InWorld \cup {"lastSave", "remove"}

\* Every state a character was ever in gets written to its file or is lost to
\* a save that failed: when no thread has a copy of it left to save, none was
\* forgotten, whichever handlers changed it and in whatever order they saved.
EveryStateWritten ==
  \A n \in Names :
    (\A s \in Sessions : \A copy \in snap[s] : copy.n # n)
       => written[n] \cup lost[n] = 1..fresh[n]

\* The sessions in the registry are the characters actually online
\* (PROTOCOL.md, STATS).
PlayersRegistered ==
  \A s \in Sessions : pc[s] = "play" => registry[name[s]] = s

\* CONNECT restores the character as it was when it last went offline
\* (PROTOCOL.md, CONNECT).
ConnectRestores ==
  [][\A n \in Names : (~Online(n) /\ players'[n] # 0 /\ final[n] # 0)
        => players'[n] = final[n]]_vars

\* A save replaces the contents of the file by newer contents
\* (the comment before the saves of on_npc_defeated).
SavesGoForward == [][\A n \in Names : disk'[n] >= disk[n]]_disk
=============================================================================
