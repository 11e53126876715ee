-------------------------------- MODULE Realm --------------------------------
(***************************************************************************)
(* The game inside World: where players, items and NPCs are, combat,       *)
(* quests and dialogues (commands/item_commands.cpp, combat_commands.cpp,  *)
(* quest_commands.cpp, npc_commands.cpp, and the moves and logins of       *)
(* dispatcher.cpp).                                                        *)
(*                                                                         *)
(* A critical section of World::mutex is one action.  A command that kills *)
(* an NPC or takes an item goes on, after its reply, with a second one     *)
(* (on_npc_defeated, on_item_taken); other players act in between, and     *)
(* `pending' says what it has still to be run for.  References to items    *)
(* and NPCs are resolved to one of those within reach, and a command that  *)
(* is refused changes nothing and has no action.                           *)
(*                                                                         *)
(* A login plays the state the character left with, or an older copy of    *)
(* it: one read between the two looks of cmd_connect while another session *)
(* played on, or what is in the file when the last saves failed or the     *)
(* server died before them.  Presence examines when that happens; here     *)
(* the world goes on with what it brings back.                             *)
(***************************************************************************)
EXTENDS Naturals, FiniteSets

CONSTANTS
  Players, Rooms, Items, Npcs,
  Start,          \* loc.start, also SAFE_RESPAWN_ROOM
  Exits,          \* Room::exits of each room
  ItemRoom,       \* where world.json puts each item; None for one it only gives as a reward
  NpcRoom,        \* where it puts each NPC
  Heals, Harms,   \* the items with effect Heal and Damage
  Amount,         \* effect_amount of those items
  NpcHp,          \* Npc::max_hp
  Hits,           \* damage a player's attack can deal; 0 is a miss
  Counters,       \* damage an NPC can deal when it strikes back; 0 is a miss
  MaxHp, RespawnHp,
  FetchTarget,    \* target_id of each fetch quest
  DefeatTargets,  \* target_ids of each defeat quest
  Reward,         \* reward_item_id of each quest, or None
  Dialogue, BonusDialogue, \* how many lines of each an NPC has
  UnlockQuests,   \* unlock_quest_ids of each NPC
  MaxIncidents,   \* bound: logins that play an older copy, and restarts of the server
  None

Quests == DOMAIN FetchTarget \cup DOMAIN DefeatTargets

\* What load_world refuses: references to what does not exist, items placed
\* twice, defeat quests without a target, a world without the room to start in.
ValidWorld ==
  /\ Start \in Rooms
  /\ Exits \in [Rooms -> SUBSET Rooms]
  /\ ItemRoom \in [Items -> Rooms \cup {None}]
  /\ \A q \in DOMAIN FetchTarget : FetchTarget[q] \in Items
  /\ \A q \in DOMAIN DefeatTargets : DefeatTargets[q] \in SUBSET Npcs \ {{}}
  /\ Reward \in [Quests -> Items \cup {None}]
  /\ UnlockQuests \in [Npcs -> SUBSET Quests]

\* And what it takes for granted: an NPC is in one room, alive, amounts are not
\* negative, and the world is finite, each thing in it of one kind.
ASSUME RealmAssumption ==
  /\ ValidWorld /\ IsFiniteSet(Quests)
  /\ Players \cap Rooms = {} /\ Items \cap Npcs = {}
  /\ NpcRoom \in [Npcs -> Rooms]
  /\ NpcHp \in [Npcs -> Nat \ {0}]
  /\ Heals \cup Harms \subseteq Items
  /\ Amount \in [Heals \cup Harms -> Nat]
  /\ Hits \subseteq Nat /\ Counters \subseteq Nat
  /\ RespawnHp \in Nat \ {0} /\ MaxHp \in Nat /\ RespawnHp <= MaxHp
  /\ DOMAIN FetchTarget \cap DOMAIN DefeatTargets = {}
  /\ Dialogue \in [Npcs -> Nat] /\ BonusDialogue \in [Npcs -> Nat]
  /\ MaxIncidents \in Nat
  /\ None \notin Rooms \cup Npcs \cup Items

VARIABLES
  online,        \* the keys of World::players
  characters,    \* players who created their character
  room,          \* PlayerState::current_room
  session_room,  \* Session::current_room, the copy LOOK and CHAT ROOM use
  hp,            \* PlayerState::hp
  last_target,   \* PlayerState::last_target
  quest_status,  \* PlayerState::quest_status
  at,            \* how often each item is listed in each room and inventory
  room_npcs,     \* Room::npc_ids
  npc_hp,        \* Npc::hp
  pending,       \* the NPC or item whose quests the player's command has still to settle
  progress,      \* PlayerState::npc_dialogue_progress
  loaded,        \* the older copy a login of the player may play, or None
  late,          \* history: defeat quests over, and settled, when the player connected
  replays,       \* how many logins played one
  replayed,      \* history: items that an older copy brought back, or took away
  restarts

vars == <<online, characters, room, session_room, hp, last_target, quest_status, at,
          room_npcs, npc_hp, pending, loaded, replays, late, replayed, restarts,
          progress>>

body == <<characters, room, session_room, hp, last_target>>
npcVars == <<room_npcs, npc_hp>>
logins == <<loaded, replays, late, replayed>>

Places == Rooms \cup Players

Statuses == {"absent", "in_progress", "completed"}

\* PlayerState, as it is written to the character's file.
Copies == [room : Rooms, hp : 0..MaxHp, last_target : Npcs \cup {None},
           quest_status : [Quests -> Statuses], items : [Items -> Nat], progress : [Npcs -> Nat]]

TypeOK ==
  /\ online \subseteq Players
  /\ characters \subseteq Players
  /\ room \in [Players -> Rooms]
  /\ session_room \in [Players -> Rooms]
  /\ hp \in [Players -> 0..MaxHp]
  /\ last_target \in [Players -> Npcs \cup {None}]
  /\ quest_status \in [Players -> [Quests -> Statuses]]
  /\ at \in [Items -> [Places -> Nat]]
  /\ room_npcs \in [Rooms -> SUBSET Npcs]
  /\ npc_hp \in [Npcs -> Nat]
  /\ pending \in [Players -> Npcs \cup Items \cup {None}]
  /\ progress \in [Players -> [Npcs -> Nat]]
  /\ loaded \in [Players -> Copies \cup {None}]
  /\ late \in [Players -> SUBSET Quests]
  /\ replays \in 0..MaxIncidents
  /\ replayed \subseteq Items
  /\ restarts \in 0..MaxIncidents

\* load_world: every NPC alive, and what world.json puts in each room.
Placed(i, x) == IF x = ItemRoom[i] THEN 1 ELSE 0

LoadedNpcs == [r \in Rooms |-> {n \in Npcs : NpcRoom[n] = r}]

Init ==
  /\ online = {} /\ characters = {}
  /\ room = [p \in Players |-> Start]
  /\ session_room = [p \in Players |-> Start]
  /\ hp = [p \in Players |-> MaxHp]
  /\ last_target = [p \in Players |-> None]
  /\ quest_status = [p \in Players |-> [q \in Quests |-> "absent"]]
  /\ at = [i \in Items |-> [x \in Places |-> Placed(i, x)]]
  /\ room_npcs = LoadedNpcs
  /\ npc_hp = NpcHp
  /\ pending = [p \in Players |-> None]
  /\ progress = [p \in Players |-> [n \in Npcs |-> 0]]
  /\ loaded = [p \in Players |-> None]
  /\ late = [p \in Players |-> {}]
  /\ replays = 0
  /\ replayed = {}
  /\ restarts = 0

AllDead(q) == \A n \in DefeatTargets[q] : npc_hp[n] = 0

Over == {q \in DOMAIN DefeatTargets : AllDead(q)}

\* No on_npc_defeated is on its way to the quest.
Settled(q) == \A p \in Players : pending[p] \notin DefeatTargets[q]

\* The player's thread is between two commands.
Idle(p) == p \in online /\ pending[p] = None
-----------------------------------------------------------------------------
(* Logins, moves and disconnections *)

\* init_player_quests_locked: a quest the character already has is left alone.
InitQuests(quests) ==
  [q \in Quests |->
     CASE quests[q] # "absent" -> quests[q]
       [] quests[q] = "absent" /\ q \in Over -> "completed"
       [] quests[q] = "absent" /\ q \notin Over -> "in_progress"]

Create(p) ==
  /\ p \notin characters
  /\ characters' = characters \cup {p}
  /\ online' = online \cup {p}
  /\ quest_status' = [quest_status EXCEPT ![p] = InitQuests(quest_status[p])]
  /\ UNCHANGED <<room, session_room, hp, last_target, at, npcVars, pending, logins, restarts, progress>>

State(p) ==
  [room |-> room[p], hp |-> hp[p], last_target |-> last_target[p],
   quest_status |-> quest_status[p], items |-> [i \in Items |-> at[i][p]],
   progress |-> progress[p]]

\* The state of now is what a later login will find.  (No more copies are kept
\* than may still be played.)
Load(p) ==
  /\ p \in characters /\ loaded[p] = None
  /\ Cardinality({q \in Players : loaded[q] # None}) + replays + restarts < MaxIncidents
  /\ loaded' = [loaded EXCEPT ![p] = State(p)]
  /\ UNCHANGED <<online, body, quest_status, at, npcVars, pending, replays, late, replayed,
                 restarts, progress>>

\* cmd_connect, from its second look on: the player is what the copy says.
Login(p, copy) ==
  /\ p \in characters \ online
  /\ online' = online \cup {p}
  /\ room' = [room EXCEPT ![p] = copy.room]
  /\ session_room' = [session_room EXCEPT ![p] = copy.room]
  /\ hp' = [hp EXCEPT ![p] = copy.hp]
  /\ last_target' = [last_target EXCEPT ![p] = copy.last_target]
  /\ quest_status' = [quest_status EXCEPT ![p] = InitQuests(copy.quest_status)]
  /\ at' = [i \in Items |-> [at[i] EXCEPT ![p] = copy.items[i]]]
  /\ progress' = [progress EXCEPT ![p] = copy.progress]
  /\ late' = [late EXCEPT ![p] = {q \in Over : Settled(q)}]
  /\ replayed' = replayed \cup {i \in Items : at[i][p] # copy.items[i]}
  /\ UNCHANGED <<characters, npcVars, pending, restarts>>

Connect(p) == Login(p, State(p)) /\ UNCHANGED <<loaded, replays>>

ConnectOlder(p) ==
  /\ loaded[p] # None /\ replays + restarts < MaxIncidents
  /\ Login(p, loaded[p])
  /\ loaded' = [loaded EXCEPT ![p] = None]
  /\ replays' = replays + 1

Disconnect(p) ==
  /\ Idle(p)
  /\ online' = online \ {p}
  /\ late' = [late EXCEPT ![p] = {}]
  /\ UNCHANGED <<body, quest_status, at, npcVars, pending, loaded, replays, replayed, restarts, progress>>

GoTo(p, r) ==
  /\ room' = [room EXCEPT ![p] = r]
  /\ session_room' = [session_room EXCEPT ![p] = r]

Move(p, r) ==
  /\ Idle(p)
  /\ r \in Exits[room[p]]
  /\ GoTo(p, r)
  /\ UNCHANGED <<online, characters, hp, last_target, quest_status, at, npcVars, pending,
                 logins, restarts, progress>>
-----------------------------------------------------------------------------
(* Items *)

\* (bug) TAKE copies the item out of the room
TakeCopies(p, i) ==
  /\ Idle(p)
  /\ at[i][room[p]] > 0
  /\ at' = [at EXCEPT ![i][p] = @ + 1]
  /\ pending' = [pending EXCEPT ![p] = i]
  /\ UNCHANGED <<online, body, quest_status, npcVars, logins, restarts, progress>>

\* std::remove takes out every listing of the id, push_back adds one.
Take(p, i) ==
  /\ Idle(p)
  /\ at[i][room[p]] > 0
  /\ at' = [at EXCEPT ![i][room[p]] = 0, ![i][p] = @ + 1]
  /\ pending' = [pending EXCEPT ![p] = i]
  /\ UNCHANGED <<online, body, quest_status, npcVars, logins, restarts, progress>>

Drop(p, i) ==
  /\ Idle(p)
  /\ at[i][p] > 0
  /\ at' = [at EXCEPT ![i][p] = 0, ![i][room[p]] = @ + 1]
  /\ UNCHANGED <<online, body, quest_status, npcVars, pending, logins, restarts, progress>>

\* std::max(0, hp - damage) and std::min(max_hp, hp + amount)
Hurt(h, damage) == IF damage < h THEN h - damage ELSE 0

Heal(h, amount) == IF h + amount < MaxHp THEN h + amount ELSE MaxHp

\* The item is used up.
UseHeal(p, i) ==
  /\ Idle(p) /\ hp[p] > 0
  /\ i \in Heals /\ at[i][p] > 0
  /\ at' = [at EXCEPT ![i][p] = 0]
  /\ hp' = [hp EXCEPT ![p] = Heal(@, Amount[i])]
  /\ UNCHANGED <<online, characters, room, session_room, last_target, quest_status,
                 npcVars, pending, logins, restarts, progress>>

\* (bug) a dead NPC stays in the list of its room
StrikeLeaves(p, n, damage) ==
  LET left == Hurt(npc_hp[n], damage)
  IN /\ npc_hp' = [npc_hp EXCEPT ![n] = left]
     /\ pending' = [pending EXCEPT ![p] = IF left = 0 THEN n ELSE None]
     /\ UNCHANGED room_npcs

\* Player p hits NPC n.  One who dies is taken out of the room, and p's command
\* goes on to on_npc_defeated.
Strike(p, n, damage) ==
  LET left == Hurt(npc_hp[n], damage)
  IN /\ npc_hp' = [npc_hp EXCEPT ![n] = left]
     /\ IF left = 0
        THEN /\ room_npcs' = [room_npcs EXCEPT ![room[p]] = @ \ {n}]
             /\ pending' = [pending EXCEPT ![p] = n]
        ELSE UNCHANGED <<room_npcs, pending>>

UseHarm(p, i, n) ==
  /\ Idle(p) /\ hp[p] > 0
  /\ i \in Harms /\ at[i][p] > 0
  /\ n \in room_npcs[room[p]]
  /\ at' = [at EXCEPT ![i][p] = 0]
  /\ Strike(p, n, Amount[i])
  /\ UNCHANGED <<online, body, quest_status, logins, restarts, progress>>
-----------------------------------------------------------------------------
(* Combat *)

\* (bug) the respawn moves the player and forgets the session's copy
RespawnPlayerOnly(p) ==
  /\ room' = [room EXCEPT ![p] = Start]
  /\ hp' = [hp EXCEPT ![p] = RespawnHp]
  /\ UNCHANGED session_room

Respawn(p) ==
  /\ GoTo(p, Start)
  /\ hp' = [hp EXCEPT ![p] = RespawnHp]

\* An NPC who is still alive strikes back.
Counter(p, damage) ==
  IF damage < hp[p]
  THEN hp' = [hp EXCEPT ![p] = @ - damage] /\ UNCHANGED <<room, session_room>>
  ELSE Respawn(p)

Attack(p, n) ==
  /\ Idle(p) /\ hp[p] > 0
  /\ n \in room_npcs[room[p]]
  /\ last_target' = [last_target EXCEPT ![p] = n]
  /\ \E damage \in Hits :
       /\ Strike(p, n, damage)
       /\ \/ damage >= npc_hp[n] /\ UNCHANGED <<hp, room, session_room>>
          \/ damage < npc_hp[n] /\ \E back \in Counters : Counter(p, back)
  /\ UNCHANGED <<online, characters, quest_status, at, logins, restarts, progress>>

\* STATUS
InCombat(p) == last_target[p] # None /\ npc_hp[last_target[p]] > 0
-----------------------------------------------------------------------------
(* Quests *)

\* The quests in `done' that a player has in progress complete, and the rewards
\* go to the player's inventory.
Gains(who, done) ==
  [p \in Players |->
     IF p \in who THEN {q \in done : quest_status[p][q] = "in_progress"} ELSE {}]

Complete(gains) ==
  /\ quest_status' = [p \in Players |-> [q \in Quests |->
       IF q \in gains[p] THEN "completed" ELSE quest_status[p][q]]]
  /\ at' = [i \in Items |-> [x \in Places |->
       IF x \in Players
       THEN at[i][x] + Cardinality({q \in gains[x] : Reward[q] = i})
       ELSE at[i][x]]]

OnItemTaken(p) ==
  LET done == {q \in DOMAIN FetchTarget : FetchTarget[q] = pending[p]}
  IN /\ pending[p] \in Items
     /\ Complete(Gains({p}, done))
     /\ pending' = [pending EXCEPT ![p] = None]
     /\ UNCHANGED <<online, body, npcVars, logins, restarts, progress>>

\* (bug) the quest completes with any of its targets
OnNpcDefeatedAny(p) ==
  LET done == {q \in DOMAIN DefeatTargets : pending[p] \in DefeatTargets[q]}
  IN /\ pending[p] \in Npcs
     /\ Complete(Gains(online, done))
     /\ pending' = [pending EXCEPT ![p] = None]
     /\ UNCHANGED <<online, body, npcVars, logins, restarts, progress>>

\* (bug) only the killer is given the quest
OnNpcDefeatedKiller(p) ==
  LET done == {q \in Over : pending[p] \in DefeatTargets[q]}
  IN /\ pending[p] \in Npcs
     /\ Complete(Gains({p}, done))
     /\ pending' = [pending EXCEPT ![p] = None]
     /\ UNCHANGED <<online, body, npcVars, logins, restarts, progress>>

OnNpcDefeated(p) ==
  LET done == {q \in Over : pending[p] \in DefeatTargets[q]}
  IN /\ pending[p] \in Npcs
     /\ Complete(Gains(online, done))
     /\ pending' = [pending EXCEPT ![p] = None]
     /\ UNCHANGED <<online, body, npcVars, logins, restarts, progress>>
-----------------------------------------------------------------------------
(* Dialogue *)

\* bonus_dialogue joins in once the player has completed the NPC's quests.
Unlocked(quests, n) ==
  /\ UnlockQuests[n] # {}
  /\ \A q \in UnlockQuests[n] : quests[q] = "completed"

Sayable(quests, n) == Dialogue[n] + IF Unlocked(quests, n) THEN BonusDialogue[n] ELSE 0

\* (bug) the cycle is always as long as with the bonus
TalkBeyond(p, n) ==
  /\ Idle(p) /\ n \in room_npcs[room[p]]
  /\ Sayable(quest_status[p], n) > 0
  /\ progress' = [progress EXCEPT ![p][n] = (@ + 1) % (Dialogue[n] + BonusDialogue[n])]
  /\ UNCHANGED <<online, body, quest_status, at, npcVars, pending, logins, restarts>>

\* TALK says the line that is next, in a cycle.
Talk(p, n) ==
  /\ Idle(p) /\ n \in room_npcs[room[p]]
  /\ Sayable(quest_status[p], n) > 0
  /\ progress' = [progress EXCEPT ![p][n] = (@ + 1) % Sayable(quest_status[p], n)]
  /\ UNCHANGED <<online, body, quest_status, at, npcVars, pending, logins, restarts>>
-----------------------------------------------------------------------------

\* The server is stopped, or dies, and is started: the world is loaded again,
\* characters come from their files.
Restart ==
  /\ replays + restarts < MaxIncidents
  /\ restarts' = restarts + 1
  /\ online' = {}
  /\ at' = [i \in Items |-> [x \in Places |-> IF x \in Players THEN at[i][x] ELSE Placed(i, x)]]
  /\ room_npcs' = LoadedNpcs
  /\ npc_hp' = NpcHp
  /\ pending' = [p \in Players |-> None]
  /\ late' = [p \in Players |-> {}]
  /\ UNCHANGED <<body, quest_status, progress, loaded, replays, replayed>>

Command(p) ==
  \/ \E r \in Rooms : Move(p, r)
  \/ \E i \in Items : Take(p, i) \/ Drop(p, i) \/ UseHeal(p, i)
  \/ \E i \in Items, n \in Npcs : UseHarm(p, i, n)
  \/ \E n \in Npcs : Attack(p, n) \/ Talk(p, n)

Next ==
  \/ Restart
  \/ \E p \in Players :
       \/ Create(p) \/ Load(p) \/ Connect(p) \/ ConnectOlder(p) \/ Disconnect(p) \/ Command(p)
       \/ OnItemTaken(p) \/ OnNpcDefeated(p)

Spec == Init /\ [][Next]_vars
-----------------------------------------------------------------------------
(* Properties *)

Unique(i) == \A x, y \in Places : at[i][x] <= 1 /\ (at[i][x] = 1 /\ at[i][y] = 1 => x = y)

\* A room lists an NPC exactly as long as the NPC is alive, and only its own
\* room does: nobody fights, or kills, an NPC twice.
NpcPresentIffAlive ==
  \A r \in Rooms, n \in Npcs : n \in room_npcs[r] <=> NpcRoom[n] = r /\ npc_hp[n] > 0

\* Nobody has been promised a line that is not there: the place in a dialogue
\* stays within what the player may hear, through restarts and the return of the
\* targets, and when a login takes back quests that were completed since.
NextLineThere ==
  \A p \in Players, n \in Npcs : Sayable(quest_status[p], n) > 0 => progress[p][n] < Sayable(quest_status[p], n)

\* LOOK and CHAT ROOM use the session's copy of the room: it is the room the
\* player is in, however it got there.
SessionRoomAgrees == \A p \in online : session_room[p] = room[p]

\* A defeat quest is completed for everyone who was there: once its last target
\* is dead and no on_npc_defeated is on its way, every player online has it
\* completed, whoever killed which target, in whatever order the kills were
\* settled, and also those who logged in after the last kill and before it was
\* settled.  (Not so for those who come back to find it settled: see
\* OverMeansCompleted.)
DefeatSettled ==
  \A q \in Over : Settled(q) =>
    \A p \in online : quest_status[p][q] = "completed" \/ q \in late[p]

\* Nobody has a defeat quest completed while a target is alive.  (A restart
\* brings the targets back and leaves the quests of the characters alone.)
CompletedMeansDead ==
  restarts = 0 =>
    \A p \in Players : \A q \in DOMAIN DefeatTargets :
      quest_status[p][q] = "completed" => AllDead(q)

\* An item that world.json places in a room is listed once at most, in one room
\* or one inventory, as long as the server runs (README, World Design: unique
\* instances), unless a login with an older copy brought it back.
ItemUnique ==
  restarts = 0 => \A i \in Items \ replayed : ItemRoom[i] # None => Unique(i)

\* Such an item is unique while the server runs, whatever the logins play
\* (README, World Design: unique instances).
UniqueWhileRunning == restarts = 0 => \A i \in Items : ItemRoom[i] # None => Unique(i)

\* An item given as a reward is unique too (README, Quest rewards).
RewardUnique == restarts = 0 => \A i \in Items : Unique(i)

\* Items stay unique when the server is restarted.
UniqueAcrossRestarts == \A i \in Items : ItemRoom[i] # None => Unique(i)

\* A defeat quest is completed for a player who connects after others have
\* finished it (PROTOCOL.md, QUEST: or already completed).
OverMeansCompleted ==
  \A q \in Over : Settled(q) => \A p \in online : quest_status[p][q] = "completed"

\* Combat ends the moment the player falls, and STATUS says so
\* (README, Combat states).
CombatEndsWithFall ==
  [][\A p \in online, n \in Npcs :
       Attack(p, n) /\ room'[p] # room[p] => ~InCombat(p)']_vars
=============================================================================
