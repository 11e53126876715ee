------------------------ MODULE RealmAndStore_proofs ------------------------
(***************************************************************************)
(* What holds in every world of Realm, with any players, rooms, NPCs and   *)
(* quests, over any number of restarts and of logins that play an older    *)
(* copy of a character; and what holds of the file that a character        *)
(* survives them in.                                                       *)
(*                                                                         *)
(* As long as no write fails, that file is an atomic register, for any     *)
(* threads, states and inodes and across crashes.  One thread at a time is *)
(* between lock and unlock, and what it writes to is the inode of the      *)
(* temporary name, which no reader has open.  When a write can fail, the   *)
(* rename puts what is cut short in place of the file.                     *)
(***************************************************************************)
EXTENDS Realm, CharacterStore, FiniteSetTheorems, TLAPS

\* What the properties rest on: only known characters are online, with their
\* quests begun, and the others are as Init made them.
Known ==
  /\ online \subseteq characters
  /\ \A p \in online, q \in Quests : quest_status[p][q] # "absent"
  /\ \A p \in Players \ characters :
       /\ room[p] = Start /\ session_room[p] = Start
       /\ \A q \in Quests : quest_status[p][q] = "absent"

\* NextLineThere, and what it starts from: who has heard nothing is at the
\* first line.  It holds of each copy of a character too, whose quests and places
\* in the dialogues are of one moment.
LineThere(quests, places, n) ==
  IF Sayable(quests, n) > 0 THEN places[n] < Sayable(quests, n) ELSE places[n] = 0

LinesThere ==
  \A p \in Players, n \in Npcs :
    /\ LineThere(quest_status[p], progress[p], n)
    /\ loaded[p] # None => LineThere(loaded[p].quest_status, loaded[p].progress, n)

\* CompletedMeansDead of the copies: the dead of that moment are dead still.
CopiesCompleted ==
  restarts = 0 =>
    \A p \in Players : loaded[p] # None =>
      \A q \in DOMAIN DefeatTargets :
        loaded[p].quest_status[q] = "completed" => AllDead(q)

IInv ==
  /\ TypeOK /\ Known
  /\ SessionRoomAgrees /\ NpcPresentIffAlive /\ LinesThere
  /\ CompletedMeansDead /\ CopiesCompleted /\ DefeatSettled
-----------------------------------------------------------------------------
(* The operators *)

LEMMA SayableType == ASSUME NEW quests, NEW n \in Npcs PROVE Sayable(quests, n) \in Nat
BY RealmAssumption DEF Sayable

\* Completing quests only adds to what can be said.
LEMMA LineStays ==
  ASSUME NEW quests, NEW more, NEW places \in [Npcs -> Nat], NEW n \in Npcs,
         \A q \in Quests : quests[q] = "completed" => more[q] = "completed",
         LineThere(quests, places, n)
  PROVE  LineThere(more, places, n)
<1>1. UnlockQuests[n] \subseteq Quests /\ Dialogue[n] \in Nat /\ BonusDialogue[n] \in Nat
  BY RealmAssumption DEF ValidWorld
<1>2. Unlocked(quests, n) => Unlocked(more, n)
  BY <1>1 DEF Unlocked
<1>3. Sayable(quests, n) <= Sayable(more, n)
  BY <1>1, <1>2 DEF Sayable
<1>4. Sayable(quests, n) \in Nat /\ Sayable(more, n) \in Nat
  BY SayableType
<1> QED BY <1>3, <1>4 DEF LineThere

\* A quest of a player who logs in is as it was, or begun, or over already.
LEMMA InitQuestsIs ==
  ASSUME NEW quests \in [Quests -> Statuses]
  PROVE  /\ InitQuests(quests) \in [Quests -> Statuses]
         /\ \A q \in Quests :
              InitQuests(quests)[q] = IF quests[q] # "absent" THEN quests[q]
                                      ELSE IF q \in Over THEN "completed" ELSE "in_progress"
<1>1. \A q \in Quests :
        InitQuests(quests)[q] = IF quests[q] # "absent" THEN quests[q]
                                ELSE IF q \in Over THEN "completed" ELSE "in_progress"
  BY DEF InitQuests
<1>2. InitQuests(quests) \in [Quests -> Statuses]
  BY DEF InitQuests, Statuses
<1> QED BY <1>1, <1>2

LEMMA StateType == ASSUME TypeOK, NEW p \in Players PROVE State(p) \in Copies
<1>1. [i \in Items |-> at[i][p]] \in [Items -> Nat]
  BY DEF TypeOK, Places
<1> QED BY <1>1 DEF State, Copies, TypeOK

\* A login plays a copy that is the character as it is, or an older one.
LEMMA LoginIs ==
  ASSUME TypeOK, NEW p \in Players, Connect(p) \/ ConnectOlder(p)
  PROVE  \E copy \in Copies :
           /\ Login(p, copy)
           /\ copy = State(p) \/ (loaded[p] # None /\ copy = loaded[p])
           /\ loaded' = loaded \/ loaded' = [loaded EXCEPT ![p] = None]
           /\ replays' \in 0..MaxIncidents
<1>1. CASE Connect(p)
  <2>1. State(p) \in Copies
    BY StateType
  <2>2. Login(p, State(p)) /\ loaded' = loaded /\ replays' = replays
    BY <1>1 DEF Connect
  <2>3. replays' \in 0..MaxIncidents
    BY <2>2 DEF TypeOK
  <2> QED BY <2>1, <2>2, <2>3
<1>2. CASE ConnectOlder(p)
  <2>1. loaded[p] \in Copies
    BY <1>2 DEF ConnectOlder, TypeOK
  <2>2. replays' \in 0..MaxIncidents
    BY <1>2, RealmAssumption DEF ConnectOlder, TypeOK
  <2> QED BY <1>2, <2>1, <2>2 DEF ConnectOlder
<1> QED BY <1>1, <1>2

\* What a login leaves of the others, and makes of the player.
LEMMA LoginQuests ==
  ASSUME TypeOK, NEW p \in Players, NEW copy \in Copies, Login(p, copy)
  PROVE  /\ quest_status' \in [Players -> [Quests -> Statuses]]
         /\ \A r \in Players \ {p} :
              /\ quest_status'[r] = quest_status[r]
              /\ room'[r] = room[r] /\ session_room'[r] = session_room[r]
              /\ progress'[r] = progress[r] /\ late'[r] = late[r]
         /\ quest_status'[p] = InitQuests(copy.quest_status)
         /\ progress'[p] = copy.progress
         /\ \A q \in Quests :
              quest_status'[p][q] = IF copy.quest_status[q] # "absent" THEN copy.quest_status[q]
                                    ELSE IF q \in Over THEN "completed" ELSE "in_progress"
<1>1. copy.quest_status \in [Quests -> Statuses]
  BY DEF Copies
<1>2. InitQuests(copy.quest_status) \in [Quests -> Statuses]
  BY <1>1, InitQuestsIs
<1>3. quest_status' = [quest_status EXCEPT ![p] = InitQuests(copy.quest_status)]
  BY DEF Login
<1>4. /\ quest_status' \in [Players -> [Quests -> Statuses]]
      /\ quest_status'[p] = InitQuests(copy.quest_status)
      /\ \A r \in Players \ {p} : quest_status'[r] = quest_status[r]
  BY <1>2, <1>3 DEF TypeOK
<1>5. /\ progress'[p] = copy.progress
      /\ \A r \in Players \ {p} :
           /\ room'[r] = room[r] /\ session_room'[r] = session_room[r]
           /\ progress'[r] = progress[r] /\ late'[r] = late[r]
  BY DEF Login, TypeOK
<1> QED BY <1>1, <1>4, <1>5, InitQuestsIs

LEMMA CreateQuests ==
  ASSUME TypeOK, NEW p \in Players, Create(p)
  PROVE  /\ quest_status' \in [Players -> [Quests -> Statuses]]
         /\ \A r \in Players \ {p} : quest_status'[r] = quest_status[r]
         /\ \A q \in Quests :
              quest_status'[p][q] = IF quest_status[p][q] # "absent" THEN quest_status[p][q]
                                    ELSE IF q \in Over THEN "completed" ELSE "in_progress"
<1>1. quest_status[p] \in [Quests -> Statuses]
  BY DEF TypeOK
<1>2. InitQuests(quest_status[p]) \in [Quests -> Statuses]
  BY <1>1, InitQuestsIs
<1>3. quest_status' = [quest_status EXCEPT ![p] = InitQuests(quest_status[p])]
  BY DEF Create
<1>4. /\ quest_status' \in [Players -> [Quests -> Statuses]]
      /\ quest_status'[p] = InitQuests(quest_status[p])
      /\ \A r \in Players \ {p} : quest_status'[r] = quest_status[r]
  BY <1>2, <1>3 DEF TypeOK
<1> QED BY <1>1, <1>4, InitQuestsIs

\* What completing a set of quests for some players does.
LEMMA CompleteIs ==
  ASSUME TypeOK, NEW who \in SUBSET Players, NEW done \in SUBSET Quests,
         Complete(Gains(who, done))
  PROVE  /\ quest_status' \in [Players -> [Quests -> Statuses]]
         /\ at' \in [Items -> [Places -> Nat]]
         /\ \A p \in Players, q \in Quests :
              quest_status'[p][q] =
                IF p \in who /\ q \in done /\ quest_status[p][q] = "in_progress"
                THEN "completed" ELSE quest_status[p][q]
<1> DEFINE gains == Gains(who, done)
<1>1. gains \in [Players -> SUBSET Quests]
  BY DEF Gains
<1>2. \A p \in Players, q \in Quests :
        q \in gains[p] <=> p \in who /\ q \in done /\ quest_status[p][q] = "in_progress"
  BY DEF Gains
<1>3. \A p \in Players, i \in Items : Cardinality({q \in gains[p] : Reward[q] = i}) \in Nat
  <2>1. TAKE p \in Players, i \in Items
  <2>2. IsFiniteSet({q \in gains[p] : Reward[q] = i})
    BY <1>1, FS_Subset, RealmAssumption
  <2> QED BY <2>2, FS_CardinalityType
<1> HIDE DEF gains
<1>4. at' \in [Items -> [Places -> Nat]]
  <2>1. at' = [i \in Items |-> [x \in Places |->
          IF x \in Players THEN at[i][x] + Cardinality({q \in gains[x] : Reward[q] = i}) ELSE at[i][x]]]
    BY DEF Complete, gains
  <2>2. ASSUME NEW i \in Items, NEW x \in Places
        PROVE  (IF x \in Players THEN at[i][x] + Cardinality({q \in gains[x] : Reward[q] = i})
                ELSE at[i][x]) \in Nat
    <3>1. at[i][x] \in Nat
      BY DEF TypeOK
    <3>2. CASE x \in Players
      <4>1. Cardinality({q \in gains[x] : Reward[q] = i}) \in Nat
        BY <1>3, <3>2
      <4> QED BY <3>1, <3>2, <4>1
    <3> QED BY <3>1, <3>2
  <2> QED BY <2>1, <2>2
<1>5. quest_status' = [p \in Players |-> [q \in Quests |->
        IF q \in gains[p] THEN "completed" ELSE quest_status[p][q]]]
  BY DEF Complete, gains
<1>6. quest_status' \in [Players -> [Quests -> Statuses]]
  BY <1>5 DEF TypeOK, Statuses
<1> QED BY <1>2, <1>4, <1>5, <1>6

LEMMA StrikeType ==
  ASSUME TypeOK, NEW p \in Players, NEW n \in Npcs, NEW damage \in Nat, Strike(p, n, damage)
  PROVE  /\ npc_hp' \in [Npcs -> Nat] /\ room_npcs' \in [Rooms -> SUBSET Npcs]
         /\ pending' \in [Players -> Npcs \cup Items \cup {None}]
<1>1. npc_hp[n] \in Nat
  BY DEF TypeOK
<1>2. Hurt(npc_hp[n], damage) \in Nat
  BY <1>1 DEF Hurt
<1>3. npc_hp' \in [Npcs -> Nat]
  BY <1>2 DEF Strike, TypeOK
<1>4. CASE Hurt(npc_hp[n], damage) = 0
  <2>1. /\ room_npcs' = [room_npcs EXCEPT ![room[p]] = @ \ {n}]
        /\ pending' = [pending EXCEPT ![p] = n]
    BY <1>4 DEF Strike
  <2>2. room_npcs' \in [Rooms -> SUBSET Npcs]
    BY <2>1 DEF TypeOK
  <2>3. pending' \in [Players -> Npcs \cup Items \cup {None}]
    BY <2>1 DEF TypeOK
  <2> QED BY <1>3, <2>2, <2>3
<1>5. CASE Hurt(npc_hp[n], damage) # 0
  BY <1>3, <1>5 DEF Strike, TypeOK
<1> QED BY <1>4, <1>5

-----------------------------------------------------------------------------
(* What a step can do *)

\* A command is one of an idle player's, who may walk or talk, take something or
\* strike an NPC that is there.
LEMMA CommandIs ==
  ASSUME TypeOK, NEW p \in Players, Command(p)
  PROVE  /\ p \in online /\ pending[p] = None
         /\ UNCHANGED <<online, characters, quest_status, logins, restarts>>
         /\ UNCHANGED <<room, session_room>> \/ \E r \in Rooms : GoTo(p, r)
         /\ \/ UNCHANGED <<npcVars, pending>>
            \/ UNCHANGED npcVars /\ \E i \in Items : pending' = [pending EXCEPT ![p] = i]
            \/ \E n \in room_npcs[room[p]], damage \in Nat : Strike(p, n, damage)
         /\ \/ UNCHANGED progress
            \/ \E n \in Npcs :
                 /\ Sayable(quest_status[p], n) > 0
                 /\ progress' = [progress EXCEPT ![p][n] = (@ + 1) % Sayable(quest_status[p], n)]
<1> USE DEF Idle, npcVars, body
<1>1. ASSUME NEW r \in Rooms, Move(p, r) PROVE GoTo(p, r)
  BY <1>1 DEF Move
<1>2. CASE \E r \in Rooms : Move(p, r)
  BY <1>1, <1>2 DEF Move
<1>3. CASE \E i \in Items : Take(p, i)
  BY <1>3 DEF Take
<1>4. CASE \E i \in Items : Drop(p, i) \/ UseHeal(p, i)
  BY <1>4 DEF Drop, UseHeal
<1>5. CASE \E i \in Items, n \in Npcs : UseHarm(p, i, n)
  BY <1>5, RealmAssumption DEF UseHarm
<1>6. ASSUME NEW n \in Npcs, Attack(p, n)
      PROVE  /\ p \in online /\ pending[p] = None
             /\ UNCHANGED <<online, characters, quest_status, logins, restarts, progress>>
             /\ UNCHANGED <<room, session_room>> \/ \E r \in Rooms : GoTo(p, r)
             /\ n \in room_npcs[room[p]] /\ \E damage \in Nat : Strike(p, n, damage)
  <2>1. Start \in Rooms /\ Hits \subseteq Nat
    BY RealmAssumption DEF ValidWorld
  <2> QED BY <1>6, <2>1 DEF Attack, Counter, Respawn
<1>7. CASE \E n \in Npcs : Attack(p, n)
  BY <1>6, <1>7
<1>8. CASE \E n \in Npcs : Talk(p, n)
  BY <1>8 DEF Talk
<1> QED BY <1>2, <1>3, <1>4, <1>5, <1>7, <1>8 DEF Command

\* Settling the quests of a kill or of an item.
LEMMA SettleIs ==
  ASSUME TypeOK, NEW p \in Players, OnItemTaken(p) \/ OnNpcDefeated(p)
  PROVE  \E who \in SUBSET Players, done \in SUBSET Quests :
           /\ Complete(Gains(who, done))
           /\ pending' = [pending EXCEPT ![p] = None]
           /\ UNCHANGED <<online, body, npcVars, logins, restarts, progress>>
           /\ \/ /\ pending[p] \in Items /\ done \cap DOMAIN DefeatTargets = {}
              \/ /\ pending[p] \in Npcs /\ who = online
                 /\ done = {q \in Over : pending[p] \in DefeatTargets[q]}
<1>1. CASE OnItemTaken(p)
  <2>1. {q \in DOMAIN FetchTarget : FetchTarget[q] = pending[p]} \in SUBSET Quests
    BY DEF Quests
  <2> QED BY <1>1, <2>1, RealmAssumption DEF OnItemTaken
<1>2. CASE OnNpcDefeated(p)
  <2>1. {q \in Over : pending[p] \in DefeatTargets[q]} \in SUBSET Quests /\ online \in SUBSET Players
    BY DEF Quests, Over, TypeOK
  <2> QED BY <1>2, <2>1 DEF OnNpcDefeated
<1> QED BY <1>1, <1>2

\* No step undoes a quest, but a login with an older copy.
LEMMA CompletedStays ==
  ASSUME TypeOK, [Next]_vars, NEW p \in Players, ~ConnectOlder(p),
         NEW q \in Quests, quest_status[p][q] = "completed"
  PROVE  quest_status'[p][q] = "completed"
<1>1. CASE UNCHANGED vars
  BY <1>1 DEF vars
<1>2. CASE Restart
  BY <1>2 DEF Restart
<1>3. ASSUME NEW r \in Players, Create(r) PROVE quest_status'[p][q] = "completed"
  BY <1>3, CreateQuests
<1>4. ASSUME NEW r \in Players, Connect(r) \/ ConnectOlder(r) PROVE quest_status'[p][q] = "completed"
  <2>1. CASE r # p
    BY <1>4, <2>1, LoginIs, LoginQuests
  <2>2. CASE r = p
    <3>1. Login(p, State(p)) /\ State(p).quest_status = quest_status[p]
      BY <1>4, <2>2 DEF Connect, State
    <3> QED BY <3>1, StateType, LoginQuests
  <2> QED BY <2>1, <2>2
<1>5. ASSUME NEW r \in Players, Load(r) \/ Disconnect(r) PROVE quest_status'[p][q] = "completed"
  BY <1>5 DEF Load, Disconnect
<1>6. ASSUME NEW r \in Players, Command(r) PROVE quest_status'[p][q] = "completed"
  BY <1>6, CommandIs
<1>7. ASSUME NEW r \in Players, OnItemTaken(r) \/ OnNpcDefeated(r) PROVE quest_status'[p][q] = "completed"
  <2>1. PICK who \in SUBSET Players, done \in SUBSET Quests : Complete(Gains(who, done))
    BY <1>7, SettleIs
  <2> QED BY <2>1, CompleteIs
<1> QED BY <1>1, <1>2, <1>3, <1>4, <1>5, <1>6, <1>7 DEF Next
-----------------------------------------------------------------------------
(* Types *)

\* What TAKE and DROP do to the listings: x lists the item no more, y once more.
LEMMA MovedIs ==
  ASSUME TypeOK, NEW i \in Items, NEW x \in Places, NEW y \in Places,
         at' = [at EXCEPT ![i][x] = 0, ![i][y] = @ + 1]
  PROVE  /\ at' \in [Items -> [Places -> Nat]]
         /\ \A j \in Items \ {i} : at'[j] = at[j]
         /\ x # y => \A z \in Places :
              at'[i][z] = IF z = x THEN 0 ELSE IF z = y THEN at[i][y] + 1 ELSE at[i][z]
<1> DEFINE moved == [at[i] EXCEPT ![x] = 0, ![y] = @ + 1]
<1>1. at \in [Items -> [Places -> Nat]]
  BY DEF TypeOK
<1>2. moved \in [Places -> Nat]
  BY <1>1
<1>3. at' = [at EXCEPT ![i] = moved]
  BY <1>1
<1>4. x # y => \A z \in Places :
        moved[z] = IF z = x THEN 0 ELSE IF z = y THEN at[i][y] + 1 ELSE at[i][z]
  BY <1>1
<1> HIDE DEF moved
<1> QED BY <1>1, <1>2, <1>3, <1>4

LEMMA CommandType == ASSUME TypeOK, NEW p \in Players, Command(p) PROVE TypeOK'
<1> USE DEF Idle, npcVars, body, logins
<1>1. ASSUME NEW r \in Rooms, Move(p, r) PROVE TypeOK'
  BY <1>1 DEF Move, GoTo, TypeOK
<1>2. ASSUME NEW i \in Items, Take(p, i) PROVE TypeOK'
  <2>1. p \in Places /\ room[p] \in Places
    BY DEF Places, TypeOK
  <2>2. at' \in [Items -> [Places -> Nat]]
    BY <1>2, <2>1, MovedIs DEF Take
  <2>3. pending' \in [Players -> Npcs \cup Items \cup {None}]
    BY <1>2 DEF Take, TypeOK
  <2> QED BY <1>2, <2>2, <2>3 DEF Take, TypeOK
<1>3. ASSUME NEW i \in Items, Drop(p, i) PROVE TypeOK'
  <2>1. p \in Places /\ room[p] \in Places
    BY DEF Places, TypeOK
  <2>2. at' \in [Items -> [Places -> Nat]]
    BY <1>3, <2>1, MovedIs DEF Drop
  <2> QED BY <1>3, <2>2 DEF Drop, TypeOK
<1>4. ASSUME NEW i \in Items, UseHeal(p, i) PROVE TypeOK'
  <2>1. Amount[i] \in Nat /\ MaxHp \in Nat
    BY <1>4, RealmAssumption DEF UseHeal
  <2>2. hp' \in [Players -> 0..MaxHp]
    BY <1>4, <2>1 DEF UseHeal, Heal, TypeOK
  <2>3. at' \in [Items -> [Places -> Nat]]
    BY <1>4 DEF UseHeal, TypeOK, Places
  <2> QED BY <1>4, <2>2, <2>3 DEF UseHeal, TypeOK
<1>5. ASSUME NEW i \in Items, NEW n \in Npcs, UseHarm(p, i, n) PROVE TypeOK'
  <2>1. Amount[i] \in Nat /\ Strike(p, n, Amount[i])
    BY <1>5, RealmAssumption DEF UseHarm
  <2>2. at' \in [Items -> [Places -> Nat]]
    BY <1>5 DEF UseHarm, TypeOK, Places
  <2> QED BY <1>5, <2>1, <2>2, StrikeType DEF UseHarm, TypeOK
<1>6. ASSUME NEW n \in Npcs, Attack(p, n) PROVE TypeOK'
  <2>1. /\ Start \in Rooms /\ Hits \subseteq Nat /\ Counters \subseteq Nat
        /\ RespawnHp \in 0..MaxHp
    BY RealmAssumption DEF ValidWorld
  <2>2. /\ npc_hp' \in [Npcs -> Nat] /\ room_npcs' \in [Rooms -> SUBSET Npcs]
        /\ pending' \in [Players -> Npcs \cup Items \cup {None}]
    BY <1>6, <2>1, StrikeType DEF Attack
  <2>3. ASSUME NEW back \in Counters, Counter(p, back)
        PROVE  /\ room' \in [Players -> Rooms] /\ session_room' \in [Players -> Rooms]
               /\ hp' \in [Players -> 0..MaxHp]
    <3>1. CASE back < hp[p]
      <4>1. hp[p] - back \in 0..MaxHp
        BY <2>1, <3>1, RealmAssumption DEF TypeOK
      <4> QED BY <2>3, <3>1, <4>1 DEF Counter, TypeOK
    <3>2. CASE ~(back < hp[p])
      BY <2>1, <2>3, <3>2 DEF Counter, Respawn, GoTo, TypeOK
    <3> QED BY <3>1, <3>2
  <2>4. /\ room' \in [Players -> Rooms] /\ session_room' \in [Players -> Rooms]
        /\ hp' \in [Players -> 0..MaxHp]
    BY <1>6, <2>3 DEF Attack, TypeOK
  <2> QED BY <1>6, <2>2, <2>4 DEF Attack, TypeOK
<1>7. ASSUME NEW n \in Npcs, Talk(p, n) PROVE TypeOK'
  <2>1. progress' \in [Players -> [Npcs -> Nat]]
    BY <1>7, SayableType DEF Talk, TypeOK
  <2> QED BY <1>7, <2>1 DEF Talk, TypeOK
<1> QED BY <1>1, <1>2, <1>3, <1>4, <1>5, <1>6, <1>7 DEF Command

LEMMA NextTypeOK == TypeOK /\ [Next]_vars => TypeOK'
<1> SUFFICES ASSUME TypeOK, [Next]_vars PROVE TypeOK'
  OBVIOUS
<1>1. CASE UNCHANGED vars
  BY <1>1 DEF vars, TypeOK
<1>2. CASE Restart
  <2>1. at' \in [Items -> [Places -> Nat]]
    BY <1>2 DEF Restart, Placed, TypeOK, Places
  <2>2. room_npcs' \in [Rooms -> SUBSET Npcs] /\ npc_hp' \in [Npcs -> Nat]
    BY <1>2, RealmAssumption DEF Restart, LoadedNpcs
  <2>3. restarts' \in 0..MaxIncidents
    BY <1>2, RealmAssumption DEF Restart, TypeOK
  <2>4. /\ late' \in [Players -> SUBSET Quests]
        /\ pending' \in [Players -> Npcs \cup Items \cup {None}]
        /\ online' \subseteq Players
    BY <1>2 DEF Restart
  <2>5. UNCHANGED <<body, quest_status, progress, loaded, replays, replayed>>
    BY <1>2 DEF Restart
  <2> QED BY <2>1, <2>2, <2>3, <2>4, <2>5 DEF TypeOK, body
<1>3. ASSUME NEW p \in Players, Create(p) \/ Load(p) PROVE TypeOK'
  <2>1. CASE Create(p)
    <3>1. quest_status' \in [Players -> [Quests -> Statuses]]
      BY <2>1, CreateQuests
    <3>2. online' \subseteq Players /\ characters' \subseteq Players
      BY <2>1 DEF Create, TypeOK
    <3> QED BY <2>1, <3>1, <3>2 DEF Create, TypeOK, npcVars, logins
  <2>2. CASE Load(p)
    <3>1. loaded' \in [Players -> Copies \cup {None}]
      BY <2>2, StateType DEF Load, TypeOK
    <3>2. UNCHANGED <<online, body, quest_status, at, npcVars, pending, replays, late, replayed,
                      restarts, progress>>
      BY <2>2 DEF Load
    <3> QED BY <3>1, <3>2 DEF TypeOK, npcVars, body
  <2> QED BY <1>3, <2>1, <2>2
<1>7. ASSUME NEW p \in Players, Connect(p) \/ ConnectOlder(p) PROVE TypeOK'
  <2>1. PICK copy \in Copies :
          /\ Login(p, copy)
          /\ loaded' = loaded \/ loaded' = [loaded EXCEPT ![p] = None]
          /\ replays' \in 0..MaxIncidents
    BY <1>7, LoginIs
  <2>2. quest_status' \in [Players -> [Quests -> Statuses]]
    BY <2>1, LoginQuests
  <2>3. late' \in [Players -> SUBSET Quests]
    <3>1. {q \in Over : Settled(q)} \subseteq Quests
      BY DEF Over, Quests
    <3>2. late' = [late EXCEPT ![p] = {q \in Over : Settled(q)}]
      BY <2>1 DEF Login
    <3> QED BY <3>1, <3>2 DEF TypeOK
  <2>4. at' \in [Items -> [Places -> Nat]]
    <3>1. copy.items \in [Items -> Nat]
      BY DEF Copies
    <3>2. at' = [i \in Items |-> [at[i] EXCEPT ![p] = copy.items[i]]]
      BY <2>1 DEF Login
    <3> QED BY <3>1, <3>2 DEF TypeOK
  <2>5. /\ room' \in [Players -> Rooms] /\ session_room' \in [Players -> Rooms]
        /\ hp' \in [Players -> 0..MaxHp]
        /\ last_target' \in [Players -> Npcs \cup {None}]
        /\ progress' \in [Players -> [Npcs -> Nat]]
    BY <2>1 DEF Login, Copies, TypeOK
  <2>6. loaded' \in [Players -> Copies \cup {None}]
    BY <2>1 DEF TypeOK
  <2>7. online' \subseteq Players /\ replayed' \subseteq Items
    BY <2>1 DEF Login, TypeOK
  <2>8. UNCHANGED <<characters, npcVars, pending, restarts>>
    BY <2>1 DEF Login
  <2> QED BY <2>1, <2>2, <2>3, <2>4, <2>5, <2>6, <2>7, <2>8 DEF TypeOK, npcVars
<1>4. ASSUME NEW p \in Players, Disconnect(p) PROVE TypeOK'
  BY <1>4 DEF Disconnect, TypeOK, npcVars, body
<1>5. ASSUME NEW p \in Players, Command(p) PROVE TypeOK'
  BY <1>5, CommandType
<1>6. ASSUME NEW p \in Players, OnItemTaken(p) \/ OnNpcDefeated(p) PROVE TypeOK'
  <2>1. PICK who \in SUBSET Players, done \in SUBSET Quests :
          /\ Complete(Gains(who, done))
          /\ pending' = [pending EXCEPT ![p] = None]
          /\ UNCHANGED <<online, body, npcVars, logins, restarts, progress>>
    BY <1>6, SettleIs
  <2>2. /\ quest_status' \in [Players -> [Quests -> Statuses]]
        /\ at' \in [Items -> [Places -> Nat]]
    BY <2>1, CompleteIs
  <2>3. pending' \in [Players -> Npcs \cup Items \cup {None}]
    BY <2>1 DEF TypeOK
  <2> QED BY <2>1, <2>2, <2>3 DEF TypeOK, npcVars, body, logins
<1> QED BY <1>1, <1>2, <1>3, <1>4, <1>5, <1>6, <1>7 DEF Next
-----------------------------------------------------------------------------
(* The parts of the invariant *)

LEMMA InitInv == Init => IInv
<1> SUFFICES ASSUME Init PROVE IInv
  OBVIOUS
<1>1. TypeOK
  BY RealmAssumption DEF Init, TypeOK, ValidWorld, Statuses, Placed, Places, LoadedNpcs
<1>2. Known /\ SessionRoomAgrees /\ DefeatSettled
  BY DEF Init, Known, SessionRoomAgrees, DefeatSettled
<1>3. NpcPresentIffAlive
  BY RealmAssumption DEF Init, NpcPresentIffAlive, LoadedNpcs
<1>4. LinesThere
  BY SayableType DEF Init, LinesThere, LineThere
<1>5. CompletedMeansDead /\ CopiesCompleted
  BY DEF Init, CompletedMeansDead, CopiesCompleted, Quests
<1> QED BY <1>1, <1>2, <1>3, <1>4, <1>5 DEF IInv

LEMMA NextKnown == TypeOK /\ Known /\ [Next]_vars => Known'
<1> SUFFICES ASSUME TypeOK, Known, [Next]_vars PROVE Known'
  OBVIOUS
<1>1. CASE UNCHANGED vars
  BY <1>1 DEF vars, Known
<1>2. CASE Restart
  BY <1>2 DEF Restart, Known, body
<1>3. ASSUME NEW p \in Players, Create(p) PROVE Known'
  <2>1. \A q \in Quests : quest_status'[p][q] # "absent"
    BY <1>3, CreateQuests
  <2>2. \A r \in Players \ {p} : quest_status'[r] = quest_status[r]
    BY <1>3, CreateQuests
  <2> QED BY <1>3, <2>1, <2>2 DEF Create, Known, TypeOK
<1>7. ASSUME NEW p \in Players, Load(p) PROVE Known'
  BY <1>7 DEF Load, Known, body
<1>8. ASSUME NEW p \in Players, Connect(p) \/ ConnectOlder(p) PROVE Known'
  <2>1. PICK copy \in Copies : Login(p, copy)
    BY <1>8, LoginIs
  <2>2. p \in characters /\ online' = online \cup {p} /\ characters' = characters
    BY <2>1 DEF Login
  <2>3. \A q \in Quests : quest_status'[p][q] # "absent"
    BY <2>1, LoginQuests
  <2>4. \A r \in Players \ {p} :
          /\ quest_status'[r] = quest_status[r]
          /\ room'[r] = room[r] /\ session_room'[r] = session_room[r]
    BY <2>1, LoginQuests
  <2>5. online' \subseteq characters' /\ online \subseteq Players
    BY <2>2 DEF Known, TypeOK
  <2>6. \A r \in online', q \in Quests : quest_status'[r][q] # "absent"
    BY <2>2, <2>3, <2>4, <2>5 DEF Known
  <2>7. \A r \in Players \ characters' : r # p /\ r \in Players \ characters
    BY <2>2
  <2>8. ASSUME NEW r \in Players \ characters'
        PROVE  /\ room'[r] = Start /\ session_room'[r] = Start
               /\ \A q \in Quests : quest_status'[r][q] = "absent"
    <3>1. r \in Players \ {p} /\ r \in Players \ characters
      BY <2>7
    <3> QED BY <2>4, <3>1 DEF Known
  <2> QED BY <2>5, <2>6, <2>8 DEF Known
<1>4. ASSUME NEW p \in Players, Disconnect(p) PROVE Known'
  BY <1>4 DEF Disconnect, Known, body
<1>5. ASSUME NEW p \in Players, Command(p) PROVE Known'
  <2>1. p \in characters
    BY <1>5, CommandIs DEF Known
  <2>2. \A r \in Players \ {p} : room'[r] = room[r] /\ session_room'[r] = session_room[r]
    <3>1. UNCHANGED <<room, session_room>> \/ \E to \in Rooms : GoTo(p, to)
      BY <1>5, CommandIs
    <3> QED BY <3>1 DEF GoTo, TypeOK
  <2>3. UNCHANGED <<online, characters, quest_status>>
    BY <1>5, CommandIs
  <2> QED BY <2>1, <2>2, <2>3 DEF Known
<1>6. ASSUME NEW p \in Players, OnItemTaken(p) \/ OnNpcDefeated(p) PROVE Known'
  <2>0. PICK who \in SUBSET Players, done \in SUBSET Quests : Complete(Gains(who, done))
    BY <1>6, SettleIs
  <2>1. \A r \in Players, q \in Quests : quest_status'[r][q] = "absent" <=> quest_status[r][q] = "absent"
    BY <2>0, CompleteIs
  <2>2. UNCHANGED <<online, body>>
    BY <1>6, SettleIs
  <2> QED BY <2>1, <2>2 DEF Known, body, TypeOK
<1> QED BY <1>1, <1>2, <1>3, <1>4, <1>5, <1>6, <1>7, <1>8 DEF Next

LEMMA NextSessionRoom == TypeOK /\ Known /\ SessionRoomAgrees /\ [Next]_vars => SessionRoomAgrees'
<1> SUFFICES ASSUME TypeOK, Known, SessionRoomAgrees, [Next]_vars PROVE SessionRoomAgrees'
  OBVIOUS
<1>1. CASE UNCHANGED vars
  BY <1>1 DEF vars, SessionRoomAgrees
<1>2. CASE Restart
  BY <1>2 DEF Restart, SessionRoomAgrees
<1>3. ASSUME NEW p \in Players, Create(p) PROVE SessionRoomAgrees'
  BY <1>3 DEF Create, Known, SessionRoomAgrees
<1>4. ASSUME NEW p \in Players, Connect(p) \/ ConnectOlder(p) PROVE SessionRoomAgrees'
  <2>1. PICK copy \in Copies : Login(p, copy)
    BY <1>4, LoginIs
  <2> QED BY <2>1 DEF Login, SessionRoomAgrees, TypeOK
<1>5. ASSUME NEW p \in Players, Load(p) \/ Disconnect(p) PROVE SessionRoomAgrees'
  BY <1>5 DEF Load, Disconnect, SessionRoomAgrees, body
<1>6. ASSUME NEW p \in Players, Command(p) PROVE SessionRoomAgrees'
  <2>1. UNCHANGED <<room, session_room>> \/ \E to \in Rooms : GoTo(p, to)
    BY <1>6, CommandIs
  <2>2. UNCHANGED online
    BY <1>6, CommandIs
  <2> QED BY <2>1, <2>2 DEF GoTo, SessionRoomAgrees, TypeOK
<1>7. ASSUME NEW p \in Players, OnItemTaken(p) \/ OnNpcDefeated(p) PROVE SessionRoomAgrees'
  <2>1. UNCHANGED <<online, body>>
    BY <1>7, SettleIs
  <2> QED BY <2>1 DEF SessionRoomAgrees, body
<1> QED BY <1>1, <1>2, <1>3, <1>4, <1>5, <1>6, <1>7 DEF Next

\* A blow that kills leaves the NPC in no room, and no other changes the rooms.
LEMMA StrikeIs ==
  ASSUME TypeOK, NpcPresentIffAlive,
         NEW p \in Players, NEW n \in room_npcs[room[p]], NEW damage \in Nat, Strike(p, n, damage)
  PROVE  /\ n \in Npcs /\ npc_hp[n] > 0
         /\ \A m \in Npcs \ {n} : npc_hp'[m] = npc_hp[m]
         /\ IF npc_hp'[n] = 0 THEN pending' = [pending EXCEPT ![p] = n] ELSE UNCHANGED pending
         /\ NpcPresentIffAlive'
<1>1. room[p] \in Rooms /\ n \in Npcs /\ npc_hp[n] \in Nat
  BY DEF TypeOK
<1>2. NpcRoom[n] = room[p] /\ npc_hp[n] > 0
  BY <1>1 DEF NpcPresentIffAlive
<1>3. npc_hp' \in [Npcs -> Nat]
  BY <1>1, StrikeType
<1>4. \A m \in Npcs \ {n} : npc_hp'[m] = npc_hp[m]
  BY <1>1 DEF Strike, TypeOK
<1>5. npc_hp'[n] = Hurt(npc_hp[n], damage)
  BY <1>1 DEF Strike, TypeOK
<1>6. IF npc_hp'[n] = 0 THEN pending' = [pending EXCEPT ![p] = n] ELSE UNCHANGED pending
  BY <1>5 DEF Strike
<1>7. NpcPresentIffAlive'
  <2> SUFFICES ASSUME NEW r \in Rooms, NEW m \in Npcs
               PROVE  m \in room_npcs'[r] <=> NpcRoom[m] = r /\ npc_hp'[m] > 0
    BY DEF NpcPresentIffAlive
  <2>1. CASE npc_hp'[n] = 0
    <3>1. room_npcs' = [room_npcs EXCEPT ![room[p]] = @ \ {n}]
      BY <1>5, <2>1 DEF Strike
    <3>2. room_npcs'[r] = IF r = room[p] THEN room_npcs[r] \ {n} ELSE room_npcs[r]
      BY <3>1 DEF TypeOK
    <3>3. m \in room_npcs[r] <=> NpcRoom[m] = r /\ npc_hp[m] > 0
      BY DEF NpcPresentIffAlive
    <3> QED BY <1>2, <1>4, <2>1, <3>2, <3>3
  <2>2. CASE npc_hp'[n] # 0
    <3>1. room_npcs' = room_npcs
      BY <1>5, <2>2 DEF Strike
    <3> QED BY <1>1, <1>2, <1>3, <1>4, <2>2, <3>1 DEF NpcPresentIffAlive
  <2> QED BY <2>1, <2>2
<1> QED BY <1>1, <1>2, <1>4, <1>6, <1>7

LEMMA NextNpcPresent == TypeOK /\ NpcPresentIffAlive /\ [Next]_vars => NpcPresentIffAlive'
<1> SUFFICES ASSUME TypeOK, NpcPresentIffAlive, [Next]_vars PROVE NpcPresentIffAlive'
  OBVIOUS
<1>1. CASE UNCHANGED npcVars
  BY <1>1 DEF npcVars, NpcPresentIffAlive
<1>2. CASE Restart
  BY <1>2, RealmAssumption DEF Restart, LoadedNpcs, NpcPresentIffAlive
<1>3. ASSUME NEW p \in Players, Command(p) PROVE NpcPresentIffAlive'
  BY <1>1, <1>3, CommandIs, StrikeIs
<1>4. ASSUME NEW p \in Players, OnItemTaken(p) \/ OnNpcDefeated(p) PROVE UNCHANGED npcVars
  BY <1>4, SettleIs
<1>5. ASSUME NEW p \in Players, Connect(p) \/ ConnectOlder(p) PROVE UNCHANGED npcVars
  BY <1>5 DEF Connect, ConnectOlder, Login
<1> QED BY <1>1, <1>2, <1>3, <1>4, <1>5 DEF Next, vars, npcVars, Create, Load, Disconnect

LEMMA NextLines == TypeOK /\ LinesThere /\ [Next]_vars => LinesThere'
<1> SUFFICES ASSUME TypeOK, LinesThere, [Next]_vars, NEW p \in Players, NEW n \in Npcs
             PROVE  /\ LineThere(quest_status'[p], progress'[p], n)
                    /\ loaded'[p] # None => LineThere(loaded'[p].quest_status, loaded'[p].progress, n)
  BY DEF LinesThere, LineThere, Sayable, Unlocked
<1>1. LineThere(quest_status[p], progress[p], n) /\ progress[p] \in [Npcs -> Nat]
  BY DEF LinesThere, TypeOK
<1>2. ASSUME ~ConnectOlder(p), progress'[p] = progress[p]
      PROVE  LineThere(quest_status'[p], progress'[p], n)
  BY <1>1, <1>2, CompletedStays, LineStays
<1>3. ASSUME loaded'[p] \in {loaded[p], None}
      PROVE  loaded'[p] # None => LineThere(loaded'[p].quest_status, loaded'[p].progress, n)
  BY <1>3 DEF LinesThere
<1>4. ASSUME NEW r \in Players, Connect(r) \/ ConnectOlder(r)
      PROVE  /\ LineThere(quest_status'[p], progress'[p], n)
             /\ loaded'[p] # None => LineThere(loaded'[p].quest_status, loaded'[p].progress, n)
  <2>1. PICK copy \in Copies :
          /\ Login(r, copy)
          /\ copy = State(r) \/ (loaded[r] # None /\ copy = loaded[r])
          /\ loaded' = loaded \/ loaded' = [loaded EXCEPT ![r] = None]
    BY <1>4, LoginIs
  <2>2. loaded'[p] \in {loaded[p], None}
    BY <2>1 DEF TypeOK
  <2>3. CASE p = r
    <3>1. LineThere(copy.quest_status, copy.progress, n) /\ copy.progress \in [Npcs -> Nat]
      BY <2>1, <2>3, <1>1 DEF LinesThere, State, Copies
    <3>2. /\ \A q \in Quests :
               copy.quest_status[q] = "completed" => quest_status'[p][q] = "completed"
          /\ progress'[p] = copy.progress
      BY <2>1, <2>3, LoginQuests
    <3> QED BY <1>3, <2>2, <3>1, <3>2, LineStays
  <2>4. CASE p # r
    <3>1. quest_status'[p] = quest_status[p] /\ progress'[p] = progress[p]
      BY <2>1, <2>4, LoginQuests
    <3> QED BY <1>1, <1>3, <2>2, <3>1
  <2> QED BY <2>3, <2>4
<1>5. ASSUME NEW r \in Players, Command(r), ~ConnectOlder(p)
      PROVE  LineThere(quest_status'[p], progress'[p], n)
  <2>1. CASE UNCHANGED progress
    BY <1>2, <1>5, <2>1
  <2>2. ASSUME NEW m \in Npcs, Sayable(quest_status[r], m) > 0,
               progress' = [progress EXCEPT ![r][m] = (@ + 1) % Sayable(quest_status[r], m)]
        PROVE  LineThere(quest_status'[p], progress'[p], n)
    <3>1. quest_status' = quest_status /\ Sayable(quest_status[p], n) \in Nat /\ progress[p][n] \in Nat
      BY <1>1, <1>5, CommandIs, SayableType
    <3>2. CASE p = r /\ n = m
      <4>1. progress'[p][n] = (progress[p][n] + 1) % Sayable(quest_status[p], n)
        BY <2>2, <3>2 DEF TypeOK
      <4>2. progress'[p][n] < Sayable(quest_status[p], n)
        BY <2>2, <3>1, <3>2, <4>1
      <4> QED BY <2>2, <3>1, <3>2, <4>2 DEF LineThere
    <3>3. CASE ~(p = r /\ n = m)
      <4>1. progress'[p][n] = progress[p][n]
        BY <2>2, <3>3 DEF TypeOK
      <4> QED BY <1>1, <3>1, <4>1 DEF LineThere
    <3> QED BY <3>2, <3>3
  <2> QED BY <1>5, <2>1, <2>2, CommandIs
<1>6. ASSUME NEW r \in Players, Load(r)
      PROVE  /\ LineThere(quest_status'[p], progress'[p], n)
             /\ loaded'[p] # None => LineThere(loaded'[p].quest_status, loaded'[p].progress, n)
  <2>1. LineThere(quest_status'[p], progress'[p], n)
    BY <1>1, <1>6 DEF Load
  <2>2. CASE p # r
    <3>1. loaded'[p] = loaded[p]
      BY <1>6, <2>2 DEF Load, TypeOK
    <3> QED BY <1>3, <2>1, <3>1
  <2>3. CASE p = r
    <3>1. loaded'[p] = State(p)
      BY <1>6, <2>3 DEF Load, TypeOK
    <3>2. LineThere(State(p).quest_status, State(p).progress, n)
      BY <1>1 DEF State
    <3> QED BY <2>1, <3>1, <3>2
  <2> QED BY <2>2, <2>3
<1>7. ASSUME NEW r \in Players, OnItemTaken(r) \/ OnNpcDefeated(r) PROVE UNCHANGED <<progress, loaded>>
  BY <1>7, SettleIs DEF logins
<1>8. ASSUME NEW r \in Players, Command(r) PROVE UNCHANGED loaded
  BY <1>8, CommandIs DEF logins
<1>9. CASE ConnectOlder(p)
  BY <1>4, <1>9
<1>10. CASE ~ConnectOlder(p)
  BY <1>2, <1>3, <1>4, <1>5, <1>6, <1>7, <1>8, <1>10 DEF Next, vars, Create, Disconnect, Restart, logins
<1> QED BY <1>9, <1>10

\* The dead stay dead while the server runs.
LEMMA OverStays ==
  ASSUME TypeOK, NpcPresentIffAlive, NEW p \in Players, Command(p), NEW q \in DOMAIN DefeatTargets, AllDead(q)
  PROVE  AllDead(q)'
<1>1. DefeatTargets[q] \subseteq Npcs
  BY RealmAssumption DEF ValidWorld
<1>2. CASE UNCHANGED npcVars
  BY <1>2 DEF npcVars, AllDead
<1>3. ASSUME NEW n \in room_npcs[room[p]], NEW damage \in Nat, Strike(p, n, damage) PROVE AllDead(q)'
  BY <1>1, <1>3, StrikeIs DEF AllDead
<1> QED BY <1>2, <1>3, CommandIs

LEMMA NextCompleted ==
  TypeOK /\ NpcPresentIffAlive /\ CompletedMeansDead /\ CopiesCompleted /\ [Next]_vars
    => CompletedMeansDead'
<1> SUFFICES ASSUME TypeOK, NpcPresentIffAlive, CompletedMeansDead, CopiesCompleted, [Next]_vars,
                    restarts' = 0,
                    NEW r \in Players, NEW q \in DOMAIN DefeatTargets, quest_status'[r][q] = "completed"
             PROVE  AllDead(q)'
  BY DEF CompletedMeansDead
<1>0. q \in Quests
  BY DEF Quests
<1>1. CASE UNCHANGED vars
  BY <1>1 DEF vars, CompletedMeansDead, AllDead
<1>2. ~Restart
  BY DEF Restart, TypeOK
<1>3. ASSUME NEW p \in Players, Create(p) PROVE AllDead(q)'
  <2>1. UNCHANGED <<npc_hp, restarts>>
    BY <1>3 DEF Create, npcVars
  <2>2. quest_status[r][q] = "completed" \/ AllDead(q)
    BY <1>0, <1>3, CreateQuests DEF Over
  <2> QED BY <2>1, <2>2 DEF CompletedMeansDead, AllDead
<1>4. ASSUME NEW p \in Players, Load(p) \/ Disconnect(p) PROVE AllDead(q)'
  BY <1>4 DEF Load, Disconnect, CompletedMeansDead, AllDead, npcVars
<1>5. ASSUME NEW p \in Players, Command(p) PROVE AllDead(q)'
  BY <1>5, CommandIs, OverStays DEF CompletedMeansDead
<1>6. ASSUME NEW p \in Players, OnItemTaken(p) \/ OnNpcDefeated(p) PROVE AllDead(q)'
  <2>1. quest_status[r][q] = "completed" \/ q \in Over
    <3>1. PICK who \in SUBSET Players, done \in SUBSET Quests :
            /\ Complete(Gains(who, done))
            /\ done \cap DOMAIN DefeatTargets = {} \/ done \subseteq Over
      BY <1>6, SettleIs
    <3>2. quest_status'[r][q] =
            IF r \in who /\ q \in done /\ quest_status[r][q] = "in_progress"
            THEN "completed" ELSE quest_status[r][q]
      BY <1>0, <3>1, CompleteIs
    <3> QED BY <3>1, <3>2
  <2>2. UNCHANGED <<npcVars, restarts>>
    BY <1>6, SettleIs
  <2> QED BY <2>1, <2>2 DEF Over, CompletedMeansDead, AllDead, npcVars
<1>7. ASSUME NEW p \in Players, Connect(p) \/ ConnectOlder(p) PROVE AllDead(q)'
  <2>1. PICK copy \in Copies :
          /\ Login(p, copy)
          /\ copy = State(p) \/ (loaded[p] # None /\ copy = loaded[p])
    BY <1>7, LoginIs
  <2>2. UNCHANGED <<npc_hp, restarts>>
    BY <2>1 DEF Login, npcVars
  <2>3. CASE r # p
    <3>1. quest_status[r][q] = "completed"
      BY <2>1, <2>3, LoginQuests
    <3> QED BY <2>2, <3>1 DEF CompletedMeansDead, AllDead
  <2>4. CASE r = p
    <3>1. copy.quest_status[q] = "completed" \/ AllDead(q)
      BY <1>0, <2>1, <2>4, LoginQuests DEF Over
    <3>2. copy.quest_status[q] = "completed" => AllDead(q)
      BY <2>1, <2>2, <2>4 DEF CompletedMeansDead, CopiesCompleted, State
    <3> QED BY <2>2, <3>1, <3>2 DEF AllDead
  <2> QED BY <2>3, <2>4
<1> QED BY <1>1, <1>2, <1>3, <1>4, <1>5, <1>6, <1>7 DEF Next

LEMMA NextCopies ==
  TypeOK /\ NpcPresentIffAlive /\ CompletedMeansDead /\ CopiesCompleted /\ [Next]_vars
    => CopiesCompleted'
<1> SUFFICES ASSUME TypeOK, NpcPresentIffAlive, CompletedMeansDead, CopiesCompleted, [Next]_vars,
                    restarts' = 0, NEW r \in Players, loaded'[r] # None,
                    NEW q \in DOMAIN DefeatTargets, loaded'[r].quest_status[q] = "completed"
             PROVE  AllDead(q)'
  BY DEF CopiesCompleted
<1>1. ASSUME UNCHANGED <<npc_hp, restarts>>, loaded'[r] = loaded[r] PROVE AllDead(q)'
  BY <1>1 DEF CopiesCompleted, AllDead
<1>2. ~Restart
  BY DEF Restart, TypeOK
<1>3. ASSUME NEW p \in Players, Load(p) PROVE AllDead(q)'
  <2>1. UNCHANGED <<npc_hp, restarts>>
    BY <1>3 DEF Load, npcVars
  <2>2. CASE p # r
    <3>1. loaded'[r] = loaded[r]
      BY <1>3, <2>2 DEF Load, TypeOK
    <3> QED BY <1>1, <2>1, <3>1
  <2>3. CASE p = r
    <3>1. loaded'[r] = State(r)
      BY <1>3, <2>3 DEF Load, TypeOK
    <3>2. quest_status[r][q] = "completed"
      BY <3>1 DEF State
    <3> QED BY <2>1, <3>2 DEF CompletedMeansDead, AllDead
  <2> QED BY <2>2, <2>3
<1>4. ASSUME NEW p \in Players, Connect(p) \/ ConnectOlder(p) PROVE AllDead(q)'
  <2>1. PICK copy \in Copies :
          /\ Login(p, copy)
          /\ loaded' = loaded \/ loaded' = [loaded EXCEPT ![p] = None]
    BY <1>4, LoginIs
  <2>2. UNCHANGED <<npc_hp, restarts>>
    BY <2>1 DEF Login, npcVars
  <2>3. loaded'[r] = loaded[r]
    BY <2>1 DEF TypeOK
  <2> QED BY <1>1, <2>2, <2>3
<1>5. ASSUME NEW p \in Players, Command(p) PROVE AllDead(q)'
  <2>1. UNCHANGED <<loaded, restarts>>
    BY <1>5, CommandIs DEF logins
  <2>2. AllDead(q)
    BY <2>1 DEF CopiesCompleted
  <2> QED BY <1>5, <2>2, OverStays
<1>6. ASSUME NEW p \in Players, OnItemTaken(p) \/ OnNpcDefeated(p) PROVE AllDead(q)'
  <2>1. UNCHANGED <<npcVars, logins, restarts>>
    BY <1>6, SettleIs
  <2> QED BY <1>1, <2>1 DEF npcVars, logins
<1>7. ASSUME NEW p \in Players, Create(p) \/ Disconnect(p) PROVE AllDead(q)'
  BY <1>1, <1>7 DEF Create, Disconnect, npcVars, logins
<1>8. CASE UNCHANGED vars
  BY <1>1, <1>8 DEF vars
<1> QED BY <1>2, <1>3, <1>4, <1>5, <1>6, <1>7, <1>8 DEF Next

\* A command that is over, and a quest with no kill to settle: it was so before.
LEMMA OverBefore ==
  ASSUME TypeOK, NpcPresentIffAlive, NEW p \in Players, Command(p), NEW q \in Over', Settled(q)'
  PROVE  q \in Over /\ Settled(q)
<1>1. q \in DOMAIN DefeatTargets /\ DefeatTargets[q] \subseteq Npcs /\ None \notin Npcs
  BY RealmAssumption DEF ValidWorld, Over
<1>2. pending[p] = None
  BY CommandIs
<1>3. \A r \in Players \ {p} : pending'[r] = pending[r]
  <2>1. ASSUME NEW n \in room_npcs[room[p]], NEW damage \in Nat, Strike(p, n, damage)
        PROVE  \A r \in Players \ {p} : pending'[r] = pending[r]
    <3>1. pending' = pending \/ pending' = [pending EXCEPT ![p] = n]
      BY <2>1, StrikeIs
    <3> QED BY <3>1 DEF TypeOK
  <2>2. \/ pending' = pending
        \/ \E i \in Items : pending' = [pending EXCEPT ![p] = i]
        \/ \E n \in room_npcs[room[p]], damage \in Nat : Strike(p, n, damage)
    BY CommandIs
  <2> QED BY <2>1, <2>2 DEF TypeOK
<1>4. Settled(q)
  BY <1>1, <1>2, <1>3 DEF Settled
<1>5. CASE UNCHANGED npcVars
  <2>1. npc_hp' = npc_hp
    BY <1>5 DEF npcVars
  <2>2. AllDead(q)'
    BY DEF Over
  <2>3. AllDead(q)
    BY <2>1, <2>2 DEF AllDead
  <2> QED BY <1>1, <1>4, <2>3 DEF Over
<1>6. ASSUME NEW n \in room_npcs[room[p]], NEW damage \in Nat, Strike(p, n, damage) PROVE q \in Over
  <2>1. n \notin DefeatTargets[q] \/ npc_hp'[n] # 0
    BY <1>6, StrikeIs DEF Settled, TypeOK
  <2>2. n \notin DefeatTargets[q]
    BY <2>1 DEF Over, AllDead
  <2> QED BY <1>1, <1>6, <2>2, StrikeIs DEF Over, AllDead
<1> QED BY <1>4, <1>5, <1>6, CommandIs

LEMMA NextSettled ==
  TypeOK /\ Known /\ NpcPresentIffAlive /\ DefeatSettled /\ [Next]_vars => DefeatSettled'
<1> SUFFICES ASSUME TypeOK, Known, NpcPresentIffAlive, DefeatSettled, [Next]_vars,
                    NEW q \in Over', Settled(q)', NEW r \in online'
             PROVE  quest_status'[r][q] = "completed" \/ q \in late'[r]
  BY DEF DefeatSettled
<1>0. q \in Quests /\ q \in DOMAIN DefeatTargets
  BY DEF Over, Quests
<1>1. CASE UNCHANGED vars
  <2>1. q \in Over /\ Settled(q) /\ r \in online
    BY <1>1 DEF vars, Over, AllDead, Settled
  <2> QED BY <1>1, <2>1 DEF vars, DefeatSettled
<1>2. ~Restart
  BY DEF Restart
<1>3. ASSUME NEW p \in Players, Create(p)
      PROVE  quest_status'[r][q] = "completed" \/ q \in late'[r]
  <2>1. online' = online \cup {p} /\ UNCHANGED <<npc_hp, pending, late>>
    BY <1>3 DEF Create, npcVars, logins
  <2>2. q \in Over /\ Settled(q)
    BY <2>1 DEF Over, AllDead, Settled
  <2>3. CASE r # p
    <3>1. quest_status'[r] = quest_status[r]
      BY <1>3, <2>1, <2>3, CreateQuests DEF TypeOK
    <3> QED BY <2>1, <2>2, <2>3, <3>1 DEF DefeatSettled
  <2>4. CASE r = p
    <3>1. quest_status[p][q] = "absent"
      BY <1>0, <1>3 DEF Create, Known
    <3> QED BY <1>0, <1>3, <2>2, <2>4, <3>1, CreateQuests
  <2> QED BY <2>3, <2>4
<1>7. ASSUME NEW p \in Players, Connect(p) \/ ConnectOlder(p)
      PROVE  quest_status'[r][q] = "completed" \/ q \in late'[r]
  <2>1. PICK copy \in Copies : Login(p, copy)
    BY <1>7, LoginIs
  <2>2. online' = online \cup {p} /\ UNCHANGED <<npc_hp, pending>>
    BY <2>1 DEF Login, npcVars
  <2>3. q \in Over /\ Settled(q)
    BY <2>2 DEF Over, AllDead, Settled
  <2>4. CASE r # p
    <3>1. r \in Players /\ r \in online
      BY <2>2, <2>4 DEF TypeOK
    <3>2. quest_status'[r] = quest_status[r] /\ late'[r] = late[r]
      BY <2>1, <2>4, <3>1, LoginQuests
    <3> QED BY <2>3, <3>1, <3>2 DEF DefeatSettled
  <2>5. CASE r = p
    BY <2>1, <2>3, <2>5 DEF Login, TypeOK
  <2> QED BY <2>4, <2>5
<1>8. ASSUME NEW p \in Players, Load(p)
      PROVE  quest_status'[r][q] = "completed" \/ q \in late'[r]
  <2>1. q \in Over /\ Settled(q) /\ r \in online
    BY <1>8 DEF Load, npcVars, Over, AllDead, Settled
  <2> QED BY <1>8, <2>1 DEF Load, DefeatSettled
<1>4. ASSUME NEW p \in Players, Disconnect(p)
      PROVE  quest_status'[r][q] = "completed" \/ q \in late'[r]
  <2>1. q \in Over /\ Settled(q) /\ r \in online
    BY <1>4 DEF Disconnect, npcVars, Over, AllDead, Settled
  <2> QED BY <1>4, <2>1 DEF Disconnect, DefeatSettled, TypeOK
<1>5. ASSUME NEW p \in Players, Command(p)
      PROVE  quest_status'[r][q] = "completed" \/ q \in late'[r]
  BY <1>5, CommandIs, OverBefore DEF DefeatSettled, logins
<1>6. ASSUME NEW p \in Players, OnItemTaken(p) \/ OnNpcDefeated(p)
      PROVE  quest_status'[r][q] = "completed" \/ q \in late'[r]
  <2>1. PICK who \in SUBSET Players, done \in SUBSET Quests :
          /\ Complete(Gains(who, done))
          /\ pending' = [pending EXCEPT ![p] = None]
          /\ UNCHANGED <<online, body, npcVars, logins, restarts, progress>>
          /\ \/ /\ pending[p] \in Items /\ done \cap DOMAIN DefeatTargets = {}
             \/ /\ pending[p] \in Npcs /\ who = online
                /\ done = {d \in Over : pending[p] \in DefeatTargets[d]}
    BY <1>6, SettleIs
  <2>2. q \in Over /\ r \in online /\ late' = late
    BY <2>1 DEF npcVars, logins, Over, AllDead
  <2>3. r \in Players /\ quest_status[r] \in [Quests -> Statuses] /\ quest_status[r][q] # "absent"
    BY <1>0, <2>2 DEF TypeOK, Known
  <2>4. quest_status'[r][q] = IF r \in who /\ q \in done /\ quest_status[r][q] = "in_progress"
                              THEN "completed" ELSE quest_status[r][q]
    <3>1. Complete(Gains(who, done))
      BY <2>1
    <3> QED BY <1>0, <2>3, <3>1, CompleteIs
  <2>5. CASE pending[p] \in DefeatTargets[q]
    <3>1. pending[p] \in Npcs
      BY <1>0, <2>5, RealmAssumption DEF ValidWorld
    <3>2. r \in who /\ q \in done
      BY <2>1, <2>2, <2>5, <3>1, RealmAssumption
    <3> QED BY <1>0, <2>3, <2>4, <3>2 DEF Statuses
  <2>6. CASE pending[p] \notin DefeatTargets[q]
    <3>1. Settled(q)
      BY <2>1, <2>6 DEF Settled, TypeOK
    <3> QED BY <2>2, <2>4, <3>1 DEF DefeatSettled
  <2> QED BY <2>5, <2>6
<1> QED BY <1>1, <1>2, <1>3, <1>4, <1>5, <1>6, <1>7, <1>8 DEF Next

LEMMA Invariant == Spec => []IInv
<1>1. IInv /\ [Next]_vars => IInv'
  BY NextTypeOK, NextKnown, NextSessionRoom, NextNpcPresent, NextLines, NextCompleted,
     NextCopies, NextSettled DEF IInv
<1> QED BY <1>1, InitInv, PTL DEF Spec
-----------------------------------------------------------------------------
(* Items *)

\* No item that lies in a room is a reward as well.
RewardsNotPlaced == \A q \in Quests : Reward[q] # None => ItemRoom[Reward[q]] = None

\* What moves from one place to another is still in one.
LEMMA MovedStaysUnique ==
  ASSUME TypeOK, NEW i \in Items, NEW x \in Places, NEW y \in Places, at[i][x] > 0,
         \A j \in Items \ {i} : at'[j] = at[j],
         \A z \in Places :
           at'[i][z] = IF z = x THEN 0 ELSE IF z = y THEN at[i][y] + 1 ELSE at[i][z],
         NEW k \in Items, Unique(k)
  PROVE  Unique(k)'
<1>1. CASE k = i
  <2>1. \A z \in Places : at[i][z] \in Nat
    BY DEF TypeOK
  <2>2. \A z \in Places \ {x} : at[i][z] = 0
    BY <1>1, <2>1 DEF Unique
  <2>3. \A z \in Places : at'[i][z] = 0 \/ (z = y /\ at'[i][z] = 1)
    BY <2>2
  <2>4. \A z \in Places : at'[k][z] = 0 \/ (z = y /\ at'[k][z] = 1)
    BY <1>1, <2>3
  <2> QED BY <2>4 DEF Unique
<1>2. CASE k # i
  <2>1. at'[k] = at[k]
    BY <1>2
  <2> QED BY <2>1 DEF Unique
<1> QED BY <1>1, <1>2

LEMMA UsedStaysUnique ==
  ASSUME TypeOK, NEW i \in Items, NEW x \in Places, at' = [at EXCEPT ![i][x] = 0],
         NEW j \in Items, Unique(j)
  PROVE  Unique(j)'
<1>1. \A z \in Places : at'[j][z] \in {at[j][z], 0}
  BY DEF TypeOK
<1>2. \A z \in Places : at[j][z] \in Nat
  BY DEF TypeOK
<1> QED BY <1>1, <1>2 DEF Unique

\* Completing quests gives nobody an item that is no reward.
LEMMA RewardsStayUnique ==
  ASSUME TypeOK, NEW who \in SUBSET Players, NEW done \in SUBSET Quests,
         Complete(Gains(who, done)),
         NEW j \in Items, \A q \in Quests : Reward[q] # j, Unique(j)
  PROVE  Unique(j)'
<1> DEFINE gains == Gains(who, done)
<1>1. \A p \in Players : gains[p] \subseteq Quests
  BY DEF Gains
<1>2. \A p \in Players : {q \in gains[p] : Reward[q] = j} = {}
  BY <1>1
<1> HIDE DEF gains
<1>3. at' = [i \in Items |-> [x \in Places |->
         IF x \in Players THEN at[i][x] + Cardinality({q \in gains[x] : Reward[q] = i}) ELSE at[i][x]]]
  BY DEF Complete, gains
<1>4. ASSUME NEW x \in Places PROVE at'[j][x] = at[j][x]
  <2>1. at[j][x] \in Nat
    BY DEF TypeOK
  <2>2. CASE x \in Players
    <3>1. Cardinality({q \in gains[x] : Reward[q] = j}) = 0
      BY <1>2, <2>2, FS_EmptySet
    <3> QED BY <1>3, <2>1, <2>2, <3>1
  <2> QED BY <1>3, <2>2
<1> QED BY <1>4 DEF Unique

LEMMA NextItemUnique ==
  ASSUME RewardsNotPlaced PROVE TypeOK /\ ItemUnique /\ [Next]_vars => ItemUnique'
<1> SUFFICES ASSUME TypeOK, ItemUnique, [Next]_vars, restarts' = 0,
                    NEW j \in Items, j \notin replayed', ItemRoom[j] # None
             PROVE  Unique(j)'
  BY DEF ItemUnique
<1>1. CASE UNCHANGED vars
  BY <1>1 DEF vars, ItemUnique, Unique
<1>2. CASE Restart
  BY <1>2, RealmAssumption DEF Restart, TypeOK
<1>3. ASSUME NEW p \in Players, Create(p) \/ Load(p) \/ Disconnect(p) PROVE Unique(j)'
  BY <1>3 DEF Create, Load, Disconnect, logins, ItemUnique, Unique
<1>6. ASSUME NEW p \in Players, Connect(p) \/ ConnectOlder(p) PROVE Unique(j)'
  <2>1. PICK copy \in Copies : Login(p, copy)
    BY <1>6, LoginIs
  <2>2. j \notin replayed /\ at[j][p] = copy.items[j] /\ restarts = 0
    BY <2>1 DEF Login
  <2>3. at'[j] = [at[j] EXCEPT ![p] = copy.items[j]]
    BY <2>1 DEF Login
  <2>4. at'[j] = at[j]
    BY <2>2, <2>3 DEF TypeOK
  <2> QED BY <2>2, <2>4 DEF ItemUnique, Unique
<1>4. ASSUME NEW p \in Players, Command(p) PROVE Unique(j)'
  <2>1. Unique(j)
    BY <1>4, CommandIs DEF ItemUnique, logins
  <2>2. p \in Places /\ room[p] \in Places /\ p # room[p]
    BY RealmAssumption DEF Places, TypeOK
  <2>3. ASSUME NEW i \in Items, Take(p, i) PROVE Unique(j)'
    <3>1. at[i][room[p]] > 0 /\ at' = [at EXCEPT ![i][room[p]] = 0, ![i][p] = @ + 1]
      BY <2>3 DEF Take
    <3>2. /\ \A k \in Items \ {i} : at'[k] = at[k]
          /\ \A z \in Places :
               at'[i][z] = IF z = room[p] THEN 0 ELSE IF z = p THEN at[i][p] + 1 ELSE at[i][z]
      BY <2>2, <3>1, MovedIs
    <3>3. at[i][room[p]] > 0
      BY <3>1
    <3> QED BY <2>1, <2>2, <3>2, <3>3, MovedStaysUnique
  <2>4. ASSUME NEW i \in Items, Drop(p, i) PROVE Unique(j)'
    <3>1. at[i][p] > 0 /\ at' = [at EXCEPT ![i][p] = 0, ![i][room[p]] = @ + 1]
      BY <2>4 DEF Drop
    <3>2. /\ \A k \in Items \ {i} : at'[k] = at[k]
          /\ \A z \in Places :
               at'[i][z] = IF z = p THEN 0 ELSE IF z = room[p] THEN at[i][room[p]] + 1 ELSE at[i][z]
      BY <2>2, <3>1, MovedIs
    <3>3. at[i][p] > 0
      BY <3>1
    <3> QED BY <2>1, <2>2, <3>2, <3>3, MovedStaysUnique
  <2>5. ASSUME NEW i \in Items, UseHeal(p, i) \/ \E n \in Npcs : UseHarm(p, i, n) PROVE Unique(j)'
    <3>1. at' = [at EXCEPT ![i][p] = 0]
      BY <2>5 DEF UseHeal, UseHarm
    <3> QED BY <2>1, <2>2, <3>1, UsedStaysUnique
  <2>6. ASSUME UNCHANGED at PROVE Unique(j)'
    BY <2>1, <2>6 DEF Unique
  <2>7. CASE \E r \in Rooms : Move(p, r)
    BY <2>6, <2>7 DEF Move
  <2>8. CASE \E n \in Npcs : Attack(p, n) \/ Talk(p, n)
    BY <2>6, <2>8 DEF Attack, Talk
  <2> QED BY <1>4, <2>3, <2>4, <2>5, <2>7, <2>8 DEF Command
<1>5. ASSUME NEW p \in Players, OnItemTaken(p) \/ OnNpcDefeated(p) PROVE Unique(j)'
  <2>1. Unique(j)
    BY <1>5 DEF OnItemTaken, OnNpcDefeated, ItemUnique, logins
  <2>2. \A q \in Quests : Reward[q] # j
    BY RealmAssumption DEF RewardsNotPlaced
  <2> QED BY <1>5, <2>1, <2>2, SettleIs, RewardsStayUnique
<1> QED BY <1>1, <1>2, <1>3, <1>4, <1>5, <1>6 DEF Next

LEMMA InitItemUnique == Init => ItemUnique
<1> SUFFICES ASSUME Init, NEW j \in Items, ItemRoom[j] # None PROVE Unique(j)
  BY DEF ItemUnique
<1>1. \A x \in Places : at[j][x] = IF x = ItemRoom[j] THEN 1 ELSE 0
  BY DEF Init, Placed
<1> QED BY <1>1 DEF Unique
-----------------------------------------------------------------------------
(* The theorems *)

\* Every variable of Realm keeps its type, for any world.
THEOREM TypeCorrect == Spec => []TypeOK
<1>1. IInv => TypeOK
  BY DEF IInv
<1> QED BY <1>1, Invariant, PTL

\* The copy of the room in the session, which move, respawn and login each have
\* to write, is the room of the player.
THEOREM SessionRoomTheorem == Spec => []SessionRoomAgrees
<1>1. IInv => SessionRoomAgrees
  BY DEF IInv
<1> QED BY <1>1, Invariant, PTL

\* A room lists an NPC exactly as long as it lives, whoever strikes it.
THEOREM NpcPresentTheorem == Spec => []NpcPresentIffAlive
<1>1. IInv => NpcPresentIffAlive
  BY DEF IInv
<1> QED BY <1>1, Invariant, PTL

\* A place in a dialogue is one of a line, through restarts and logins that undo
\* quests.
THEOREM NextLineTheorem == Spec => []NextLineThere
<1>1. IInv => NextLineThere
  BY DEF IInv, LinesThere, LineThere, NextLineThere
<1> QED BY <1>1, Invariant, PTL

\* Nobody has a defeat quest completed while a target lives, until a restart.
THEOREM CompletedTheorem == Spec => []CompletedMeansDead
<1>1. IInv => CompletedMeansDead
  BY DEF IInv
<1> QED BY <1>1, Invariant, PTL

\* Once the kills are settled, who was there has the defeat quest completed,
\* although a kill and its settlement are two critical sections and players log
\* in between them, with whatever copy of their quests.
THEOREM DefeatTheorem == Spec => []DefeatSettled
<1>1. IInv => DefeatSettled
  BY DEF IInv
<1> QED BY <1>1, Invariant, PTL

\* An item placed in a room is in one place as long as the server runs, through
\* TAKE, DROP and USE of everybody and their logins, unless a login with an older
\* copy brought it back or the world gives it as a reward too.  (world.json gives
\* no rewards.)
THEOREM ItemTheorem == ASSUME RewardsNotPlaced PROVE Spec => []ItemUnique
<1>1. TypeOK /\ ItemUnique /\ [Next]_vars => ItemUnique'
  BY NextItemUnique
<1> QED BY <1>1, InitItemUnique, TypeCorrect, PTL DEF Spec

-----------------------------------------------------------------------------
(* The file of a character *)


Saving(t) == pc[t] \in {"lock", "open", "write", "rename"}

\* The mutex of the character is held from open to rename.
Locked == \A t \in Threads : pc[t] \in {"open", "write", "rename"} => lock = t

\* The temporary file is not the file.
Apart == file # Nothing => file # tmp

\* What a thread saves, and what it has open or has written.
SavesAreWhole ==
  \A t \in Threads :
    /\ state[t] # Nothing <=> Saving(t)
    /\ pc[t] = "write" => tmp # Nothing /\ stream[t] = tmp /\ data[tmp] = Truncated
    /\ pc[t] = "rename" =>
         /\ tmp # Nothing
         /\ data[tmp] = state[t] \/ (DiskFull /\ data[tmp] = Truncated)

\* What a thread reads, which nobody writes to.
LoadsAreWhole ==
  \A t \in Threads : pc[t] = "read" =>
    /\ stream[t] \in Inodes /\ stream[t] # tmp
    /\ ~DiskFull => data[stream[t]] # Truncated

FileIsWhole == ~DiskFull => NeverTruncated

StoreIInv == StoreTypeOK /\ Locked /\ Apart /\ SavesAreWhole /\ LoadsAreWhole /\ FileIsWhole

-----------------------------------------------------------------------------

LEMMA StoreInitInv == StoreInit => StoreIInv
BY CharacterStoreAssumption
   DEF StoreInit, StoreIInv, StoreTypeOK, Labels, Locked, Apart, SavesAreWhole, Saving, LoadsAreWhole,
       FileIsWhole, NeverTruncated

LEMMA StoreNextTypeOK == StoreTypeOK /\ SavesAreWhole /\ LoadsAreWhole /\ [StoreNext]_storeVars => StoreTypeOK'
<1> SUFFICES ASSUME StoreTypeOK, SavesAreWhole, LoadsAreWhole, [StoreNext]_storeVars PROVE StoreTypeOK'
  OBVIOUS
<1> USE DEF StoreTypeOK, Labels
<1>1. CASE UNCHANGED storeVars
  BY <1>1 DEF storeVars
<1>2. CASE Crash
  BY <1>2 DEF Crash
<1>3. ASSUME NEW t \in Threads, Save(t) \/ LockName(t) PROVE StoreTypeOK'
  BY <1>3 DEF Save, LockName, Goto
<1>4. ASSUME NEW t \in Threads, OpenTmp(t) PROVE StoreTypeOK'
  BY <1>4 DEF OpenTmp, Goto
<1>5. ASSUME NEW t \in Threads, Write(t) PROVE StoreTypeOK'
  <2>1. pc[t] = "write"
    BY <1>5 DEF Write, Goto
  <2>2. state[t] \in States
    BY <2>1 DEF SavesAreWhole, Saving
  <2> QED BY <1>5, <2>2 DEF Write, Goto
<1>6. ASSUME NEW t \in Threads, OpenFails(t) \/ Rename(t) \/ RenameFails(t) PROVE StoreTypeOK'
  BY <1>6 DEF OpenFails, Rename, RenameFails, Return
<1>7. ASSUME NEW t \in Threads, LoadOpen(t) PROVE StoreTypeOK'
  BY <1>7 DEF LoadOpen, Goto
<1>8. ASSUME NEW t \in Threads, LoadRead(t) PROVE StoreTypeOK'
  <2>1. stream[t] \in Inodes
    BY <1>8 DEF LoadRead, Goto, LoadsAreWhole
  <2>2. data[stream[t]] \in States \cup {Truncated}
    BY <2>1
  <2> QED BY <1>8, <2>2 DEF LoadRead, Goto
<1> QED BY <1>1, <1>2, <1>3, <1>4, <1>5, <1>6, <1>7, <1>8 DEF StoreNext

\* With the mutex, a save is alone with the temporary file.
LEMMA Alone ==
  ASSUME Locked, NEW t \in Threads, NEW u \in Threads,
         pc[t] \in {"open", "write", "rename"}, pc[u] \in {"open", "write", "rename"}
  PROVE  t = u
BY DEF Locked

LEMMA NextLocked == StoreIInv /\ [StoreNext]_storeVars => Locked'
<1> SUFFICES ASSUME StoreIInv, [StoreNext]_storeVars PROVE Locked'
  OBVIOUS
<1> USE DEF StoreIInv, StoreTypeOK, Locked
<1>1. CASE UNCHANGED storeVars
  BY <1>1 DEF storeVars
<1>2. CASE Crash
  BY <1>2 DEF Crash
<1>3. ASSUME NEW t \in Threads, LockName(t) PROVE Locked'
  <2>1. \A u \in Threads : pc[u] \notin {"open", "write", "rename"}
    BY <1>3, CharacterStoreAssumption DEF LockName
  <2> QED BY <1>3, <2>1 DEF LockName, Goto
<1>4. ASSUME NEW t \in Threads, Save(t) \/ OpenTmp(t) \/ Write(t) \/ LoadOpen(t) \/ LoadRead(t)
      PROVE  Locked'
  <2>1. lock' = lock
    BY <1>4 DEF Save, OpenTmp, Write, LoadOpen, LoadRead
  <2>2. \A u \in Threads : pc'[u] \in {"open", "write", "rename"}
                             => pc[u] \in {"open", "write", "rename"}
    BY <1>4 DEF Save, OpenTmp, Write, LoadOpen, LoadRead, Goto
  <2> QED BY <2>1, <2>2
<1>5. ASSUME NEW t \in Threads, OpenFails(t) \/ Rename(t) \/ RenameFails(t) PROVE Locked'
  <2>1. pc[t] \in {"open", "write", "rename"} /\ pc' = [pc EXCEPT ![t] = "idle"]
    BY <1>5 DEF OpenFails, Rename, RenameFails, Return
  <2>2. \A u \in Threads : pc'[u] \notin {"open", "write", "rename"}
    BY <2>1, Alone
  <2> QED BY <2>2
<1> QED BY <1>1, <1>2, <1>3, <1>4, <1>5 DEF StoreNext

LEMMA NextIInv == StoreIInv /\ [StoreNext]_storeVars => StoreIInv'
<1> SUFFICES ASSUME StoreIInv, [StoreNext]_storeVars PROVE StoreIInv'
  OBVIOUS
<1> DEFINE Files == Apart /\ SavesAreWhole /\ LoadsAreWhole /\ FileIsWhole
<1> SUFFICES Files'
  BY StoreNextTypeOK, NextLocked DEF StoreIInv
<1> USE CharacterStoreAssumption DEF StoreIInv, StoreTypeOK
<1>1. CASE UNCHANGED storeVars
  BY <1>1 DEF storeVars, Apart, SavesAreWhole, Saving, LoadsAreWhole, FileIsWhole, NeverTruncated
<1>2. CASE Crash
  BY <1>2 DEF Crash, Apart, SavesAreWhole, Saving, LoadsAreWhole, FileIsWhole, NeverTruncated
<1>3. ASSUME NEW t \in Threads, Save(t) \/ LockName(t) PROVE Files'
  <2>1. UNCHANGED <<file, tmp, data, stream>>
    BY <1>3 DEF Save, LockName
  <2>2. \A u \in Threads : pc'[u] \in {"write", "rename", "read"} => pc'[u] = pc[u] /\ u # t
    BY <1>3 DEF Save, LockName, Goto
  <2>3. \A u \in Threads \ {t} : pc'[u] = pc[u] /\ state'[u] = state[u]
    BY <1>3 DEF Save, LockName, Goto
  <2>4. Saving(t)' /\ state'[t] # Nothing
    BY <1>3 DEF Save, LockName, Goto, SavesAreWhole, Saving
  <2>5. SavesAreWhole'
    BY <2>1, <2>2, <2>3, <2>4 DEF SavesAreWhole, Saving
  <2>6. Apart' /\ LoadsAreWhole' /\ FileIsWhole'
    BY <2>1, <2>2 DEF Apart, LoadsAreWhole, FileIsWhole, NeverTruncated
  <2> QED BY <2>5, <2>6
<1>4. ASSUME NEW t \in Threads, OpenTmp(t) PROVE Files'
  <2>1. PICK i \in Inodes :
          /\ IF tmp # Nothing THEN i = tmp ELSE ~InUse(i)
          /\ tmp' = i
          /\ data' = [data EXCEPT ![i] = Truncated]
          /\ stream' = [stream EXCEPT ![t] = i]
    BY <1>4 DEF OpenTmp
  <2>2. /\ pc[t] = "open" /\ pc' = [pc EXCEPT ![t] = "write"]
        /\ UNCHANGED <<file, state>>
    BY <1>4 DEF OpenTmp, Goto
  <2>3. i # file
    BY <2>1 DEF InUse, Apart
  <2>4. \A u \in Threads : pc[u] = "read" => stream[u] # i
    BY <2>1 DEF InUse, LoadsAreWhole
  <2>5. \A u \in Threads : pc'[u] \in {"write", "rename"} => u = t
    BY <2>2, Alone
  <2>6. SavesAreWhole'
    BY <2>1, <2>2, <2>5 DEF SavesAreWhole, Saving
  <2>7. LoadsAreWhole'
    BY <2>1, <2>2, <2>4 DEF LoadsAreWhole
  <2>8. Apart' /\ FileIsWhole'
    BY <2>1, <2>2, <2>3 DEF Apart, FileIsWhole, NeverTruncated
  <2> QED BY <2>6, <2>7, <2>8
<1>5. ASSUME NEW t \in Threads, Write(t) PROVE Files'
  <2>1. /\ pc[t] = "write" /\ pc' = [pc EXCEPT ![t] = "rename"]
        /\ stream' = [stream EXCEPT ![t] = Nothing]
        /\ UNCHANGED <<file, tmp, state>>
    BY <1>5 DEF Write, Goto
  <2>2. /\ tmp \in Inodes
        /\ data' = [data EXCEPT ![tmp] = state[t]] \/ (DiskFull /\ UNCHANGED data)
    <3>1. tmp \in Inodes /\ stream[t] = tmp
      BY <2>1 DEF SavesAreWhole
    <3> QED BY <1>5, <3>1 DEF Write
  <2>3. state[t] \in States
    BY <2>1 DEF SavesAreWhole, Saving
  <2>4. \A u \in Threads : pc'[u] \in {"write", "rename"} => u = t
    BY <2>1, Alone
  <2>5. SavesAreWhole'
    BY <2>1, <2>2, <2>4 DEF SavesAreWhole, Saving
  <2>6. LoadsAreWhole'
    BY <2>1, <2>2 DEF LoadsAreWhole
  <2>7. Apart' /\ FileIsWhole'
    BY <2>1, <2>2, <2>3 DEF Apart, FileIsWhole, NeverTruncated
  <2> QED BY <2>5, <2>6, <2>7
<1>6. ASSUME NEW t \in Threads, OpenFails(t) \/ Rename(t) \/ RenameFails(t) PROVE Files'
  <2>1. /\ pc[t] \in {"open", "rename"} /\ pc' = [pc EXCEPT ![t] = "idle"]
        /\ state' = [state EXCEPT ![t] = Nothing]
        /\ stream' = [stream EXCEPT ![t] = Nothing]
        /\ data' = data
    BY <1>6 DEF OpenFails, Rename, RenameFails, Return
  <2>2. \/ UNCHANGED <<file, tmp>>
        \/ file' = tmp /\ tmp' = Nothing /\ pc[t] = "rename" /\ tmp \in Inodes
    BY <1>6 DEF OpenFails, Rename, RenameFails
  <2>3. \A u \in Threads : pc'[u] \notin {"write", "rename"}
    BY <2>1, Alone
  <2>4. SavesAreWhole'
    BY <2>1, <2>3 DEF SavesAreWhole, Saving
  <2>5. LoadsAreWhole'
    BY <2>1, <2>2 DEF LoadsAreWhole
  <2>6. file' = tmp /\ tmp # Nothing /\ pc[t] = "rename" /\ ~DiskFull => data[tmp] \in States
    BY DEF SavesAreWhole, Saving
  <2>7. Apart' /\ FileIsWhole'
    BY <2>1, <2>2, <2>6 DEF Apart, FileIsWhole, NeverTruncated
  <2> QED BY <2>4, <2>5, <2>7
<1>7. ASSUME NEW t \in Threads, LoadOpen(t) PROVE Files'
  <2>1. pc[t] = "idle" /\ UNCHANGED <<file, tmp, data, state>>
    BY <1>7 DEF LoadOpen
  <2>2. CASE file = Nothing
    BY <1>7, <2>1, <2>2 DEF LoadOpen, Apart, SavesAreWhole, Saving, LoadsAreWhole, FileIsWhole, NeverTruncated
  <2>3. CASE file # Nothing
    <3>1. pc' = [pc EXCEPT ![t] = "read"] /\ stream' = [stream EXCEPT ![t] = file]
      BY <1>7, <2>3 DEF LoadOpen, Goto
    <3>2. SavesAreWhole'
      BY <2>1, <3>1 DEF SavesAreWhole, Saving
    <3>3. LoadsAreWhole'
      BY <2>1, <2>3, <3>1 DEF LoadsAreWhole, Apart, FileIsWhole, NeverTruncated
    <3> QED BY <2>1, <3>2, <3>3 DEF Apart, FileIsWhole, NeverTruncated
  <2> QED BY <2>2, <2>3
<1>8. ASSUME NEW t \in Threads, LoadRead(t) PROVE Files'
  <2>1. /\ pc[t] = "read" /\ pc' = [pc EXCEPT ![t] = "idle"]
        /\ stream' = [stream EXCEPT ![t] = Nothing]
        /\ UNCHANGED <<file, tmp, data, state>>
    BY <1>8 DEF LoadRead, Goto
  <2>2. SavesAreWhole'
    BY <2>1 DEF SavesAreWhole, Saving
  <2> QED BY <2>1, <2>2 DEF LoadsAreWhole, Apart, FileIsWhole, NeverTruncated
<1> QED BY <1>1, <1>2, <1>3, <1>4, <1>5, <1>6, <1>7, <1>8 DEF StoreNext

LEMMA StoreInvariant == StoreSpec => []StoreIInv
BY StoreInitInv, NextIInv, PTL DEF StoreSpec

\* Every variable has its type, with a disk that can fill up too.
THEOREM StoreTypeCorrect == StoreSpec => []StoreTypeOK
BY StoreInvariant, PTL DEF StoreIInv

\* As long as no write fails, <name>.json holds one whole state at every
\* moment, and so whenever the server dies: the rename of save.
THEOREM WholeTheorem == ASSUME ~DiskFull PROVE StoreSpec => []NeverTruncated
<1>1. StoreIInv => NeverTruncated
  BY DEF StoreIInv, FileIsWhole
<1> QED BY <1>1, StoreInvariant, PTL

-----------------------------------------------------------------------------
(* CharacterStore implements CharacterFile. *)

Contents == IF file = Nothing THEN Nothing ELSE data[file]
Loaded == [t \in Threads |-> IF pc[t] = "read" THEN data[stream[t]] ELSE out[t]]

\* What is not written to the file or to what a reader has open is not seen.
LEMMA Unseen ==
  ASSUME StoreIInv, UNCHANGED <<file, state, out>>,
         file # Nothing => data'[file] = data[file],
         \A t \in Threads : (pc'[t] = "read") = (pc[t] = "read"),
         \A t \in Threads : pc[t] = "read" =>
           stream'[t] = stream[t] /\ data'[stream[t]] = data[stream[t]]
  PROVE  UNCHANGED F!fvars
<1>1. Contents' = Contents
  BY DEF Contents
<1>2. Loaded' = Loaded
  BY DEF Loaded
<1> QED BY <1>1, <1>2 DEF F!fvars, Contents, Loaded

LEMMA InitFile == StoreInit => F!FInit
BY DEF StoreInit, F!FInit

\* A step of the store is one of the file or is not seen.
LEMMA NextFile == ASSUME ~DiskFull PROVE StoreIInv /\ [StoreNext]_storeVars => [F!FNext]_(F!fvars)
<1> SUFFICES ASSUME StoreIInv, [StoreNext]_storeVars PROVE [F!FNext]_(F!fvars)
  OBVIOUS
<1> USE DEF StoreIInv, StoreTypeOK
<1>1. CASE UNCHANGED storeVars
  BY <1>1 DEF storeVars, F!fvars
<1>2. CASE Crash
  BY <1>2 DEF Crash, F!FNext, F!Restart
<1>3. ASSUME NEW t \in Threads, Save(t) PROVE F!StartSave(t)
  <2>1. \A u \in Threads : (pc'[u] = "read") = (pc[u] = "read")
    BY <1>3 DEF Save, Goto
  <2>2. Contents' = Contents /\ Loaded' = Loaded
    BY <1>3, <2>1 DEF Save, Contents, Loaded
  <2> QED BY <1>3, <2>2 DEF Save, F!StartSave, Contents, Loaded
<1>4. ASSUME NEW t \in Threads, LockName(t) PROVE UNCHANGED F!fvars
  BY <1>4, Unseen DEF LockName, Goto
<1>5. ASSUME NEW t \in Threads, OpenTmp(t) PROVE UNCHANGED F!fvars
  <2>1. PICK i \in Inodes :
          /\ IF tmp # Nothing THEN i = tmp ELSE ~InUse(i)
          /\ data' = [data EXCEPT ![i] = Truncated]
          /\ stream' = [stream EXCEPT ![t] = i]
    BY <1>5 DEF OpenTmp
  <2>2. /\ pc[t] = "open" /\ pc' = [pc EXCEPT ![t] = "write"]
        /\ UNCHANGED <<file, state, out>>
    BY <1>5 DEF OpenTmp, Goto
  <2>3. i # file /\ \A u \in Threads : pc[u] = "read" => stream[u] # i
    BY <2>1 DEF InUse, Apart, LoadsAreWhole
  <2>4. file # Nothing => data'[file] = data[file]
    BY <2>1, <2>3
  <2>5. \A u \in Threads : (pc'[u] = "read") = (pc[u] = "read")
    BY <2>2
  <2>6. \A u \in Threads : pc[u] = "read" =>
          stream'[u] = stream[u] /\ data'[stream[u]] = data[stream[u]]
    BY <2>1, <2>2, <2>3 DEF LoadsAreWhole
  <2> QED BY <2>2, <2>4, <2>5, <2>6, Unseen
<1>6. ASSUME NEW t \in Threads, Write(t) PROVE UNCHANGED F!fvars
  <2>1. /\ pc[t] = "write" /\ pc' = [pc EXCEPT ![t] = "rename"]
        /\ stream' = [stream EXCEPT ![t] = Nothing]
        /\ UNCHANGED <<file, tmp, state, out>>
    BY <1>6 DEF Write, Goto
  <2>2. tmp \in Inodes /\ stream[t] = tmp
    BY <2>1 DEF SavesAreWhole
  <2>3. data' = [data EXCEPT ![tmp] = state[t]]
    BY <1>6, <2>2 DEF Write
  <2>4. file # Nothing => data'[file] = data[file]
    BY <2>3 DEF Apart
  <2>5. \A u \in Threads : (pc'[u] = "read") = (pc[u] = "read")
    BY <2>1
  <2>6. \A u \in Threads : pc[u] = "read" =>
          stream'[u] = stream[u] /\ data'[stream[u]] = data[stream[u]]
    BY <2>1, <2>3 DEF LoadsAreWhole
  <2> QED BY <2>1, <2>4, <2>5, <2>6, Unseen
<1>7. ASSUME NEW t \in Threads, OpenFails(t) \/ RenameFails(t) PROVE F!Abandon(t)
  <2>1. /\ pc[t] \in {"open", "rename"} /\ pc' = [pc EXCEPT ![t] = "idle"]
        /\ state' = [state EXCEPT ![t] = Nothing]
        /\ stream' = [stream EXCEPT ![t] = Nothing]
        /\ UNCHANGED <<file, data, out>>
    BY <1>7 DEF OpenFails, RenameFails, Return
  <2>2. Contents' = Contents /\ Loaded' = Loaded
    BY <2>1 DEF Contents, Loaded
  <2> QED BY <2>1, <2>2 DEF F!Abandon, Contents, Loaded
<1>8. ASSUME NEW t \in Threads, Rename(t) PROVE F!Commit(t)
  <2>1. /\ pc[t] = "rename" /\ pc' = [pc EXCEPT ![t] = "idle"]
        /\ state' = [state EXCEPT ![t] = Nothing]
        /\ stream' = [stream EXCEPT ![t] = Nothing]
        /\ file' = tmp
        /\ UNCHANGED <<data, out>>
    BY <1>8 DEF Rename, Return
  <2>2. tmp # Nothing /\ data[tmp] = state[t] /\ state[t] # Nothing
    BY <2>1 DEF SavesAreWhole, Saving
  <2>3. Contents' = state[t]
    BY <2>1, <2>2 DEF Contents
  <2>4. Loaded' = Loaded
    BY <2>1 DEF Loaded
  <2> QED BY <2>1, <2>2, <2>3, <2>4 DEF F!Commit, Contents, Loaded
<1>9. ASSUME NEW t \in Threads, LoadOpen(t) PROVE F!Load(t)
  <2>1. pc[t] = "idle" /\ UNCHANGED <<file, tmp, data, state>>
    BY <1>9 DEF LoadOpen
  <2>2. Loaded' = [Loaded EXCEPT ![t] = Contents]
    <3>1. CASE file = Nothing
      BY <1>9, <2>1, <3>1 DEF LoadOpen, Contents, Loaded
    <3>2. CASE file # Nothing
      <4>1. /\ pc' = [pc EXCEPT ![t] = "read"] /\ stream' = [stream EXCEPT ![t] = file]
            /\ out' = out
        BY <1>9, <3>2 DEF LoadOpen, Goto
      <4> QED BY <2>1, <3>2, <4>1 DEF Contents, Loaded
    <3> QED BY <3>1, <3>2
  <2> QED BY <2>1, <2>2 DEF F!Load, Contents, Loaded
<1>10. ASSUME NEW t \in Threads, LoadRead(t) PROVE UNCHANGED F!fvars
  <2>1. /\ pc[t] = "read" /\ pc' = [pc EXCEPT ![t] = "idle"]
        /\ stream' = [stream EXCEPT ![t] = Nothing]
        /\ UNCHANGED <<file, tmp, data, state>>
    BY <1>10 DEF LoadRead, Goto
  <2>2. stream[t] \in Inodes /\ data[stream[t]] # Truncated
    BY <2>1 DEF LoadsAreWhole
  <2>3. out' = [out EXCEPT ![t] = data[stream[t]]]
    BY <1>10, <2>2 DEF LoadRead
  <2>4. Contents' = Contents /\ Loaded' = Loaded
    BY <2>1, <2>3 DEF Contents, Loaded
  <2> QED BY <2>1, <2>4 DEF F!fvars, Contents, Loaded
<1> QED
  BY <1>1, <1>2, <1>3, <1>4, <1>5, <1>6, <1>7, <1>8, <1>9, <1>10 DEF StoreNext, F!FNext

\* As long as no write fails, saves and loads of one character are those of an
\* atomic register, across crashes: a rename replaces all of the file, and a
\* load reads what was the file when it opened it.
THEOREM FileTheorem == ASSUME ~DiskFull PROVE StoreSpec => ImplementsFile
<1>1. StoreInit => F!FInit
  BY InitFile
<1>2. StoreIInv /\ [StoreNext]_storeVars => [F!FNext]_(F!fvars)
  BY NextFile
<1> QED BY <1>1, <1>2, StoreInvariant, PTL DEF StoreSpec, ImplementsFile, F!FSpec
=============================================================================
