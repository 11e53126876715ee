------------------------------- MODULE MCRealm -------------------------------
(* A world of two rooms: loc.start, and a cellar with two rats. *)
EXTENDS Realm, TLC

CONSTANTS alice, bob, start, cellar, rat1, rat2, potion, grenade,
          clearRats, fetchPotion

Both == {alice, bob}
BothRooms == {start, cellar}
Rats == {rat1, rat2}
Things == {potion, grenade}

ToAndFro == (start :> {cellar}) @@ (cellar :> {start})
GrenadeAsReward == [i \in Items |-> IF i = grenade THEN None ELSE cellar]
InTheCellar == [n \in Npcs |-> cellar]
OneEachRat == [n \in Npcs |-> 1]
OneEach == [i \in Heals \cup Harms |-> 1]

BothRats == clearRats :> Rats
ThePotion == fetchPotion :> potion
FetchedReward == [q \in Quests |-> IF q = fetchPotion THEN grenade ELSE None]

OneLine == [n \in Npcs |-> IF n = rat1 THEN 1 ELSE 0]
ForClearing == [n \in Npcs |-> {clearRats}]

\* last_target is read by STATUS alone, and a copy nobody may play any more by
\* nothing: states that differ in these go on alike.
CopyView(copy) ==
  IF copy = None \/ replays + restarts = MaxIncidents THEN None ELSE [copy EXCEPT !.last_target = None]

Unread ==
  <<online, characters, room, session_room, hp, quest_status, at, room_npcs, npc_hp,
    pending, replays, late, replayed, restarts, progress,
    [p \in Players |-> CopyView(loaded[p])]>>

Sym == Permutations(Players)
=============================================================================
