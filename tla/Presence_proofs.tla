--------------------------- MODULE Presence_proofs ---------------------------
(***************************************************************************)
(* Logins, saves and disconnections, for any number of sessions and names. *)
(* First: a name in World::players is one session's, because both logins   *)
(* look at the map in the critical section that adds to it, and only the   *)
(* session that owns an entry removes it.  From that, with where the       *)
(* copies to be saved are, which states are on disk and which a failed     *)
(* save lost, that a name is created again only after such a loss and that *)
(* no state of a character is forgotten otherwise.                         *)
(***************************************************************************)
EXTENDS Presence, TLAPS

\* A thread that is past its login, or in it, has a name.
Named == \A s \in Sessions : pc[s] \notin {"new", "done"} => name[s] \in Names

\* The copies a thread holds, by where it is.
One(s, v) == snap[s] = {[n |-> name[s], v |-> v]}

Shape(s) ==
  /\ pc[s] \notin {"create", "enter", "save", "lastSave"} => snap[s] = {}
  /\ pc[s] \in {"create", "lastSave"} => \E v \in 1..MaxVersion : One(s, v)
  /\ pc[s] = "enter" => \E v \in written[name[s]] : One(s, v)

SnapShape == \A s \in Sessions : Shape(s)

\* Nothing is newer than the newest state, and a file holds a state that was
\* written to it.
Bounded ==
  /\ \A n \in Names :
       /\ players[n] <= fresh[n]
       /\ written[n] \cup lost[n] \subseteq 1..fresh[n]
       /\ disk[n] = 0 \/ disk[n] \in written[n]
  /\ \A s \in Sessions : \A copy \in snap[s] : copy.v <= fresh[copy.n]

\* A state that is not yet written is held by a thread that will try to, or a
\* save of it failed.
Accounted ==
  \A n \in Names : \A v \in 1..fresh[n] :
    \/ v \in written[n] \cup lost[n]
    \/ \E s \in Sessions : [n |-> n, v |-> v] \in snap[s]

\* A character is created in a state it then has.
Numbered == \A n \in Names : created[n] \subseteq 1..fresh[n]

Identity == TypeOK /\ Named /\ OneSessionPerName

Saving == SnapShape /\ Bounded /\ Accounted

Creation == CreatedIsOnDisk /\ NameCreatedOnce /\ Numbered

IInv == Identity /\ Saving /\ Creation /\ NoDeadSessionRegistered

LEMMA InitIInv == Init => IInv
BY PresenceAssumption
   DEF Init, IInv, Identity, Saving, TypeOK, Labels, InWorld, Copies, Named,
       OneSessionPerName, Online, Owns, SnapShape, Shape, One, Bounded, Accounted,
       Creation, CreatedIsOnDisk, NameCreatedOnce, Numbered, NoDeadSessionRegistered
-----------------------------------------------------------------------------
(* Identity *)

LEMMA SaveType ==
  ASSUME TypeOK, NEW s \in Sessions, NEW copy \in snap[s], Save(s, copy)
  PROVE  /\ disk' \in [Names -> 0..MaxVersion]
         /\ written' \in [Names -> SUBSET (1..MaxVersion)]
         /\ lost' \in [Names -> SUBSET (1..MaxVersion)]
         /\ snap' \in [Sessions -> SUBSET Copies]
<1>1. copy.n \in Names /\ copy.v \in 1..MaxVersion
  BY DEF TypeOK, Copies
<1>2. snap' \in [Sessions -> SUBSET Copies]
  BY DEF Save, TypeOK
<1>3. CASE UNCHANGED lost
  BY <1>1, <1>2, <1>3, PresenceAssumption DEF Save, TypeOK
<1>4. CASE UNCHANGED <<disk, written>>
  BY <1>1, <1>2, <1>4, PresenceAssumption DEF Save, TypeOK
<1> QED
  BY <1>3, <1>4 DEF Save

LEMMA NewVersion ==
  ASSUME TypeOK, NEW n \in Names, fresh[n] < MaxVersion
  PROVE  fresh[n] + 1 \in 1..MaxVersion /\ [n |-> n, v |-> fresh[n] + 1] \in Copies
BY PresenceAssumption DEF TypeOK, Copies

LEMMA ChangeType ==
  ASSUME TypeOK, NEW s \in Sessions, NEW who \in SUBSET Names, Change(s, who)
  PROVE  /\ players' \in [Names -> 0..MaxVersion]
         /\ fresh' \in [Names -> 0..MaxVersion]
         /\ snap' \in [Sessions -> SUBSET Copies]
<1>1. \A n \in who : fresh[n] + 1 \in 0..MaxVersion /\ [n |-> n, v |-> fresh[n] + 1] \in Copies
  BY NewVersion, PresenceAssumption DEF Change, TypeOK
<1>2. {[n |-> n, v |-> fresh[n] + 1] : n \in who} \in SUBSET Copies
  BY <1>1
<1>3. snap' \in [Sessions -> SUBSET Copies]
  BY <1>2 DEF Change, TypeOK
<1>4. players' \in [Names -> 0..MaxVersion] /\ fresh' \in [Names -> 0..MaxVersion]
  BY <1>1 DEF Change, TypeOK
<1> QED
  BY <1>3, <1>4

LEMMA NextTypeOK == Identity /\ [Next]_vars => TypeOK'
<1> SUFFICES ASSUME Identity, [Next]_vars PROVE TypeOK'
  OBVIOUS
<1> USE PresenceAssumption DEF Identity
<1>1. CASE UNCHANGED vars
  BY <1>1 DEF vars, TypeOK
<1>2. ASSUME NEW s \in Sessions, NEW n \in Names, CreateReserve(s, n) PROVE TypeOK'
  BY <1>2, NewVersion DEF CreateReserve, Step, TypeOK, Labels
<1>3. ASSUME NEW s \in Sessions, NEW n \in Names, ConnectCheck(s, n) PROVE TypeOK'
  BY <1>3 DEF ConnectCheck, Step, TypeOK, Labels
<1>4. ASSUME NEW s \in Sessions, SaveCreated(s) PROVE TypeOK'
  BY <1>4, SaveType DEF SaveCreated, Step, TypeOK, Labels
<1>5. ASSUME NEW s \in Sessions, ConnectLoad(s) PROVE TypeOK'
  <2>1. name[s] \in Names
    BY <1>5 DEF ConnectLoad, Named
  <2>2. disk[name[s]] # 0 => [n |-> name[s], v |-> disk[name[s]]] \in Copies
    BY <2>1 DEF TypeOK, Copies
  <2> QED
    BY <1>5, <2>2 DEF ConnectLoad, TypeOK, Labels
<1>6. ASSUME NEW s \in Sessions, ConnectEnter(s) PROVE TypeOK'
  <2>1. \A copy \in snap[s] : copy.v \in 0..MaxVersion
    BY DEF TypeOK, Copies
  <2> QED
    BY <1>6, <2>1 DEF ConnectEnter, TypeOK, Labels
<1>7. ASSUME NEW s \in Sessions, Register(s) PROVE TypeOK'
  BY <1>7 DEF Register, Step, TypeOK, Labels
<1>8. ASSUME NEW s \in Sessions, ChangeOwn(s) PROVE TypeOK'
  <2>1. {name[s]} \in SUBSET Names
    BY <1>8 DEF ChangeOwn, Step, Named
  <2> QED
    BY <1>8, <2>1, ChangeType DEF ChangeOwn, Step, TypeOK, Labels
<1>9. ASSUME NEW s \in Sessions, DefeatQuest(s) PROVE TypeOK'
  BY <1>9, ChangeType DEF DefeatQuest, Step, TypeOK, Labels
<1>10. ASSUME NEW s \in Sessions, SaveChanged(s) PROVE TypeOK'
  BY <1>10, SaveType DEF SaveChanged, TypeOK, Labels
<1>11. ASSUME NEW s \in Sessions, Leave(s) PROVE TypeOK'
  BY <1>11 DEF Leave, Step, TypeOK, Labels
<1>12. ASSUME NEW s \in Sessions, ErasePlayer(s) PROVE TypeOK'
  <2>1. name[s] \in Names /\ players[name[s]] \in 1..MaxVersion
    <3>1. name[s] \in Names /\ Online(name[s])
      BY <1>12 DEF ErasePlayer, Step, Named, OneSessionPerName, Owns, InWorld
    <3> QED
      BY <3>1 DEF Online, TypeOK
  <2>2. [n |-> name[s], v |-> players[name[s]]] \in Copies
    BY <2>1 DEF Copies
  <2> QED
    BY <1>12, <2>1, <2>2 DEF ErasePlayer, Step, TypeOK, Labels
<1>13. ASSUME NEW s \in Sessions, LastSave(s) PROVE TypeOK'
  BY <1>13, SaveType DEF LastSave, Step, TypeOK, Labels
<1>14. ASSUME NEW s \in Sessions, Remove(s) PROVE TypeOK'
  BY <1>14 DEF Remove, Step, TypeOK, Labels
<1> QED
  BY <1>1, <1>2, <1>3, <1>4, <1>5, <1>6, <1>7, <1>8, <1>9, <1>10, <1>11, <1>12, <1>13, <1>14
     DEF Next

\* A step that moves one thread, keeps its name and neither adds nor removes
\* characters: the thread owns its entry before and after, or neither.
LEMMA SameOwners ==
  ASSUME Identity, NEW s \in Sessions, NEW to \in Labels,
         pc' = [pc EXCEPT ![s] = to], UNCHANGED name,
         pc[s] \in InWorld <=> to \in InWorld,
         to \notin {"new", "done"} => pc[s] \notin {"new", "done"},
         \A n \in Names : players'[n] # 0 <=> players[n] # 0
  PROVE  Named' /\ OneSessionPerName'
<1>1. \A u \in Sessions : pc'[u] = IF u = s THEN to ELSE pc[u]
  BY DEF Identity, TypeOK
<1>2. \A u \in Sessions, n \in Names : Owns(u, n)' <=> Owns(u, n)
  BY <1>1 DEF Owns
<1>3. \A n \in Names : Online(n)' <=> Online(n)
  BY DEF Online
<1>4. Named'
  BY <1>1 DEF Identity, Named
<1> QED
  BY <1>2, <1>3, <1>4 DEF Identity, OneSessionPerName

\* A login: the name was not online, the thread had no character, and now has
\* that one.
LEMMA EnterOwners ==
  ASSUME Identity, NEW s \in Sessions, NEW n \in Names, NEW to \in InWorld,
         pc[s] \in {"new", "enter"}, ~Online(n), to \notin {"new", "done"},
         pc' = [pc EXCEPT ![s] = to], name' = [name EXCEPT ![s] = n],
         NEW v \in 1..MaxVersion, players' = [players EXCEPT ![n] = v]
  PROVE  Named' /\ OneSessionPerName'
<1>1. \A u \in Sessions : /\ pc'[u] = IF u = s THEN to ELSE pc[u]
                          /\ name'[u] = IF u = s THEN n ELSE name[u]
  BY DEF Identity, TypeOK
<1>2. \A m \in Names : players'[m] = IF m = n THEN v ELSE players[m]
  BY DEF Identity, TypeOK
<1>3. \A u \in Sessions, m \in Names :
        Owns(u, m)' <=> IF u = s THEN m = n ELSE Owns(u, m)
  BY <1>1 DEF Owns
<1>4. \A m \in Names : Online(m)' <=> m = n \/ Online(m)
  BY <1>2, PresenceAssumption DEF Online
<1>5. \A u \in Sessions : ~Owns(u, n)
  BY DEF Identity, OneSessionPerName
<1>6. \A m \in Names : ~Owns(s, m)
  BY DEF Owns, InWorld
<1>7. Named'
  BY <1>1 DEF Identity, Named
<1> QED
  BY <1>3, <1>4, <1>5, <1>6, <1>7 DEF Identity, OneSessionPerName

\* A step of a login outside the world, with the name it tries.
LEMMA OutsideOwners ==
  ASSUME Identity, NEW s \in Sessions, NEW to \in Labels, NEW m \in Names \cup {None},
         pc[s] \notin InWorld, to \notin InWorld,
         to \notin {"new", "done"} => m \in Names,
         pc' = [pc EXCEPT ![s] = to], name' = [name EXCEPT ![s] = m],
         UNCHANGED players
  PROVE  Named' /\ OneSessionPerName'
<1>1. \A u \in Sessions : /\ pc'[u] = IF u = s THEN to ELSE pc[u]
                          /\ name'[u] = IF u = s THEN m ELSE name[u]
  BY DEF Identity, TypeOK
<1>2. \A u \in Sessions, n \in Names : Owns(u, n)' <=> Owns(u, n)
  BY <1>1 DEF Owns
<1>3. \A n \in Names : Online(n)' <=> Online(n)
  BY DEF Online
<1>4. Named'
  BY <1>1 DEF Identity, Named
<1> QED
  BY <1>2, <1>3, <1>4 DEF Identity, OneSessionPerName

LEMMA NextOwners == Identity /\ [Next]_vars => Named' /\ OneSessionPerName'
<1> DEFINE Goal == Named' /\ OneSessionPerName'
<1> SUFFICES ASSUME Identity, [Next]_vars PROVE Goal
  OBVIOUS
<1> USE PresenceAssumption
<1>1. CASE UNCHANGED vars
  BY <1>1 DEF vars, Identity, Named, OneSessionPerName, Owns, Online
<1>2. ASSUME NEW s \in Sessions, NEW n \in Names, CreateReserve(s, n) PROVE Goal
  <2>1. fresh[n] + 1 \in 1..MaxVersion
    BY <1>2, NewVersion DEF CreateReserve, Identity
  <2>2. "create" \in InWorld
    BY DEF InWorld
  <2> QED
    BY <1>2, <2>1, <2>2, EnterOwners DEF CreateReserve, Step
<1>3. ASSUME NEW s \in Sessions, NEW n \in Names, ConnectCheck(s, n) PROVE Goal
  <2>1. "new" \notin InWorld /\ "load" \notin InWorld /\ "load" \in Labels
    BY DEF InWorld, Labels
  <2> QED
    BY <1>3, <2>1, OutsideOwners DEF ConnectCheck, Step
<1>4. ASSUME NEW s \in Sessions, SaveCreated(s) PROVE Goal
  <2>1. "create" \in InWorld /\ "register" \in InWorld /\ "register" \in Labels
    BY DEF InWorld, Labels
  <2> QED
    BY <1>4, <2>1, SameOwners DEF SaveCreated, Step
<1>5. ASSUME NEW s \in Sessions, ConnectLoad(s) PROVE Goal
  <2>1. {"load", "new", "enter"} \cap InWorld = {} /\ {"new", "enter"} \subseteq Labels
    BY DEF InWorld, Labels
  <2>2. CASE pc' = [pc EXCEPT ![s] = "new"] /\ name' = [name EXCEPT ![s] = None]
    BY <1>5, <2>1, <2>2, OutsideOwners DEF ConnectLoad
  <2>3. CASE pc' = [pc EXCEPT ![s] = "enter"] /\ UNCHANGED name
    BY <1>5, <2>1, <2>3, SameOwners DEF ConnectLoad
  <2> QED
    BY <1>5, <2>2, <2>3 DEF ConnectLoad
<1>6. ASSUME NEW s \in Sessions, ConnectEnter(s) PROVE Goal
  <2>1. name[s] \in Names /\ pc[s] = "enter"
    BY <1>6 DEF ConnectEnter, Identity, Named
  <2>2. CASE Online(name[s])
    <3>1. {"enter", "new"} \cap InWorld = {} /\ "new" \in Labels
      BY DEF InWorld, Labels
    <3> QED
      BY <1>6, <2>1, <2>2, <3>1, OutsideOwners DEF ConnectEnter
  <2>3. CASE ~Online(name[s])
    <3>1. PICK copy \in snap[s] : players' = [players EXCEPT ![name[s]] = copy.v]
      BY <1>6, <2>3 DEF ConnectEnter
    <3>2. copy.v \in 1..MaxVersion
      BY DEF Identity, TypeOK, Copies
    <3>3. name' = [name EXCEPT ![s] = name[s]] /\ pc' = [pc EXCEPT ![s] = "register"]
      BY <1>6, <2>3 DEF ConnectEnter, Identity, TypeOK
    <3>4. "register" \in InWorld
      BY DEF InWorld
    <3> QED
      BY <2>1, <2>3, <3>1, <3>2, <3>3, <3>4, EnterOwners
  <2> QED
    BY <2>2, <2>3
<1>7. ASSUME NEW s \in Sessions, Register(s) PROVE Goal
  <2>1. {"register", "play"} \subseteq InWorld /\ "play" \in Labels
    BY DEF InWorld, Labels
  <2> QED
    BY <1>7, <2>1, SameOwners DEF Register, Step
<1>8. ASSUME NEW s \in Sessions, NEW who \in SUBSET Names, Step(s, "play", "save"),
             \A n \in who : Online(n), Change(s, who), UNCHANGED name
      PROVE  Goal
  <2>1. {"play", "save"} \subseteq InWorld /\ "save" \in Labels
    BY DEF InWorld, Labels
  <2>2. \A n \in Names : players'[n] # 0 <=> players[n] # 0
    BY <1>8 DEF Change, Online, Identity, TypeOK
  <2> QED
    BY <1>8, <2>1, <2>2, SameOwners DEF Step
<1>9. ASSUME NEW s \in Sessions, ChangeOwn(s) PROVE Goal
  <2>1. name[s] \in Names /\ Online(name[s])
    BY <1>9 DEF ChangeOwn, Step, Identity, Named, OneSessionPerName, Owns, InWorld
  <2> QED
    BY <1>9, <2>1, <1>8 DEF ChangeOwn
<1>10. ASSUME NEW s \in Sessions, DefeatQuest(s) PROVE Goal
  <2>1. PICK who \in SUBSET {n \in Names : Online(n)} : Change(s, who)
    BY <1>10 DEF DefeatQuest
  <2> QED
    BY <1>10, <2>1, <1>8 DEF DefeatQuest
<1>11. ASSUME NEW s \in Sessions, SaveChanged(s) PROVE Goal
  <2>1. PICK to \in {"play", "save"} : pc' = [pc EXCEPT ![s] = to]
    BY <1>11 DEF SaveChanged
  <2>2. {"play", "save"} \subseteq InWorld /\ {"play", "save"} \subseteq Labels
    BY DEF InWorld, Labels
  <2> QED
    BY <1>11, <2>1, <2>2, SameOwners DEF SaveChanged
<1>12. ASSUME NEW s \in Sessions, Leave(s) PROVE Goal
  <2>1. /\ {"play", "erase"} \subseteq InWorld /\ {"new", "done"} \cap InWorld = {}
        /\ {"erase", "done"} \subseteq Labels
    BY DEF InWorld, Labels
  <2>2. CASE Step(s, "play", "erase")
    BY <1>12, <2>1, <2>2, SameOwners DEF Leave, Step
  <2>3. CASE Step(s, "new", "done")
    BY <1>12, <2>1, <2>3, SameOwners DEF Leave, Step
  <2> QED
    BY <1>12, <2>2, <2>3 DEF Leave
<1>13. ASSUME NEW s \in Sessions, ErasePlayer(s) PROVE Goal
  <2>1. name[s] \in Names /\ pc[s] = "erase"
    BY <1>13 DEF ErasePlayer, Step, Identity, Named
  <2>2. /\ \A u \in Sessions : pc'[u] = IF u = s THEN "lastSave" ELSE pc[u]
        /\ \A m \in Names : players'[m] = IF m = name[s] THEN 0 ELSE players[m]
        /\ UNCHANGED name
    BY <1>13 DEF ErasePlayer, Step, Identity, TypeOK
  <2>3. \A u \in Sessions, m \in Names : Owns(u, m)' <=> Owns(u, m) /\ u # s
    BY <2>2 DEF Owns, InWorld
  <2>4. \A u \in Sessions : Owns(u, name[s]) => u = s
    BY <2>1 DEF Identity, OneSessionPerName, Owns, InWorld
  <2>5. \A m \in Names : Online(m)' <=> Online(m) /\ m # name[s]
    BY <2>2 DEF Online
  <2>6. \A m \in Names : Owns(s, m) => m = name[s]
    BY DEF Owns
  <2>7. Named'
    BY <2>2, <2>1 DEF Identity, Named
  <2> QED
    BY <2>3, <2>4, <2>5, <2>6, <2>7 DEF Identity, OneSessionPerName
<1>14. ASSUME NEW s \in Sessions, LastSave(s) PROVE Goal
  <2>1. {"lastSave", "remove"} \cap InWorld = {} /\ "remove" \in Labels
    BY DEF InWorld, Labels
  <2> QED
    BY <1>14, <2>1, SameOwners DEF LastSave, Step
<1>15. ASSUME NEW s \in Sessions, Remove(s) PROVE Goal
  <2>1. {"remove", "done"} \cap InWorld = {} /\ "done" \in Labels
    BY DEF InWorld, Labels
  <2> QED
    BY <1>15, <2>1, SameOwners DEF Remove, Step
<1> QED
  BY <1>1, <1>2, <1>3, <1>4, <1>5, <1>6, <1>7, <1>9, <1>10, <1>11, <1>12, <1>13, <1>14, <1>15
     DEF Next

LEMMA NextIdentity == Identity /\ [Next]_vars => Identity'
BY NextTypeOK, NextOwners DEF Identity
-----------------------------------------------------------------------------
(* Saving *)

\* A step of one thread leaves the copies of the others as they should be.
LEMMA OthersShape ==
  ASSUME Identity, SnapShape, NEW s \in Sessions, NEW u \in Sessions, u # s,
         pc'[u] = pc[u], name'[u] = name[u], snap'[u] = snap[u],
         \A n \in Names : written[n] \subseteq written'[n]
  PROVE  Shape(u)'
BY DEF Identity, Named, SnapShape, Shape, One

\* A step of one thread that writes nothing and changes no character: the
\* copies it drops were written, and the ones it makes are not too new.
LEMMA KeepSaving ==
  ASSUME Identity, Identity', Saving, NEW s \in Sessions, NEW held \in SUBSET Copies,
         snap' = [snap EXCEPT ![s] = held], Shape(s)',
         \A u \in Sessions \ {s} : pc'[u] = pc[u] /\ name'[u] = name[u],
         \A copy \in snap[s] : copy.v \in written[copy.n],
         \A copy \in held : copy.v <= fresh[copy.n],
         \A n \in Names : players'[n] <= fresh[n],
         UNCHANGED <<disk, written, lost, fresh>>
  PROVE  Saving'
<1>1. \A u \in Sessions : snap'[u] = IF u = s THEN held ELSE snap[u]
  BY DEF Identity, TypeOK
<1>2. SnapShape'
  <2>1. ASSUME NEW u \in Sessions, u # s PROVE Shape(u)'
    <3>1. SnapShape /\ snap'[u] = snap[u]
      BY <1>1, <2>1 DEF Saving
    <3> QED
      BY <2>1, <3>1, OthersShape
  <2> QED
    BY <2>1 DEF SnapShape
<1>3. Bounded'
  BY <1>1 DEF Saving, Bounded
<1>4. ASSUME NEW n \in Names, NEW v \in 1..fresh[n]
      PROVE  v \in written[n] \cup lost[n] \/ \E u \in Sessions : [n |-> n, v |-> v] \in snap'[u]
  <2>1. v \in written[n] \cup lost[n] \/ \E u \in Sessions : [n |-> n, v |-> v] \in snap[u]
    BY <1>4 DEF Saving, Accounted
  <2>2. [n |-> n, v |-> v] \in snap[s] => v \in written[n]
    OBVIOUS
  <2> QED
    BY <2>1, <2>2, <1>1
<1>5. Accounted'
  BY <1>4 DEF Accounted
<1> QED
  BY <1>2, <1>3, <1>5 DEF Saving

\* A save takes the copy away, and its state is in the file or lost.
LEMMA SaveSaving ==
  ASSUME Identity, Identity', Saving, NEW s \in Sessions, NEW copy \in snap[s], Save(s, copy),
         NEW to \in {"register", "play", "save", "remove"}, pc' = [pc EXCEPT ![s] = to],
         to # "save" => snap[s] = {copy}, UNCHANGED <<players, name, fresh>>
  PROVE  Saving'
<1>1. copy.n \in Names /\ copy.v \in 1..MaxVersion /\ copy = [n |-> copy.n, v |-> copy.v]
  BY DEF Identity, TypeOK, Copies
<1>2. /\ \A u \in Sessions : snap'[u] = IF u = s THEN snap[s] \ {copy} ELSE snap[u]
      /\ \A u \in Sessions : pc'[u] = IF u = s THEN to ELSE pc[u]
  BY DEF Save, Identity, TypeOK
<1>3a. \A n \in Names :
         \/ /\ written'[n] = written[n] /\ disk'[n] = disk[n]
            /\ \/ n # copy.n /\ lost'[n] = lost[n]
               \/ n = copy.n /\ lost'[n] = lost[n] \cup {copy.v}
         \/ /\ n = copy.n /\ written'[n] = written[n] \cup {copy.v} /\ disk'[n] = copy.v
            /\ lost'[n] = lost[n]
  <2>1. CASE /\ disk' = [disk EXCEPT ![copy.n] = copy.v] /\ UNCHANGED lost
             /\ written' = [written EXCEPT ![copy.n] = @ \cup {copy.v}]
    BY <1>1, <2>1 DEF Identity, TypeOK
  <2>2. CASE UNCHANGED <<disk, written>> /\ lost' = [lost EXCEPT ![copy.n] = @ \cup {copy.v}]
    BY <1>1, <2>2 DEF Identity, TypeOK
  <2> QED
    BY <2>1, <2>2 DEF Save
<1>3b. /\ \A n \in Names : written[n] \cup lost[n] \subseteq written'[n] \cup lost'[n]
       /\ copy.v \in written'[copy.n] \cup lost'[copy.n]
  BY <1>1, <1>3a
<1>3. SnapShape'
  <2>1. Shape(s)'
    BY <1>2 DEF Shape
  <2>2. \A n \in Names : written[n] \subseteq written'[n]
    BY <1>3a
  <2>3. SnapShape
    BY DEF Saving
  <2>4. ASSUME NEW u \in Sessions, u # s PROVE Shape(u)'
    <3>1. pc'[u] = pc[u] /\ name'[u] = name[u] /\ snap'[u] = snap[u]
      BY <1>2, <2>4
    <3> QED
      BY <2>2, <2>3, <2>4, <3>1, OthersShape
  <2> QED
    BY <2>1, <2>4 DEF SnapShape
<1>4. Bounded'
  <2>1. copy.v \in 1..fresh[copy.n]
    BY <1>1 DEF Saving, Bounded, Identity, TypeOK
  <2>2. \A n \in Names : /\ players'[n] <= fresh'[n]
                         /\ written'[n] \cup lost'[n] \subseteq 1..fresh'[n]
                         /\ disk'[n] = 0 \/ disk'[n] \in written'[n]
    <3>1. SUFFICES ASSUME NEW n \in Names
          PROVE  /\ players[n] <= fresh[n]
                 /\ written'[n] \cup lost'[n] \subseteq 1..fresh[n]
                 /\ disk'[n] = 0 \/ disk'[n] \in written'[n]
      OBVIOUS
    <3>a. /\ players[n] <= fresh[n] /\ written[n] \cup lost[n] \subseteq 1..fresh[n]
          /\ disk[n] = 0 \/ disk[n] \in written[n]
      BY DEF Saving, Bounded
    <3> QED
      BY <3>a, <1>3a, <2>1
  <2>3. \A u \in Sessions : snap'[u] \subseteq snap[u]
    BY <1>2
  <2> QED
    BY <2>2, <2>3 DEF Saving, Bounded
<1>5. ASSUME NEW n \in Names, NEW v \in 1..fresh[n]
      PROVE  v \in written'[n] \cup lost'[n] \/ \E u \in Sessions : [n |-> n, v |-> v] \in snap'[u]
  <2>1. CASE [n |-> n, v |-> v] = copy
    BY <2>1, <1>3b
  <2>2. CASE [n |-> n, v |-> v] # copy
    <3>1. v \in written[n] \cup lost[n] \/ \E u \in Sessions : [n |-> n, v |-> v] \in snap[u]
      BY <1>5 DEF Saving, Accounted
    <3> QED
      BY <3>1, <2>2, <1>2, <1>3b
  <2> QED
    BY <2>1, <2>2
<1>6. Accounted'
  BY <1>5 DEF Accounted
<1> QED
  BY <1>3, <1>4, <1>6 DEF Saving

\* A change makes one new state of each character it touches, and the thread,
\* which had nothing to save, holds a copy of each.
LEMMA ChangeSaving ==
  ASSUME Identity, Identity', Saving, NEW s \in Sessions, NEW who \in SUBSET Names,
         snap[s] = {}, Change(s, who), Shape(s)',
         \A u \in Sessions \ {s} : pc'[u] = pc[u] /\ name'[u] = name[u],
         UNCHANGED <<disk, written, lost>>
  PROVE  Saving'
<1>1. /\ \A u \in Sessions \ {s} : snap'[u] = snap[u]
      /\ \A n \in who : [n |-> n, v |-> fresh[n] + 1] \in snap'[s]
      /\ \A copy \in snap'[s] : copy.v = fresh[copy.n] + 1 /\ copy.n \in who
  BY DEF Change, Identity, TypeOK
<1>2. /\ \A n \in Names : fresh[n] \in Nat /\ players[n] \in Nat
      /\ \A n \in who : fresh'[n] = fresh[n] + 1 /\ players'[n] = fresh[n] + 1
      /\ \A n \in Names \ who : fresh'[n] = fresh[n] /\ players'[n] = players[n]
  BY PresenceAssumption DEF Change, Identity, TypeOK
<1>3. SnapShape'
  <2>1. ASSUME NEW u \in Sessions, u # s PROVE Shape(u)'
    <3>1. SnapShape /\ snap'[u] = snap[u]
      BY <1>1, <2>1 DEF Saving
    <3> QED
      BY <2>1, <3>1, OthersShape
  <2> QED
    BY <2>1 DEF SnapShape
<1>4. Bounded'
  <2>1. ASSUME NEW n \in Names
        PROVE  /\ players'[n] <= fresh'[n]
               /\ written[n] \cup lost[n] \subseteq 1..fresh'[n]
    BY <1>2 DEF Saving, Bounded
  <2>2. ASSUME NEW u \in Sessions, NEW copy \in snap'[u] PROVE copy.v <= fresh'[copy.n]
    <3>1. CASE u = s
      BY <3>1, <2>2, <1>1, <1>2
    <3>2. CASE u # s
      <4>1. copy \in snap[u] /\ copy.n \in Names /\ copy.v \in Nat
        BY <3>2, <2>2, <1>1, PresenceAssumption DEF Identity, TypeOK, Copies
      <4> QED
        BY <4>1, <1>2 DEF Saving, Bounded
    <3> QED
      BY <3>1, <3>2
  <2> QED
    BY <2>1, <2>2 DEF Saving, Bounded
<1>5. ASSUME NEW n \in Names, NEW v \in 1..fresh'[n]
      PROVE  v \in written[n] \cup lost[n] \/ \E u \in Sessions : [n |-> n, v |-> v] \in snap'[u]
  <2>1. CASE v \in 1..fresh[n]
    BY <2>1, <1>1 DEF Saving, Accounted
  <2>2. CASE v \notin 1..fresh[n]
    BY <2>2, <1>1, <1>2
  <2> QED
    BY <2>1, <2>2
<1>6. Accounted'
  BY <1>5 DEF Accounted
<1> QED
  BY <1>3, <1>4, <1>6 DEF Saving

LEMMA NextSaving == Identity /\ Saving /\ [Next]_vars => Saving'
<1> SUFFICES ASSUME Identity, Saving, [Next]_vars PROVE Saving'
  OBVIOUS
<1> USE PresenceAssumption
<1>0. Identity'
  BY NextIdentity
<1>a. /\ \A n \in Names : players[n] <= fresh[n] /\ 0 <= fresh[n]
      /\ \A n \in Names : disk[n] # 0 => disk[n] \in written[n] /\ disk[n] <= fresh[n]
  BY DEF Saving, Bounded, Identity, TypeOK
<1>1. CASE UNCHANGED vars
  BY <1>1 DEF vars, Saving, SnapShape, Shape, One, Bounded, Accounted
<1>2. ASSUME NEW s \in Sessions, NEW n \in Names, CreateReserve(s, n) PROVE Saving'
  <2>1. snap[s] = {} /\ {n} \in SUBSET Names
    BY <1>2 DEF CreateReserve, Step, Saving, SnapShape, Shape
  <2>2. fresh[n] + 1 \in 1..MaxVersion
    BY <1>2, NewVersion DEF CreateReserve, Identity
  <2>3. /\ players' = [m \in Names |-> IF m \in {n} THEN fresh[m] + 1 ELSE players[m]]
        /\ fresh' = [m \in Names |-> IF m \in {n} THEN fresh[m] + 1 ELSE fresh[m]]
    BY <1>2 DEF CreateReserve, Identity, TypeOK
  <2>4. Change(s, {n})
    <3>1. {[n |-> n, v |-> fresh[n] + 1]} = {[n |-> m, v |-> fresh[m] + 1] : m \in {n}}
      OBVIOUS
    <3> QED
      BY <1>2, <2>3, <3>1 DEF CreateReserve, Change
  <2>5. Shape(s)'
    BY <1>2, <2>2 DEF CreateReserve, Step, Shape, One, Identity, TypeOK
  <2>6. \A u \in Sessions \ {s} : pc'[u] = pc[u] /\ name'[u] = name[u]
    BY <1>2 DEF CreateReserve, Step, Identity, TypeOK
  <2> QED
    BY <1>0, <1>2, <2>1, <2>4, <2>5, <2>6, ChangeSaving DEF CreateReserve
\* The thread has no copy and takes none.
<1>3. ASSUME NEW s \in Sessions, snap[s] = {}, UNCHANGED <<snap, players, disk, written, lost, fresh>>,
             pc'[s] \notin {"create", "enter", "save", "lastSave"},
             \A u \in Sessions \ {s} : pc'[u] = pc[u] /\ name'[u] = name[u]
      PROVE  Saving'
  <2>1. snap' = [snap EXCEPT ![s] = {}] /\ Shape(s)' /\ {} \in SUBSET Copies
    BY <1>3 DEF Identity, TypeOK, Shape
  <2> QED
    BY <1>0, <1>a, <1>3, <2>1, KeepSaving
<1>4. ASSUME NEW s \in Sessions, NEW n \in Names, ConnectCheck(s, n) PROVE Saving'
  <2>1. snap[s] = {}
    BY <1>4 DEF ConnectCheck, Step, Saving, SnapShape, Shape
  <2> QED
    BY <1>3, <1>4, <2>1 DEF ConnectCheck, Step, Identity, TypeOK
<1>5. ASSUME NEW s \in Sessions, SaveCreated(s) PROVE Saving'
  <2>1. PICK copy \in snap[s] : Save(s, copy)
    BY <1>5 DEF SaveCreated
  <2>2. snap[s] = {copy}
    BY <1>5 DEF SaveCreated, Step, Saving, SnapShape, Shape, One
  <2> QED
    BY <1>0, <1>5, <2>1, <2>2, SaveSaving DEF SaveCreated, Step
<1>6. ASSUME NEW s \in Sessions, ConnectLoad(s) PROVE Saving'
  <2>1. snap[s] = {} /\ name[s] \in Names
    BY <1>6 DEF ConnectLoad, Saving, SnapShape, Shape, Identity, Named
  <2>2. \A u \in Sessions \ {s} : pc'[u] = pc[u] /\ name'[u] = name[u]
    BY <1>6 DEF ConnectLoad, Identity, TypeOK
  <2>3. CASE pc' = [pc EXCEPT ![s] = "new"] /\ UNCHANGED snap
    BY <1>3, <1>6, <2>1, <2>2, <2>3 DEF ConnectLoad, Identity, TypeOK
  <2>4. CASE /\ disk[name[s]] # 0 /\ pc' = [pc EXCEPT ![s] = "enter"] /\ UNCHANGED name
             /\ snap' = [snap EXCEPT ![s] = {[n |-> name[s], v |-> disk[name[s]]]}]
    <3> DEFINE held == {[n |-> name[s], v |-> disk[name[s]]]}
    <3>1. held \in SUBSET Copies
      BY <2>1, <2>4 DEF Copies, Identity, TypeOK
    <3>2. snap' = [snap EXCEPT ![s] = held] /\ pc'[s] = "enter" /\ name'[s] = name[s]
      BY <1>6, <2>4 DEF ConnectLoad, Identity, TypeOK
    <3>3. Shape(s)'
      BY <1>6, <3>2, <2>1, <2>4, <1>a DEF ConnectLoad, Shape, One, Identity, TypeOK
    <3>4. \A copy \in held : copy.v <= fresh[copy.n]
      BY <1>a, <2>1, <2>4
    <3>5. UNCHANGED <<players, disk, written, lost, fresh>>
      BY <1>6 DEF ConnectLoad
    <3> HIDE DEF held
    <3> QED
      BY <1>0, <1>a, <2>1, <2>2, <3>1, <3>2, <3>3, <3>4, <3>5, KeepSaving
  <2> QED
    BY <1>6, <2>3, <2>4 DEF ConnectLoad
<1>7. ASSUME NEW s \in Sessions, ConnectEnter(s) PROVE Saving'
  <2>1. \A copy \in snap[s] : copy.n = name[s] /\ copy.v \in written[copy.n]
    BY <1>7 DEF ConnectEnter, Saving, SnapShape, Shape, One
  <2>2. \A u \in Sessions \ {s} : pc'[u] = pc[u] /\ name'[u] = name[u]
    BY <1>7 DEF ConnectEnter, Identity, TypeOK
  <2>3. snap' = [snap EXCEPT ![s] = {}] /\ {} \in SUBSET Copies
    BY <1>7 DEF ConnectEnter
  <2>4. Shape(s)'
    BY <1>7 DEF ConnectEnter, Shape, Identity, TypeOK
  <2>5. \A n \in Names : players'[n] <= fresh[n]
    <3>1. \A copy \in snap[s] : copy.v <= fresh[copy.n]
      BY DEF Saving, Bounded
    <3> QED
      BY <1>7, <1>a, <2>1, <3>1 DEF ConnectEnter, Identity, TypeOK
  <2> QED
    BY <1>0, <1>7, <2>1, <2>2, <2>3, <2>4, <2>5, KeepSaving DEF ConnectEnter
<1>8. ASSUME NEW s \in Sessions, Register(s) PROVE Saving'
  <2>1. snap[s] = {}
    BY <1>8 DEF Register, Step, Saving, SnapShape, Shape
  <2> QED
    BY <1>3, <1>8, <2>1 DEF Register, Step, Identity, TypeOK
<1>9. ASSUME NEW s \in Sessions, NEW who \in SUBSET Names, Step(s, "play", "save"),
             Change(s, who), UNCHANGED <<name, disk, written, lost>>
      PROVE  Saving'
  <2>1. snap[s] = {} /\ Shape(s)' /\ \A u \in Sessions \ {s} : pc'[u] = pc[u]
    BY <1>9 DEF Step, Saving, SnapShape, Shape, Identity, TypeOK
  <2> QED
    BY <1>0, <1>9, <2>1, ChangeSaving
<1>10. ASSUME NEW s \in Sessions, ChangeOwn(s) PROVE Saving'
  <2>1. {name[s]} \in SUBSET Names
    BY <1>10 DEF ChangeOwn, Step, Identity, Named
  <2> QED
    BY <1>9, <1>10, <2>1 DEF ChangeOwn
<1>11. ASSUME NEW s \in Sessions, DefeatQuest(s) PROVE Saving'
  BY <1>9, <1>11 DEF DefeatQuest
<1>12. ASSUME NEW s \in Sessions, SaveChanged(s) PROVE Saving'
  <2>1. PICK copy \in snap[s] :
          /\ Save(s, copy)
          /\ pc' = [pc EXCEPT ![s] = IF snap[s] = {copy} THEN "play" ELSE "save"]
    BY <1>12 DEF SaveChanged
  <2> QED
    BY <1>0, <1>12, <2>1, SaveSaving DEF SaveChanged
<1>13. ASSUME NEW s \in Sessions, Leave(s) PROVE Saving'
  <2>1. snap[s] = {}
    BY <1>13 DEF Leave, Step, Saving, SnapShape, Shape
  <2> QED
    BY <1>3, <1>13, <2>1 DEF Leave, Step, Identity, TypeOK
<1>14. ASSUME NEW s \in Sessions, ErasePlayer(s) PROVE Saving'
  <2>1. snap[s] = {} /\ name[s] \in Names /\ players[name[s]] \in 1..MaxVersion
    <3>1. pc[s] = "erase" /\ name[s] \in Names
      BY <1>14 DEF ErasePlayer, Step, Identity, Named
    <3>2. snap[s] = {}
      BY <3>1 DEF Saving, SnapShape, Shape
    <3>3. Online(name[s])
      BY <3>1 DEF Identity, OneSessionPerName, Owns, InWorld
    <3> QED
      BY <3>1, <3>2, <3>3 DEF Identity, TypeOK, Online
  <2> DEFINE held == {[n |-> name[s], v |-> players[name[s]]]}
  <2>2. held \in SUBSET Copies
    BY <2>1 DEF Copies
  <2>3. snap' = [snap EXCEPT ![s] = held] /\ pc'[s] = "lastSave" /\ UNCHANGED name
    BY <1>14 DEF ErasePlayer, Step, Identity, TypeOK
  <2>4. Shape(s)'
    BY <2>1, <2>3 DEF Shape, One, Identity, TypeOK
  <2>5. \A copy \in held : copy.v <= fresh[copy.n]
    BY <1>a, <2>1
  <2>6. \A n \in Names : players'[n] <= fresh[n]
    BY <1>14, <1>a, <2>1 DEF ErasePlayer, Identity, TypeOK
  <2>7. \A u \in Sessions \ {s} : pc'[u] = pc[u]
    BY <1>14 DEF ErasePlayer, Step, Identity, TypeOK
  <2> HIDE DEF held
  <2> QED
    BY <1>0, <1>14, <2>1, <2>2, <2>3, <2>4, <2>5, <2>6, <2>7, KeepSaving DEF ErasePlayer
<1>15. ASSUME NEW s \in Sessions, LastSave(s) PROVE Saving'
  <2>1. PICK copy \in snap[s] : Save(s, copy)
    BY <1>15 DEF LastSave
  <2>2. snap[s] = {copy}
    BY <1>15, <2>1 DEF LastSave, Step, Saving, SnapShape, Shape, One
  <2> QED
    BY <1>0, <1>15, <2>1, <2>2, SaveSaving DEF LastSave, Step
<1>16. ASSUME NEW s \in Sessions, Remove(s) PROVE Saving'
  <2>1. snap[s] = {}
    BY <1>16 DEF Remove, Step, Saving, SnapShape, Shape
  <2> QED
    BY <1>3, <1>16, <2>1 DEF Remove, Step, Identity, TypeOK
<1> QED
  BY <1>1, <1>2, <1>4, <1>5, <1>6, <1>7, <1>8, <1>10, <1>11, <1>12, <1>13, <1>14, <1>15, <1>16
     DEF Next
-----------------------------------------------------------------------------
(* Created once, and found again *)

LEMMA NextCreated == Identity /\ SnapShape /\ Creation /\ [Next]_vars => Creation'
<1> SUFFICES ASSUME Identity, SnapShape, Creation, [Next]_vars PROVE Creation'
  OBVIOUS
<1> USE PresenceAssumption DEF Creation
<1>0. \A n \in Names : fresh[n] \in Nat
  BY DEF Identity, TypeOK
\* A step that creates nothing, in which a thread that creates keeps its copy
\* unless it leaves a file or a loss, and no file or loss is taken back.
<1>1. ASSUME UNCHANGED created,
             \A n \in Names : fresh'[n] \in Nat /\ fresh[n] <= fresh'[n],
             \A n \in Names : disk[n] # 0 => disk'[n] # 0,
             \A n \in Names : lost[n] \subseteq lost'[n],
             \A s \in Sessions : pc[s] = "create" =>
               \/ pc'[s] = "create" /\ snap'[s] = snap[s]
               \/ \A copy \in snap[s] : disk'[copy.n] # 0 \/ copy.v \in lost'[copy.n]
      PROVE  Creation'
  <2>1. ASSUME NEW n \in Names, NEW v \in created[n]
        PROVE  \/ disk'[n] # 0
               \/ v \in lost'[n]
               \/ \E s \in Sessions : pc'[s] = "create" /\ [n |-> n, v |-> v] \in snap'[s]
    <3>1. \/ disk[n] # 0
          \/ v \in lost[n]
          \/ \E s \in Sessions : pc[s] = "create" /\ [n |-> n, v |-> v] \in snap[s]
      BY DEF CreatedIsOnDisk
    <3>2. ASSUME NEW s \in Sessions, pc[s] = "create", [n |-> n, v |-> v] \in snap[s],
                 ~(pc'[s] = "create" /\ snap'[s] = snap[s])
          PROVE  disk'[n] # 0 \/ v \in lost'[n]
      <4>1. LET copy == [n |-> n, v |-> v] IN disk'[copy.n] # 0 \/ copy.v \in lost'[copy.n]
        BY <1>1, <3>2
      <4> QED
        BY <4>1
    <3> QED
      BY <1>1, <3>1, <3>2
  <2>2. CreatedIsOnDisk'
    BY <1>1, <2>1 DEF CreatedIsOnDisk
  <2>3. NameCreatedOnce' /\ Numbered'
    BY <1>0, <1>1 DEF NameCreatedOnce, Numbered
  <2> QED
    BY <2>2, <2>3
\* In particular a step of a thread that is not creating, or not saving.
<1>2. ASSUME NEW s \in Sessions, pc[s] # "create",
             \A u \in Sessions \ {s} : pc'[u] = pc[u] /\ snap'[u] = snap[u],
             UNCHANGED created,
             \A n \in Names : fresh'[n] \in Nat /\ fresh[n] <= fresh'[n],
             \A n \in Names : disk[n] # 0 => disk'[n] # 0,
             \A n \in Names : lost[n] \subseteq lost'[n]
      PROVE  Creation'
  BY <1>1, <1>2
\* A save leaves a file or a loss.
<1>3. ASSUME NEW s \in Sessions, NEW copy \in snap[s], Save(s, copy)
      PROVE  /\ disk'[copy.n] # 0 \/ copy.v \in lost'[copy.n]
             /\ \A n \in Names : disk[n] # 0 => disk'[n] # 0
             /\ \A n \in Names : lost[n] \subseteq lost'[n]
             /\ \A u \in Sessions \ {s} : snap'[u] = snap[u]
  <2>1. copy.n \in Names /\ copy.v # 0
    BY DEF Identity, TypeOK, Copies
  <2> QED
    BY <1>3, <2>1 DEF Save, Identity, TypeOK
<1>4. CASE UNCHANGED vars
  BY <1>4 DEF vars, CreatedIsOnDisk, NameCreatedOnce, Numbered
\* The name is free in memory and on disk: whoever created it before is no
\* longer at it and left no file, so each of those saves failed.
<1>5. ASSUME NEW s \in Sessions, NEW n \in Names, CreateReserve(s, n) PROVE Creation'
  <2>1. \A v \in created[n] : v \in lost[n]
    <3>1. \A t \in Sessions : ~(pc[t] = "create" /\ name[t] = n)
      BY <1>5 DEF CreateReserve, Identity, OneSessionPerName, Owns, InWorld
    <3>2. \A t \in Sessions : pc[t] = "create" => \A copy \in snap[t] : copy.n = name[t]
      BY DEF SnapShape, Shape, One
    <3>3. ASSUME NEW v \in created[n], NEW t \in Sessions, pc[t] = "create",
                 [n |-> n, v |-> v] \in snap[t]
          PROVE  FALSE
      <4>1. LET copy == [n |-> n, v |-> v] IN copy.n = name[t]
        BY <3>2, <3>3
      <4> QED
        BY <3>1, <3>3, <4>1
    <3> QED
      BY <3>3, <1>5 DEF CreateReserve, CreatedIsOnDisk
  <2>2. /\ \A m \in Names :
             created'[m] = IF m = n THEN created[m] \cup {fresh[m] + 1} ELSE created[m]
        /\ \A m \in Names : fresh'[m] = IF m = n THEN fresh[m] + 1 ELSE fresh[m]
        /\ UNCHANGED <<lost, disk>>
    BY <1>5 DEF CreateReserve, Identity, TypeOK
  <2>3. /\ pc'[s] = "create" /\ [n |-> n, v |-> fresh[n] + 1] \in snap'[s]
        /\ \A u \in Sessions : pc[u] = "create" => pc'[u] = "create" /\ snap'[u] = snap[u]
    BY <1>5 DEF CreateReserve, Step, Identity, TypeOK
  <2>4. CreatedIsOnDisk'
    <3>1. ASSUME NEW m \in Names, NEW v \in created'[m]
          PROVE  \/ disk'[m] # 0
                 \/ v \in lost'[m]
                 \/ \E t \in Sessions : pc'[t] = "create" /\ [n |-> m, v |-> v] \in snap'[t]
      <4>1. CASE m = n /\ v = fresh[n] + 1
        BY <2>3, <4>1
      <4>2. CASE v \in created[m]
        BY <2>2, <2>3, <4>2 DEF CreatedIsOnDisk
      <4> QED
        BY <2>2, <3>1, <4>1, <4>2
    <3> QED
      BY <3>1 DEF CreatedIsOnDisk
  <2>5. NameCreatedOnce' /\ Numbered'
    <3>1. \A m \in Names : created[m] \subseteq 1..fresh[m]
      BY DEF Numbered
    <3>2. ASSUME NEW m \in Names
          PROVE  /\ \A c, d \in created'[m] : c < d => c \in lost[m]
                 /\ created'[m] \subseteq 1..fresh'[m]
      <4>1. CASE m = n
        <5>1. /\ created'[m] = created[m] \cup {fresh[m] + 1} /\ fresh'[m] = fresh[m] + 1
              /\ fresh[m] \in Nat /\ created[m] \subseteq 1..fresh[m]
          BY <1>0, <2>2, <3>1, <4>1
        <5>2. ASSUME NEW c \in created'[m], NEW d \in created'[m], c < d PROVE c \in lost[m]
          <6>1. c \in created[m] \/ (c = fresh[m] + 1 /\ d \in 1..(fresh[m] + 1))
            BY <5>1, <5>2
          <6> QED
            BY <2>1, <4>1, <5>1, <5>2, <6>1
        <5>3. created'[m] \subseteq 1..fresh'[m]
          BY <5>1
        <5> QED
          BY <5>2, <5>3
      <4>2. CASE m # n
        BY <1>0, <2>2, <3>1, <4>2 DEF NameCreatedOnce
      <4> QED
        BY <4>1, <4>2
    <3> QED
      BY <2>2, <3>2 DEF NameCreatedOnce, Numbered
  <2> QED
    BY <2>4, <2>5
<1>6. ASSUME NEW s \in Sessions, SaveCreated(s) PROVE Creation'
  <2>1. PICK copy \in snap[s] : Save(s, copy)
    BY <1>6 DEF SaveCreated
  <2>2. \A c \in snap[s] : c = copy
    BY <1>6 DEF SaveCreated, Step, SnapShape, Shape, One
  <2>3. /\ \A u \in Sessions \ {s} : pc'[u] = pc[u]
        /\ UNCHANGED <<created, fresh>>
    BY <1>6 DEF SaveCreated, Step, Identity, TypeOK
  <2> QED
    BY <1>0, <1>1, <1>3, <2>1, <2>2, <2>3
<1>7. ASSUME NEW s \in Sessions, SaveChanged(s) PROVE Creation'
  <2>1. PICK copy \in snap[s] : Save(s, copy)
    BY <1>7 DEF SaveChanged
  <2>2. /\ pc[s] # "create" /\ \A u \in Sessions \ {s} : pc'[u] = pc[u]
        /\ UNCHANGED <<created, fresh>>
    BY <1>7 DEF SaveChanged, Identity, TypeOK
  <2> QED
    BY <1>0, <1>2, <1>3, <2>1, <2>2
<1>8. ASSUME NEW s \in Sessions, LastSave(s) PROVE Creation'
  <2>1. PICK copy \in snap[s] : Save(s, copy)
    BY <1>8 DEF LastSave
  <2>2. /\ pc[s] # "create" /\ \A u \in Sessions \ {s} : pc'[u] = pc[u]
        /\ UNCHANGED <<created, fresh>>
    BY <1>8 DEF LastSave, Step, Identity, TypeOK
  <2> QED
    BY <1>0, <1>2, <1>3, <2>1, <2>2
<1>9. ASSUME NEW s \in Sessions, NEW n \in Names, ConnectCheck(s, n) PROVE Creation'
  BY <1>0, <1>2, <1>9 DEF ConnectCheck, Step, Identity, TypeOK
<1>10. ASSUME NEW s \in Sessions, ConnectLoad(s) PROVE Creation'
  BY <1>0, <1>2, <1>10 DEF ConnectLoad, Identity, TypeOK
<1>11. ASSUME NEW s \in Sessions, ConnectEnter(s) PROVE Creation'
  BY <1>0, <1>2, <1>11 DEF ConnectEnter, Identity, TypeOK
<1>12. ASSUME NEW s \in Sessions, Register(s) PROVE Creation'
  BY <1>0, <1>2, <1>12 DEF Register, Step, Identity, TypeOK
<1>13. ASSUME NEW s \in Sessions, NEW who \in SUBSET Names, Step(s, "play", "save"),
              Change(s, who), UNCHANGED <<created, disk, lost>>
       PROVE  Creation'
  <2>1. \A n \in Names : fresh'[n] \in Nat /\ fresh[n] <= fresh'[n]
    BY <1>0, <1>13 DEF Change
  <2>2. pc[s] # "create" /\ \A u \in Sessions \ {s} : pc'[u] = pc[u] /\ snap'[u] = snap[u]
    BY <1>13 DEF Step, Change, Identity, TypeOK
  <2> QED
    BY <1>2, <1>13, <2>1, <2>2
<1>14. ASSUME NEW s \in Sessions, ChangeOwn(s) PROVE Creation'
  <2>1. {name[s]} \in SUBSET Names
    BY <1>14 DEF ChangeOwn, Step, Identity, Named
  <2> QED
    BY <1>13, <1>14, <2>1 DEF ChangeOwn
<1>15. ASSUME NEW s \in Sessions, DefeatQuest(s) PROVE Creation'
  BY <1>13, <1>15 DEF DefeatQuest
<1>16. ASSUME NEW s \in Sessions, Leave(s) PROVE Creation'
  BY <1>0, <1>2, <1>16 DEF Leave, Step, Identity, TypeOK
<1>17. ASSUME NEW s \in Sessions, ErasePlayer(s) PROVE Creation'
  BY <1>0, <1>2, <1>17 DEF ErasePlayer, Step, Identity, TypeOK
<1>18. ASSUME NEW s \in Sessions, Remove(s) PROVE Creation'
  BY <1>0, <1>2, <1>18 DEF Remove, Step, Identity, TypeOK
<1> QED
  BY <1>4, <1>5, <1>6, <1>7, <1>8, <1>9, <1>10, <1>11, <1>12, <1>14, <1>15, <1>16, <1>17, <1>18
     DEF Next
-----------------------------------------------------------------------------
(* The registry *)

LEMMA NextRegistered ==
  Identity /\ NoDeadSessionRegistered /\ [Next]_vars => NoDeadSessionRegistered'
<1> DEFINE Live == InWorld \cup {"lastSave", "remove"}
<1> SUFFICES ASSUME Identity, NoDeadSessionRegistered, [Next]_vars
             PROVE  NoDeadSessionRegistered'
  OBVIOUS
<1> USE PresenceAssumption
\* The registry stays, and a session that may be in it keeps its name and does
\* not end.
<1>1. ASSUME NEW s \in Sessions, UNCHANGED registry,
             \A u \in Sessions \ {s} : pc'[u] = pc[u] /\ name'[u] = name[u],
             pc[s] \in Live => pc'[s] \in Live /\ name'[s] = name[s]
      PROVE  NoDeadSessionRegistered'
  BY <1>1 DEF NoDeadSessionRegistered
<1>2. CASE UNCHANGED vars
  BY <1>2 DEF vars, NoDeadSessionRegistered
<1>3. ASSUME NEW s \in Sessions, NEW n \in Names, CreateReserve(s, n) \/ ConnectCheck(s, n)
      PROVE  NoDeadSessionRegistered'
  BY <1>1, <1>3 DEF CreateReserve, ConnectCheck, Step, Identity, TypeOK, InWorld
<1>4. ASSUME NEW s \in Sessions, SaveCreated(s) PROVE NoDeadSessionRegistered'
  BY <1>1, <1>4 DEF SaveCreated, Step, Identity, TypeOK, InWorld
<1>5. ASSUME NEW s \in Sessions, ConnectLoad(s) PROVE NoDeadSessionRegistered'
  BY <1>1, <1>5 DEF ConnectLoad, Identity, TypeOK, InWorld
<1>6. ASSUME NEW s \in Sessions, ConnectEnter(s) PROVE NoDeadSessionRegistered'
  BY <1>1, <1>6 DEF ConnectEnter, Identity, TypeOK, InWorld
<1>7. ASSUME NEW s \in Sessions, Register(s) PROVE NoDeadSessionRegistered'
  <2>1. name[s] \in Names /\ pc'[s] = "play" /\ "play" \in InWorld
    BY <1>7 DEF Register, Step, Identity, Named, TypeOK, InWorld
  <2>2. \A n \in Names : registry'[n] = IF n = name[s] THEN s ELSE registry[n]
    BY <1>7 DEF Register, Identity, TypeOK
  <2>3. \A u \in Sessions \ {s} : pc'[u] = pc[u]
    BY <1>7 DEF Register, Step, Identity, TypeOK
  <2>4. UNCHANGED name
    BY <1>7 DEF Register
  <2> QED
    BY <2>1, <2>2, <2>3, <2>4 DEF NoDeadSessionRegistered
<1>8. ASSUME NEW s \in Sessions, ChangeOwn(s) \/ DefeatQuest(s)
      PROVE  NoDeadSessionRegistered'
  BY <1>1, <1>8 DEF ChangeOwn, DefeatQuest, Step, Identity, TypeOK, InWorld
<1>9. ASSUME NEW s \in Sessions, SaveChanged(s) PROVE NoDeadSessionRegistered'
  BY <1>1, <1>9 DEF SaveChanged, Identity, TypeOK, InWorld
<1>10. ASSUME NEW s \in Sessions, Leave(s) PROVE NoDeadSessionRegistered'
  BY <1>1, <1>10 DEF Leave, Step, Identity, TypeOK, InWorld
<1>11. ASSUME NEW s \in Sessions, ErasePlayer(s) PROVE NoDeadSessionRegistered'
  BY <1>1, <1>11 DEF ErasePlayer, Step, Identity, TypeOK, InWorld
<1>12. ASSUME NEW s \in Sessions, LastSave(s) PROVE NoDeadSessionRegistered'
  BY <1>1, <1>12 DEF LastSave, Step, Identity, TypeOK, InWorld
<1>13. ASSUME NEW s \in Sessions, Remove(s) PROVE NoDeadSessionRegistered'
  <2>1. \A n \in Names : registry'[n] = IF n = name[s] THEN None ELSE registry[n]
    BY <1>13 DEF Remove, Identity, TypeOK
  <2>2. \A u \in Sessions \ {s} : pc'[u] = pc[u]
    BY <1>13 DEF Remove, Step, Identity, TypeOK
  <2>3. UNCHANGED name
    BY <1>13 DEF Remove
  <2> QED
    BY <2>1, <2>2, <2>3 DEF NoDeadSessionRegistered
<1> QED
  BY <1>2, <1>3, <1>4, <1>5, <1>6, <1>7, <1>8, <1>9, <1>10, <1>11, <1>12, <1>13 DEF Next
-----------------------------------------------------------------------------
(* Theorems *)

\* The inductive invariant: who owns each name, where the copies to be saved
\* are, and what the files and the registry hold.
THEOREM Invariant == Spec => []IInv
<1>1. IInv /\ [Next]_vars => IInv'
  BY NextIdentity, NextSaving, NextCreated, NextRegistered DEF IInv, Saving
<1> QED
  BY InitIInv, <1>1, PTL DEF Spec

\* Every variable stays in its type; in particular no thread takes a copy of a
\* character that is not there.
THEOREM TypeCorrect == Spec => []TypeOK
<1>1. IInv => TypeOK
  BY DEF IInv, Identity
<1> QED
  BY Invariant, <1>1, PTL

\* Whatever the number of clients and the interleaving of their logins and
\* disconnections, a name in World::players belongs to exactly one session.
THEOREM OneSessionTheorem == Spec => []OneSessionPerName
<1>1. IInv => OneSessionPerName
  BY DEF IInv, Identity
<1> QED
  BY Invariant, <1>1, PTL

\* However many clients race to create one name, one of them is told it did,
\* and no other is later unless the save of that character failed.
THEOREM CreatedOnceTheorem == Spec => []NameCreatedOnce
<1>1. IInv => NameCreatedOnce
  BY DEF IInv, Creation
<1> QED
  BY Invariant, <1>1, PTL

\* A created character has its file, or its creator's thread still has to write
\* it, or it tried to and failed: the OK of CREATE_CHARACTER is not believed in
\* vain for any other reason.
THEOREM CreatedOnDiskTheorem == Spec => []CreatedIsOnDisk
<1>1. IInv => CreatedIsOnDisk
  BY DEF IInv, Creation
<1> QED
  BY Invariant, <1>1, PTL

\* The registry never leads to a session whose disconnection is over, although
\* remove takes out whatever the name is mapped to.
THEOREM NoDeadSessionTheorem == Spec => []NoDeadSessionRegistered
<1>1. IInv => NoDeadSessionRegistered
  BY DEF IInv
<1> QED
  BY Invariant, <1>1, PTL

\* No state of a character is forgotten: whatever commands and disconnections
\* save at the same time, a state that no thread has left to save was written,
\* or a save of it failed.
THEOREM WrittenTheorem == Spec => []EveryStateWritten
<1>1. ASSUME IInv, NEW n \in Names,
             \A s \in Sessions : \A copy \in snap[s] : copy.n # n
      PROVE  written[n] \cup lost[n] = 1..fresh[n]
  <2>1. \A v \in 1..fresh[n] : v \in written[n] \cup lost[n]
    BY <1>1 DEF IInv, Saving, Accounted
  <2>2. written[n] \cup lost[n] \subseteq 1..fresh[n]
    BY <1>1 DEF IInv, Saving, Bounded
  <2> QED
    BY <2>1, <2>2
<1>2. IInv => EveryStateWritten
  BY <1>1 DEF EveryStateWritten
<1> QED
  BY Invariant, <1>2, PTL
=============================================================================
