------------------------ MODULE GroupsAndStats_proofs ------------------------
(***************************************************************************)
(* Groups: the tables agree for every set of players and names.  The       *)
(* conjunction of the four invariants is inductive.  Every action that     *)
(* takes a player out of a group does so with Without, so the lemma about  *)
(* it carries the argument: what is left is exactly the memberships of the *)
(* other players.                                                          *)
(*                                                                         *)
(* Stats: everybody is told the true count, for any sessions.              *)
(***************************************************************************)
EXTENDS Groups, Stats, FiniteSetTheorems, TLAPS

IInv == TypeOK /\ MembershipAgrees /\ MembersOnline /\ NameTakenWhileUsed

\* The groups without player p list every other player where it was, and p
\* nowhere; the names that are left are those of groups with someone in them.
LEMMA WithoutRemoves ==
  ASSUME IInv, NEW p \in Players
  PROVE  /\ Without(p).lists \in [GroupNames -> [Players -> Nat]]
         /\ Without(p).names \subseteq GroupNames
         /\ \A g \in GroupNames, q \in Players :
              Without(p).lists[g][q] = IF q # p /\ player_group[q] = g THEN 1 ELSE 0
         /\ \A g \in GroupNames :
              g \in Without(p).names <=> \E q \in Players : q # p /\ player_group[q] = g
<1> DEFINE h == player_group[p]
           lists == [groups EXCEPT ![h][p] = 0]
<1>0. h \in GroupNames \cup {NoGroup} /\ NoGroup \notin GroupNames
  BY GroupsAssumption DEF IInv, TypeOK
<1>1. CASE h = NoGroup
  <2>1. Without(p).lists = groups /\ Without(p).names = group_names
    BY <1>1 DEF Without
  <2>2. \A q \in Players, g \in GroupNames : player_group[q] = g => q # p
    BY <1>0, <1>1
  <2>3. \A g \in GroupNames, q \in Players :
          groups[g][q] = IF q # p /\ player_group[q] = g THEN 1 ELSE 0
    BY <2>2 DEF IInv, MembershipAgrees
  <2>4. \A g \in GroupNames :
          g \in group_names <=> \E q \in Players : q # p /\ player_group[q] = g
    BY <2>2 DEF IInv, MembershipAgrees, NameTakenWhileUsed
  <2> QED
    BY <2>1, <2>3, <2>4 DEF IInv, TypeOK
<1>2. CASE h # NoGroup
  <2>0. h \in GroupNames
    BY <1>0, <1>2
  <2>1. /\ Without(p).lists = lists
        /\ Without(p).names = IF \E q \in Players : lists[h][q] > 0
                              THEN group_names ELSE group_names \ {h}
    BY <1>2 DEF Without
  <2>2. lists \in [GroupNames -> [Players -> Nat]]
    BY <2>0 DEF IInv, TypeOK
  <2>3. \A g \in GroupNames, q \in Players :
          lists[g][q] = IF q # p /\ player_group[q] = g THEN 1 ELSE 0
    <3> TAKE g \in GroupNames, q \in Players
    <3>1. lists[g][q] = IF g = h /\ q = p THEN 0 ELSE groups[g][q]
      BY <2>0 DEF IInv, TypeOK
    <3> QED
      BY <3>1 DEF IInv, MembershipAgrees
  <2>4. \A g \in GroupNames :
          g \in group_names <=> \E q \in Players : player_group[q] = g
    BY DEF IInv, MembershipAgrees, NameTakenWhileUsed
  <2>5. \A g \in GroupNames :
          g \in Without(p).names <=> \E q \in Players : q # p /\ player_group[q] = g
    <3> HIDE DEF lists
    <3>1. (\E q \in Players : lists[h][q] > 0)
            <=> \E q \in Players : q # p /\ player_group[q] = h
      BY <2>0, <2>3
    <3> QED
      BY <2>0, <2>1, <2>4, <3>1
  <2> QED
    BY <2>1, <2>2, <2>3, <2>5 DEF IInv, TypeOK
<1> QED
  BY <1>1, <1>2

\* At the start nobody is anywhere.
LEMMA InitIInv == Init => IInv
BY GroupsAssumption
   DEF Init, IInv, TypeOK, Replies, MembershipAgrees, MembersOnline, NameTakenWhileUsed

\* The history keeps its type.
LEMMA DisbandType ==
  ASSUME TypeOK, NEW names, NEW invites \in [Players -> [GroupNames -> Nat]],
         Disband(names, invites)
  PROVE  asked' \in [Players -> [GroupNames -> Nat]] /\ disbanded' \subseteq GroupNames
BY DEF Disband, TypeOK

\* LEAVE and the disconnect: the player is in no group, the others where they were.
LEMMA LeaveGroupKeeps ==
  ASSUME IInv, NEW p \in Players, LeaveGroup(p),
         online' \in SUBSET Players, \A q \in Players \ {p} : q \in online => q \in online',
         pending_invites' \in [Players -> [GroupNames -> Nat]], reply' \in Replies
  PROVE  IInv'
<1> USE GroupsAssumption DEF IInv
<1>1. \A q \in Players : player_group'[q] = IF q = p THEN NoGroup ELSE player_group[q]
  BY DEF LeaveGroup, TypeOK
<1>2. TypeOK'
  <2>1. asked' \in [Players -> [GroupNames -> Nat]] /\ disbanded' \subseteq GroupNames
    BY DisbandType DEF LeaveGroup, TypeOK
  <2> QED
    BY <2>1, WithoutRemoves DEF LeaveGroup, TypeOK
<1>3. MembershipAgrees'
  BY <1>1, WithoutRemoves DEF LeaveGroup, MembershipAgrees
<1>4. MembersOnline'
  BY <1>1 DEF MembersOnline
<1>5. NameTakenWhileUsed'
  <2>1. groups' = Without(p).lists /\ group_names' = Without(p).names
    BY DEF LeaveGroup
  <2>2. \A g \in GroupNames, q \in Players :
          groups'[g][q] > 0 <=> q # p /\ player_group[q] = g
    BY <2>1, WithoutRemoves
  <2>3. \A g \in GroupNames :
          g \in group_names' <=> \E q \in Players : q # p /\ player_group[q] = g
    BY <2>1, WithoutRemoves
  <2>4. \A g \in GroupNames :
          g \in group_names' <=> \E q \in Players : groups'[g][q] > 0
    BY <2>2, <2>3
  <2> QED
    BY <2>4 DEF NameTakenWhileUsed
<1> QED
  BY <1>2, <1>3, <1>4, <1>5

\* ACCEPT: the player is in group g only, the others where they were.
LEMMA MoveToKeeps ==
  ASSUME IInv, NEW p \in Players, NEW g \in GroupNames, MoveTo(p, g, Without(p)),
         p \in online, UNCHANGED online, pending_invites[p][g] > 0,
         pending_invites' \in [Players -> [GroupNames -> Nat]], reply' \in Replies
  PROVE  IInv'
<1> USE GroupsAssumption DEF IInv
<1> DEFINE left == Without(p).lists
<1>1. \A q \in Players : player_group'[q] = IF q = p THEN g ELSE player_group[q]
  BY DEF MoveTo, TypeOK
<1>2. /\ left \in [GroupNames -> [Players -> Nat]]
      /\ left[g][p] = 0
      /\ groups' = [left EXCEPT ![g][p] = left[g][p] + 1]
  BY WithoutRemoves DEF MoveTo
<1>3. \A h \in GroupNames, q \in Players :
        groups'[h][q] = IF h = g /\ q = p THEN 1 ELSE left[h][q]
  <2> HIDE DEF left
  <2> QED
    BY <1>2
<1>4. TypeOK'
  <2>1. groups' \in [GroupNames -> [Players -> Nat]]
    <3> HIDE DEF left
    <3> QED
      BY <1>2
  <2>2. group_names' \subseteq GroupNames
    BY WithoutRemoves DEF MoveTo
  <2>3. player_group' \in [Players -> GroupNames \cup {NoGroup}]
    BY DEF MoveTo, TypeOK
  <2>4. asked' \in [Players -> [GroupNames -> Nat]] /\ disbanded' \subseteq GroupNames
    <3> DEFINE k == IF asked[p][g] < pending_invites[p][g] THEN asked[p][g] ELSE asked[p][g] - 1
    <3>1. k \in Nat
      BY DEF TypeOK
    <3>2. [asked EXCEPT ![p][g] = k] \in [Players -> [GroupNames -> Nat]]
      <4> HIDE DEF k
      <4> QED
        BY <3>1 DEF TypeOK
    <3> QED
      BY <3>2, DisbandType DEF MoveTo
  <2> QED
    BY <2>1, <2>2, <2>3, <2>4 DEF TypeOK
<1>5. MembershipAgrees'
  <2>1. \A h \in GroupNames, q \in Players :
          left[h][q] = IF q # p /\ player_group[q] = h THEN 1 ELSE 0
    BY WithoutRemoves
  <2> HIDE DEF left
  <2> QED
    BY <1>1, <1>3, <2>1 DEF MembershipAgrees
<1>6. MembersOnline'
  BY <1>1 DEF MembersOnline
<1>7. NameTakenWhileUsed'
  <2>1. \A h \in GroupNames : h \in group_names' <=> h = g \/ h \in Without(p).names
    BY DEF MoveTo
  <2>2. \A h \in GroupNames :
          (\E q \in Players : groups'[h][q] > 0) <=> \E q \in Players : player_group'[q] = h
    BY <1>5 DEF MembershipAgrees
  <2>3. \A h \in GroupNames :
          h \in Without(p).names <=> \E q \in Players : q # p /\ player_group[q] = h
    BY WithoutRemoves
  <2>4. SUFFICES ASSUME NEW h \in GroupNames
                 PROVE  h \in group_names' <=> \E q \in Players : player_group'[q] = h
    BY <2>2 DEF NameTakenWhileUsed
  <2>5. CASE h = g
    BY <1>1, <2>1, <2>5
  <2>6. CASE h # g
    BY <1>1, <2>1, <2>3, <2>6
  <2> QED
    BY <2>5, <2>6
<1> QED
  BY <1>4, <1>5, <1>6, <1>7

\* CREATE: the group has the founder as its only member.
LEMMA CreateKeeps ==
  ASSUME IInv, NEW p \in Players, NEW g \in GroupNames, Create(p, g)
  PROVE  IInv'
<1> USE GroupsAssumption DEF IInv
<1>1. CASE UNCHANGED <<player_group, group_names, groups>>
  BY <1>1 DEF Create, TypeOK, Replies, MembershipAgrees, MembersOnline, NameTakenWhileUsed
<1>2. CASE ~UNCHANGED <<player_group, group_names, groups>>
  <2>1. /\ p \in online /\ player_group[p] = NoGroup /\ g \notin group_names
        /\ player_group' = [player_group EXCEPT ![p] = g]
        /\ group_names' = group_names \cup {g}
        /\ groups' = [groups EXCEPT ![g] = [q \in Players |-> IF q = p THEN 1 ELSE 0]]
        /\ reply' \in Replies
        /\ UNCHANGED <<online, pending_invites, asked, disbanded>>
    BY <1>2 DEF Create, Replies
  <2>2. \A q \in Players : player_group'[q] = IF q = p THEN g ELSE player_group[q]
    BY <2>1 DEF TypeOK
  <2>3. \A h \in GroupNames, q \in Players :
          groups'[h][q] = IF h = g THEN (IF q = p THEN 1 ELSE 0) ELSE groups[h][q]
    BY <2>1 DEF TypeOK
  <2>4. \A q \in Players : player_group[q] # g
    BY <2>1 DEF MembershipAgrees, NameTakenWhileUsed
  <2>5. TypeOK'
    BY <2>1 DEF TypeOK
  <2>6. MembershipAgrees'
    BY <2>1, <2>2, <2>3, <2>4 DEF MembershipAgrees
  <2>7. MembersOnline'
    BY <2>1, <2>2 DEF MembersOnline
  <2>8. NameTakenWhileUsed'
    BY <2>1, <2>3 DEF NameTakenWhileUsed
  <2> QED
    BY <2>5, <2>6, <2>7, <2>8
<1> QED
  BY <1>1, <1>2

\* The invariant is preserved by every step.
LEMMA NextIInv == IInv /\ [Next]_vars => IInv'
<1> SUFFICES ASSUME IInv, [Next]_vars PROVE IInv'
  OBVIOUS
<1> USE DEF IInv
<1>1. CASE UNCHANGED vars
  BY <1>1 DEF vars, TypeOK, MembershipAgrees, MembersOnline, NameTakenWhileUsed
<1>2. ASSUME NEW p \in Players, Connect(p) PROVE IInv'
  BY <1>2 DEF Connect, tableVars, TypeOK, MembershipAgrees, MembersOnline, NameTakenWhileUsed
<1>3. ASSUME NEW p \in Players, Leave(p) PROVE IInv'
  <2>1. /\ LeaveGroup(p) /\ online' = online /\ pending_invites' = pending_invites
        /\ reply' \in Replies
    BY <1>3 DEF Leave, Replies
  <2> QED
    BY <2>1, LeaveGroupKeeps DEF TypeOK
<1>4. ASSUME NEW p \in Players, Disconnect(p) PROVE IInv'
  <2>1. /\ LeaveGroup(p) /\ online' = online \ {p} /\ pending_invites' = pending_invites
        /\ reply' = reply
    BY <1>4 DEF Disconnect
  <2> QED
    BY <2>1, LeaveGroupKeeps DEF TypeOK
<1>5. ASSUME NEW p \in Players, NEW g \in GroupNames, Create(p, g) PROVE IInv'
  BY <1>5, CreateKeeps
<1>6. ASSUME NEW p \in Players, NEW g \in GroupNames, Accept(p, g) PROVE IInv'
  <2>1. CASE UNCHANGED <<tableVars, pending_invites, asked>>
    BY <1>6, <2>1
       DEF tableVars, Accept, TypeOK, Replies, MembershipAgrees, MembersOnline, NameTakenWhileUsed
  <2>2. CASE ~UNCHANGED <<tableVars, pending_invites, asked>>
    <3>1. /\ p \in online /\ online' = online
          /\ pending_invites[p][g] > 0
          /\ MoveTo(p, g, Without(p))
          /\ pending_invites' = [pending_invites EXCEPT ![p][g] = @ - 1]
          /\ reply' \in Replies
      BY <1>6, <2>2 DEF Accept, Replies
    <3>2. pending_invites' \in [Players -> [GroupNames -> Nat]]
      BY <3>1 DEF TypeOK
    <3> QED
      BY <3>1, <3>2, MoveToKeeps
  <2> QED
    BY <2>1, <2>2
<1>7. ASSUME NEW p \in Players, NEW target \in Players, Invite(p, target) PROVE IInv'
  <2>1. /\ pending_invites' \in [Players -> [GroupNames -> Nat]]
        /\ asked' \in [Players -> [GroupNames -> Nat]]
    BY <1>7, GroupsAssumption DEF Invite, TypeOK
  <2> QED
    BY <1>7, <2>1
       DEF Invite, tableVars, TypeOK, Replies, MembershipAgrees, MembersOnline, NameTakenWhileUsed
<1> QED
  BY <1>1, <1>2, <1>3, <1>4, <1>5, <1>6, <1>7 DEF Next

\* The conjunction of the invariants holds in every reachable state.
THEOREM Invariant == Spec => []IInv
BY InitIInv, NextIInv, PTL DEF Spec

\* The variables keep their types, whatever the commands are answered.
THEOREM TypeCorrect == Spec => []TypeOK
BY Invariant, PTL DEF IInv

\* A player is listed once in the group player_group has for it, and nowhere
\* else (cmd_group_accept, leave_group_locked).
THEOREM MembershipTheorem == Spec => []MembershipAgrees
BY Invariant, PTL DEF IInv

\* Only players who are online are in groups (handle_disconnect).
THEOREM OnlineTheorem == Spec => []MembersOnline
BY Invariant, PTL DEF IInv

\* A group name is taken as long as the group has members (leave_group_locked).
THEOREM NameTheorem == Spec => []NameTakenWhileUsed
BY Invariant, PTL DEF IInv
-----------------------------------------------------------------------------
(* JoinsByInvitation *)

\* As long as no group of that name was disbanded, the invitations to a name
\* are invitations to the group that has it.
AskedAll ==
  \A p \in Players, g \in GroupNames :
    g \notin disbanded => asked[p][g] = pending_invites[p][g]

\* Taking names away makes no invitation an invitation to another group.
LEMMA DisbandAsked ==
  ASSUME TypeOK, NEW names, NEW invites \in [Players -> [GroupNames -> Nat]],
         Disband(names, invites), NEW p \in Players, NEW g \in GroupNames,
         g \notin disbanded'
  PROVE  g \notin disbanded /\ asked'[p][g] = invites[p][g]
BY DEF Disband, TypeOK

LEMMA NextAskedAll == TypeOK /\ AskedAll /\ [Next]_vars => AskedAll'
<1> SUFFICES ASSUME TypeOK, AskedAll, [Next]_vars PROVE AskedAll'
  OBVIOUS
<1> USE GroupsAssumption
<1>1. CASE UNCHANGED vars
  BY <1>1 DEF vars, AskedAll
<1>2. ASSUME NEW q \in Players, Connect(q) PROVE AskedAll'
  BY <1>2 DEF Connect, tableVars, AskedAll
<1>3. ASSUME NEW q \in Players, Leave(q) \/ Disconnect(q) PROVE AskedAll'
  <2>1. Disband(Without(q).names, asked) /\ UNCHANGED pending_invites
    BY <1>3 DEF Leave, Disconnect, LeaveGroup
  <2>2. asked \in [Players -> [GroupNames -> Nat]]
    BY DEF TypeOK
  <2>3. ASSUME NEW p \in Players, NEW g \in GroupNames, g \notin disbanded'
        PROVE  g \notin disbanded /\ asked'[p][g] = asked[p][g]
    BY <2>1, <2>2, <2>3, DisbandAsked
  <2> QED
    BY <2>1, <2>3 DEF AskedAll
<1>4. ASSUME NEW q \in Players, NEW h \in GroupNames, Create(q, h) PROVE AskedAll'
  BY <1>4 DEF Create, AskedAll
<1>5. ASSUME NEW q \in Players, NEW target \in Players, Invite(q, target) PROVE AskedAll'
  <2>1. CASE UNCHANGED <<pending_invites, asked>>
    BY <1>5, <2>1 DEF Invite, tableVars, AskedAll
  <2>2. CASE ~UNCHANGED <<pending_invites, asked>>
    <3>1. /\ player_group[q] # NoGroup /\ UNCHANGED disbanded
          /\ pending_invites' = [pending_invites EXCEPT ![target][player_group[q]] = @ + 1]
          /\ asked' = [asked EXCEPT ![target][player_group[q]] = @ + 1]
      BY <1>5, <2>2 DEF Invite, tableVars
    <3> QED
      BY <3>1 DEF TypeOK, AskedAll
  <2> QED
    BY <2>1, <2>2
<1>6. ASSUME NEW q \in Players, NEW h \in GroupNames, Accept(q, h) PROVE AskedAll'
  <2>1. CASE UNCHANGED <<tableVars, pending_invites, asked>>
    BY <2>1 DEF tableVars, AskedAll
  <2>2. CASE ~UNCHANGED <<tableVars, pending_invites, asked>>
    <3> DEFINE k == IF asked[q][h] < pending_invites[q][h] THEN asked[q][h] ELSE asked[q][h] - 1
               invites == [asked EXCEPT ![q][h] = k]
    <3>1. /\ pending_invites[q][h] > 0
          /\ Disband(Without(q).names, invites)
          /\ pending_invites' = [pending_invites EXCEPT ![q][h] = @ - 1]
      BY <1>6, <2>2 DEF Accept, MoveTo
    <3>2. k \in Nat
      BY <3>1 DEF TypeOK
    <3>3. invites \in [Players -> [GroupNames -> Nat]]
      <4> HIDE DEF k
      <4> QED
        BY <3>2 DEF TypeOK
    <3>4. ASSUME NEW p \in Players, NEW g \in GroupNames, g \notin disbanded'
          PROVE  asked'[p][g] = pending_invites'[p][g]
      <4>1. g \notin disbanded /\ asked'[p][g] = invites[p][g]
        <5> HIDE DEF invites
        <5> QED
          BY <3>1, <3>3, <3>4, DisbandAsked
      <4>2. asked[p][g] = pending_invites[p][g]
        BY <4>1 DEF AskedAll
      <4> QED
        BY <3>1, <4>1, <4>2 DEF TypeOK
    <3> QED
      BY <3>4 DEF AskedAll
  <2> QED
    BY <2>1, <2>2
<1> QED
  BY <1>1, <1>2, <1>3, <1>4, <1>5, <1>6 DEF Next

\* The only command that brings a player into a group with members is ACCEPT.
LEMMA NextJoins ==
  ASSUME TypeOK, AskedAll, Next, NEW p \in Players, NEW g \in GroupNames,
         player_group[p] # g, player_group'[p] = g, g \in group_names, g \notin disbanded
  PROVE  asked[p][g] > 0
<1> USE GroupsAssumption
<1>1. ASSUME NEW q \in Players, Connect(q) \/ \E target \in Players : Invite(q, target)
      PROVE  FALSE
  BY <1>1 DEF Connect, Invite, tableVars
<1>2. ASSUME NEW q \in Players, Leave(q) \/ Disconnect(q) PROVE FALSE
  BY <1>2 DEF Leave, Disconnect, LeaveGroup, TypeOK
<1>3. ASSUME NEW q \in Players, NEW h \in GroupNames, Create(q, h) PROVE FALSE
  BY <1>3 DEF Create, TypeOK
<1>4. ASSUME NEW q \in Players, NEW h \in GroupNames, Accept(q, h)
      PROVE  asked[p][g] > 0
  <2>1. pending_invites[q][h] > 0 /\ player_group' = [player_group EXCEPT ![q] = h]
    BY <1>4 DEF Accept, MoveTo, tableVars
  <2>2. q = p /\ h = g
    BY <2>1 DEF TypeOK
  <2> QED
    BY <2>1, <2>2 DEF AskedAll
<1> QED
  BY <1>1, <1>2, <1>3, <1>4 DEF Next

\* As long as no group of its name was disbanded, a player comes into a group
\* with members only if a member of that very group invited it (cmd_group_accept).
THEOREM JoinTheorem == Spec => JoinsByInvitation
<1>1. Init => AskedAll
  BY DEF Init, AskedAll
<1>2. TypeOK /\ AskedAll /\ [Next]_vars =>
        [\A p \in Players, g \in GroupNames :
           (player_group[p] # g /\ player_group'[p] = g /\ g \in group_names)
             => asked[p][g] > 0 \/ g \in disbanded]_vars
  BY NextJoins
<1> QED
  BY <1>1, <1>2, NextAskedAll, TypeCorrect, PTL DEF Spec, JoinsByInvitation

-----------------------------------------------------------------------------
(* Stats *)

\* Thread b's broadcast will yet tell s how many sessions there are.
WillTell(b, s) ==
  \/ pc[b] \in {"join", "part"}
  \/ pc[b] \in {"joinList", "partList"} /\ message[b] = Cardinality(registry)
  \/ pc[b] \in {"joinTell", "partTell"} /\ message[b] = Cardinality(registry) /\ s \in targets[b]

\* Who is in the registry has been told, or is going to be.
ToldOrWill ==
  \A s \in registry : Cardinality(registry) \in told[s] \/ \E b \in Sessions : WillTell(b, s)

StatsInv == StatsTypeOK /\ ToldOrWill

-----------------------------------------------------------------------------
(* Types *)

LEMMA CountType ==
  ASSUME NEW S \in SUBSET Sessions
  PROVE  Cardinality(S) \in 0..Cardinality(Sessions)
<1>1. IsFiniteSet(Sessions)
  BY StatsAssumption DEF StatsAssumption
<1>2. IsFiniteSet(S) /\ Cardinality(S) <= Cardinality(Sessions)
  BY <1>1, FS_Subset
<1>3. Cardinality(S) \in Nat /\ Cardinality(Sessions) \in Nat
  BY <1>1, <1>2, FS_CardinalityType
<1> QED BY <1>2, <1>3

LEMMA StatsInitInv == StatsInit => StatsInv
<1> SUFFICES ASSUME StatsInit PROVE StatsInv
  OBVIOUS
<1>1. Cardinality({}) \in 0..Cardinality(Sessions)
  BY CountType
<1>2. 0 \in 0..Cardinality(Sessions)
  BY <1>1, FS_EmptySet
<1> QED BY <1>2 DEF StatsInit, StatsInv, StatsTypeOK, Labels, ToldOrWill

LEMMA NextStatsTypeOK == StatsTypeOK /\ [StatsNext]_statsVars => StatsTypeOK'
<1> SUFFICES ASSUME StatsTypeOK, [StatsNext]_statsVars PROVE StatsTypeOK'
  OBVIOUS
<1> USE DEF StatsTypeOK
<1>1. ASSUME NEW s \in Sessions, Join(s) \/ Part(s) PROVE StatsTypeOK'
  <2>1. 0 \in 0..Cardinality(Sessions)
    BY CountType, FS_EmptySet
  <2> QED BY <1>1, <2>1 DEF Join, Part, ChangeRegistry, Goto, Labels
<1>2. ASSUME NEW s \in Sessions, Count(s) PROVE StatsTypeOK'
  <2>1. Cardinality(registry) \in 0..Cardinality(Sessions)
    BY CountType
  <2> QED BY <1>2, <2>1 DEF Count, Goto, Labels
<1>3. ASSUME NEW s \in Sessions, List(s) PROVE StatsTypeOK'
  BY <1>3 DEF List, Goto, Labels
<1>4. ASSUME NEW s \in Sessions, Tell(s) PROVE StatsTypeOK'
  <2>1. PICK t \in targets[s] :
          /\ targets' = [targets EXCEPT ![s] = @ \ {t}]
          /\ shown' = [shown EXCEPT ![t] = message[s]]
          /\ told' = [told EXCEPT ![t] = @ \cup {message[s]}]
    BY <1>4 DEF Tell
  <2>2. t \in Sessions /\ message[s] \in 0..Cardinality(Sessions)
    OBVIOUS
  <2>3. targets' \in [Sessions -> SUBSET Sessions]
    BY <2>1
  <2>4. shown' \in [Sessions -> 0..Cardinality(Sessions)]
    BY <2>1, <2>2
  <2>5. told' \in [Sessions -> SUBSET (0..Cardinality(Sessions))]
    BY <2>1, <2>2
  <2> QED BY <1>4, <2>3, <2>4, <2>5 DEF Tell
<1>5. ASSUME NEW s \in Sessions, Finish(s) PROVE StatsTypeOK'
  <2>1. 0 \in 0..Cardinality(Sessions)
    BY CountType, FS_EmptySet
  <2> QED BY <1>5, <2>1 DEF Finish, Goto, Labels
<1>6. CASE UNCHANGED statsVars
  BY <1>6 DEF statsVars
<1>7. ASSUME NEW s \in Sessions, PeerStalls(s) PROVE StatsTypeOK'
  BY <1>7 DEF PeerStalls
<1> QED BY <1>1, <1>2, <1>3, <1>4, <1>5, <1>6, <1>7 DEF StatsNext, Broadcast

-----------------------------------------------------------------------------
(* Who changes the registry counts afterwards, and tells those it lists *)

LEMMA NextToldOrWill == StatsTypeOK /\ ToldOrWill /\ [StatsNext]_statsVars => ToldOrWill'
<1> SUFFICES ASSUME StatsTypeOK, ToldOrWill, [StatsNext]_statsVars, NEW s \in registry'
             PROVE  Cardinality(registry') \in told'[s] \/ \E b \in Sessions : WillTell(b, s)'
  BY DEF ToldOrWill
<1>1. ASSUME NEW x \in Sessions, Join(x) \/ Part(x)
      PROVE  WillTell(x, s)'
  BY <1>1 DEF Join, Part, Goto, WillTell, StatsTypeOK
<1>2. ASSUME NEW x \in Sessions, Broadcast(x)
      PROVE  Cardinality(registry') \in told'[s] \/ \E b \in Sessions : WillTell(b, s)'
  <2>1. registry' = registry /\ s \in Sessions
    BY <1>2 DEF Broadcast, Count, List, Tell, Finish, StatsTypeOK
  <2>2. CASE Cardinality(registry) \in told[s]
    <3>1. told[s] \subseteq told'[s]
      BY <1>2, <2>1 DEF Broadcast, Count, List, Tell, Finish, StatsTypeOK
    <3> QED BY <2>1, <2>2, <3>1
  <2>3. ASSUME NEW b \in Sessions, WillTell(b, s), b # x
        PROVE  WillTell(b, s)'
    <3>1. pc'[b] = pc[b] /\ message'[b] = message[b] /\ targets'[b] = targets[b]
      BY <1>2, <2>3 DEF Broadcast, Count, List, Tell, Finish, Goto, StatsTypeOK
    <3> QED BY <2>1, <2>3, <3>1 DEF WillTell
  <2>4. CASE WillTell(x, s)
    <3>1. CASE Count(x)
      BY <2>1, <3>1 DEF Count, Goto, WillTell, StatsTypeOK
    <3>2. CASE List(x)
      BY <2>1, <2>4, <3>2 DEF List, Goto, WillTell, StatsTypeOK
    <3>3. CASE Tell(x)
      <4>1. message[x] = Cardinality(registry) /\ s \in targets[x]
        BY <2>4, <3>3 DEF Tell, WillTell
      <4>2. PICK t \in targets[x] :
              /\ targets' = [targets EXCEPT ![x] = @ \ {t}]
              /\ told' = [told EXCEPT ![t] = @ \cup {message[x]}]
              /\ UNCHANGED <<registry, pc, message>>
        BY <3>3 DEF Tell
      <4>3. CASE t = s
        BY <2>1, <4>1, <4>2, <4>3 DEF StatsTypeOK
      <4>4. CASE t # s
        <5>1. s \in targets'[x]
          BY <4>1, <4>2, <4>4 DEF StatsTypeOK
        <5> QED BY <2>1, <2>4, <3>3, <4>1, <4>2, <5>1 DEF WillTell, Tell
      <4> QED BY <4>3, <4>4
    <3>4. CASE Finish(x)
      BY <2>4, <3>4 DEF Finish, Goto, WillTell
    <3> QED BY <1>2, <3>1, <3>2, <3>3, <3>4 DEF Broadcast
  <2>5. Cardinality(registry) \in told[s] \/ \E b \in Sessions : WillTell(b, s)
    BY <2>1 DEF ToldOrWill
  <2> QED BY <2>2, <2>3, <2>4, <2>5
<1>3. CASE UNCHANGED statsVars
  BY <1>3 DEF statsVars, ToldOrWill, WillTell
<1>4. ASSUME NEW x \in Sessions, PeerStalls(x)
      PROVE  Cardinality(registry') \in told'[s] \/ \E b \in Sessions : WillTell(b, s)'
  BY <1>4 DEF PeerStalls, ToldOrWill, WillTell
<1> QED BY <1>1, <1>2, <1>3, <1>4 DEF StatsNext

LEMMA StatsInvariant == StatsSpec => []StatsInv
<1>1. StatsInv /\ [StatsNext]_statsVars => StatsInv'
  BY NextStatsTypeOK, NextToldOrWill DEF StatsInv
<1> QED BY StatsInitInv, <1>1, PTL DEF StatsSpec

-----------------------------------------------------------------------------
(* The theorems *)

\* Every variable of Stats keeps its type.
THEOREM StatsTypeCorrect == StatsSpec => []StatsTypeOK
<1>1. StatsInv => StatsTypeOK
  BY DEF StatsInv
<1> QED BY <1>1, StatsInvariant, PTL

\* However logins, disconnections and broadcasts overlap, when they have all ended
\* every client in the registry has been sent the number of clients there are.
THEOREM StatsTheorem == StatsSpec => []StatsReachEveryone
<1>1. StatsInv => StatsReachEveryone
  <2> SUFFICES ASSUME StatsInv, AtRest, NEW s \in registry
               PROVE  Cardinality(registry) \in told[s]
    BY DEF StatsReachEveryone
  <2>1. \A b \in Sessions : ~WillTell(b, s)
    BY DEF AtRest, WillTell
  <2> QED BY <2>1 DEF StatsInv, ToldOrWill
<1> QED BY <1>1, StatsInvariant, PTL
=============================================================================
