------------------------------- MODULE Groups -------------------------------
(***************************************************************************)
(* Groups and invitations: commands/group_commands.cpp, and the part of    *)
(* handle_disconnect that takes a player out of its group.                 *)
(*                                                                         *)
(* Every command works in one critical section of World::mutex, which is   *)
(* one action here; the reply and the broadcast follow it and change no    *)
(* shared state.  World::player_group[p] = "" and no entry for p mean the  *)
(* same to all the code, and are NoGroup.  The vectors of World::groups    *)
(* are bags, so that a player listed twice is seen; World::pending_invites *)
(* is a multimap, and a bag as well.  Players are numbers because ACCEPT   *)
(* depends on the order of the keys of that multimap, and a group founded  *)
(* with no name has the name of its founder.                               *)
(***************************************************************************)
EXTENDS Naturals

CONSTANTS
  Players,     \* player names, in the order of their strings
  GroupNames,  \* what a group can be called
  MaxInvites,  \* bound: times one player is invited to one group
  NoGroup

ASSUME GroupsAssumption ==
  /\ Players \subseteq Nat
  /\ Players \subseteq GroupNames
  /\ NoGroup \notin GroupNames
  /\ MaxInvites \in Nat \ {0}

VARIABLES
  online,           \* the keys of World::players
  player_group,     \* the group of each player, or NoGroup
  group_names,      \* the keys of World::groups
  groups,           \* how often each player is listed in each group
  pending_invites,  \* how many invitations to a group each player has
  reply,            \* what the last GROUP command was answered
  asked,            \* history: how many of them are to the group that has the name now
  disbanded         \* history: the names of the groups that were disbanded

vars == <<online, player_group, group_names, groups, pending_invites, reply, asked, disbanded>>

tableVars == <<player_group, group_names, groups, disbanded>>

Replies == {"none", "created", "invited", "joined", "left", "ALREADY_IN_GROUP",
            "NAME_IN_USE", "NOT_IN_GROUP", "PLAYER_NOT_FOUND", "BAD_MESSAGE", "INTERNAL"}

TypeOK ==
  /\ online \subseteq Players
  /\ player_group \in [Players -> GroupNames \cup {NoGroup}]
  /\ group_names \subseteq GroupNames
  /\ groups \in [GroupNames -> [Players -> Nat]]
  /\ pending_invites \in [Players -> [GroupNames -> Nat]]
  /\ reply \in Replies
  /\ asked \in [Players -> [GroupNames -> Nat]]
  /\ disbanded \subseteq GroupNames

Init ==
  /\ online = {}
  /\ player_group = [p \in Players |-> NoGroup]
  /\ group_names = {}
  /\ groups = [g \in GroupNames |-> [p \in Players |-> 0]]
  /\ pending_invites = [p \in Players |-> [g \in GroupNames |-> 0]]
  /\ reply = "none"
  /\ asked = [p \in Players |-> [g \in GroupNames |-> 0]]
  /\ disbanded = {}

Connect(p) ==
  /\ p \notin online
  /\ online' = online \cup {p}
  /\ UNCHANGED <<tableVars, pending_invites, reply, asked>>

\* (bug) a group without members keeps its name
WithoutKeepingName(p) ==
  LET g == player_group[p]
  IN IF g = NoGroup
     THEN [names |-> group_names, lists |-> groups]
     ELSE [names |-> group_names, lists |-> [groups EXCEPT ![g][p] = 0]]

\* leave_group_locked: the groups without player p.  Every listing of p goes,
\* and so does a group nobody is listed in any more.
Without(p) ==
  LET g == player_group[p]
  IN IF g = NoGroup
     THEN [names |-> group_names, lists |-> groups]
     ELSE LET lists == [groups EXCEPT ![g][p] = 0]
          IN [names |-> IF \E q \in Players : lists[g][q] > 0
                        THEN group_names ELSE group_names \ {g},
              lists |-> lists]

\* The names that are free once `names' are left, and the invitations to the
\* groups that had them, which remain for whoever takes the name next.
Disband(names, invites) ==
  /\ disbanded' = disbanded \cup (group_names \ names)
  /\ asked' = [q \in Players |-> [g \in GroupNames |->
                IF g \in group_names \ names THEN 0 ELSE invites[q][g]]]

\* GROUP CREATE [g]
Create(p, g) ==
  /\ p \in online
  /\ \/ /\ player_group[p] # NoGroup
        /\ reply' = "ALREADY_IN_GROUP"
        /\ UNCHANGED <<player_group, group_names, groups>>
     \/ /\ player_group[p] = NoGroup
        /\ g \in group_names
        /\ reply' = "NAME_IN_USE"
        /\ UNCHANGED <<player_group, group_names, groups>>
     \/ /\ player_group[p] = NoGroup
        /\ g \notin group_names
        /\ player_group' = [player_group EXCEPT ![p] = g]
        /\ group_names' = group_names \cup {g}
        /\ groups' = [groups EXCEPT ![g] = [q \in Players |-> IF q = p THEN 1 ELSE 0]]
        /\ reply' = "created"
  /\ UNCHANGED <<online, pending_invites, asked, disbanded>>

\* GROUP INVITE target
Invite(p, target) ==
  /\ p \in online
  /\ \/ /\ target = p
        /\ reply' = "BAD_MESSAGE"
        /\ UNCHANGED <<pending_invites, asked>>
     \/ /\ target # p /\ target \notin online
        /\ reply' = "PLAYER_NOT_FOUND"
        /\ UNCHANGED <<pending_invites, asked>>
     \/ /\ target # p /\ target \in online
        /\ player_group[p] = NoGroup
        /\ reply' = "NOT_IN_GROUP"
        /\ UNCHANGED <<pending_invites, asked>>
     \/ /\ target # p /\ target \in online
        /\ player_group[p] # NoGroup
        /\ pending_invites[target][player_group[p]] < MaxInvites
        /\ pending_invites' = [pending_invites EXCEPT ![target][player_group[p]] = @ + 1]
        /\ asked' = [asked EXCEPT ![target][player_group[p]] = @ + 1]
        /\ reply' = "invited"
  /\ UNCHANGED <<online, tableVars>>

\* The first invitation at or after p's in the multimap exists.
InviteFrom(p) == \E q \in Players, g \in GroupNames : q >= p /\ pending_invites[q][g] > 0

\* p leaves its group and is listed in g.  Of the invitations to one name the
\* oldest is used up, so one to an earlier group of that name goes first.
MoveTo(p, g, left) ==
  /\ groups' = [left.lists EXCEPT ![g][p] = @ + 1]
  /\ group_names' = left.names \cup {g}
  /\ player_group' = [player_group EXCEPT ![p] = g]
  /\ Disband(left.names, [asked EXCEPT ![p][g] =
                            IF @ < pending_invites[p][g] THEN @ ELSE @ - 1])

\* (bug) the player is listed in the new group and not taken out of the old one
AcceptWithoutLeaving(p, g) ==
  /\ p \in online
  /\ pending_invites[p][g] > 0
  /\ MoveTo(p, g, [names |-> group_names, lists |-> groups])
  /\ pending_invites' = [pending_invites EXCEPT ![p][g] = @ - 1]
  /\ reply' = "joined"
  /\ UNCHANGED online

\* (bug) any pending invitation will do, whatever group it is for
AcceptAny(p, g) ==
  /\ p \in online
  /\ \E h \in GroupNames :
       /\ pending_invites[p][h] > 0
       /\ pending_invites' = [pending_invites EXCEPT ![p][h] = @ - 1]
  /\ MoveTo(p, g, Without(p))
  /\ reply' = "joined"
  /\ UNCHANGED online

\* GROUP ACCEPT g: one invitation to g is used up.  The player leaves its
\* group first, also when that is g itself and even when g dissolves by it.
Accept(p, g) ==
  /\ p \in online
  /\ \/ /\ ~InviteFrom(p)
        /\ reply' = "BAD_MESSAGE"
        /\ UNCHANGED <<tableVars, pending_invites, asked>>
     \/ /\ InviteFrom(p) /\ pending_invites[p][g] = 0
        /\ reply' = "INTERNAL"
        /\ UNCHANGED <<tableVars, pending_invites, asked>>
     \/ /\ pending_invites[p][g] > 0
        /\ MoveTo(p, g, Without(p))
        /\ pending_invites' = [pending_invites EXCEPT ![p][g] = @ - 1]
        /\ reply' = "joined"
  /\ UNCHANGED online

LeaveGroup(p) ==
  /\ groups' = Without(p).lists
  /\ group_names' = Without(p).names
  /\ player_group' = [player_group EXCEPT ![p] = NoGroup]
  /\ Disband(Without(p).names, asked)

\* GROUP LEAVE, which answers OK to a player in no group as well
Leave(p) ==
  /\ p \in online
  /\ LeaveGroup(p)
  /\ reply' = "left"
  /\ UNCHANGED <<online, pending_invites>>

\* (bug) the disconnect leaves the player in its group
DisconnectInGroup(p) ==
  /\ p \in online
  /\ online' = online \ {p}
  /\ UNCHANGED <<tableVars, pending_invites, reply, asked>>

\* handle_disconnect: the player leaves the world and its group in one critical
\* section; its invitations stay.
Disconnect(p) ==
  /\ p \in online
  /\ online' = online \ {p}
  /\ LeaveGroup(p)
  /\ UNCHANGED <<pending_invites, reply>>

Next == \E p \in Players :
  \/ Connect(p) \/ Leave(p) \/ Disconnect(p)
  \/ \E g \in GroupNames : Create(p, g) \/ Accept(p, g)
  \/ \E target \in Players : Invite(p, target)

Spec == Init /\ [][Next]_vars
-----------------------------------------------------------------------------
(* Properties *)

\* The two tables agree: a player is listed once in the group player_group has
\* for it and in no other, so that no CHAT GROUP line reaches it twice or from
\* a group it left (the double-membership bug cmd_group_accept speaks of).
MembershipAgrees ==
  \A p \in Players, g \in GroupNames :
    groups[g][p] = IF player_group[p] = g THEN 1 ELSE 0

\* Only players who are online are in groups: no group survives on members that
\* disconnected, and a broadcast finds a session for everyone it lists.
MembersOnline == \A p \in Players : player_group[p] # NoGroup => p \in online

\* A group name is taken exactly as long as the group has members
\* (PROTOCOL.md, GROUP: unique only while the group exists).
NameTakenWhileUsed ==
  \A g \in GroupNames : g \in group_names <=> \E p \in Players : groups[g][p] > 0

\* A player comes into a group that has members only if a member invited it
\* since the group was founded.  Names are all that ACCEPT compares, so this is
\* so as long as no group of that name was disbanded before.
JoinsByInvitation ==
  [][\A p \in Players, g \in GroupNames :
       (player_group[p] # g /\ player_group'[p] = g /\ g \in group_names)
         => asked[p][g] > 0 \/ g \in disbanded]_vars

\* The invitation that lets a player in is one to the group it joins
\* (the comment on the loop of cmd_group_accept).
InvitationIsSpecific ==
  [][\A p \in Players, g \in GroupNames :
       (player_group[p] # g /\ player_group'[p] = g /\ g \in group_names)
         => asked[p][g] > 0]_vars

\* One pending invitation per invitee (PROTOCOL.md, GROUP).
OneInvitePerInvitee ==
  \A p \in Players : \A g, h \in GroupNames :
    /\ pending_invites[p][g] <= 1
    /\ (pending_invites[p][g] > 0 /\ pending_invites[p][h] > 0) => g = h

\* GROUP INVITE creates a group for a player who has none
\* (the comment on cmd_group_create).
InviteCreatesGroup == reply # "NOT_IN_GROUP"

\* GROUP ACCEPT without a matching invitation is the client's mistake, not the
\* server's (PROTOCOL.md, GROUP).
AcceptNeverInternal == reply # "INTERNAL"
=============================================================================
