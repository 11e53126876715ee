CONSTANTS
  Players = {1, 2, 3}
  GroupNames = {1, 2, 3}
  MaxInvites = 1
  NoGroup = NoGroup
SPECIFICATION Spec
INVARIANTS MembershipAgrees MembersOnline NameTakenWhileUsed
PROPERTY JoinsByInvitation
VIEW Tables
