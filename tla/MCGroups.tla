------------------------------ MODULE MCGroups ------------------------------
(* Groups with players 1..3, each of whose names can be a group's. *)
EXTENDS Groups

\* No guard reads the reply, and no property of the run is about it.
Tables == <<online, player_group, group_names, groups, pending_invites, asked, disbanded>>
=============================================================================
