----------------------------- MODULE MCPresence -----------------------------
(* Presence on small sets of sessions and names. *)
EXTENDS Presence, TLC

Sym == Permutations(Sessions) \cup Permutations(Names)
=============================================================================
