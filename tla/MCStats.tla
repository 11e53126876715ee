------------------------------ MODULE MCStats -------------------------------
(* Stats with a handful of sessions. *)
EXTENDS Stats, TLC

Sym == Permutations(Sessions)
=============================================================================
