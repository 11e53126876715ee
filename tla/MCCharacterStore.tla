-------------------------- MODULE MCCharacterStore --------------------------
(* CharacterStore with a few threads and states. *)
EXTENDS CharacterStore, TLC

Sym == Permutations(Threads) \cup Permutations(States) \cup Permutations(Inodes)
=============================================================================
