---------------------------- MODULE MCBroadcast ----------------------------
(* Broadcast with three sessions, two of which log in with the same name. *)
EXTENDS Broadcast

CONSTANTS s1, s2, s3, a, b

MCOwner == [s \in Sessions |-> IF s = s1 THEN a ELSE b]
=============================================================================
