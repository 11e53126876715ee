---------------------------- MODULE MCSessionIO -----------------------------
(* SessionIO with two connections, each with its own descriptor number or   *)
(* the one the other has given back.                                        *)
EXTENDS SessionIO

CONSTANTS c1, c2, f1, f2
=============================================================================
