------------------------------ MODULE MCClient ------------------------------
(* A client small enough to check in every order; the bounds are in the     *)
(* configurations.                                                          *)
EXTENDS Client, TLC
=============================================================================
