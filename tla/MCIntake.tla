------------------------------ MODULE MCIntake ------------------------------
(* Intake with small windows, by kind. *)
EXTENDS Intake

MCWindow == [k \in Kinds |-> 1]
MCThreshold == [k \in Kinds |-> IF k = "command" THEN 2 ELSE 1]
MCBurst == [k \in Kinds |-> IF k = "command" THEN 2 ELSE 1]
=============================================================================
