---------------------------- MODULE MCButtonCycle ----------------------------
(* A small instance of ButtonCycle: the constants come from the .cfg. *)
EXTENDS ButtonCycle
=============================================================================
