-------------------------- MODULE MCDoorAutomation --------------------------
(* A small instance of DoorAutomation: the constants come from the .cfg. *)
EXTENDS DoorAutomation
=============================================================================
