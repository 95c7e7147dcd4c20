-------------------------- MODULE MCGarageFaults --------------------------
(* One clean from the dock and back, undisturbed. *)
EXTENDS GarageControl
=============================================================================
