--------------------------- MODULE MCGarageSetup ---------------------------
(* Two accounts, one with two robots, and one door for all of them. *)
EXTENDS GarageSetup, TLC

CONSTANTS e1, e2, r1, r2, r3

MCEntryOf == (r1 :> e1) @@ (r2 :> e1) @@ (r3 :> e2)
=============================================================================
