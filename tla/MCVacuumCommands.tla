--------------------------- MODULE MCVacuumCommands ---------------------------
(* Two calls on one robot, with and without a garage. *)
EXTENDS VacuumCommands
=============================================================================
