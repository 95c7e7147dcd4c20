------------------------ MODULE MCVacuumCoordinator ------------------------
EXTENDS VacuumCoordinator
=============================================================================
