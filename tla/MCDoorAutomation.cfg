SPECIFICATION Spec
CONSTANTS
  MaxRuns = 5
  MaxCleans = 1
  MaxVisits = 1
  MaxMishaps = 2
  Raising = {"pause", "close", "open", "resume"}
  Losing = {"status", "contact", "position"}
  QuickCleans = FALSE
  FastPolls = TRUE
INVARIANTS
  OnePausePerDeparture
  StrandIsReported
PROPERTIES
  ParkClosesOnlyAfterTask
  DockedRobotMovesNoDoor
  ReturningRobotLetIn
  PauseEnds
CHECK_DEADLOCK FALSE
