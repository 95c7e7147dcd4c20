SPECIFICATION FairSpec
CONSTANTS
  Seqs = {s1}
  Callers = {c1}
  NoSeq = NoSeq
  Ops = {"clean"}
  Events = {}
  Budget = 0
  MaxCalls = 1
  Trips = 2
  Lag = FALSE
INVARIANTS
  ReleaseNeedsOpenDoor
PROPERTIES
  CleanComesHome
  PausedRobotIsReleased
CHECK_DEADLOCK FALSE
