SPECIFICATION PatientSpec
CONSTANTS
  Seqs = {s1}
  Callers = {c1}
  NoSeq = NoSeq
  Ops = {"clean", "routine"}
  Events = {"household", "cover_fails", "send_fails", "slow_door", "dropped", "late_pause", "no_position", "deadline", "feedback", "stale_status", "wander", "permission"}
  Budget = 1
  MaxCalls = 1
  Trips = 2
  Lag = TRUE
INVARIANTS
  RobotHeldWhileClosing
  ClosesOnlyForSeenClean
PROPERTIES
  MidTaskDoorReopened
CHECK_DEADLOCK FALSE
