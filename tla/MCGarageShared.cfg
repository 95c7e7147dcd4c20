SPECIFICATION PatientSpec
CONSTANTS
  Seqs = {s1, s2}
  Callers = {c1, c2}
  NoSeq = NoSeq
  Ops = {"clean", "resume", "request_open", "request_close", "reset"}
  Events = {"unload", "user", "dropped"}
  Budget = 2
  MaxCalls = 2
  Trips = 0
  Lag = FALSE
PROPERTIES
  NoRobotCommandAfterUnload
  UnloadEndsSequences
CHECK_DEADLOCK FALSE
