SPECIFICATION Spec
CONSTANTS
  MaxCalls = 2
  Requests = {"start", "resume", "goto", "app_pause", "routine", "stage"}
  Bindings = {"none", "plain", "exit"}
  Option = 10
  PollEvery = 3
  MaxTurns = 1
INVARIANTS PausedTaskCanBeResumed
PROPERTIES AlarmIsTrue SilenceIsTrue LostCleanIsReported
