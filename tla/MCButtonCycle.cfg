SPECIFICATION Spec
CONSTANTS
  Travel = 4
  Latency = 1
  Window = 5
  MaxRuns = 3
  MaxPresses = 3
  MaxOthers = 2
  MaxLosses = 1
INVARIANTS
  WindowCoversTravel
  PressOnMovingDoorStops
CHECK_DEADLOCK FALSE
