SPECIFICATION Spec
CONSTANTS
  Places = {"in", "out"}
  StatusEvery = 1
  CloudEvery = 1
  FullEvery = 1
  Unavailable = 2
  ImageCache = 0
  ActiveEvery = 1
  IdleEvery = 2
  MaxRead = 1
  MaxPoll = 0
INVARIANTS
  OutsideWasTrue
  DockedIsNotOutside
CHECK_DEADLOCK FALSE

PROPERTY
  SamplingGoesOn
