SPECIFICATION Spec
CONSTANTS
  Families = {"timer", "v1", "map", "q7", "zeo", "q10"}
  MaxSets = 2
  MaxTroubles = 2
INVARIANTS LastSettingHolds
PROPERTIES ShownSettles BroughtIsShown
CHECK_DEADLOCK FALSE
