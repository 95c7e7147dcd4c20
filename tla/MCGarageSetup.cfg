SPECIFICATION Spec
CONSTANTS
  e1 = e1
  e2 = e2
  r1 = r1
  r2 = r2
  r3 = r3
  Entries = {e1, e2}
  Robots = {r1, r2, r3}
  EntryOf <- MCEntryOf
  Covers = {c1}
  None = None
  MaxLoads = 2
  MaxEdits = 2
  MaxFaults = 1
PROPERTIES
  ImplementsTenure
  RuntimeFollowsOptions
CHECK_DEADLOCK FALSE
