SPECIFICATION AllSpec
CONSTANTS
  Points <- MCPoints
  Dist <- MCDist
  Radius = 1
  Window = 2
  BackRadius = 2
  BackWindow = 5
  MaxTime = 6
  None = None
  Unreadable = Unreadable
  ZoneRobots = {"r1", "r2"}
  Zones = {"a"}
  MaxJobs = 3
  MaxRestarts = 1
  Users = {"ann"}
  Official = {"us"}
  Own = {"home"}
  Accounts = {"a1", "a2"}
  MaxFlows = 3
  MaxChanges = 2
  Spots = {0, 51}
  Fetches = {"f1", "f2"}
  MaxImages = 2
INVARIANTS ReportedInTime StuckIsTold SavedZoneSurvives EntryIsItsAccount OptionsAreAsSaved PictureIsOfItsMap
PROPERTIES EventsAreTrue
CHECK_DEADLOCK FALSE
