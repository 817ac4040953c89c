SPECIFICATION VenuesSpec
CONSTANTS
  Total = 2
  Retries = 1
  MaxFaults = 2
  SomeSettings <- Settings
  Keys = {"fly", "fly2"}
  Analysts = {"a", "b"}
  Budget = 400
  Ceiling = 2
  Risks = {180}
  Stated = {0, 1}
  SomeScenes <- Scenes
  SomeWays <- Ways
INVARIANTS AllBooked NothingOversold CancelsTruly
PROPERTIES CancelLands AllOrdersEnd
CHECK_DEADLOCK FALSE
