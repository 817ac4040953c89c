SPECIFICATION FairSpec
CHECK_DEADLOCK FALSE
CONSTANTS
  x1 = x1  x2 = x2  x3 = x3
  b1 = b1  b2 = b2  b3 = b3
  NoJob = NoJob
  Jobs = {x1, x2, b1, b2}
  ExitJobs = {x1, x2}
  MaxSize = 3
  JobTimeout = TRUE
INVARIANTS LaneOrder
PROPERTIES EveryJobServed KeepsFairLanes
