SPECIFICATION Spec
CONSTANTS
  a = a
  b = b
  avail = avail
  Endpoints = {a, b}
  Metrics = {avail}
  LastRun = 3
  Contents <- MCContents
  RunsADay = 2
  Keep = 1
  MaxRewrites = 0
  MaxKills = 0
  MaxJobs = 2
INVARIANT
  PrunedRunsAreCounted
CHECK_DEADLOCK FALSE
