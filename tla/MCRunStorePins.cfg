SPECIFICATION Spec
CONSTANTS
  a = a
  b = b
  avail = avail
  Endpoints = {a, b}
  Metrics = {avail}
  LastRun = 3
  Contents <- CopyContents
  RunsADay = 2
  Keep = 1
  MaxRewrites = 0
  MaxKills = 0
  MaxJobs = 1
PROPERTY
  PruningKeepsCurrent
CHECK_DEADLOCK FALSE
