SPECIFICATION Spec
CONSTANTS
  a = a
  b = b
  avail = avail
  Endpoints = {a, b}
  Metrics = {avail}
  LastRun = 3
  Contents <- MCContents
  RunsADay = 2
  Keep = 1
  MaxRewrites = 1
  MaxKills = 1
  MaxJobs = 2
INVARIANTS
  PublishedIsDerived
  SkippedRunsAreHeld
PROPERTIES
  CurrentNeverGoesBack
  OnlyCountedRunsArePruned
  PruningKeepsTheRows
CHECK_DEADLOCK FALSE
