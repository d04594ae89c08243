CONSTANTS
  a1 = a1
  a2 = a2
  a3 = a3
  b1 = b1
  c1 = c1
  a = a
  b = b
  c = c
  Endpoints <- MCEndpoints
  HostKey <- MCHostKey
  Concurrency = 2
  ArrivalsInFlight = 1
SPECIFICATION Spec
INVARIANTS
  FailedIffLost
PROPERTIES
  RefinesPublication
CHECK_DEADLOCK FALSE
