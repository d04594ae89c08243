\* A pool of two workers, two requests and the follower, moved once.
SPECIFICATION Spec
CONSTANTS
  Requests = {r1, r2}
  Ids = {1, 2, 3, 4}
  Size = 2
  MaxGen = 2
  Nobody = 0
INVARIANTS
  PoolIsAccountedFor
PROPERTIES
  OlderWorkersAreFinished
  EveryQueryEnds
