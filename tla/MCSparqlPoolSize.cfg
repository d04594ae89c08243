\* A pool of one worker.
SPECIFICATION Spec
CONSTANTS
  Requests = {r1, r2}
  Ids = {1, 2, 3}
  Size = 1
  MaxGen = 2
  Nobody = 0
INVARIANTS
  PoolSizeIsTheLimit
