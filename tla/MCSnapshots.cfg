SPECIFICATION Spec
CONSTANTS
  MaxGen = 4
  MaxLoads = 2
  Keep = 2
INVARIANTS
  GenerationsAreKept
PROPERTIES
  NothingServedIsTakenBack
  PublishedIsServed
CHECK_DEADLOCK FALSE
