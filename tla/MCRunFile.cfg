CONSTANTS
  a = a
  b = b
  c = c
  d = d
  junk = junk
  None = None
  Runs = {r1}
  NotIris = {junk}
  Alphabet <- MCAlphabet
  Order <- MCOrder
  Header <- MCHeader
  Dormant <- MCDormant
  Assembled <- MCAssembled
SPECIFICATION FileSpec
INVARIANTS
  CutsLoseWholeSections
  SubjectsSayOneThing
  OutIsAFinishedRun
PROPERTIES
  NothingOnDiskIsOverwritten
CHECK_DEADLOCK FALSE
