CONSTANTS
  None = None
  Identifiers = {}
  VolumeTolerance = 1
  MaxProfileAgeDays = 30
  Contents <- MCContents
  Every = 3
  HashOfEndpoint = 0
  LastDay = 8
SPECIFICATION Spec
PROPERTIES
  UnchangedSinceTheLastPass
CHECK_DEADLOCK FALSE
