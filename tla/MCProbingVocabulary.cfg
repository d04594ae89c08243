CONSTANTS
  None = None
  NoResponse = NoResponse
  OurOrigin = "us"
  Endpoint = "https://e/sparql"
  SameUrl <- MCSameUrl
  Identifiers <- MCIdentifiers
  MetricFiles <- MCFiles
  Ceilings = {"exhaustive"}
  Cadences = {"daily"}
  Rotations <- MCRotations
  HashOfEndpoint = 10
  Memories <- MCMemories
  Today = 101
  VolumeTolerance = 1
  MaxProfileAgeDays = 30
  Responses <- MCResponses
SPECIFICATION Spec
INVARIANTS
  NoVocabularyMeansNoClasses
CHECK_DEADLOCK FALSE
