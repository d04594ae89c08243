CONSTANTS
  None = None
  NoResponse = NoResponse
  OurOrigin = "us"
  Endpoint = "https://e/sparql"
  SameUrl <- MCSameUrl
  Identifiers <- MCIdentifiers
  MetricFiles <- MCFiles
  Ceilings = {"cheap", "expensive", "exhaustive"}
  Cadences = {"hourly", "daily"}
  Rotations <- MCRotations
  HashOfEndpoint = 10
  Memories <- MCMemories
  Today = 101
  VolumeTolerance = 1
  MaxProfileAgeDays = 30
  Responses <- MCResponses
SPECIFICATION Spec
INVARIANTS
  EveryMetricIsAccountedForOnce
  FactsAgree
PROPERTIES
  VerdictsRestOnAnswers
CHECK_DEADLOCK FALSE
