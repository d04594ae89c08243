SPECIFICATION RotationSpec
CONSTANTS
  Endpoints = {1, 2, 3}
  TicksPerDay = 1
  StrikeLimit = 1
  CadenceDays = 3
  GraceDays = 1
  MaxGap = 2
  LastInstant = 7
  Sleepers = {3}
INVARIANTS
  CannotStarve
PROPERTIES
  SlicesKeepPace
  ReplayAsksTheSame
CHECK_DEADLOCK FALSE
