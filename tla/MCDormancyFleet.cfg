SPECIFICATION Spec
CONSTANTS
  Hourly = hourly
  Daily = daily
  Sweeps <- BothSweeps
  SpendOf <- BothSpends
  Endpoints = {1}
  TicksPerDay = 2
  StrikeLimit = 2
  CadenceDays = 1
  GraceDays = 1
  MaxInstant = 4
  ProfilePass = FALSE
INVARIANTS
  TypeOK
  WokenIsNeverDormant
  FileParses
  StrikesAreConsecutiveSweeps
PROPERTIES
  RelegationIsEarned
  SleepStands
  RecordsMoveForward
  SleepersAreLeftAlone
CHECK_DEADLOCK FALSE
