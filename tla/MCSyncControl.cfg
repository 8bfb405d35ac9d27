SPECIFICATION FairSpec
CONSTANTS
  Values = {1, 2}
  Empty = 0
  None = None
  Ops = {p}
  Quota = 3
  MaxEdits = 2
  MaxOthers = 1
  Clouds <- MCClouds
  MaxFaults = 1
  MaxSessions = 1
INVARIANTS PauseExcludesPass
PROPERTIES AuditFirst AnswersMatchQuestion ChangesReachDrive
CHECK_DEADLOCK FALSE
