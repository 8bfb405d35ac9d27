SPECIFICATION Spec
CONSTANTS
  Values = {1, 2}
  Empty = 0
  None = None
  Ops = {p}
  Quota = 3
  MaxEdits = 1
  MaxOthers = 1
  Clouds <- MCClouds
  MaxFaults = 1
  MaxSessions = 1

PROPERTY DisconnectIsFinal
CHECK_DEADLOCK FALSE
