SPECIFICATION Spec
CONSTANTS
  Profiles = {p, q}
  None = None
  Hasty = TRUE
  MaxOps = 2
  MaxJobs = 1
  MaxFaults = 1
  MaxLoads = 1
PROPERTY ImportNotRedirected
CHECK_DEADLOCK FALSE
