SPECIFICATION FairSpec
CONSTANTS
  Profiles = {p, q}
  None = None
  Hasty = FALSE
  MaxOps = 2
  MaxJobs = 1
  MaxFaults = 2
  MaxLoads = 1
INVARIANTS CollectedStays 
PROPERTIES EveryImportEnds
CHECK_DEADLOCK FALSE
