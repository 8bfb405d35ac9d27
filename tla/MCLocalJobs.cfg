SPECIFICATION FairSpec
CONSTANTS
  JobIds = {j1, j2}
  Profiles = {p1}
  Accounts = {a1, a2}
  None = None
  Importing = {p1}
INVARIANTS OneActive ImportsStored 
PROPERTIES ImplementsLifecycle EveryJobEnds
