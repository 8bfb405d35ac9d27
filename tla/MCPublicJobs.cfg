SPECIFICATION Spec
CONSTANTS
  JobIds = {j1, j2}
  Owners = {o1, o2}
  Accounts = {a}
  None = None
  Slots = 2
  MaxRetained = 2
  MaxTerminal = 1
  TTL = 1
  Editors = {o1}
  MaxTurns = 1
SYMMETRY SameJobs
INVARIANTS SlotsConserved ActiveHasThread ResultsHonest OneCollection DeletedStaysDeleted
PROPERTIES ImplementsLifecycle KeptWhileNeeded
