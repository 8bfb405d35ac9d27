SPECIFICATION Spec
CONSTANTS
  None = None
  Damaged = Damaged
  Pages = {"p", "q"}
  Owner = "p"
  Snapshots = {"s", "t"}
  MaxCatalogs = 2
  MaxOps = 5
  MaxFaults = 2
  Threads = {"t", "u", "v"}
  Keys = {"a", "b", "c"}
  Period <- MCPeriod
  Maximum <- MCMaximum
  Capacity = 2
  Delay = 1
  MaxTime = 5
  Revisions = {1, 2, 3, 4}
  MaxParents = 2
  MaxLinks = 4
  FileIds = {"f", "g", "h"}
  Metas <- MCMetas
  PageSize = 1
  MaxRevisions = 3
  MaxChanges = 1
  MaxRequests = 2
INVARIANTS
  ExportsAreExact OrderIsTrue ReadingsAreTrue CloudIsSound ServerKeepsFaith
CHECK_DEADLOCK FALSE
