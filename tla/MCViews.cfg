SPECIFICATION Spec
CONSTANTS
  Profiles = {p, q}
  Filters = {f, g}
  Types = {t}
  Budgets = {a, b}
  Consumers = {c}
  Tabs = {t1, t2}
  None = None
  Pending = Pending
  Pages = {1, 2}
  Lengths = {1, 2}
  MaxRevisions = 2
  MaxActs = 2
  MaxEdits = 1
  MaxCalls = 4
  MaxOthers = 1
  MaxFaults = 1
  MaxChoices = 2
  MaxMutes = 3
  MaxEvents = 1
  MaxReports = 2
INVARIANTS  FiguresAreOneHistory CallsAnswered TelemetrySettles
PROPERTIES OldConsentSendsNothing
CHECK_DEADLOCK FALSE
