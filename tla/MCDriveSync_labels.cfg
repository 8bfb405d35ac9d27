SPECIFICATION Spec
CONSTANTS
  a = a  b = b  s1 = s1  s2 = s2  x = x  y = y
  Devices = {a, b}
  Snaps = {s1}
  Labels = {x, y}
  Habits <- MCPreferences
  NoLabel = NoLabel
  NoDialog = NoDialog
  MaxRevisions = 4
  Budgets <- MCEdits
INVARIANTS
  NoSilentUndo
CHECK_DEADLOCK FALSE
