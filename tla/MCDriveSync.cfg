SPECIFICATION FairSpec
CONSTANTS
  a = a  b = b  s1 = s1  s2 = s2  x = x  y = y
  Devices = {a, b}
  Snaps = {s1, s2}
  Labels = {x}
  Habits <- MCHabits
  NoLabel = NoLabel
  NoDialog = NoDialog
  MaxRevisions = 3
  Budgets <- MCBudgets
INVARIANTS NoSilentDeletion
PROPERTIES NothingForgotten 
CHECK_DEADLOCK FALSE
