SPECIFICATION FairSpec
CONSTANTS
  a = a  b = b  c = c  i = i  s1 = s1  s2 = s2  l = l  t1 = t1  t2 = t2
  Ids = {a, b, c}
  Idents = {i}
  NoIdent = NoIdent
  Snaps = {s1, s2}
  SnapIdent <- MCSnapIdent
  Labels = {l}
  NoLabel = NoLabel
  Tabs = {t1, t2}
  Incoming <- MCIncoming
  Starts <- MCStarts
  WebLocks = TRUE
  None = None
  RestoreTabs = {t1}
  SyncTabs = {t2}
  MaxRevision = 1
INVARIANTS LockExcludesConflicts
PROPERTIES LockComesBack
