SPECIFICATION Spec
CONSTANTS
  a = a  b = b  c = c  i = i  s1 = s1  s2 = s2  l = l  t1 = t1  t2 = t2
  Ids = {a, b, c}
  Idents = {i}
  NoIdent = NoIdent
  Snaps = {s1, s2}
  SnapIdent <- MCSnapIdent
  Labels = {}
  NoLabel = NoLabel
  Tabs = {t1, t2}
  Incoming <- MCRestored
  Starts <- MCStart
  WebLocks = FALSE
  None = None
  RestoreTabs = {t1}
  SyncTabs = {t2}
  MaxRevision = 2
INVARIANTS CacheCoherent 
PROPERTIES ImplementsStore  NothingLost SyncIsSafe
