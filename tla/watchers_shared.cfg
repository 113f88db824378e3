SPECIFICATION Spec
CONSTANTS
  a = a
  b = b
  t = t
  P1 = P1
  P2 = P2
  NoFile = NoFile
  NoPath = NoPath
  Files = {a, t}
  Paths = {P1, P2}
  Partial = {t}
  WatcherList <- ShadowList
  MaxChanges = 1
  MaxLosses = 0
  MaxReloads = 1
CHECK_DEADLOCK FALSE
INVARIANT TypeOK
INVARIANT AnnouncesRealFiles
INVARIANT OthersStaySilent
