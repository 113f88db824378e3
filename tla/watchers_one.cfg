SPECIFICATION FairSpec
CONSTANTS
  a = a
  b = b
  t = t
  P1 = P1
  P2 = P2
  NoFile = NoFile
  NoPath = NoPath
  Files = {a, b}
  Paths = {P1}
  Partial = {}
  WatcherList <- OneWatcher
  MaxChanges = 3
  MaxLosses = 1
  MaxReloads = 0
CHECK_DEADLOCK FALSE
INVARIANT AnnouncesOnlyUploads
INVARIANT QuietKnowsAll
PROPERTY ReportedIsLearned
