SPECIFICATION FairSpec
CONSTANTS
  Refuses = FALSE
  MaxDrops = 1
  MaxOutages = 2
  MaxQuits = 0
  MaxMessages = 0
CHECK_DEADLOCK FALSE
PROPERTY AutoReconnects
