SPECIFICATION FairSpec
CONSTANTS
  Refuses = TRUE
  MaxDrops = 3
  MaxOutages = 2
  MaxQuits = 2
  MaxMessages = 2
CHECK_DEADLOCK FALSE
INVARIANT LoopHoldsOpen
INVARIANT ReleasedOnce
INVARIANT OneSessionAfterQuit
PROPERTY OneAttemptEach
PROPERTY QuitStops
PROPERTY LossIsRepaired
