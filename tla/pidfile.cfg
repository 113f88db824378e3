SPECIFICATION Spec
CONSTANTS
  Pids = {p1, p2, p3, p4}
  NoPid = NoPid
  Patient = TRUE
  MaxFaults = 2
CHECK_DEADLOCK FALSE
INVARIANT ServingIsNamed
