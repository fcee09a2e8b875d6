\* One sync and the next, nobody else.
CONSTANTS
  p1 = p1
  p2 = p2
  Procs = {p1}
  MaxSyncs = 2
  MaxEvents = 2
  MaxActivations = 3
  MaxSelections = 2
SPECIFICATION MCSpec
CHECK_DEADLOCK FALSE
INVARIANTS
  DaemonCurrent
