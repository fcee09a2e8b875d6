CONSTANTS
  p1 = p1
  Procs = {p1}
  NoBearer = NoBearer
  MaxBearers = 2
  MaxCommands = 3
SPECIFICATION Spec
CHECK_DEADLOCK FALSE
INVARIANT ConfigureRepairs
