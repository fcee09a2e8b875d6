\* A manifest of one agent, applied twice.
CONSTANTS
  a = a
  Cli = cli
  Pids = {1, 2}
  Ports = {1, 2}
  Agents = {a}
  MaxServerCommands = 3
  MaxCalls = 3
  MaxRuns = 2
  Procs = {p1, p2}
  Names = {a, b}
  Catalog = k
  MaxCommands = 1
  MaxFailures = 0
SPECIFICATION MCSpec
SYMMETRY Symmetry
CHECK_DEADLOCK FALSE
INVARIANTS
  Reconciled
