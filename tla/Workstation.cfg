\* Three commands on two skills with one failing step; three commands on the server and two
\* numbers of processes; three calls for a tunnel by two threads of the GUI and a command;
\* a manifest of one agent, applied or deleted twice.
CONSTANTS
  a = a
  Cli = cli
  Pids = {1, 2}
  Ports = {1, 2}
  Agents = {a}
  MaxServerCommands = 3
  MaxCalls = 3
  MaxRuns = 2
  Procs = {p1, p2}
  Names = {a, b}
  Catalog = k
  MaxCommands = 3
  MaxFailures = 1
SPECIFICATION MCSpec
SYMMETRY Symmetry
CHECK_DEADLOCK FALSE
INVARIANTS
  TypesOK
  SkillsAgree
  ProcessesKnown
  RightTarget
  Settles
