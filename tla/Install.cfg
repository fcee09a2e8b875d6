\* Four commands on the agents of a host; three on its record, from nothing or after a
\* create.
CONSTANTS
  p1 = p1
  p2 = p2
  n1 = n1
  n2 = n2
  t1 = t1
  t2 = t2
  q1 = q1
  q2 = q2
  i1 = i1
  a3 = a3
  x1 = x1
  Addrs = {n1, n2, a3}
  Aliases = {x1}
  NoAlias = NoAlias
  Null = Null
  Procs = {p1, p2}
  Names = {n1, n2}
  Types = {t1, t2}
  Ports = {q1, q2}
  Items = {i1}
  Providers = {i1}
  AnyName = AnyName
  NoPort = NoPort
  MaxCommands = 4
  MaxHosts = 2
  MaxAddrs = 2
  MaxHostCommands = 3
SPECIFICATION MCSpec
SYMMETRY Symmetry
CHECK_DEADLOCK FALSE
INVARIANTS
  TypeOK
  Exclusive
  PortsDistinct
  FailureKeeps
  HostnameIsPrimary
  SequentialIdentity
