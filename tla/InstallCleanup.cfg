\* One installer: an installation that fails, something attached, another installation.
CONSTANTS
  p1 = p1
  n1 = n1
  t1 = t1
  q1 = q1
  i1 = i1
  Procs = {p1}
  Names = {n1}
  Types = {t1}
  Ports = {q1}
  Items = {i1}
  Providers = {}
  AnyName = AnyName
  NoPort = NoPort
  MaxCommands = 3
SPECIFICATION CleanupSpec
CHECK_DEADLOCK FALSE
INVARIANT AttachmentsPreserved
