CONSTANTS
  c1 = c1
  c2 = c2
  p1 = p1
  p2 = p2
  NoCli = NoCli
  NoProvider = NoProvider
  Clis = {c1, c2}
  Providers = {p1, p2}
  MaxLogins = 1
  MaxAttaches = 2
SPECIFICATION Spec
SYMMETRY Symmetry
INVARIANTS
  Settled
PROPERTIES
  RefreshKept
  RecoveryKeepsNewer
  SyncActivates
