CONSTANTS
  c1 = c1
  c2 = c2
  p1 = p1
  p2 = p2
  NoCli = NoCli
  NoProvider = NoProvider
  Clis = {c1, c2}
  Providers = {p1}
  MaxLogins = 1
  MaxAttaches = 1
SPECIFICATION Spec
INVARIANTS
  RecoveryAgrees
