\* Three commands of integrations or of channels, from nothing or after a create; four
\* commands of the providers of an agent of each kind; five of a pi agent.
CONSTANTS
  p1 = p1
  p2 = p2
  n1 = n1
  n2 = n2
  a1 = a1
  k1 = k1
  k2 = k2
  Procs = {p1, p2}
  NoProc = NoProc
  Names = {n1, n2}
  NoName = NoName
  Agents = {a1}
  Keys = {k1, k2}
  MaxRegs = 2
  MaxCommands = 3
  Hermes = {h}
  Singles = {s}
  Claudes = {c}
  MaxProviders = 2
  MaxProviderCommands = 4
  OpenRouters = {openrouter}
  Bedrocks = {bedrock}
  Codexes = {codex}
  NoProvider = NoProvider
  MaxPiCommands = 5
SPECIFICATION MCSpec
SYMMETRY Symmetry
CHECK_DEADLOCK FALSE
INVARIANTS
  TypesOK
  AttachmentsValid
  RotationComplete
  CredentialsOwned
  LoginKept
  NoneResurrected
