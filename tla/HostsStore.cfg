CONSTANTS
  p1 = p1
  p2 = p2
  h1 = h1
  Procs = {p1, p2}
  Hostnames = {h1}
  NoProc = NoProc
  NoCall = NoCall
  NoFile = NoFile
  Torn = Torn
SPECIFICATION FairSpec
INVARIANTS
  TypeOK
  WholeFile
  Serialized
PROPERTIES
  Linearizable
  CallsEnd
