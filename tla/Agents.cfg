\* Two processes on one agent: two syncs and one event between any two of their steps;
\* every list of at most two attachments of one kind; three activations of a claude
\* credential; four commands of its life and two bearers of its daemon; five commands
\* of the onboarding of an openclaw agent.
CONSTANTS
  p1 = p1
  p2 = p2
  Procs = {p1, p2}
  MaxSyncs = 2
  MaxEvents = 1
  MaxBearers = 2
  MaxAgentCommands = 4
  Skippable = {}
  Manual = {"identity"}
  MaxWalkCommands = 5
  MaxActivations = 3
  MaxSelections = 2
  NoBearer = NoBearer
SPECIFICATION AgentsSpec
SYMMETRY Symmetry
CHECK_DEADLOCK FALSE
INVARIANTS
  TypesHold
  ToolsBeforeRestart
  HostCurrent
  OneCredential
  NothingUnrecorded
  BearerKnown
  ReadyIsEarned
PROPERTIES
  SecretsKept
  SectionsKept
  WalkFinishes
