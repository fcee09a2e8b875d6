------------------------------- MODULE MCAgents -------------------------------
(***************************************************************************)
(* What happens to one agent, in one run of TLC: MCCanonical with          *)
(* Lifecycle and Onboarding.  What one part needs of another (a READY, an  *)
(* agent that is installed again while it is onboarded, a daemon that      *)
(* restarts) is a field or an action of that part, so each behaviour runs  *)
(* one part: `focus` says which.                                           *)
(***************************************************************************)
EXTENDS MCCanonical

CONSTANTS
  NoBearer,
  MaxBearers,        \* bound: bearers the daemon of Lifecycle mints
  MaxAgentCommands,  \* bound: commands of Lifecycle
  Skippable, Manual, \* of Onboarding, by the type of the agent
  MaxWalkCommands    \* bound: commands of Onboarding

VARIABLES record, kept, unit, command, fresh, minted, raced, given_up, begunCommands,
          onboarding, provided, install, aside, configured, walk, overlapped, reset, begunWalks

L == INSTANCE Lifecycle WITH
       MaxCommands <- MaxAgentCommands,
       local <- kept, daemon <- unit, run <- command, begun <- begunCommands
O == INSTANCE Onboarding WITH
       MaxCommands <- MaxWalkCommands,
       record <- onboarding, attached <- provided, run <- walk, begun <- begunWalks

ASSUME AgentsAssumption == L!LifecycleAssumption /\ O!OnboardingAssumption

lifecycleVars == <<record, kept, unit, command, fresh, minted, raced, given_up, begunCommands>>
onboardingVars == <<onboarding, provided, install, aside, configured, walk, overlapped, reset,
                    begunWalks>>
canonicalVars == <<vars, renderVars, claudeVars>>

NoLifecycle ==
  /\ record = <<>> /\ kept = <<>> /\ unit = <<>> /\ command = <<>> /\ fresh = <<>>
  /\ minted = <<>> /\ raced = <<>> /\ given_up = <<>> /\ begunCommands = <<>>
NoOnboarding ==
  /\ onboarding = <<>> /\ provided = <<>> /\ install = <<>> /\ aside = <<>>
  /\ configured = <<>> /\ walk = <<>>
  /\ overlapped = <<>> /\ reset = <<>> /\ begunWalks = <<>>
CanonicalStill == SyncStill /\ NoRender /\ NoClaude
AgentsInit ==
  \/ MCInit /\ NoLifecycle /\ NoOnboarding
  \/ focus = "lifecycle" /\ L!Init /\ CanonicalStill /\ NoOnboarding
  \/ focus = "onboarding" /\ O!Init /\ CanonicalStill /\ NoLifecycle
AgentsNext ==
  \/ MCNext /\ UNCHANGED <<lifecycleVars, onboardingVars>>
  \/ /\ focus = "lifecycle" /\ L!Next
     /\ UNCHANGED <<focus, canonicalVars, onboardingVars>>
  \/ /\ focus = "onboarding" /\ O!Next
     /\ UNCHANGED <<focus, canonicalVars, lifecycleVars>>
AgentsSpec == AgentsInit /\ [][AgentsNext]_<<all, lifecycleVars, onboardingVars>>

\* The type invariants of the parts.
TypesHold ==
  /\ TypesOK
  /\ focus = "lifecycle" => L!TypeOK
  /\ focus = "onboarding" => O!TypeOK
\* DaemonRecorded and LeftoversRecorded of Lifecycle: nothing is left of an agent, on its
\* host or here, that no record names.
NothingUnrecorded == focus = "lifecycle" => L!DaemonRecorded /\ L!LeftoversRecorded
\* Lifecycle!BearerKnown: the bearer in hosts.json is one the daemon accepts.
BearerKnown == focus = "lifecycle" => L!BearerKnown
\* Onboarding!ReadyMeansConfigured and Onboarding!StagesBehind: READY is earned by a
\* configure, and a state by the stages behind it.
ReadyIsEarned == focus = "onboarding" => O!ReadyMeansConfigured /\ O!StagesBehind
\* Onboarding!WalkFinishes: a configure that reports success has finished the walk, wherever
\* an earlier one had left it.
WalkFinishes == [][focus = "onboarding" => O!WalkEnds]_onboardingVars
=============================================================================
