------------------------------ MODULE MCCanonical ------------------------------
(***************************************************************************)
(* CanonicalSync, Render and ClaudeCredential in one run of TLC: the sync  *)
(* of an agent, what its renderer does with every list of attachments, and *)
(* the branch of the sync that has neither daemon nor renderer.  They      *)
(* share no state (a sync tells apart only what the files need), so each   *)
(* behaviour runs one of the three: `focus` says which.                    *)
(***************************************************************************)
EXTENDS CanonicalSync, TLC

CONSTANTS
  p1, p2,
  MaxActivations, MaxSelections \* bounds of ClaudeCredential

ASSUME ClaudeAssumption == MaxActivations \in Nat /\ MaxSelections \in Nat

VARIABLES focus, agent, gateway, providers, channels, integrations, stage, lines,
          secret, artifact, staged, backup, active, mixed, outcome, activations, selections

R == INSTANCE Render
C == INSTANCE ClaudeCredential WITH ClaudeProcs <- Procs

renderVars == <<agent, gateway, providers, channels, integrations, stage, lines>>
claudeVars == <<secret, artifact, staged, backup, active, mixed, outcome, activations, selections>>
all == <<vars, renderVars, claudeVars, focus>>

\* The parts that are not run: CanonicalSync stands still in one of its initial states, the
\* others have no state.
SyncStill == Init /\ type = "hermes" /\ attached = {} /\ workspace = "none"
NoRender ==
  /\ agent = <<>> /\ gateway = <<>> /\ providers = <<>> /\ channels = <<>>
  /\ integrations = <<>> /\ stage = <<>> /\ lines = <<>>
NoClaude ==
  /\ secret = <<>> /\ artifact = <<>> /\ staged = <<>> /\ backup = <<>> /\ active = <<>>
  /\ mixed = <<>> /\ outcome = <<>> /\ activations = <<>> /\ selections = <<>>
MCInit ==
  \/ focus = "sync" /\ Init /\ NoRender /\ NoClaude
  \/ focus = "render" /\ R!Init /\ SyncStill /\ NoClaude
  \/ focus = "claude" /\ C!Init /\ SyncStill /\ NoRender
MCNext ==
  /\ UNCHANGED focus
  /\ \/ focus = "sync" /\ Next /\ UNCHANGED <<renderVars, claudeVars>>
     \/ focus = "render" /\ R!Next /\ UNCHANGED <<vars, claudeVars>>
     \/ focus = "claude" /\ C!Next /\ UNCHANGED <<vars, renderVars>>
MCSpec == MCInit /\ [][MCNext]_all

Symmetry == Permutations(Procs)

\* The type invariants of the parts.
TypesOK ==
  /\ TypeOK
  /\ focus = "render" => R!TypeOK
  /\ focus = "claude" => C!TypeOK
\* Render!NothingShadowed and ClaudeCredential!OneSource: of what may be written under one
\* name the daemon reads the one that was meant.  What is rendered of a provider, a channel or
\* an MCP server is what it reads, and an activation leaves an account of claude with one
\* credential, the selected one.
OneCredential ==
  /\ focus = "render" => R!NothingShadowed
  /\ focus = "claude" => C!OneSource
=============================================================================
