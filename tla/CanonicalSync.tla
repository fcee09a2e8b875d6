---------------------------- MODULE CanonicalSync ----------------------------
(***************************************************************************)
(* `clawctl agent sync` of one agent with a daemon (core/                  *)
(* lifecycle_canonical.py, sync_agent_canonical): what is attached on this *)
(* machine is rendered, compared with the files on the agent's host,       *)
(* written where it differs, pushed with the operator's workspace overlay, *)
(* and the daemon restarted, verified and, for zeroclaw, paired again.     *)
(*                                                                         *)
(* No lock covers a sync.  It reads the attachments once, the host's files *)
(* later, and writes last, while another sync, the operator and the daemon *)
(* go on; each of its round trips to the host may fail and ends it there.  *)
(*                                                                         *)
(* The attachments tell apart what the steps treat differently: slack has  *)
(* a block in the config file and a binary on the host, brave of openclaw  *)
(* a secret in the environment file and a plugin, github a secret and gh,  *)
(* git an identity in ~/.gitconfig.                                        *)
(***************************************************************************)
EXTENDS Naturals, FiniteSets

CONSTANTS Procs,     \* processes running a sync
          MaxSyncs,  \* bound: syncs begun
          MaxEvents  \* bound: what else happens, on this machine or on the host

ASSUME BoundsAssumption == MaxSyncs \in Nat /\ MaxEvents \in Nat

Types == {"hermes", "openclaw", "zeroclaw"}
Integrations == {"slack", "brave", "github", "git"}
\* The secrets of an environment file, one of them written by hand by the operator.
Secrets == {"github", "brave", "own"}
\* What needs a program on the host: slack a binary, brave a plugin.
Tools == {"slack", "brave"}
Overlays == {"none", "first", "second"}
Kinds == {"full", "no restart", "workspace only"}

VARIABLES
  type,      \* the type of the agent
  attached,  \* hosts.json: the integrations of the agent
  workspace, \* the operator's workspace directory on this machine
  env,       \* the environment file on the host: the secrets it has
  config,    \* the config file on the host
  installed, \* the programs on the host
  gitconfig, \* ~/.gitconfig on the host
  overlay,   \* the overlay on the host; "half" after a push that failed
  daemon,    \* the daemon, with what it read when it started
  paired,    \* zeroclaw: the bearer in hosts.json is the one the daemon takes
  sync,      \* sync[p]: the sync process p runs
  last,      \* history: the sync that ended last and well, and alone until now
  begun,     \* syncs begun (bounded by MaxSyncs)
  events     \* events so far (bounded by MaxEvents)

files == <<env, config, gitconfig, overlay>>
remote == <<files, installed, daemon, paired>>
local == <<type, attached, workspace>>
vars == <<local, remote, sync, last, begun, events>>

\* A config file: the blocks of the integrations, and whether its
\* onboard_state.completed_sections, which only zeroclaw writes, is filled.
Configs == [blocks : SUBSET {"slack"}, sections : BOOLEAN]

Idle == [at |-> "idle", kind |-> "full", inputs |-> {}, sections |-> FALSE, before |-> FALSE,
         seen |-> {}, drift |-> {}, wrote |-> FALSE, alone |-> FALSE]

\* A sync, and the round trip it is at.
Labels == {"idle", "probe", "sections", "diff env", "diff config", "plugins", "onboard", "herdr",
           "slack", "gitconfig", "gh login", "setup-git", "write env", "write config", "push",
           "restart", "verify", "pair"}
Session ==
  [at : Labels, kind : Kinds, inputs : SUBSET Integrations, sections : BOOLEAN, before : BOOLEAN,
   seen : SUBSET Secrets, drift : SUBSET {"env", "config"}, wrote : BOOLEAN, alone : BOOLEAN]

\* brave is an environment variable and no more to the other two types.
Attachable == IF type = "openclaw" THEN Integrations ELSE Integrations \ {"brave"}

TypeOK ==
  /\ type \in Types /\ attached \subseteq Attachable /\ workspace \in Overlays
  /\ env \subseteq Secrets /\ config \in Configs
  /\ type # "zeroclaw" => ~ config.sections
  /\ installed \subseteq Tools
  /\ gitconfig \subseteq {"user", "helper"}
  /\ overlay \in Overlays \cup {"half"}
  /\ daemon \in [up : BOOLEAN, env : SUBSET Secrets, blocks : SUBSET {"slack"},
                 overlay : Overlays \cup {"half"}]
  /\ paired \in BOOLEAN
  /\ sync \in [Procs -> Session]
  /\ \A p \in Procs : sync[p].wrote => sync[p].drift # {}
  /\ last \in Kinds \cup {"none"}
  /\ begun \in 0 .. MaxSyncs /\ events \in 0 .. MaxEvents

(***************************************************************************)
(* build_render_inputs and the renderers.                                  *)
(***************************************************************************)
EnvOf(inputs) == inputs \cap {"github", "brave"}
BlocksOf(inputs) == inputs \cap {"slack"}
\* Mutant: the template that always wrote `completed_sections = []`.
RenderedAfresh(p) == [blocks |-> BlocksOf(sync[p].inputs), sections |-> FALSE]
Rendered(p) == [blocks |-> BlocksOf(sync[p].inputs), sections |-> sync[p].sections]

\* The agent was configured before its integrations were attached, and runs.
Init ==
  /\ type \in Types /\ attached \in SUBSET Attachable /\ workspace \in {"none", "first"}
  /\ env = {} /\ config = [blocks |-> {}, sections |-> FALSE]
  /\ installed = {} /\ gitconfig = {} /\ overlay = "none"
  /\ daemon = [up |-> TRUE, env |-> {}, blocks |-> {}, overlay |-> "none"]
  /\ paired = TRUE
  /\ sync = [p \in Procs |-> Idle]
  /\ last = "none" /\ begun = 0 /\ events = 0

(***************************************************************************)
(* The steps of a sync.                                                    *)
(***************************************************************************)
At(p, label) == sync[p].at = label
Go(p, label) == sync' = [sync EXCEPT ![p].at = label]
End(p) == sync' = [sync EXCEPT ![p] = Idle]
\* Everything that happens besides makes those running no longer alone.
Disturbed(s) == [q \in Procs |-> IF s[q].at = "idle" THEN s[q] ELSE [s[q] EXCEPT !.alone = FALSE]]

\* The integrations and their secrets are read, before anything is asked of the host.
Begin(p) ==
  /\ At(p, "idle") /\ begun < MaxSyncs
  /\ begun' = begun + 1
  /\ \E kind \in Kinds :
       sync' = [Disturbed(sync) EXCEPT ![p] =
                  [Idle EXCEPT !.at = "probe", !.kind = kind, !.inputs = attached,
                               !.before = config.sections,
                               !.alone = \A q \in Procs : At(q, "idle")]]
  /\ last' = "none"
  /\ UNCHANGED <<local, remote, events>>

\* probe_host_install finds the unit and the home; a sync of the overlay alone goes
\* straight to the push.
Probe(p) ==
  /\ At(p, "probe")
  /\ Go(p, CASE sync[p].kind = "workspace only" -> "push"
             [] sync[p].kind # "workspace only" /\ type = "zeroclaw" -> "sections"
             [] OTHER -> "diff env")
  /\ UNCHANGED <<local, remote, last, begun, events>>

\* read_remote_toml: what the daemon completed is kept in the rendering.
ReadSections(p) ==
  /\ At(p, "sections")
  /\ sync' = [sync EXCEPT ![p].sections = config.sections, ![p].at = "diff env"]
  /\ UNCHANGED <<local, remote, last, begun, events>>

\* diff_files, one file after the other.
DiffEnv(p) ==
  /\ At(p, "diff env")
  /\ sync' = [sync EXCEPT ![p].seen = env,
                          ![p].drift = IF env = EnvOf(sync[p].inputs) THEN {} ELSE {"env"},
                          ![p].at = "diff config"]
  /\ UNCHANGED <<local, remote, last, begun, events>>

\* Mutant: no guard.
RemovesNothing(p) == FALSE
\* _diff_removes_secrets: the guard looks at files named *.env, and of the three types
\* only hermes has one: openclaw's is .openclaw/env, zeroclaw's zeroclaw-env.conf.
RemovesSecrets(p) == type = "hermes" /\ ~ sync[p].seen \subseteq EnvOf(sync[p].inputs)
DiffConfig(p) ==
  /\ At(p, "diff config")
  /\ IF RemovesSecrets(p)
     THEN End(p)
     ELSE sync' = [sync EXCEPT
                     ![p].drift = IF config = Rendered(p) THEN @ ELSE @ \cup {"config"},
                     ![p].at = CASE type = "openclaw" -> "plugins"
                                 [] type = "hermes" -> "herdr"
                                 [] OTHER -> "slack"]
  /\ UNCHANGED <<local, remote, last, begun, events>>

(***************************************************************************)
(* What the integrations need on the host, before any file is written: no  *)
(* attachment, no round trip.                                              *)
(***************************************************************************)
Install(tools) ==
  /\ installed' = installed \cup tools
  /\ UNCHANGED <<local, files, daemon, paired, last, begun, events>>
\* openclaw: the version is high enough for the plugin (else the sync fails), which is
\* installed and marked with a sentinel.
InstallPlugins(p) ==
  /\ At(p, "plugins") /\ Go(p, "onboard")
  /\ Install(sync[p].inputs \cap {"brave"})
\* openclaw: the NemoClaw sandbox.
OnboardSandbox(p) == At(p, "onboard") /\ Go(p, "slack") /\ Install({})
\* hermes: the herdr plugin of agents that were installed before there was one.
ReconcileHerdr(p) == At(p, "herdr") /\ Go(p, "slack") /\ Install({})
AfterTools(p) ==
  CASE "git" \in sync[p].inputs -> "gitconfig"
    [] "git" \notin sync[p].inputs /\ "github" \in sync[p].inputs -> "gh login"
    [] OTHER -> "write env"
\* Mutant: the Slack server is installed only once the config file names it.
InstallSlackLate(p) ==
  /\ At(p, "slack") /\ Go(p, AfterTools(p))
  /\ Install(config.blocks)
\* The runbook of the Slack server, of each type.
InstallSlack(p) ==
  /\ At(p, "slack") /\ Go(p, AfterTools(p))
  /\ Install(sync[p].inputs \cap {"slack"})

(***************************************************************************)
(* _setup_github_integration: the whole ~/.gitconfig is written first, and *)
(* `gh auth setup-git` appends the credential helper to it.                *)
(***************************************************************************)
Identity == {"user"}
WriteGitconfig(p) ==
  /\ At(p, "gitconfig")
  /\ gitconfig' = Identity
  /\ Go(p, IF "github" \in sync[p].inputs THEN "gh login" ELSE "write env")
  /\ UNCHANGED <<local, env, config, overlay, installed, daemon, paired, last, begun, events>>
GhLogin(p) ==
  /\ At(p, "gh login") /\ Go(p, "setup-git")
  /\ UNCHANGED <<local, remote, last, begun, events>>
SetupGit(p) ==
  /\ At(p, "setup-git")
  /\ gitconfig' = gitconfig \cup {"helper"}
  /\ Go(p, "write env")
  /\ UNCHANGED <<local, env, config, overlay, installed, daemon, paired, last, begun, events>>

(***************************************************************************)
(* The write loop: each file that differed is replaced as a whole.         *)
(***************************************************************************)
WriteEnv(p) ==
  /\ At(p, "write env")
  /\ env' = IF "env" \in sync[p].drift THEN EnvOf(sync[p].inputs) ELSE env
  /\ sync' = [sync EXCEPT ![p].wrote = "env" \in sync[p].drift, ![p].at = "write config"]
  /\ UNCHANGED <<local, config, gitconfig, overlay, installed, daemon, paired, last, begun, events>>
\* Mutant: a file that did not differ counts as written.
WriteConfigAlways(p) ==
  /\ At(p, "write config")
  /\ config' = IF "config" \in sync[p].drift THEN Rendered(p) ELSE config
  /\ sync' = [sync EXCEPT ![p].wrote = TRUE, ![p].at = "push"]
  /\ UNCHANGED <<local, env, gitconfig, overlay, installed, daemon, paired, last, begun, events>>
WriteConfig(p) ==
  /\ At(p, "write config")
  /\ config' = IF "config" \in sync[p].drift THEN Rendered(p) ELSE config
  /\ sync' = [sync EXCEPT ![p].wrote = @ \/ "config" \in sync[p].drift, ![p].at = "push"]
  /\ UNCHANGED <<local, env, gitconfig, overlay, installed, daemon, paired, last, begun, events>>

\* Mutant: zeroclaw is paired again only when the sync has restarted it.
PairsAfterRestart(p) ==
  IF sync[p].kind = "full" /\ (sync[p].wrote \/ type = "zeroclaw") THEN "restart" ELSE "end"
\* push_workspace_phase: nothing is pushed from an empty workspace, and nothing on the
\* host removed.
AfterPush(p) ==
  CASE sync[p].kind = "full" /\ (sync[p].wrote \/ type = "zeroclaw") -> "restart"
    [] type = "zeroclaw" /\ sync[p].kind # "full" -> "pair"
    [] OTHER -> "end"
\* The sync ends well: the agent is READY (module Onboarding).
Succeed(p) ==
  /\ sync' = [sync EXCEPT ![p] = Idle]
  /\ last' = IF sync[p].alone THEN sync[p].kind ELSE "none"
Push(p) ==
  /\ At(p, "push")
  /\ overlay' = IF workspace = "none" THEN overlay ELSE workspace
  /\ IF AfterPush(p) = "end" THEN Succeed(p) ELSE Go(p, AfterPush(p)) /\ UNCHANGED last
  /\ UNCHANGED <<local, env, config, gitconfig, installed, daemon, paired, begun, events>>
\* The playbook copies file by file and may fail between two.
PushFails(p) ==
  /\ At(p, "push") /\ workspace # "none"
  /\ overlay' = "half"
  /\ End(p)
  /\ UNCHANGED <<local, env, config, gitconfig, installed, daemon, paired, last, begun, events>>

Started == [up |-> TRUE, env |-> env, blocks |-> config.blocks, overlay |-> overlay]
\* zeroclaw forgets its bearers when it stops.
Restart(p) ==
  /\ At(p, "restart")
  /\ daemon' = Started
  /\ paired' = (type # "zeroclaw")
  /\ Go(p, "verify")
  /\ UNCHANGED <<local, files, installed, last, begun, events>>
\* The daemon does not come up on what it was given, or goes down again.
RestartFails(p) ==
  /\ At(p, "restart") \/ At(p, "verify")
  /\ daemon' = [Started EXCEPT !.up = FALSE]
  /\ paired' = (type # "zeroclaw")
  /\ End(p)
  /\ UNCHANGED <<local, files, installed, last, begun, events>>
Verify(p) ==
  /\ At(p, "verify") /\ daemon.up
  /\ IF type = "zeroclaw" THEN Go(p, "pair") /\ UNCHANGED last ELSE Succeed(p)
  /\ UNCHANGED <<local, remote, begun, events>>
\* _zeroclaw_repair_after_start mints a bearer and records it, restarted or not.
Pair(p) ==
  /\ At(p, "pair") /\ daemon.up
  /\ paired' = TRUE
  /\ Succeed(p)
  /\ UNCHANGED <<local, files, installed, daemon, begun, events>>

\* A round trip fails, or the process dies: what is done stays done.
Fail(p) ==
  /\ ~ At(p, "idle")
  /\ End(p)
  /\ UNCHANGED <<local, remote, last, begun, events>>

(***************************************************************************)
(* What else happens.                                                      *)
(***************************************************************************)
Event ==
  /\ events < MaxEvents
  /\ events' = events + 1
  /\ sync' = Disturbed(sync)
  /\ last' = "none"
\* An integration is attached or detached, the overlay edited.
EditLocal ==
  /\ Event
  /\ \/ /\ \E i \in Attachable : attached' \in {attached \ {i}, attached \cup {i}} \ {attached}
        /\ UNCHANGED workspace
     \/ workspace' \in {"first", "second"} \ {workspace} /\ UNCHANGED attached
  /\ UNCHANGED <<type, remote, begun>>
\* The operator adds a secret to the environment file by hand.
EditHost ==
  /\ Event
  /\ "own" \notin env /\ env' = env \cup {"own"}
  /\ UNCHANGED <<local, config, gitconfig, overlay, installed, daemon, paired, begun>>
\* zeroclaw completes its onboarding and writes so into its config file.
CompleteOnboarding ==
  /\ Event
  /\ type = "zeroclaw" /\ daemon.up /\ ~ config.sections
  /\ config' = [config EXCEPT !.sections = TRUE]
  /\ UNCHANGED <<local, env, gitconfig, overlay, installed, daemon, paired, begun>>
\* The host reboots, or the unit is restarted by hand.
RestartOutside ==
  /\ Event
  /\ daemon' = Started /\ paired' = (type # "zeroclaw")
  /\ UNCHANGED <<local, files, installed, begun>>

Next ==
  \/ \E p \in Procs :
       \/ Begin(p) \/ Probe(p) \/ ReadSections(p) \/ DiffEnv(p) \/ DiffConfig(p)
       \/ InstallPlugins(p) \/ OnboardSandbox(p) \/ ReconcileHerdr(p) \/ InstallSlack(p)
       \/ WriteGitconfig(p) \/ GhLogin(p) \/ SetupGit(p)
       \/ WriteEnv(p) \/ WriteConfig(p) \/ Push(p) \/ PushFails(p)
       \/ Restart(p) \/ RestartFails(p) \/ Verify(p) \/ Pair(p) \/ Fail(p)
  \/ EditLocal \/ EditHost \/ CompleteOnboarding \/ RestartOutside

Spec == Init /\ [][Next]_vars

(***************************************************************************)
(* Properties.                                                             *)
(***************************************************************************)
\* The daemon is never started on files that need a program that is not on the host,
\* whoever syncs and whatever fails in between ("the daemon is never restarted with a
\* config pointing at a binary that failed to install").
ToolsBeforeRestart ==
  (config.blocks \cup daemon.blocks \cup env \cup daemon.env) \cap Tools \subseteq installed

\* A sync that ends well, and that nothing disturbed, leaves the host as this machine has
\* it: both files are the rendering of what is attached, git has the identity and the
\* helper of gh, the overlay is the workspace, and the bearer of zeroclaw is good.
HostCurrent ==
  /\ last \in {"full", "no restart"} =>
       /\ env = EnvOf(attached) /\ config.blocks = BlocksOf(attached)
       /\ "git" \in attached => "user" \in gitconfig
       /\ "github" \in attached => "helper" \in gitconfig
  /\ last # "none" => /\ workspace \in {"none", overlay}
                      /\ paired

\* No sync of a hermes agent removes from its environment file a secret that it saw there:
\* it refuses instead, and has then written nothing.
WritesEnv(p) == At(p, "write env") /\ sync'[p].at # "write env"
SecretsKept ==
  [][type = "hermes" => \A p \in Procs : WritesEnv(p) => env \cap sync[p].seen \subseteq env']_vars

\* What zeroclaw wrote of its completed onboarding before a sync began is there when it
\* has written its files, if nothing disturbed it.
SectionsKept ==
  [][\A p \in Procs : At(p, "write config") /\ sync[p].alone /\ sync[p].before => config'.sections]_vars

\* "refuse = if diff removes a secret line AND not force: raise": no sync removes a secret
\* that it saw in the environment file of the host, whatever the type of the agent.
GuardedForAll ==
  [][\A p \in Procs : WritesEnv(p) => env \cap sync[p].seen \subseteq env']_vars

\* "full pipeline | yes | yes | yes": a plain sync that ends well leaves a daemon that runs
\* on the files and the overlay of the host.
DaemonCurrent ==
  last = "full" => daemon = Started
=============================================================================
