# Formal models of clawrium

clawrium is a command line (`clawctl`) and a small web GUI that install,
configure, start, stop and remove AI agents (openclaw, zeroclaw, hermes, ethos,
pi, ...) on hosts it reaches over SSH and Ansible. There is no daemon and no
database: every command is a process of its own that reads and writes JSON
files under `~/.config/clawrium/`, and several of them run at once (an operator
with two terminals, the GUI's worker threads, `clawctl apply` in a script). What
is hard to get right, and hard to test, is how these processes interleave on the
files, what a process leaves behind when it fails or dies half-way, and how the
record of an agent keeps up with what was really done on its host.

The models are written in TLA+, checked with TLC on small instances, and, where
it says so below, proved with TLAPS for every value of the constants. All paths
are relative to `src/src/clawrium/`.

## 1. Inventory

| Part | State | Operations | Talks to |
|---|---|---|---|
| hosts store (`core/hosts.py`) | `hosts.json`, `.hosts.lock` | `load_hosts`, `add_host`, `remove_host`, `update_host` | everybody |
| the other stores (`core/secrets.py`, `integrations.py`, `channels.py`, `providers/storage.py`) | `secrets.json`, `integrations.json`, `channels.json`, `providers.json`, a lock file each | load, locked load-modify-save | each other, hosts store |
| host commands (`cli/clawctl/host/*`, `core/keys.py`) | host records, `keys/<key_id>/` | create (and re-record), edit, alias, address, delete, apply | hosts store, SSH |
| installation (`core/install.py`) | the agent record: status, ports, attachments, onboarding | `run_installation`: plain, `--cleanup-failed`, resume | hosts store, secrets, onboarding, Ansible |
| onboarding (`core/onboarding.py`) | `agents[n].onboarding`: state and four stages | `initialize_onboarding`, `transition_state`, `complete_stage`, `update_stage_metadata` | hosts store |
| configure (`cli/clawctl/agent/configure.py`, `core/lifecycle.py`) | onboarding, remote configuration | `configure --stage`, `sync_agent`, `configure_agent` | onboarding, attachments, Ansible |
| canonical sync (`core/lifecycle_canonical.py`, `render.py`, `render_diff.py`, `workspace_sync.py`) | the files, programs and daemon on the agent's host | `sync_agent_canonical`: full, without restart, overlay only | attachments, SSH, the daemon |
| lifecycle (`core/lifecycle.py`, `lifecycle_macos.py`) | `agents[n].runtime`, gateway bearer | start, stop, restart, remove, hard delete, re-pair | hosts store, secrets, Ansible |
| registries and attachments (`core/providers/storage.py`, `integrations.py`, `channels.py`, `provider_attachments.py`, `cli/clawctl/agent/{provider,channel,integration}.py`, `gui/routes/*`) | registry files, attachment lists in the agent record, credentials | create, edit, rotate, delete, attach, detach | two or three stores at once |
| credentials (`core/codex_credentials.py`, `claude_credentials.py`, `pi.py`) | OAuth documents and API keys, a journal of the pending activation, a recovery mark, files on the host | attach, login, activate, reconcile | secrets, hosts store, SSH |
| skills (`core/skills_state.py`, `skills_apply.py`, `gui/routes/{agents,skills}.py`) | `agents/<name>/skills.json`, skill directories, the overlay catalog, the host's skill directory | add, remove, edit, install, apply | SSH |
| server (`core/server_lifecycle.py`) | `server.json`, a detached process, a port | start, stop, status | the operating system |
| web UI tunnels (`core/web_ui_tunnel.py`) | `tunnels/<key>.json`, ssh processes | ensure, close, the reaper | the operating system |
| manifest (`core/manifest/*`) | none of its own | diff, apply, delete | all of the above |
| chat sessions (`gui/routes/agents.py`, `core/chat_{claude,codex,pi}.py`) | sessions in the server's memory, the native conversations on the host | a turn, its cancellation, expiry, eviction | the agent record, Ansible |
| memory, exec, other chat backends, validation, health, output, TUI | none that outlives a call | | SSH, HTTP |

Components interact in four ways. They call each other's functions inside one
process; they share the JSON files between processes; they change a remote
host over SSH, for seconds or minutes, between two accesses to the files; and the
requests of the GUI interleave in one event loop wherever they await.

What is hard:

* **Concurrency on the files.** A locked update is atomic, but most commands
  decide on an unlocked read made earlier, sometimes minutes earlier.
* **Failure.** A write may fail, an updater may raise, a playbook may fail, a
  process may be killed; what it kept in memory is gone.
* **Two files.** What belongs together (a record and its secrets, a record and
  its keypair, an integration and the agents that use it, two credential files of
  which one may exist) is in different places under different locks, or none.
* **Order.** Which of two writes comes first decides what a death in between
  leaves behind: READY and the playbook, credentials and the record, a binary and
  the configuration that names it.
* **Numbers and identities that come round.** The pid in a file, the name of a removed
  registration, the identity of an agent that was reinstalled during a turn.

What makes each part correct:

* hosts store: a reader finds a whole file; no update is lost; a call is atomic;
  a dead process blocks nobody.
* host commands: the hostname of a host is a primary address of it; a key_id, and
  what is stored under it, belongs to one host and has its keypair.
* installation: runs of one type exclude each other; ports are distinct;
  attachments survive success and failure; a failed agent is never ready.
* onboarding and configure: READY is earned by a successful configure; stages and state
  stay in step, so that a walk that was cut short can be repaired.
* canonical sync: a sync that ends well leaves the host as this machine has it; nothing
  starts without the program it needs; what only the host has is not lost.
* lifecycle: a removed agent stays removed; the bearer in `hosts.json` is the one
  the daemon knows; a removal that was interrupted can be repeated.
* registries: a name that is registered again inherits no credentials; an agent has
  what its renderer accepts; a rotation that reports success has reached everybody.
* credentials: a selected provider has a credential and no other has; what the agent
  refreshed is not put back; what was detached does not come back; of two mutually
  exclusive credentials the host has one.
* skills: what is on the list loads, and an addition that was reported stays.
* server, tunnels: what runs is what the file names; a signal reaches no stranger.
* manifest: what was reported as done is done.
* chat sessions: a conversation has one turn at a time; an answer is that of the agent
  that was asked; every request ends.

## 2. Plan

In order of importance; what is done is marked.

1. `StoreCalls`, `AtomicStore`, `HostsStore`, `HostsStoreProofs` (done): the file
   everything else stands on, and that its calls are atomic. This comes first because
   every later module takes one call on `hosts.json` as one step.
2. `HostCommands` (done): the identity of a host: hostname, addresses, key_id, keypair.
3. `Install`, `InstallProofs` (done): the agent records of one host while Ansible runs for minutes.
4. `Onboarding` (done): stages, state, configure and the two syncs of one agent.
5. `Lifecycle` (done): one agent from installation to removal, with its daemon.
6. `Registries`, `Providers` (done): integrations, channels and providers with their
   attachments: three files under three locks.
7. `CodexOAuth`, `ClaudeCredential`, `PiCredentials` (done): the three ways a credential
   gets to an account on the host: with a journal and a receipt, without either, and
   under a lock with a recovery mark.
8. `CanonicalSync`, `Render` (done): what a sync does to the host, and what the renderers
   make of the attachments.
9. `Skills`, `Server`, `Tunnel`, `Manifest` (done): what the workstation keeps besides.
10. `ChatSessions` (done): the sessions of the GUI, with liveness.
11. Proofs, in a module for each composition. Done: `HostsStoreProofs`, `InstallProofs` (with
    `HostCommands`), `CodexOAuthProofs`, `RegistriesProofs` (with `Providers` and
    `PiCredentials`), `ChatSessionsProofs`, `CanonicalProofs` (`CanonicalSync`, `Render`,
    `ClaudeCredential`), `AgentsProofs` (`Lifecycle`, `Onboarding`, on top of
    `CanonicalProofs`), `WorkstationProofs` (`Skills`, `Server`, `Tunnel`, `Manifest`).

How the modules compose: `HostsStore` implements `AtomicStore` (TLC and TLAPS). The
command modules do not instantiate it; they use the result, by taking each locked
call on a file, and each unlocked read, as one step. `Install` and `Onboarding` meet
in the onboarding section: `Install` has its writers as single steps
(`OpenOnboarding`, `FinishOnboarding`), `Onboarding` has the installer's as
`BeginInstalled`, `SetAside`, `InstallEnds` and `Reinstall`. `Lifecycle` has installation as
a clean-up, a claim, the playbook and its result, whose mutual exclusion is what `Install` shows. `Registries` has a sync as one step
(`AgentSync`), whose own steps are `CanonicalSync`; `CanonicalSync` ends in the READY
of `Onboarding` and its branches for pi and claude are in `PiCredentials` and
`ClaudeCredential`; `Manifest` takes an installation, a configure and a start as one
step each.

Most of these share no variable, because what one needs of another is a field or an
action of its own. The modules `MCInstall`, `MCRegistries`, `MCCanonical`, `MCAgents`
and `MCWorkstation` put several of them into one run: a variable `focus`, fixed in the
initial state, says which part a behaviour runs, and the others do not move (their
variables are `<<>>`, or stay in an initial state). Such a run visits the sum of the
state spaces, not their product, and shows nothing about two parts at once: where two
parts do interact, the interaction is inside one module. A property of such a run is
the property of a part under its own name, or the conjunction of two that ask the same
of different parts.

## 3. The modules

Conventions. A process is a `clawctl` command or a GUI request. A command starts
with `Begin...` or `Start`, which is its first read; every access to a file or a host
after that is a step of its own, so other processes act in between; `Stop`, `Fail`,
`Killed` or `Die` ends a command at any point: a refusal, an error, a Ctrl-C or the
death of the process. An updater that raises changes nothing (proved for the store), so
such refusals need no step. Definitions with a comment "Mutant:" are not part of a
specification: each is the form the next definition would have with a plausible bug in
the code, kept beside it to show that a property notices the difference.

Some modules have *history variables*, which no step depends on. They say what has
happened so far, and properties use them to name the exact boundary of what the code
keeps: where a property excludes something by one of them, the exclusion is needed,
and the states beyond it are reachable and described in section 7.

### StoreCalls, AtomicStore, HostsStore (`core/hosts.py`)

`StoreCalls` says what `add_host`, `remove_host`, `update_host` and `load_hosts` do
to the value of the file, and which outcome the caller sees. `AtomicStore` lets every
call take effect at one instant between its start and its end. `HostsStore` is the
code: `Acquire` is `flock(LOCK_EX)` in `_hosts_lock` (95-112), `Load` the load under
the lock, `OpenTemp`, `Dump` and `Replace` are `mkstemp`, `json.dump` and
`os.replace`, `WriteFails` the `except` that unlinks and re-raises, `Unlock` the end
of the `with`, `Read` the unlocked `load_hosts`, and `Crash` the death of a process at
any step, on which the kernel releases its flock. The value of a record is the set of
processes whose updates it carries, so a lost update is visible. The other stores
(`secrets.json`, `integrations.json`, `channels.json`, `providers.json`) use the same
sequence under their own locks.

### HostCommands (`cli/clawctl/host/*`, `core/hosts.py`, `core/keys.py`, `core/manifest`)

State: `hosts` (sequence of records: hostname, key_id, alias, addresses), `keys` (the
key_ids that have a keypair on disk), `cmd[p]` (what a command has read and where it
is). `create` is `CreateNew`/`CreateAgain`, `EnsureKeypair`, `AddHost` or `UpdateHost`
(`_rewrite`); the edits are `FindHost` (the lookup by any name), a second look
(`CheckRename`, `CheckAlias`, `CheckAddress`) and the locked `UpdateHost`; delete is
`RemoveHost` and `DeleteKeys`; apply is `ApplyDiff`, `AddHost`, `ApplyKeypair`.
History: `mixed`.

### Install (`core/install.py`, `core/secrets.py`, `core/names.py`)

State: `agents` (the records of one host), `secrets` (the instance keys that have an
entry), `run[p]`. `Start` is validation and the first unlocked read (which incomplete
installations there are); `CleanUp`, `LoadSecrets`, `SaveSecrets`, `SecretsFail` are
`--cleanup-failed`; `Claim` is `set_installing`, with the port it picks; between it
and `SetInstalled`, `SetFailed` or `LeaveInstalling` Ansible runs; then come
`AttachProvider`, `CheckOnboarding` and `InitOnboarding`. `Attach`, `Detach`,
`OpenOnboarding`, `FinishOnboarding`, `SetSecret` and `Remove` are what other commands
do meanwhile. History: `wanted`, `disturbed`, `readied`. `MCInstallCleanup` adds the refusal
of a sync (`SyncRefuses`), which tells the operator how to finish an installation, and what it
promises of the attachments.

### Onboarding (`core/onboarding.py`, `core/lifecycle.py`, `core/lifecycle_canonical.py`)

State: `record` (the state and four stages), `attached` and `configured` (of the
agent and of its host), `run[p].todo` (the calls a command still has to make). A call
of `transition_state`, `complete_stage`, `update_stage_metadata` or
`initialize_onboarding` is `Check` (the unlocked read and validation) and then `Write`
(the locked updater, which writes what was decided). `Sync` decides the whole walk of
`sync_agent` on one read; `Walk`, `Visit` and `ConfigureThenReady` are the calls it
makes, in order, and `InPlaceOf` is what it does instead of a call that is refused.
`BeginCanonical` is `agent sync`. An installation over the agent takes the section away and
keeps it in memory (`SetAside`; `install` and `aside`), and gives it back, READY included,
when it succeeds, and the attachments however it ends (`InstallEnds`); `Reinstall` is a
removal, or a clean-up, followed by an installation. The manifest of the type is the constants
`Skippable` and `Manual`; the runs use openclaw's. History: `overlapped`, `reset`.

### Lifecycle (`core/lifecycle.py`, `core/install.py`, zeroclaw's playbooks)

State: `record` (its kind, which is its status; runtime, onboarding, gateway bearer), `local` (its secrets and
its `agents/<name>/` directory), `daemon` (unit, home, process, and the bearers in
devices.db), `run[p].todo` (the steps a command still has to take), `fresh` (the hard
deletes whose look at the record still holds). The step lists (`InstallSteps`,
`StartSteps`, ...) are the order in which the functions do things; each step has its
action: `BeginCleanup`, `Clean` and `DropLocal` are `create --cleanup-failed`, for this agent
or for another of the type, which deletes the record and the secrets of one whose installation failed
or died and leaves its host alone; `Claim`, `Place`, `Installed` or `InstallFails` are the
installation, which keeps the record it finds (after a clean-up: nothing); `Gate` is what
`start_agent` checks, `WriteRuntime` is
`_update_agent_runtime`, `ReadBearer`, `Pair` or `PairRefused`, and `WriteBearer` are
the pairing, `StopIgnored`, `Uninstall` or `UninstallFails`, `DropLocal`, `DropIgnored`
and `DropRecord` are `remove_agent`, and `Look`, `DropLocal`, `ForgetRecord` are
`hard_delete_agent`. `DaemonFlips` is the daemon or its host going down or coming up.
The gateway's own behaviour is modelled from how `tasks/pair.yaml` uses it: without a
row in devices.db it gives a pairing code to anyone, with one only to the bearer of a
row, and rows survive restarts. (A comment at `core/lifecycle.py:1100` says the daemon
"does not persist bearer state"; the playbook is what runs.) History: `raced`,
`given_up`.

### CodexOAuth (`cli/clawctl/agent/provider.py`, `core/codex_credentials.py`, `core/secrets.py`, `core/lifecycle.py`, codex's `configure.yaml`)

State: `selected` (the provider in the agent record), `secrets` (document, journal and
activation request, one entry of `secrets.json`, so one write changes all three),
`auth` and `receipt` (on the agent's host), `holder` (the flock of the agent), `run[c]`
(where a command is and what it has read). `Acquire` is `codex_oauth_operation_lock`;
`Recover`, `Forget` and `ClearJournal` are `_reconcile_codex_oauth_transaction`, with
which every command starts; attach and detach go on with `Prepare...`, `Journal...`,
`Metadata` (the write of `hosts.json`, which may be done, fail, or be interrupted when
it is done) and `Commit`; sync and configure with `Request`, `Inspect`,
`RecordPending`, `InstallAuth`, `RecordComplete` or `RestoreAuth`, which are the tasks
of the playbook, and `Finish`. `Die` ends a command anywhere: a kill, a write that
raises, a playbook that fails or times out. A document is a number, which of the
operator's logins was imported; `Supplied` is one that `agent secret create` has
written, which takes only the lock of `secrets.json`. An activation request is
the number of the attach that made it, where the code has a uuid. `Refresh`, `LoseAuth` and
`RemoveReceipt` are Codex and the operator. History: `asked`, `misread`, `waived`.

### Registries (`core/integrations.py`, `core/channels.py`, `cli/clawctl/{integration,channel}.py`, `cli/clawctl/agent/{integration,channel}.py`, `gui/routes/integrations.py`)

The two registries are two copies of one protocol, told apart by `kind`. State:
`registry` (the record of a name, with the number of the registration that made it),
`keys` (which registration each credential of a name was written for), `attached`,
`holder` (the registry's lock), `fresh` (which agents have read the present
credentials), `cmd[p]`. A create is a look-up, `Add` under the lock, and then `StoreKey`
per credential; a rotation is `ListAgents`, `Update`, `StoreKey` and `SyncListed` per
agent; a delete is `CheckUse`, `ClearKeys` and `Remove...` under one lock, in the order
of `DeleteSteps`, and for integrations `Sweep` after it; an attach is the look-ups, the
target's type (`TargetType`) and the write of `hosts.json`. History: `gone`,
`forcedOff`, `late`.

### Providers (`core/providers/storage.py`, `core/provider_attachments.py`, `cli/clawctl/provider.py`, `cli/clawctl/agent/provider.py`, `gui/routes/providers.py`)

State: `records`, `creds` (per name an API key and a pair of AWS keys, with the
registration they were written for), `providers` (the list of each agent), `pcmd[p]`.
Unlike the registries, a removal takes the record first and the credential second
(`RemoveProvider`, `ClearCredential`), asks nobody whether the provider is used, and
attach and detach write the whole list they read (`SetAttachments`). `BeginAttachClaude`,
`Import`, `ImportFails` and `RestoreAttachment` are the attach to a claude agent with its
rollback. History: `orphaned`.

### PiCredentials (`core/pi.py`, `core/chat_pi.py`, `cli/clawctl/agent/{configure,provider}.py`, `core/lifecycle_canonical.py`)

State: `selection` and `recovery` (hosts.json), `environment`, `awsHome`, `oauth` (what
the host has), `piLock`, `picmd[p]`, `jobs` (inferences on the host). Detach, sync,
configure, login and inference take the lock (`LockDetach`, ...) and go over their steps;
attach does not. `Purge`, `Clean`, `SelectReplacement`, `Undo` are configure's
replacement of a provider; `Resolve` is the second look of a sync, under the lock.
History: `loggedIn`, `dropped`, `revoked`.

### CanonicalSync (`core/lifecycle_canonical.py`, `core/render_diff.py`, `core/workspace_sync.py`)

State: `attached`, `workspace` (this machine), `env`, `config`, `installed`,
`gitconfig`, `overlay`, `daemon`, `paired` (the host), `sync[p]`. A sync is, in this
order: the read of the attachments, `Probe`, `ReadSections`, one diff per file with the
guard of secrets (`DiffEnv`, `DiffConfig`), what the integrations need
(`InstallPlugins`, `OnboardSandbox`, `ReconcileHerdr`, `InstallSlack`), the identities
(`WriteGitconfig`, `GhLogin`, `SetupGit`), the write loop (`WriteEnv`, `WriteConfig`),
the overlay (`Push`), `Restart`, `Verify` and, for zeroclaw, `Pair`. `Fail` ends it
anywhere. `EditLocal`, `EditHost`, `CompleteOnboarding` and `RestartOutside` are the
operator, the daemon and the host. Integrations stand for the four kinds of needs:
slack has a block of configuration and a binary, brave a secret and a plugin,
github a secret and gh, git an identity. History: `last`, and `alone` in `sync[p]`.

### Render (`core/render.py` and the templates)

A pure function as a two-step machine: what is attached is one of the initial states,
`BuildRenderInputs` and `Render` refuse or produce lines, each with a key (a file and a
name in it). `Found(key)` is what the daemon reads: the last line under a key. The
branches are the tables of the renderers: which types each supports, under which key a
credential goes, and which credentials share one.

### ClaudeCredential (`core/claude_credentials.py`, `core/lifecycle_canonical.py`, `core/lifecycle.py`, the playbook)

State: `secret` (secrets.json, a value per mode), `artifact`, `staged`, `backup` (the
files of the account on the host), `active[p]`. `Configure` selects one mode and drops
the other in one write. A sync is `Stage`, `Clean`, `AssertAbsent`, `Promote`; a
configure is `BackUp`, `Replace`, `RemoveOther`, `VerifyAbsent`, with `Rescue` when a
task fails. No lock orders them. History: `mixed`, `outcome`.

### Skills (`core/skills_state.py`, `core/skills_apply.py`, `cli/clawctl/agent/skill.py`, `cli/clawctl/skill.py`, `gui/routes/{agents,skills}.py`)

State: `list` (skills.json), `dir` (the directory of each skill: absent, empty, with a
file that loads or one that does not), `tmp`, `host`, and of each process `pc`, `op`,
`name`, `seen`. clawctl's add is `Check`, `Mkdir`, `Write`, `Read`, `Store`; the GUI's
writes aside and renames (`TmpClear`, `TmpMkdir`, `TmpWrite`, `Rename`); both undo
(`Undo`, `UndoRead`, `UndoStore`). `Editor` and `Restore` are `skill edit`, `Load` and
`Play` are `apply_state`. The overlay catalog is written in the same way without a
list. History: `calm`, `rivalled`, `added`, `applied`.

### Server (`core/server_lifecycle.py`, `cli/clawctl/server/*`)

State: `file` (server.json), `proc` (what has each number: nothing, a server that has yet to
bind, one that serves, somebody else), `foreign` (who else has the port), and the
commands. Start is `Read`, `Probe`, `Clear`, `Port`, `Spawn`, `Wait`, `Kill`, `Confirm`,
`Record`; stop is `Read`, `Probe`, `Term`, `Await`, `Clear`. `Binds`, `Exits`, `Reused`,
`Foreign` are the operating system. History: `calm`, `met`, `wrong`.

### Tunnel (`core/web_ui_tunnel.py`)

State: `file`, `ssh` (what has each number), `lock` (the lock of the key, among the
threads of one process), and the callers: threads of the GUI and a command. Ensure is
`Lock`, `Read`, `Probe`, then the eviction of what is left (`Term`, `Kill`, `Delete`),
`Spawn`, `Wait`, `Write`; close is `Read`, `Term`, `Kill`, `Delete`, without the lock.
`Connects`, `Dashboard`, `Exits`, `Reused` are ssh and the operating system. History:
`calm`, `wrong`.

### Manifest (`core/manifest/{differ,executor,state}.py`, `cli/clawctl/{apply,delete_file}.py`)

State: `doc` (the manifest), `hosts`, `providers`, `fleet` (what is registered), `actual`
(what the running command read), `todo` (what is left of its plan), `errors`. `Changes`
is the plan; each entry is one step, in the order of the phases, and may fail without
ending the command. `OtherCommand` is anybody else. History: `disturbed`, `last`.

### ChatSessions (`gui/routes/agents.py`, `core/chat_{claude,codex,pi}.py`)

State: `kind`, `agent` (its record: status, installation, place), `sessions` (all that
were made), `cached` (their places in the cache, the least recently used first), and of each request `pc`,
`key`, `seen`, `sess`, `turn`. A request is `Resolve` (the record is read),
`Reuse`, `Create` or `Busy` (the cache, with expiry and eviction, in one step because it does
not await), `Stream` (claude takes the lock when the response is streamed), `Take` (the lock is
handed over in order), `Match` and `Confirm` (codex asks for the record before and after
a turn), `Succeed`, `Fail`, and `Unwind` after a `Cancel`. A turn runs in a native conversation,
the session with its `epoch`: `Unwind` moves on to the next, so that a retry does not
resume the turn that was abandoned. Requests and conversations are numbered in the order
in which they come up. History: `lost`.

## 4. The runs

Twelve runs. Seven pass and check every invariant on interleaved processes. Five end in a
counterexample to something a comment or a document of the repository promises (section
7). States are distinct states; times are for two workers.

| Run | Instance | States, time | Shows |
|---|---|---|---|
| `hosts_store` | 2 processes, 1 hostname, any number of calls | 19,932, 7 s | with failing writes and deaths at every step the file is whole, no update is lost, the calls are those of `AtomicStore`, and every call ends |
| `install` | `Install`: 2 installers and an operator, 2 names, 2 types, 2 ports, 1 provider, 4 commands. `HostCommands`: 2 processes, 3 addresses, 1 alias, 3 commands from nothing or after a create | 945,934, 90 s | the record is its installer's, runs of a type exclude each other, ports are distinct, attachments survive, a failed agent is not ready; a hostname stays a primary address, and one after another `create` and `delete` keep key_ids distinct and keypairs present |
| `registries` | `Registries`: 2 processes, 2 names, 1 agent, 2 credentials, 2 registrations, 3 commands from nothing or after a create. `Providers`: the same names, an agent of each kind, 4 commands. `PiCredentials`: 2 processes, a provider of each type, 5 commands | 507,033, 75 s | nothing is inherited by a later registration, an agent has what its renderer accepts, a rotation without errors has reached everybody; a lost Codex login of pi is marked, a detached credential is not resurrected, an inference keeps its login |
| `agents` | `CanonicalSync`: 2 syncs and an event, three types of agent, every set of four integrations. `Render`: four types, every list of at most two attachments of one kind. `ClaudeCredential`: 2 processes, 3 activations, 2 selections. `Lifecycle`: 2 processes, 2 bearers, 4 commands. `Onboarding`: 2 processes, openclaw's stages, 5 commands | 1,871,105, 105 s | no daemon starts on a program that is missing, the host is as this machine has it after a sync that ended well and alone, no seen secret of hermes and no onboarding of zeroclaw is lost, no credential hides another; nothing is left without a record, the bearer of the record is accepted; READY is earned, and a repeated configure repairs |
| `workstation` | `Skills`: 2 processes, 2 skills and the catalog, 3 commands, 1 failing step. `Server`: 2 commands, 2 numbers, 3 commands. `Tunnel`: 2 threads and a command, 2 numbers, 2 ports, 3 calls. `Manifest`: 1 agent of any type, 2 commands | 1,132,055, 60 s | the list of skills and their directories agree, what was added stays; what runs is what the file names, no signal reaches a stranger; an apply or delete without errors has done what it planned |
| `codex_oauth` | 2 processes, 2 providers, 1 login and 1 supplied document, 2 attaches, any number of detaches and syncs | 1,840,638, 78 s | selection and credential agree at rest, a refreshed credential is overwritten once per request, recovery keeps what is newer, sync activates what was attached |
| `chat_sessions` | 3 requests, 2 conversations, a cache of 1, 1 change of the record, each of 3 types of agent | 517,256, 143 s | the cache keeps its bound, no native conversation has two turns or one beside an abandoned one, no answer of a replaced agent is served, every request ends |
| `lifecycle_pairing` | 1 process, 3 commands | violation, 16 | configure does not re-pair a daemon that lost its peer |
| `install_cleanup` | 1 installer, 1 name, 3 commands | violation, 11 | an installation finished by `--cleanup-failed` has lost the attachments it was to keep |
| `codex_oauth_recovery` | as `codex_oauth`, 1 provider, 1 attach | violation, 10 | a recovery by an old selection tears the two apart |
| `canonical_restart` | 1 process, 2 syncs | violation, 10 | a sync after one that died before the restart leaves the old daemon running |
| `manifest_apply` | a manifest of one agent | violation, 7 | an apply without errors does not attach the provider |

Every property of every passing run has a mutant: one definition of the model is replaced by
the form it would have with a plausible bug (a guard dropped, the write before the
playbook instead of after it, the look at a record before the lock instead of under
it, a port picked from what one process knows, ...), and the property is then violated
in the same run. `PROJECT.json` lists them; the mutated forms are the definitions with
a comment "Mutant:".

Where `CHECK_DEADLOCK FALSE` stands, the system stops because the bound on commands is
reached and everybody is done. `hosts_store` and `codex_oauth` have no such bound and are
checked for deadlock: a process that waits for a lock always gets it or sees its holder die.

## 5. Bounds, symmetry, fairness

* `Procs`: two. What is checked relates at most two commands; a third party appears
  where it changes the result without being a process that waits (the operator of
  `Install`, the daemon of `Lifecycle`, the agent sync of `Registries`, the events of
  `CanonicalSync`). The theorems hold for any number. `Tunnel` has three callers, since
  its lock orders two of them and not the third.
* `MaxCommands` (`begun`; in a composition each part has a bound of its own:
  `MaxHostCommands`, `MaxAgentCommands`, `MaxWalkCommands`, `MaxServerCommands`; and likewise
  `MaxSyncs`, `MaxActivations`, `MaxCalls`, `MaxRuns`): how many commands begin, since a list of commands has no
  end. In `Install` four are enough to install an agent twice and attach something while
  another run is in progress; in `Lifecycle` to install, start, pair again and delete, or to
  fail, clean up, install and delete.
  Onboarding has five because a walk that fails, a detach, a re-attach and a repair are
  four commands already; `PiCredentials` has five for an attach, a login, and a
  replacement against two others. `HostCommands` and `Registries` have three, from
  nothing or after a create that has run by itself (`AfterCreate`): a host or a
  registration that is used, removed and made again while another command looks at it.
  Four from nothing pass as well (302,000 and 704,000 states) and are left out for their
  time, as are five in `Lifecycle` (2,163,000 states).
* `MaxHosts`, `MaxAddrs` (two): hosts with one address each cannot show
  `set-primary`; two hosts are enough for a name that belongs to both. A third address
  value lets a host be renamed to a name nobody has.
* `MaxRegs`, `MaxProviders` (two): a registration and the one that comes after it; two
  names are needed for two integrations of a singleton type, and two providers for two roles.
* `MaxBearers` (two): one that was valid before and one that is valid now.
* Two names, types and ports in `Install`: a run competes with another for each of them,
  and a full pool of ports occurs (two names, two ports, none left for a third).
* `Items` is one provider: attaching and detaching it, and carrying it over a
  reinstall, are the cases; other kinds of attachment go through the same lines of `set_installed` and `set_failed`.
* `MaxAttaches` (two), `MaxLogins` (one): an attach and a re-attach while the first is
  pending, interrupted, applied or undone. `Supplied` is the second document, so a
  document is replaced by another in either direction. Detaches and syncs are unbounded.
* `MaxEvents` (one beside two syncs, two beside one): an attachment, an edit on the host, a
  completed onboarding or a reboot between any two round trips.
* `Render` has lists of at most two attachments of a kind, one kind at a time: lines of
  different kinds have different keys, and a clash is between two.
* `MaxFailures` (one): a second failure in the same command is the failure of its
  clean-up, which the code does not survive, so `Agrees` claims nothing after two
  (section 6).
* Two pids and two ports: a number that is given away while a command holds it, and a
  port that is taken while another is tried.
* `MaxRequests` (three), `MaxKeys` (two), `SessionMax` (one): a request that runs, one that
  waits behind it and one of another conversation that wants its place in the cache.
  `MaxChanges` (one): what needs the agent to change twice (back to a former place) is outside.
* Symmetry is used with invariants and action properties, which
  TLC checks on every step it generates. The values it permutes (processes, providers,
  addresses, names, types, ports) appear in no definition by name. The runs that check
  any other temporal property (`hosts_store`, `chat_sessions`) have none: there, requests and
  conversations are taken in order of appearance, which no property distinguishes.

Fairness is assumed in two modules. In `HostsStore` (`FairSpec`) a running process takes
its next step (`WF Proceed`): these are file operations, and a process that dies in one is
`Crash`, which is not fair. A process in `flock` gets a lock that is free again and
again (`SF Acquire`): Linux queues the waiters of a file lock and wakes them in turn. In
`ChatSessions` every request that can take a step by itself does (`WF Step(r)`): the event
loop runs what is ready, asyncio hands a lock to the first who waits, and every turn
is over in bounded time because the playbook, the runner and, for pi, the wait for the
runner have timeouts. Cancellations, requests and changes of the record are not fair.
Nothing is assumed about how often commands are started, or about SSH or Ansible
outside chat: the other modules have safety properties and no liveness, because
the code promises none (there is no daemon that retries; a repair is another command).
`WalkFinishes`, `SyncActivates`, `HostCurrent` and `RotationComplete` say of that other
command that what it reports is so.

## 6. What is proved

With TLAPS, for every value of the constants that the named assumptions allow, in eight
modules: every invariant and every action property that a passing run
checks. A module that proves about a composition (`MC...`) proves each part by
itself and joins them: a part that does not run stands still in an initial state, so its
invariant holds there too. The assumptions say that bounds are numbers and that
stand-ins (no process, no name, no port, ...) are not among what they stand in for; each
is declared where its constants are, and a composition assumes those of its parts.

**`HostsStoreProofs`**, for any processes, hostnames and calls, from
`NoProcAssumption` (the value for "nobody has the lock" is not a process) and
`NotContents` (neither a torn nor a missing file is a value of the file). The
inductive invariant `IInv` is `TypeOK`, `WholeFile` and `SnapshotFresh` with three parts
the code never states: that whoever is inside the `with` holds the flock (`LockHeld`,
without which a second writer could change the file after the load), that what is about
to be renamed is the writer's rewrite of its snapshot (`TempDumped`, without which a
rename could publish anything), and that a process in a call has one (`InCall`). From
it: `TypeCorrect`, `FileAlwaysWhole`, `Exclusion`, `NoLostUpdate`, `WritersSerialized`
(`Exclusion` and `NoLostUpdate` together, which is what the run checks), and
`ImplementsAtomicStore`, the refinement: initial states map to initial states, `Begin`,
`Replace`, `Refuse`, `WriteFails`, `Read` and the last step of a call map to steps of
`AtomicStore`, the rest to stuttering. `CallsEnd` is liveness and stays with TLC.

**`InstallProofs`**, for any processes, names, types, ports and attachments and any
bound on commands, from `InstallAssumption` (the stand-ins for "any name" and "no port"
are none, providers are attachments, the bound is a number). The argument is that
`set_installing` is the only step that can take a name, a port or the turn of a type,
and that it does so in one locked update which sees all three:

* `Typed`: the types, with a name and a type for every run that needs them.
* Every other step is `Quiet` (lemma `OthersQuiet`, one step per action): it starts no
  Ansible run, forgets no disturbance, changes no undisturbed record that is held, and
  no port except by removing its record. Quiet steps keep `Holding` (`RecordHeld`,
  `HoldersDistinct`, `OneInstaller`) and `PortsDistinct` (`QuietHolding`, `QuietPorts`).
* A claim finds its name free of other runs, unless it resumes a run that is not dead,
  which it disturbs (`ClaimUnheld`); hence `ClaimHolding` and `ClaimPorts`.
* `Bare`: an agent being installed, or failed, has no onboarding. Without it
  `FailedNotReady` is not inductive: set_failed takes over what the record has.
* `Kept`: what the operator attached is in the record or, during a run, in what the run
  has set aside; each way a run ends puts it back, or gives it up (`KeptStep`).

Theorems: `TypeCorrect`, `RecordIsHeld`, `OneAtATime`, `PortsStayDistinct`,
`AttachmentsSurvive`, `FailedIsNotReady`, and the conjunctions the run checks,
`InstallationsExclusive` (`Exclusive`) and `FailureKeepsHolds` (`FailureKeeps`).

The second half of the module is about `HostCommands`, for any addresses, aliases, hosts
and commands, from `HostsAssumption`. `PrimaryStays` (`HostnameIsPrimary`) is inductive
with the types: the locked updater of each edit looks at the addresses again. That a host
is itself (`IdentityStays`) is not: in `HostsInv`, as long as nothing has overlapped
(`mixed`), hostnames are distinct, one command runs, and what it has read and carries to
its write is still so (`CarriesOn`: the name is new, the key_id is that of the host, no host
has the key_id whose keypair is about to go).

**`CodexOAuthProofs`**, for any commands and providers, any number of logins and attaches,
from `CodexOAuthAssumption`. The invariant says who is past the lock and what a command
knows at each label (`LockHeld`, `CommandKnown`), and then follows the three things a death
can tear apart. `Journaled`: with a journal, selection and document are in one of the
states from which the recovery leads back (`HalfDone`); without one they agree.
`Answered`: the document of an attach that succeeded is on record until it is on the host.
`Receipted`: the credential of the activation that is asked for has a receipt. The last two
need `Numbered`, that the number of an attach which has not asked yet occurs nowhere, which
the code gets from a uuid. Theorems: `SelectionSettles` (`Settled`), `RefreshesKept`,
`NewerDocumentKept`, `AttachActivated`, the last three action properties.

**`RegistriesProofs`**, for any processes, names, agents, keys and providers, from
`RegistriesAssumption` and `MCAssumption`. `Registries` (`RgInv`): a credential is of the
present registration or was written too late, and a removal that has cleared finds none when
it takes the record out (`RgInherited`); what is attached is registered, as the type that
attach has read, or was removed (`RgPlaced`); of singleton types there is one
(`OneSingleton`, stated by equality: counting comes last, in `OneIsOnce`); a rotation has synced
what it listed or has it to do (`RgRotating`). `Providers` (`PvInv`): what a command may
write is a list the renderer accepts, and registrations are numbered in the order they are
made. `PiCredentials` (`PiInv`): nobody is about to bring back what a detach removed
(`PiRevoked`), and a login only goes after the mark (`PiMarked`). Theorems: `TypesCorrect`,
`AttachmentsKept`, `RotationsComplete`, `CredentialsKept`, `LoginsKept`, `NothingResurrected`.

**`ChatSessionsProofs`**, for any requests, conversations, sessions and changes, from
`BoundsAssumption`. Each step of a request is first brought to its effect on the request,
the sessions, the cache and the history (`Effect`), and the invariant follows from
effects. A turn runs under the lock of its session, in the session's present native
conversation, and an abandoned one ran in an earlier one (`Held`, `Turns`): hence
`TurnsApart`. Installations are numbered, and what a session knows is not newer than
the record (`Numbered`); who has lost its agent is refused (`LostRefused`): hence
`OwnAnswers`. `TypeCorrect` includes the bound of the cache.

**`CanonicalProofs`**, for any processes, syncs and events, from `BoundsAssumption` and
`ClaudeAssumption`. The invariant of the sync has two layers: what a sync knows
whatever happens besides (`Sound`: the tools its files need are there before it writes them,
and nothing it saw of a hermes agent is to go), and what it knows while it is alone
(`Faithful`: what it compared is still so, what it wrote is there). From the first come
`ToolsThere` and `SecretsStay`, from the second `HostIsCurrent` and `SectionsStay`.
For `Render`, the lines are those of what is attached, so `OneIsRead` is a statement
about concatenated sequences, proved for lists of providers and channels of any length. For
`ClaudeCredential` (`ClaudeInv`), an activation that is alone has at each step of the
playbook one file, or one and the backup that leads back to it (`WayBack`).

**`AgentsProofs`** extends it with `Lifecycle` and `Onboarding`, from
`AgentsAssumption`. Both keep what a process still has to do as a list. In `LifeInv` that
list is the rest of one of the lists the code has (`LifeCommands`), so a removal that is at
a step has taken those before it (`HostNamed`, `LocalNamed`), and a bearer that somebody
holds is one the daemon knows (`BearersKnown`). In `WalkInv` the lists are decided on a read
that may be old, so nothing is claimed of where they came from: no call that makes the
agent ready is without the configure before it, unless that has been done (`Preceded`,
`InOrder`). `AsideInv` says the same of the section that an installation keeps in memory: it
was earned when it was taken away, so it is when it is given back. `FinishInv` is about a configure of the providers stage while it is alone. What
it has left to do leads to READY (`Leads`): from any call that goes to a stage, the list goes
on to those above it and no other (`Climbs`), and the stages above the record's are ahead.
So a call that is not permitted, and is passed over, goes where the record has been, and
when the list is empty no stage is above the record's. It rests on the
transitions of the code: without the one from a stage to the next, a walk would stop there
and report success all the same.
Theorems: `AgentsTyped`, `CredentialsRead`, `NothingLeft` (`NothingUnrecorded`),
`BearersAccepted`, `ReadyEarned`, `WalksFinish`.

**`WorkstationProofs`**, from `WorkstationAssumption` and `SkillsAssumption`, for any
processes, numbers, ports, agents and skills.

* `Server`: which processes can be servers at each step of a command (`ServerAt`), and that
  a server which is known also has the port, since `Probe` takes one without it for a
  process that has inherited its number.
* `Tunnel`: the same (`TunnelAt`), and that whoever is past the lock holds it (`AtWork`): calls
  of `ensure` may overlap here, and one of them is at work.
* `Manifest`: of each entry of the plan, either it is still to do, or it is done and what
  follows leaves it so (`ApplyPlan`, `DeletePlan`); an error ends the claim.
* `Skills`: two arguments in one induction. What an addition reported stays although commands
  overlap: rivals are marked on both sides (`Apart`), so the author is alone with the
  directory from its `mkdir` or its rename on (`Owned`), and whoever comes later does no
  harm (`Kept`). If commands do not overlap, each step knows which name on the list may lack
  its directory (`SkillsAt`), and a failure is what led to every step that undoes.

Theorems: `WorkstationTypes`, `SkillsKept` (`SkillsAgree`), `NoneOrphaned`
(`ProcessesKnown`), `SignalsMeetTheirTarget` (`RightTarget`), `ManifestSettles`.

What the proofs changed in the models. Bounds and sets that the runs had as literals became
constants with an assumption. The cache of `ChatSessions` is a function from sessions to
their place instead of a sequence, and `InOrder` (`HostCommands`) and `Auxiliaries` (`Render`)
are said in a form the provers can expand. In `Server` and `Tunnel` the branches of a choice
exclude each other in the text as they do in the code. `Agrees` of `Skills` became
narrower: it said nothing of how many steps of a command fail, and the attempt to prove
it for any number found why that was wrong. With two failures a command that fails and whose
clean-up fails too leaves a name on the list without a skill (with `MaxFailures = 2`
TLC finds it), so it now claims what the code keeps, for one failing step.

Only model-checked. `CallsEnd` and `RequestsEnd` are liveness under fairness, which the
prover does not reach. The five properties of the runs that end in a violation are
false of the program. No module declares a
`RECURSIVE` operator, and nothing proved needs induction over data, except that
`CanonicalProofs` picks a least position from a list by the natural numbers' order.

## 7. Boundaries

### Claims of the code that do not hold

Each has a run whose counterexample shows it (`findings` in `PROJECT.json` quotes the
lines).

* `lifecycle_pairing`: the playbook advises `agent configure` to re-pair a daemon that
  refuses the recorded bearer. Configure presents that same bearer.
* `install_cleanup`: a sync that refuses an agent whose installation failed says that
  `--cleanup-failed` finishes it with the attachments preserved. The clean-up deletes the record
  they are in.
* `codex_oauth_recovery`: the docstring of the recovery says that it goes by the
  observed selection. It goes by a host record read before: by attach and detach before
  the write that was interrupted, by sync and configure before they had the lock.
* `canonical_restart`: the documented pipeline ends in a restart. Only a sync that has
  written a file restarts hermes and openclaw, so after one that died between the two
  the next one leaves the old daemon running.
* `manifest_apply`: apply is documented to make the fleet match the manifest. The step that
  attaches a provider hands its name to `configure_agent`, which drops it.

Two more were met while modelling, and need no run, because they are visible in one place:

* The help of `create --cleanup-failed` says that it removes a failed installation
  (`cli/clawctl/agent/create.py:54`). `run_installation` deletes its record and its secrets and runs no
  playbook (`core/install.py:529-579`, `Clean` and `DropLocal` in `Lifecycle`): user, home
  and unit stay on the host, and no record names them when the create is for another
  name or dies before its claim (`given_up`, below).
* `website/docs/skills/local.md:50-59` says that `clawctl agent sync` pushes local skills. No phase
  of `sync_agent_canonical` touches one: only the GUI's install and uninstall reach
  `apply_state` (`gui/routes/agents.py:951`), so `Skills` has no step for a sync.

These are stated in the modules too, known not to hold for the reason given, and in no run:

* `HostCommands!KeyIdResolves`: `get_host` documents that a key_id leads back to its host
  after a rename. `edit`, `alias` and `address` compare a new name with hostnames and
  aliases, not with key_ids, so another host can take the name that is the first one's key_id.
* `Install!OnboardingSurvives`: a comment says that a reinstall over a failed agent preserves
  onboarding. The section is set aside in memory and given back on success only: the
  reinstall that failed has lost it.
* `Install!SecretsSurvive`: `save_secrets` documents that its lock prevents races. The clean-up
  loads outside the lock, and writes back what it loaded.
* `Onboarding!WalkNotBypassed`: a comment says that a sync cannot bypass the stage walk.
  `pending -> ready` is an allowed transition for every type, and `agent sync` takes it.
* `Registries!NoneDangling`: the check inside the lock of `integrations.json` is to keep a
  concurrent attach out. The attach takes the lock of `hosts.json` only, so an agent can be left
  with a name that is gone.
* `CanonicalSync!GuardedForAll`: the guard that refuses to drop a secret looks at files
  named `*.env`; openclaw and zeroclaw name theirs differently.
* `Render!AuxiliaryRendered`: every input is to have a line. An auxiliary opencode provider of
  hermes has none.
* `PiCredentials!DetachedIsClean`: with nothing attached there is to be no credential on the
  host. Two attaches both find the list empty, and the second replaces the first while a sync
  puts the first one's key on the host: the detach of the second, a Codex provider, removes
  the login only, and the key stays.

### History variables and what lies beyond them

The code makes no promise in these cases, and the properties do not either; each state
below is reachable in the model.

* `mixed` (`HostCommands`): two `create` at once, or an `apply`, can leave two hosts
  with one key_id, and a host without a keypair (create looks a name up, verifies SSH for
  seconds and then appends); two hosts can get one hostname by
  `set-primary`. `HostnameIsPrimary` holds nevertheless.
* `disturbed` (`Install`): a clean-up deletes what an unlocked read found incomplete,
  and a resume takes over what it found, even if that run is alive and finishes
  meanwhile; an attach or an onboarding step lands in a record that is set aside. The
  installer then reports success for a record that is gone or is someone else's.
* `wanted` and `readied` (`Install`): what an operator attached and completed. A process
  that dies before its `try` gives up what it had set aside (`LeaveInstalling`).
* `reset` (`Onboarding`): `initialize_onboarding` checks before it locks, and can
  write PENDING over a record that has moved on; a reinstall can pull the record from under a walk,
  and gives back what it has kept over what a walk has made since.
* `overlapped` (`Onboarding`): two walks at once can leave channels and validate
  pending on a READY agent, and a stale transition can take READY back; a walk that is
  alone repairs both.
* `raced`, `given_up` (`Lifecycle`): installing, or putting a secret or skill, while the
  agent is deleted leaves what was put; a forced delete leaves the host as it is, after
  a warning. From a `create --cleanup-failed` that has deleted the record until the agent
  is installed again ("failed" in `given_up`), what the failed installation has left on the
  host, and in `agents/<name>/`, is named by nothing; `DaemonRecorded` and `LeftoversRecorded`
  claim nothing there and everything again from that claim on. `fresh` is no history: it is the check of `hard_delete_agent`
  that the record is still the one it looked at.
* `misread` (`CodexOAuth`): a recovery that went by an old selection. The provider is
  then selected without a credential, or a detached one leaves its credential behind,
  which the next sync activates.
* `asked` (`CodexOAuth`): what a successful attach promised, up to the next attach,
  detach or direct write. A detach that is undone gives the document back but not the
  activation request, so the next sync succeeds and leaves the older credential on the
  host.
* `waived` (`CodexOAuth`): the operator removed the receipt of an interrupted
  activation, as `docs/operations/codex-oauth-recovery.md` says; a sync without the
  re-attach that should follow repeats the old request.
* `late`, `gone`, `forcedOff` (`Registries`): a command that stores a key after the
  registration it looked up was removed leaves it to the next one of the name; a name that
  is removed while attached and registered again as a singleton type gives an agent two of
  the type. `overtaken` in a rotation: somebody else wrote the credentials after it.
* `orphaned` (`Providers`): a removal that dies before the credential, the cascade of
  `delete -f`, the roll-back of a create in the GUI, and an API key the GUI kept for a type that has
  none, each leave a credential that a later provider of the name finds.
* `dropped` (`PiCredentials`): a detach of Codex that removed the login and did not finish
  leaves the selection without login and without mark.
* `alone` and `last` (`CanonicalSync`): two syncs at once, or a change of the attachments
  during one, leave the files of either; the next sync repairs them. The sections zeroclaw writes
  while a sync is between its read and its write are lost.
* `mixed` (`ClaudeCredential`): overlapping activations, or a configure that was cut off,
  can leave both files or neither; the next activation that ends well and alone repairs it.
* `calm`, `rivalled` (`Skills`): the list is read, changed and written without a lock, so
  of two commands at once one can be lost, and a kill leaves a name without a directory or the
  reverse. In the GUI a roll-back removes the directory of the name it was given,
  whoever made it: `added` are the skills with which nobody did.
* `calm`, `met` (`Server`): two starts at once can record a child that is about to exit;
  while another program answers on the port, a process that has got the number of a
  dead server is taken for the server, and `stop` signals it.
* `calm` (`Tunnel`): a command beside the GUI, or a close beside an ensure, can leave a tunnel no file
  names; it ends with its ssh. `NeverOther` holds without it.
* `disturbed` (`Manifest`): what others change during an apply is not in its plan. What is
  registered already for channels and integrations is planned each time and carried out by nobody.
* `lost` (`ChatSessions`): requests whose agent was replaced before their turn ended. A
  claude session is bound to no identity and goes on through a reinstall; pi serves an
  answer after a reinstall if no other request has superseded its session, and codex one
  that is superseded during the last look-up of the record. A first turn of claude or pi that times
  out keeps the identifier it made up, and the retry passes it again as a new one; a codex
  request that is cancelled while the look-up after its turn is awaited leaves the thread to
  be resumed.
* A record of kind "ghost" (`Lifecycle`): the runtime section of an agent that was
  removed while it was starting. No command finds it again. The chat token of ethos is
  kept under a key that removal does not clear (not modelled).

### Abstractions

Where a model takes several things of the code for one, beyond what the comments say:

* `Lifecycle` has one installation of its agent at a time; of two at once there is `Install`
  (`disturbed`). A clean-up that another create of the type runs is one of this agent.
* `Onboarding!InPlaceOf`: a stage that is refused because its transition is not permitted counts
  as a call that was passed over, also for `configure --stage`, which reports it.
* `HostCommands!CheckAlias`: `host alias` and `host edit --alias` are one case, and the two
  reads of a create that finds its name taken are one step.
* `CodexOAuth!SupplySecret` is `agent secret create` only: `agent secret delete` and `import`
  write the same entry in the same way, and the operator may do so by hand.
* `PiCredentials` has no reinstall of the agent, which would drop the recovery mark with the
  rest of the record.
* `Server!Record` and `Tunnel!Write` do not fail by themselves: a write that fails leaves the
  child running without a record, as a kill at that step does (`Killed`), and like it ends what
  `calm` claims.
* `Tunnel!Read`: the two reads of `ensure` (508 and 516), both under its lock, are one.
* `CanonicalSync!WriteEnv`: the write loop goes over the files in the order of the renderers'
  dictionary; the model fixes the environment file before the configuration.
* `ChatSessions!Fail` and `Unwind`: a turn that has failed, or was cancelled, is over here,
  though its command may run on the host a while longer (see `lost`).

### Not modelled

* Data: versions, hardware checks, addresses' labels, what a playbook does to a host
  beyond what its module names, the text of configuration files beyond the place of
  a credential. No property is about them. SSH and Ansible succeed or fail; either may take any time.
* macOS agents: the same writes of `hosts.json` with launchd on the other side.
* Memory transfers and remote commands (`core/memory.py`, `agent_exec.py`), apart from
  an inference with the Codex login of pi: copies over SSH that keep no state here.
* The chat backends of openclaw, zeroclaw, hermes and ethos, and the terminal's `chat`: clients of
  protocols whose servers are outside the repository, without a session that outlives them.
* A turn that still runs on a host that became unreachable, beside its retry: the
  repository has no handle on it.
* The other routes of the GUI: they call the functions of the command line, so a request is one
  more process; usage tracking, an append to an SQLite file in one transaction.
* Validation, health, the registry of agent types, terminal output: pure functions, or reads.
* The legacy command line (`cli/agent.py`, ...): not mounted by the entry point.
