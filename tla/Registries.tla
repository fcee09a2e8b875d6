------------------------------ MODULE Registries -------------------------------
(***************************************************************************)
(* The registry of integrations (integrations.json) and the registry of    *)
(* channels (channels.json): two copies of one protocol, told apart by     *)
(* `kind`, which never changes.  A registered name has its credentials in  *)
(* secrets.json, and agents refer to it by name in hosts.json; three files *)
(* under three locks, and no operation holds them all.                     *)
(*                                                                         *)
(* A command is a process in `cmd`: every read it acts on later and every  *)
(* write is a step of its own, and it may stop between any two.            *)
(***************************************************************************)
EXTENDS Naturals, FiniteSets

CONSTANTS
  Procs,       \* processes: clawctl commands and request handlers of the GUI
  NoProc,      \* nobody has the registry's lock
  Names,       \* names an integration or a channel may be registered under
  NoName,      \* the name of no command
  Agents,      \* the agents of hosts.json, none of which is added or removed
  Keys,        \* the credential keys of every type
  MaxRegs,     \* bound: registrations ever made
  MaxCommands  \* bound: commands ever begun

Kinds == {"integration", "channel"}
\* A type of SINGLETON_INTEGRATION_TYPES, which an agent may have once, and another.
Types == {"singleton", "plain"}
NoReg == 0
Regs == 1 .. MaxRegs
Absent == [type |-> "none", reg |-> NoReg]

ASSUME RegistriesAssumption ==
  /\ MaxRegs \in Nat /\ MaxCommands \in Nat
  /\ NoProc \notin Procs /\ NoName \notin Names

VARIABLES
  kind,      \* which of the two registries this is
  registry,  \* registry[n]: the record of n, with the registration that made it
  keys,      \* keys[n][k]: the registration credential k of n was written for, or NoReg
  attached,  \* attached[a]: the names agent a refers to
  holder,    \* who has the registry's lock between two steps
  fresh,     \* pairs <<a, n>>: the last sync of a read the present credentials of n
  cmd,       \* cmd[p]: the command process p runs
  begun,     \* commands begun (bounded by MaxCommands)
  made,      \* registrations made (bounded by MaxRegs)
  gone,      \* history: names ever removed
  forcedOff, \* history: names removed with --force, attached or not
  late       \* history: names with a credential written for a registration that was over

vars == <<kind, registry, keys, attached, holder, fresh, cmd, begun, made, gone, forcedOff, late>>
stored == <<registry, keys, fresh>>
history == <<gone, forcedOff, late>>

\* A command: where it is, the name it is about, what it read of its record, the
\* credentials it has yet to write, the agents it has yet to deal with, and whether a
\* sync of a rotation failed.
Idle == [op |-> "none", at |-> "idle", via |-> "cli", name |-> NoName, type |-> "none",
         reg |-> NoReg, supplied |-> {}, agents |-> {}, listed |-> {}, force |-> FALSE,
         failed |-> FALSE, overtaken |-> FALSE]

Commands == [op : {"none", "create", "edit", "rotate", "delete", "attach"},
             at : {"idle", "add", "list", "update", "keys", "sync", "check", "clear", "save",
                   "sweep", "look", "place"},
             via : {"cli", "gui"}, name : Names \cup {NoName}, type : Types \cup {"none"},
             reg : Regs \cup {NoReg}, supplied : SUBSET Keys, agents : SUBSET Agents,
             listed : SUBSET Agents, force : BOOLEAN, failed : BOOLEAN, overtaken : BOOLEAN]

TypeOK ==
  /\ kind \in Kinds
  /\ registry \in [Names -> [type : Types, reg : Regs] \cup {Absent}]
  /\ keys \in [Names -> [Keys -> Regs \cup {NoReg}]]
  /\ attached \in [Agents -> SUBSET Names]
  /\ holder \in Procs \cup {NoProc}
  /\ fresh \subseteq Agents \X Names
  /\ cmd \in [Procs -> Commands]
  /\ begun \in 0 .. MaxCommands /\ made \in 0 .. MaxRegs
  /\ holder # NoProc => cmd[holder].at \in {"clear", "save"}
  /\ gone \subseteq Names /\ forcedOff \subseteq gone /\ late \subseteq Names

NoKeys == [k \in Keys |-> NoReg]
Registered(n) == registry[n] # Absent
LockFree == holder = NoProc
\* find_agents_using_integration, find_agents_using_channel: hosts.json read without a lock.
AgentsUsing(n) == {a \in Agents : n \in attached[a]}

Init ==
  /\ kind \in Kinds
  /\ registry = [n \in Names |-> Absent]
  /\ keys = [n \in Names |-> NoKeys]
  /\ attached = [a \in Agents |-> {}]
  /\ holder = NoProc
  /\ fresh = {}
  /\ cmd = [p \in Procs |-> Idle]
  /\ begun = 0 /\ made = 0
  /\ gone = {} /\ forcedOff = {} /\ late = {}

(***************************************************************************)
(* Steps of a process.                                                     *)
(***************************************************************************)
On(p, label) == cmd[p].at = label
To(p, label) == cmd' = [cmd EXCEPT ![p].at = label]
Done(p) == cmd' = [cmd EXCEPT ![p] = Idle]
Begin(p, c) ==
  /\ On(p, "idle") /\ begun < MaxCommands
  /\ begun' = begun + 1
  /\ cmd' = [cmd EXCEPT ![p] = c]
  /\ UNCHANGED <<kind, stored, attached, holder, made, history>>

\* Mutant: the lock outlives its holder.
StopHolding(p) ==
  /\ ~ On(p, "idle")
  /\ Done(p)
  /\ UNCHANGED <<kind, stored, attached, holder, begun, made, history>>

\* A command ends before its work is done: it is interrupted or killed, or a write of
\* it fails (the zombie of remove_channel: credentials gone, record present).  Its lock
\* is released with it.
Stop(p) ==
  /\ ~ On(p, "idle")
  /\ Done(p)
  /\ holder' = IF holder = p THEN NoProc ELSE holder
  /\ UNCHANGED <<kind, stored, attached, begun, made, history>>

(***************************************************************************)
(* Create.  The command line looks the name up before it asks for the      *)
(* credentials, all of them for an integration; the GUI takes any of them. *)
(* Both add the record first and the credentials key by key after it.      *)
(***************************************************************************)
Create(p, via, n, t, ks) ==
  Begin(p, [Idle EXCEPT !.op = "create", !.at = "add", !.via = via, !.name = n, !.type = t,
                        !.supplied = ks])
BeginCreateIntegration(p) ==
  /\ kind = "integration"
  /\ \E n \in Names, t \in Types : ~ Registered(n) /\ Create(p, "cli", n, t, Keys)
BeginCreateChannel(p) ==
  /\ kind = "channel"
  /\ \E n \in Names, ks \in SUBSET Keys \ {{}} :
       ~ Registered(n) /\ Create(p, "cli", n, "plain", ks)
BeginCreateInGui(p) ==
  /\ kind = "integration"
  /\ \E n \in Names, t \in Types, ks \in SUBSET Keys : Create(p, "gui", n, t, ks)

\* add_integration, add_channel: the duplicate check and the append are under one lock.
Add(p) ==
  /\ On(p, "add") /\ LockFree /\ made < MaxRegs
  /\ IF Registered(cmd[p].name)
     THEN Done(p) /\ UNCHANGED <<registry, made>>
     ELSE /\ made' = made + 1
          /\ registry' = [registry EXCEPT ![cmd[p].name] =
                            [type |-> cmd[p].type, reg |-> made + 1]]
          /\ cmd' = [cmd EXCEPT ![p].at = "keys", ![p].reg = made + 1]
  /\ UNCHANGED <<kind, keys, fresh, attached, holder, begun, history>>
AddIntegration(p) == kind = "integration" /\ Add(p)
AddChannel(p) == kind = "channel" /\ Add(p)

(***************************************************************************)
(* The credentials, one write of secrets.json each.  A rotation of the     *)
(* same name hears (in its history) of every write that is not its own.    *)
(***************************************************************************)
Overtaking(p, next) ==
  [q \in Procs |-> IF q # p /\ cmd[q].op = "rotate" /\ cmd[q].name = cmd[p].name
                   THEN [cmd[q] EXCEPT !.overtaken = TRUE] ELSE next[q]]
StaleFor(n) == Agents \X {n}
\* The registration a command looked up is over, or its removal has cleared the
\* credentials and has only the record left to take out.
Over(n, reg) ==
  \/ registry[n].reg # reg
  \/ \E q \in Procs : cmd[q].op = "delete" /\ cmd[q].name = n /\ On(q, "save")

StoreKey(p) ==
  /\ On(p, "keys")
  /\ \E k \in cmd[p].supplied :
       /\ keys' = [keys EXCEPT ![cmd[p].name][k] = cmd[p].reg]
       /\ cmd' = Overtaking(p, [cmd EXCEPT ![p].supplied = @ \ {k}])
  /\ fresh' = fresh \ StaleFor(cmd[p].name)
  /\ late' = IF Over(cmd[p].name, cmd[p].reg) THEN late \cup {cmd[p].name} ELSE late
  /\ UNCHANGED <<kind, registry, attached, holder, begun, made, gone, forcedOff>>

\* The GUI reports a key it cannot store and goes on to the next.
SkipKey(p) ==
  /\ On(p, "keys") /\ cmd[p].via = "gui"
  /\ \E k \in cmd[p].supplied : cmd' = [cmd EXCEPT ![p].supplied = @ \ {k}]
  /\ UNCHANGED <<kind, stored, attached, holder, begun, made, history>>

KeysStored(p) ==
  /\ On(p, "keys") /\ cmd[p].supplied = {}
  /\ IF cmd[p].op = "rotate" /\ cmd[p].listed # {} THEN To(p, "sync") ELSE Done(p)
  /\ UNCHANGED <<kind, stored, attached, holder, begun, made, history>>

(***************************************************************************)
(* Edit, and the PATCH of the GUI, which does not touch the record.        *)
(***************************************************************************)
BeginEdit(p) ==
  \E n \in Names, ks \in SUBSET Keys \ {{}} :
    /\ Registered(n)
    /\ Begin(p, [Idle EXCEPT !.op = "edit", !.at = "update", !.name = n, !.supplied = ks])
EditIntegration(p) == kind = "integration" /\ BeginEdit(p)
EditChannel(p) == kind = "channel" /\ BeginEdit(p)
BeginPatchInGui(p) ==
  /\ kind = "integration"
  /\ \E n \in Names, ks \in SUBSET Keys :
       /\ Registered(n)
       /\ Begin(p, [Idle EXCEPT !.op = "edit", !.at = "keys", !.via = "gui", !.name = n,
                                !.reg = registry[n].reg, !.supplied = ks])

\* update_integration, update_channel.
Update(p) ==
  /\ On(p, "update") /\ LockFree
  /\ IF Registered(cmd[p].name)
     THEN cmd' = [cmd EXCEPT ![p].at = "keys", ![p].reg = registry[cmd[p].name].reg]
     ELSE Done(p)
  /\ UNCHANGED <<kind, stored, attached, holder, begun, made, history>>

(***************************************************************************)
(* Rotate: the agents are listed before the operator confirms, then the    *)
(* record and the credentials are written, then every listed agent is      *)
(* synced.  A failed sync is reported when the others are done.            *)
(***************************************************************************)
BeginRotate(p) ==
  /\ kind = "integration"
  /\ \E n \in Names, ks \in SUBSET Keys \ {{}} :
       /\ Registered(n)
       /\ Begin(p, [Idle EXCEPT !.op = "rotate", !.at = "list", !.name = n, !.supplied = ks])
ListAgents(p) ==
  /\ On(p, "list")
  /\ LET users == AgentsUsing(cmd[p].name) IN
     cmd' = [cmd EXCEPT ![p].at = "update", ![p].agents = users, ![p].listed = users]
  /\ UNCHANGED <<kind, stored, attached, holder, begun, made, history>>

\* sync_agent_canonical of agent a (CanonicalSync has its steps): what the agent gets
\* is what the credentials of everything attached to it are.
Synced(a) == fresh \cup ({a} \X attached[a])
\* Mutant: a sync that fails is printed and forgotten.
SyncListedQuietly(p) ==
  /\ On(p, "sync")
  /\ \E a \in cmd[p].agents :
       /\ fresh' \in {Synced(a), fresh}
       /\ cmd' = [cmd EXCEPT ![p].agents = @ \ {a}]
  /\ UNCHANGED <<kind, registry, keys, attached, holder, begun, made, history>>

SyncListed(p) ==
  /\ On(p, "sync")
  /\ \E a \in cmd[p].agents :
       \/ /\ fresh' = Synced(a)
          /\ cmd' = [cmd EXCEPT ![p].agents = @ \ {a}]
       \/ /\ cmd' = [cmd EXCEPT ![p].agents = @ \ {a}, ![p].failed = TRUE]
          /\ UNCHANGED fresh
  /\ UNCHANGED <<kind, registry, keys, attached, holder, begun, made, history>>

RotationEnds(p) ==
  /\ On(p, "sync") /\ cmd[p].agents = {}
  /\ Done(p)
  /\ UNCHANGED <<kind, stored, attached, holder, begun, made, history>>

\* `clawctl agent sync`, or the sync of the GUI, of one agent.
AgentSync(a) ==
  /\ fresh' = Synced(a)
  /\ UNCHANGED <<kind, registry, keys, attached, holder, cmd, begun, made, history>>

(***************************************************************************)
(* Delete.  Under the registry's lock, which attach does not take: the     *)
(* agents that use the name, the credentials, the record.  The command     *)
(* line then clears the credentials of an integration again, without it.   *)
(***************************************************************************)
Delete(p, via, force) ==
  \E n \in Names :
    /\ Registered(n)
    /\ Begin(p, [Idle EXCEPT !.op = "delete", !.at = "check", !.via = via, !.name = n,
                             !.force = force])
BeginDeleteIntegration(p) == kind = "integration" /\ \E force \in BOOLEAN : Delete(p, "cli", force)
BeginDeleteChannel(p) == kind = "channel" /\ \E force \in BOOLEAN : Delete(p, "cli", force)
BeginDeleteInGui(p) == kind = "integration" /\ Delete(p, "gui", FALSE)

\* Mutant: the record is removed first.
DeleteRecordFirst == <<"save", "clear">>
\* Credentials before the record, so that no later registration inherits them.
DeleteSteps == <<"clear", "save">>

CheckUse(p) ==
  /\ On(p, "check") /\ LockFree
  /\ IF ~ Registered(cmd[p].name) \/ (~ cmd[p].force /\ AgentsUsing(cmd[p].name) # {})
     THEN Done(p) /\ UNCHANGED holder
     ELSE holder' = p /\ To(p, DeleteSteps[1])
  /\ UNCHANGED <<kind, stored, attached, begun, made, history>>

\* After a step of the removal: the next one, or the lock is released.
AfterStep(p, label, next) ==
  IF label = DeleteSteps[1]
  THEN cmd' = [next EXCEPT ![p].at = DeleteSteps[2]] /\ UNCHANGED holder
  ELSE /\ holder' = NoProc
       /\ cmd' = IF kind = "integration" /\ cmd[p].via = "cli"
                 THEN [next EXCEPT ![p].at = "sweep"] ELSE [next EXCEPT ![p] = Idle]

Clear(n) ==
  /\ keys' = [keys EXCEPT ![n] = NoKeys]
  /\ fresh' = fresh \ StaleFor(n)
ClearKeys(p) ==
  /\ On(p, "clear")
  /\ Clear(cmd[p].name)
  /\ AfterStep(p, "clear", Overtaking(p, cmd))
  /\ UNCHANGED <<kind, registry, attached, begun, made, history>>

SaveWithout(p) ==
  /\ On(p, "save")
  /\ registry' = [registry EXCEPT ![cmd[p].name] = Absent]
  /\ gone' = gone \cup {cmd[p].name}
  /\ forcedOff' = IF cmd[p].force THEN forcedOff \cup {cmd[p].name} ELSE forcedOff
  /\ AfterStep(p, "save", cmd)
  /\ UNCHANGED <<kind, keys, fresh, attached, begun, made, late>>
RemoveIntegration(p) == kind = "integration" /\ SaveWithout(p)
RemoveChannel(p) == kind = "channel" /\ SaveWithout(p)

Sweep(p) ==
  /\ On(p, "sweep")
  /\ Clear(cmd[p].name)
  /\ cmd' = [Overtaking(p, cmd) EXCEPT ![p] = Idle]
  /\ UNCHANGED <<kind, registry, attached, holder, begun, made, history>>

(***************************************************************************)
(* Attach and detach.  The command looks the name up, add_agent_           *)
(* integration reads its type, and the update of hosts.json appends the    *)
(* name unless it is there, or is a second one of a singleton type, which  *)
(* the registry says as it is then.                                        *)
(***************************************************************************)
BeginAttach(p) ==
  \E n \in Names, a \in Agents :
    /\ Registered(n)
    /\ Begin(p, [Idle EXCEPT !.op = "attach", !.at = "look", !.name = n, !.agents = {a}])
AttachIntegration(p) == kind = "integration" /\ BeginAttach(p)
AttachChannel(p) == kind = "channel" /\ BeginAttach(p)

TargetType(p) ==
  /\ On(p, "look")
  /\ cmd' = [cmd EXCEPT ![p].at = "place", ![p].type = registry[cmd[p].name].type]
  /\ UNCHANGED <<kind, stored, attached, holder, begun, made, history>>

Conflicts(p, a) ==
  /\ kind = "integration" /\ cmd[p].type = "singleton"
  /\ \E m \in attached[a] : registry[m].type = cmd[p].type

Place(p) ==
  /\ On(p, "place")
  /\ Done(p)
  /\ attached' = [a \in Agents |->
       IF a \in cmd[p].agents /\ ~ Conflicts(p, a)
       THEN attached[a] \cup {cmd[p].name} ELSE attached[a]]
  /\ UNCHANGED <<kind, stored, holder, begun, made, history>>
AddAgentIntegration(p) == kind = "integration" /\ Place(p)
AddAgentChannel(p) == kind = "channel" /\ Place(p)

\* A rotation does not owe a sync to an agent that has been detached since it listed it.
Detach(a) ==
  /\ \E n \in attached[a] :
       /\ attached' = [attached EXCEPT ![a] = @ \ {n}]
       /\ cmd' = [q \in Procs |-> IF cmd[q].op = "rotate" /\ cmd[q].name = n
                                  THEN [cmd[q] EXCEPT !.listed = @ \ {a}] ELSE cmd[q]]
  /\ UNCHANGED <<kind, stored, holder, begun, made, history>>
DetachIntegration(a) == kind = "integration" /\ Detach(a)
DetachChannel(a) == kind = "channel" /\ Detach(a)

Next ==
  \/ \E p \in Procs :
       \/ BeginCreateIntegration(p) \/ BeginCreateChannel(p) \/ BeginCreateInGui(p)
       \/ AddIntegration(p) \/ AddChannel(p)
       \/ StoreKey(p) \/ SkipKey(p) \/ KeysStored(p)
       \/ EditIntegration(p) \/ EditChannel(p) \/ BeginPatchInGui(p) \/ Update(p)
       \/ BeginRotate(p) \/ ListAgents(p) \/ SyncListed(p) \/ RotationEnds(p)
       \/ BeginDeleteIntegration(p) \/ BeginDeleteChannel(p) \/ BeginDeleteInGui(p)
       \/ CheckUse(p) \/ ClearKeys(p) \/ RemoveIntegration(p) \/ RemoveChannel(p) \/ Sweep(p)
       \/ AttachIntegration(p) \/ AttachChannel(p) \/ TargetType(p)
       \/ AddAgentIntegration(p) \/ AddAgentChannel(p)
       \/ Stop(p)
  \/ \E a \in Agents : AgentSync(a) \/ DetachIntegration(a) \/ DetachChannel(a)

Spec == Init /\ [][Next]_vars

(***************************************************************************)
(* Properties.                                                             *)
(***************************************************************************)
\* A credential under a name is of the name's present registration: no interrupted or
\* concurrent removal leaves one that a later registration inherits.  What remains is a
\* command that stores a key after the registration it looked up was removed (`late`).
NothingInherited ==
  \A n \in Names, k \in Keys :
    keys[n][k] # NoReg /\ keys[n][k] # registry[n].reg => n \in late

\* An agent has at most one integration of a singleton type, whatever attaches at the same
\* time, as long as no name of it was removed and registered again as another type.
SingletonOnce ==
  \A a \in Agents : Cardinality({n \in attached[a] \ gone : registry[n].type = "singleton"}) <= 1

\* A rotation that reaches its end without a failed sync has given the new credentials to
\* every agent it listed that is still attached, unless somebody wrote them after it.
RotationComplete ==
  \A p \in Procs :
    On(p, "sync") /\ cmd[p].agents = {} /\ ~ cmd[p].failed /\ ~ cmd[p].overtaken
      => cmd[p].listed \X {cmd[p].name} \subseteq fresh

\* "Check if integration is in use INSIDE lock to prevent TOCTOU race where concurrent
\* add_agent_integration could assign between check and delete": a name removed without
\* --force is attached to no agent.
NoneDangling ==
  \A a \in Agents : \A n \in attached[a] : Registered(n) \/ n \in forcedOff
=============================================================================
