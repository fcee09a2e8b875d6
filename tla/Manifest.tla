-------------------------------- MODULE Manifest --------------------------------
(***************************************************************************)
(* `clawctl apply -f` and `clawctl delete -f` of one manifest, which       *)
(* declares a host, a provider and agents on that host.  A command reads   *)
(* the fleet from disk once (from_disk), computes a ChangeSet and works it *)
(* off in a fixed order of phases; a step that fails is reported at the    *)
(* end, and the next one is taken.  Other commands change the fleet        *)
(* meanwhile.                                                              *)
(*                                                                         *)
(* The manifest has passed parse_file, validate_refs and secret_preflight. *)
(***************************************************************************)
EXTENDS Naturals

CONSTANTS Agents,  \* the agents the manifest declares
          MaxRuns  \* bound: commands ever run

ManifestAssumption == MaxRuns \in Nat

\* zeroclaw, and any other.
Types == {"openclaw", "zeroclaw"}
\* Versions of an agent; a manifest need not ask for one, and gets the present one.
Versions == {"old", "new"}

VARIABLES
  doc,       \* doc[a]: what the manifest says of agent a
  hosts,     \* the declared host is in hosts.json
  providers, \* the declared provider is in providers.json
  fleet,     \* fleet[a]: the record of a in hosts.json
  actual,    \* actual.agents etc.: what the running command read
  todo,      \* todo[phase]: what of the ChangeSet is left
  errors,    \* the running command, or the one that ended last, had errors
  command,   \* the running command
  disturbed, \* history: somebody else wrote since it began
  last,      \* history: the command that ended last, undisturbed until now
  runs       \* commands run (bounded by MaxRuns)

vars == <<doc, hosts, providers, fleet, actual, todo, errors, command, disturbed, last, runs>>
registered == <<hosts, providers>>

Absent == [there |-> FALSE, version |-> "old", installed |-> FALSE, provider |-> FALSE,
           running |-> FALSE]
Records == [there : BOOLEAN, version : Versions, installed : BOOLEAN, provider : BOOLEAN,
            running : BOOLEAN]
Apply == <<"host", "provider", "install", "upgrade", "attach", "start", "restart">>
Delete == <<"stop", "cascade">>
Phases == {Apply[i] : i \in DOMAIN Apply} \cup {Delete[i] : i \in DOMAIN Delete}
Things == Agents \cup {"it"}
Nothing == [ph \in Phases |-> {}]

TypeOK ==
  /\ doc \in [Agents -> [type : Types, provider : BOOLEAN, version : Versions \cup {"any"},
                         autoStart : BOOLEAN]]
  /\ hosts \in BOOLEAN /\ providers \in BOOLEAN
  /\ fleet \in [Agents -> Records]
  /\ \A a \in Agents : ~ fleet[a].there => fleet[a] = Absent
  /\ actual \subseteq Agents
  /\ todo \in [Phases -> SUBSET Things]
  /\ errors \in BOOLEAN
  /\ command \in {"none", "apply", "delete"} /\ last \in {"none", "apply", "delete"}
  /\ disturbed \in BOOLEAN
  /\ command = "none" => todo = Nothing
  /\ runs \in 0 .. MaxRuns

\* An agent of the fleet, with or without a completed installation.
Fleets == {r \in Records : IF r.there THEN (r.installed \/ ~ r.running) ELSE r = Absent}

Init ==
  /\ doc \in [Agents -> [type : Types, provider : BOOLEAN, version : {"any", "new"},
                         autoStart : BOOLEAN]]
  /\ hosts = FALSE /\ providers = FALSE
  /\ fleet = [a \in Agents |-> Absent]
  /\ actual = {} /\ todo = Nothing /\ errors = FALSE
  /\ command = "none" /\ disturbed = FALSE /\ last = "none" /\ runs = 0

(***************************************************************************)
(* differ.py.  Channels and integrations, which from_disk finds never      *)
(* registered, are planned each time and carried out by nobody; so are all *)
(* detaches.                                                               *)
(***************************************************************************)
There == {a \in Agents : fleet[a].there}
ToUpgrade == {a \in There : doc[a].version # "any" /\ doc[a].version # fleet[a].version}
Changes ==
  [Nothing EXCEPT
    !["host"] = IF hosts THEN {} ELSE {"it"},
    !["provider"] = IF providers THEN {} ELSE {"it"},
    !["install"] = Agents \ There,
    !["upgrade"] = ToUpgrade,
    !["attach"] = {a \in Agents : doc[a].provider /\ ~ fleet[a].provider},
    !["start"] = {a \in Agents \ There : doc[a].autoStart},
    !["restart"] = ToUpgrade]

Begin(what, changes) ==
  /\ command = "none" /\ runs < MaxRuns
  /\ runs' = runs + 1
  /\ actual' = There /\ todo' = changes /\ errors' = FALSE
  /\ command' = what /\ disturbed' = FALSE /\ last' = "none"
  /\ UNCHANGED <<doc, registered, fleet>>
BeginApply == Begin("apply", Changes)
BeginDelete ==
  /\ There # {}
  /\ \E cascade \in BOOLEAN :
       Begin("delete", [Nothing EXCEPT !["stop"] = There, !["cascade"] = IF cascade THEN {"it"} ELSE {}])

(***************************************************************************)
(* executor.py: one step per entry, in the order of the phases.            *)
(***************************************************************************)
Before(order, ph) ==
  {order[i] : i \in {j \in DOMAIN order : \A k \in 1 .. j : order[k] # ph}}
Due(ph, x) ==
  /\ x \in todo[ph]
  /\ \A q \in IF ph \in {"stop", "cascade"} THEN Before(Delete, ph) ELSE Before(Apply, ph) :
       todo[q] = {}
Tick(ph, x) == todo' = [todo EXCEPT ![ph] = @ \ {x}]
Ok == UNCHANGED errors
Failed == errors' = TRUE

\* add_host and the key of bootstrap, add_provider: a duplicate is no error.
CreateHost ==
  /\ Due("host", "it") /\ Tick("host", "it")
  /\ \/ hosts' = TRUE /\ errors' \in {errors, TRUE}
     \/ UNCHANGED hosts /\ Failed
  /\ UNCHANGED <<doc, providers, fleet, actual, command, disturbed, last, runs>>
CreateProvider ==
  /\ Due("provider", "it") /\ Tick("provider", "it")
  /\ \/ providers' = TRUE /\ Ok
     \/ UNCHANGED providers /\ Failed
  /\ UNCHANGED <<doc, hosts, fleet, actual, command, disturbed, last, runs>>

\* run_installation: the record is written first, and the version with it.
Wanted(a) == IF doc[a].version = "any" THEN "new" ELSE doc[a].version
Recorded(a, done) ==
  [fleet EXCEPT ![a].there = TRUE, ![a].installed = done, ![a].version = Wanted(a)]
\* Mutant: an installation that fails is reported by nobody.
InstallsQuietly(a) ==
  /\ \/ hosts /\ fleet' = Recorded(a, TRUE)
     \/ UNCHANGED fleet
  /\ Ok
Installs(a) ==
  \/ hosts /\ fleet' = Recorded(a, TRUE) /\ Ok
  \/ hosts /\ fleet' = Recorded(a, FALSE) /\ Failed
  \/ UNCHANGED fleet /\ Failed
InstallAgent(a) ==
  /\ Due("install", a) /\ Tick("install", a)
  /\ Installs(a)
  /\ UNCHANGED <<doc, registered, actual, command, disturbed, last, runs>>
\* The same with --force.
UpgradeAgent(a) ==
  /\ Due("upgrade", a) /\ Tick("upgrade", a)
  /\ Installs(a)
  /\ UNCHANGED <<doc, registered, actual, command, disturbed, last, runs>>

\* configure_agent with no settings but the name of the provider, which it strips like
\* any other.  zeroclaw insists on the port of its gateway.
ConfigureProvider(a) ==
  /\ Due("attach", a) /\ Tick("attach", a)
  /\ \/ a \in actual /\ fleet[a].installed /\ doc[a].type # "zeroclaw" /\ Ok
     \/ Failed
  /\ UNCHANGED fleet
  /\ UNCHANGED <<doc, registered, actual, command, disturbed, last, runs>>

\* start_agent and restart_agent of an agent that was there when the command began.
Launch(ph, a) ==
  /\ Due(ph, a) /\ Tick(ph, a)
  /\ \/ /\ a \in actual /\ fleet[a].installed
        /\ fleet' = [fleet EXCEPT ![a].running = TRUE] /\ Ok
     \/ /\ fleet' \in {fleet, [fleet EXCEPT ![a].running = FALSE]}
        /\ Failed
  /\ UNCHANGED <<doc, registered, actual, command, disturbed, last, runs>>
StartAgent(a) == Launch("start", a)
RestartAgent(a) == Launch("restart", a)

\* The daemon is stopped, or not; then the agent is removed, or not.
StopAndRemove(a) ==
  /\ Due("stop", a) /\ Tick("stop", a)
  /\ \/ fleet[a].there /\ fleet' = [fleet EXCEPT ![a] = Absent] /\ errors' \in {errors, TRUE}
     \/ fleet' \in {fleet, [fleet EXCEPT ![a].running = FALSE]} /\ Failed
  /\ UNCHANGED <<doc, registered, actual, command, disturbed, last, runs>>
Cascade ==
  /\ Due("cascade", "it") /\ Tick("cascade", "it")
  /\ \/ providers /\ providers' = FALSE /\ Ok
     \/ UNCHANGED providers /\ errors' \in {errors, TRUE}
  /\ UNCHANGED <<doc, hosts, fleet, actual, command, disturbed, last, runs>>

\* The command reports its errors and ends, or is killed.
End ==
  /\ command # "none" /\ todo = Nothing
  /\ command' = "none"
  /\ last' = IF disturbed THEN "none" ELSE command
  /\ UNCHANGED <<doc, registered, fleet, actual, todo, errors, disturbed, runs>>
Killed ==
  /\ command # "none"
  /\ command' = "none" /\ todo' = Nothing
  /\ UNCHANGED <<doc, registered, fleet, actual, errors, disturbed, last, runs>>

\* Any other command of clawctl or the GUI, on an agent or on what the manifest registers.
OtherCommand ==
  /\ disturbed' = TRUE /\ last' = "none"
  /\ \/ \E a \in Agents, record \in Fleets :
          hosts /\ fleet' = [fleet EXCEPT ![a] = record] /\ UNCHANGED registered
     \/ hosts' \in BOOLEAN /\ (There # {} => hosts') /\ UNCHANGED <<providers, fleet>>
     \/ providers' \in BOOLEAN /\ UNCHANGED <<hosts, fleet>>
  /\ UNCHANGED <<doc, actual, todo, errors, command, runs>>

Next ==
  \/ BeginApply \/ BeginDelete
  \/ CreateHost \/ CreateProvider \/ Cascade
  \/ \E a \in Agents : \/ InstallAgent(a) \/ UpgradeAgent(a) \/ ConfigureProvider(a)
                       \/ StartAgent(a) \/ RestartAgent(a) \/ StopAndRemove(a)
  \/ End \/ Killed \/ OtherCommand

Spec == Init /\ [][Next]_vars

(***************************************************************************)
(* Properties.                                                             *)
(***************************************************************************)
\* A command that ended without an error, and that nobody disturbed, has done what it
\* planned: the next apply finds nothing to create and nothing to upgrade, and what a
\* delete found is gone.
Settles ==
  /\ last = "apply" /\ ~ errors =>
       hosts /\ providers /\ There = Agents /\ ToUpgrade = {} /\ \A a \in Agents \ actual : fleet[a].installed
  /\ last = "delete" /\ ~ errors => There = {}

\* "reconciles the actual state of your fleet to match the declared desired state": after
\* an apply that reports no error every agent has the provider the manifest names.
Reconciled ==
  last = "apply" /\ ~ errors => \A a \in Agents : doc[a].provider => fleet[a].provider
=============================================================================
