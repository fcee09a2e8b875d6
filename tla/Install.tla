-------------------------------- MODULE Install --------------------------------
(***************************************************************************)
(* run_installation (core/install.py): the agents of one host are          *)
(* installed, reinstalled, cleaned up and resumed by several processes,    *)
(* each of which runs Ansible for minutes between its locked writes of     *)
(* hosts.json.  What an operator may do to the same records meanwhile      *)
(* (attach and detach providers, channels, integrations and skills, finish *)
(* the onboarding, set a secret, remove the agent) is one step each here.  *)
(*                                                                         *)
(* The types share one pool of gateway ports, as openclaw and zeroclaw do; *)
(* hermes and ethos pick theirs in the same way from pools of their own.   *)
(* Which port the hash of the name probes first is abstracted: any free    *)
(* port may be picked.                                                     *)
(***************************************************************************)
EXTENDS Naturals, FiniteSets

CONSTANTS
  Procs,      \* processes running run_installation
  Names,      \* agent names
  Types,      \* agent types
  Ports,      \* the window gateway ports are picked from
  Items,      \* what can be attached to an agent
  Providers,  \* the attachable things that are model providers
  AnyName,    \* the name argument None: run_installation makes one up
  NoPort,     \* a record without a port
  MaxCommands \* bound: commands begun, installations and the operator's others

ASSUME InstallAssumption ==
  /\ AnyName \notin Names
  /\ NoPort \notin Ports
  /\ Providers \subseteq Items
  /\ MaxCommands \in Nat

VARIABLES
  agents,    \* agents[n]: the record of n in hosts.json, status "none" without one
  secrets,   \* secrets.json: the instance keys <<type, name>> that have an entry
  run,       \* run[p]: the installation process p is in
  wanted,    \* history: wanted[n], what the operator has attached to n since its
             \* record was last removed; what an installer that dies has not
             \* given back is given up
  disturbed, \* history: the names whose record was not, at a write of a run, what
             \* the run took it for: touched by others while an installer held
             \* it, installed since it was found to be resumed, or configured
             \* without having been installed
  readied,   \* history: the names whose onboarding was completed, and neither
             \* started again nor removed since
  begun      \* commands begun (bounded by MaxCommands)

vars == <<agents, secrets, run, wanted, disturbed, readied, begun>>
history == <<wanted, disturbed, readied>>

Keys == Types \X Names
None == [status |-> "none", type |-> "none", attached |-> {},
         onboarding |-> "none", port |-> NoPort]
Onboardings == {"none", "pending", "ready"}
Records == [status : {"none", "installing", "installed", "failed"},
            type : Types \cup {"none"}, attached : SUBSET Items,
            onboarding : Onboardings, port : Ports \cup {NoPort}]

(***************************************************************************)
(* A run: the arguments, the incomplete records found at its start, and    *)
(* what set_installing kept in memory of the record it wiped.              *)
(***************************************************************************)
Idle == [step |-> "idle", mode |-> "plain", type |-> "none", name |-> AnyName,
         found |-> {}, loaded |-> {}, kept |-> {}, keptOnboarding |-> "none",
         port |-> NoPort]
Runs == [step : {"idle", "cleanup", "load", "save", "claim", "play",
                 "attach", "check", "init"},
         mode : {"plain", "cleanup", "resume"}, type : Types \cup {"none"},
         name : Names \cup {AnyName}, found : SUBSET Names, loaded : SUBSET Keys,
         kept : SUBSET Items, keptOnboarding : Onboardings,
         port : Ports \cup {NoPort}]

Init ==
  /\ agents = [n \in Names |-> None]
  /\ secrets = {}
  /\ run = [p \in Procs |-> Idle]
  /\ wanted = [n \in Names |-> {}]
  /\ disturbed = {}
  /\ readied = {}
  /\ begun = 0

-----------------------------------------------------------------------------
Present(n) == agents[n].status # "none"

\* _get_incomplete_installation_details.
Incomplete(type) ==
  {n \in Names : agents[n].type = type /\ agents[n].status \in {"installing", "failed"}}

Installing(type) == {n \in Incomplete(type) : agents[n].status = "installing"}

\* The Ansible run of p goes on: from set_installing to set_installed or set_failed.
Holds(p, n) == run[p].step = "play" /\ run[p].name = n
HeldByOthers(p, names) == {n \in names : \E q \in Procs \ {p} : Holds(q, n)}
Held(n) == \E p \in Procs : Holds(p, n)

Command == begun < MaxCommands /\ begun' = begun + 1

Go(p, step) == run' = [run EXCEPT ![p].step = step]
End(p) == run' = [run EXCEPT ![p] = Idle]

Forgotten(names) ==
  /\ wanted' = [n \in Names |-> IF n \in names THEN {} ELSE wanted[n]]
  /\ readied' = readied \ names

-----------------------------------------------------------------------------
(***************************************************************************)
(* The validation and the first, unlocked, read of the host.  A resume is  *)
(* refused when more than one installation, or a failed one, is found, and *)
(* takes the name of the one it finds.                                     *)
(***************************************************************************)
Start(p, type, name, mode) ==
  LET found == Incomplete(type) IN
  /\ run[p] = Idle
  /\ Command
  /\ mode = "resume" /\ found # {} =>
       /\ Cardinality(found) = 1
       /\ found = Installing(type)
       /\ name \in found
  /\ run' = [run EXCEPT ![p] = [Idle EXCEPT
               !.step = IF mode = "cleanup" /\ found # {} THEN "cleanup" ELSE "claim",
               !.mode = mode, !.type = type, !.name = name,
               !.found = IF mode = "cleanup" THEN found ELSE {}]]
  /\ UNCHANGED <<agents, secrets, history>>

-----------------------------------------------------------------------------
(***************************************************************************)
(* cleanup_failed: the records found incomplete at the start are removed,  *)
(* whatever they have become since, and then their secrets, in a load and  *)
(* a save that take the secrets lock apart from each other.                *)
(***************************************************************************)
CleanUp(p) ==
  /\ run[p].step = "cleanup"
  /\ agents' = [n \in Names |-> IF n \in run[p].found THEN None ELSE agents[n]]
  /\ Go(p, "load")
  /\ disturbed' = disturbed \cup HeldByOthers(p, run[p].found)
  /\ Forgotten(run[p].found)
  /\ UNCHANGED <<secrets, begun>>

FoundKeys(p) == {run[p].type} \X run[p].found

LoadSecrets(p) ==
  /\ run[p].step = "load"
  /\ run' = [run EXCEPT ![p].step = IF FoundKeys(p) \cap secrets # {} THEN "save" ELSE "claim",
                        ![p].loaded = secrets]
  /\ UNCHANGED <<agents, secrets, history, begun>>

SaveSecrets(p) ==
  /\ run[p].step = "save"
  /\ secrets' = run[p].loaded \ FoundKeys(p)
  /\ run' = [run EXCEPT ![p].step = "claim", ![p].loaded = {}]
  /\ UNCHANGED <<agents, history, begun>>

\* Failing to read or to write the secrets is only a warning.
SecretsFail(p) ==
  /\ run[p].step \in {"load", "save"}
  /\ run' = [run EXCEPT ![p].step = "claim", ![p].loaded = {}]
  /\ UNCHANGED <<agents, secrets, history, begun>>

-----------------------------------------------------------------------------
(***************************************************************************)
(* set_installing, under the hosts lock.  What it refuses is an            *)
(* InstallationError that changes nothing (Stop).                          *)
(***************************************************************************)
\* Mutant: only the agent that was named is looked at.
NoneInstallingThere(p) ==
  run[p].mode = "plain" => run[p].name \notin Installing(run[p].type)

NoneInstalling(p) == run[p].mode = "plain" => Installing(run[p].type) = {}

NameAccepted(p, n) ==
  IF run[p].mode = "resume" THEN Present(n)
  ELSE IF run[p].name = AnyName THEN ~Present(n)
  ELSE agents[n].status # "installing"

\* Mutant: only installed agents count as users of their ports.
UnusedByInstalled(n) ==
  Ports \ {agents[m].port : m \in {o \in Names \ {n} : agents[o].status = "installed"}}

\* _pick_per_instance_port: the port the record had, when it is kept, else one
\* that no other agent of the host has.
Unused(n) == Ports \ {agents[m].port : m \in Names \ {n}}
Pickable(p, n) ==
  IF run[p].mode # "cleanup" /\ agents[n].port # NoPort THEN {agents[n].port}
                                                        ELSE Unused(n)

\* What set_installing makes of the record of an installation that is resumed, and
\* of any other.  The onboarding comes back with the success, not here.
Resumed(record, type, port) ==
  [record EXCEPT !.status = "installing", !.type = type, !.port = port]

Wiped(record, type, port) ==
  [None EXCEPT !.status = "installing", !.type = type, !.port = port]

Claim(p, n, port) ==
  LET old  == agents[n]
      kept == run[p].mode = "plain" /\ Present(n)
  IN
  /\ run[p].step = "claim"
  /\ run[p].name \in {n, AnyName}
  /\ NoneInstalling(p)
  /\ NameAccepted(p, n)
  /\ port \in Pickable(p, n)
  /\ agents' = [agents EXCEPT ![n] =
       IF run[p].mode = "resume"
         THEN Resumed(old, run[p].type, port)
         ELSE Wiped(old, run[p].type, port)]
  /\ run' = [run EXCEPT ![p].step = "play", ![p].name = n, ![p].port = port,
                        ![p].found = {},
                        ![p].kept = IF kept THEN old.attached ELSE {},
                        ![p].keptOnboarding = IF kept THEN old.onboarding ELSE "none"]
  /\ disturbed' =
       IF run[p].mode = "resume" /\ (old.status # "installing" \/ HeldByOthers(p, {n}) # {})
         THEN disturbed \cup {n} ELSE disturbed
  /\ IF run[p].mode = "cleanup" THEN Forgotten({n}) ELSE UNCHANGED <<wanted, readied>>
  /\ UNCHANGED <<secrets, begun>>

-----------------------------------------------------------------------------
(***************************************************************************)
(* The ways an Ansible run ends.                                           *)
(***************************************************************************)
\* The record as set_installed and set_failed leave the attachments: the lists
\* kept from before the wipe replace the ones there are (an absent list is not
\* written, and neither is an empty one in this abstraction).
Reattached(record, kept) ==
  IF kept = {} THEN record ELSE [record EXCEPT !.attached = kept]

\* set_installed.  gateway: the record gets a gateway section of this run, the
\* captured one or, on the skip path, the one kept.  A record that is gone stays
\* gone, and the run is reported as a success all the same.
SetInstalled(p, gateway) ==
  LET n   == run[p].name
      was == Reattached(agents[n], run[p].kept)
  IN
  /\ run[p].step = "play"
  /\ agents' = IF ~Present(n) THEN agents
               ELSE [agents EXCEPT ![n] =
                      [was EXCEPT
                         !.status = "installed", !.type = run[p].type,
                         !.onboarding = IF run[p].keptOnboarding # "none"
                                          THEN run[p].keptOnboarding ELSE was.onboarding,
                         !.port = IF gateway THEN run[p].port ELSE was.port]]
  /\ \/ Go(p, "check")
     \/ Go(p, "attach")    \* openclaw, with --provider
  /\ UNCHANGED <<secrets, history, begun>>

\* Mutant: the failure path does not give the attachments back.
SetFailedBare(p) ==
  /\ run[p].step = "play"
  /\ agents' = [agents EXCEPT ![run[p].name] =
                  [@ EXCEPT !.status = "failed", !.type = run[p].type]]
  /\ End(p)
  /\ UNCHANGED <<secrets, history, begun>>

\* set_failed: a playbook fails, or set_installed cannot be written.
SetFailed(p) ==
  LET n == run[p].name IN
  /\ run[p].step = "play"
  /\ agents' = [agents EXCEPT ![n] =
                  [Reattached(@, run[p].kept) EXCEPT
                     !.status = "failed", !.type = run[p].type]]
  /\ End(p)
  /\ UNCHANGED <<secrets, history, begun>>

\* An error before the `try` (no SSH key, the openclaw pre-render), or the death
\* of the process: the record stays "installing" and what was kept is lost.
LeaveInstalling(p) ==
  /\ run[p].step = "play"
  /\ End(p)
  /\ wanted' = [wanted EXCEPT ![run[p].name] = agents[run[p].name].attached]
  /\ UNCHANGED <<agents, secrets, disturbed, readied, begun>>

-----------------------------------------------------------------------------
(***************************************************************************)
(* After the success: the provider of openclaw, and the onboarding record. *)
(***************************************************************************)
AttachProvider(p, item) ==
  LET n == run[p].name
      new == (agents[n].attached \ Providers) \cup {item}
  IN
  /\ run[p].step = "attach"
  /\ IF Present(n)
       THEN /\ agents' = [agents EXCEPT ![n].attached = new]
            /\ wanted' = [wanted EXCEPT ![n] = (@ \ Providers) \cup {item}]
            /\ disturbed' = disturbed \cup HeldByOthers(p, {n})
       ELSE UNCHANGED <<agents, wanted, disturbed>>
  /\ Go(p, "check")
  /\ UNCHANGED <<secrets, readied, begun>>

\* initialize_onboarding: nothing to do when there is an onboarding record (or no
\* agent any more) at this read; otherwise one is written, whatever is there by then.
CheckOnboarding(p) ==
  LET n == run[p].name IN
  /\ run[p].step = "check"
  /\ IF Present(n) /\ agents[n].onboarding = "none" THEN Go(p, "init") ELSE End(p)
  /\ UNCHANGED <<agents, secrets, history, begun>>

InitOnboarding(p) ==
  LET n == run[p].name IN
  /\ run[p].step = "init"
  /\ agents' = IF Present(n) THEN [agents EXCEPT ![n].onboarding = "pending"] ELSE agents
  /\ disturbed' = IF agents[n].status # "installed" THEN disturbed \cup {n} ELSE disturbed
  /\ readied' = readied \ {n}
  /\ End(p)
  /\ UNCHANGED <<secrets, wanted, begun>>

\* A refusal, a failed write or the death of the process, outside Ansible's run.
Stop(p) ==
  /\ run[p].step \notin {"idle", "play"}
  /\ End(p)
  /\ UNCHANGED <<agents, secrets, history, begun>>

-----------------------------------------------------------------------------
(***************************************************************************)
(* The operator's other commands, each a locked update of one file.        *)
(***************************************************************************)
Attach(n, item) ==
  /\ Command
  /\ Present(n)
  /\ agents' = [agents EXCEPT ![n].attached = @ \cup {item}]
  /\ wanted' = [wanted EXCEPT ![n] = @ \cup {item}]
  /\ disturbed' = IF Held(n) THEN disturbed \cup {n} ELSE disturbed
  /\ UNCHANGED <<secrets, run, readied>>

Detach(n, item) ==
  /\ Command
  /\ Present(n)
  /\ agents' = [agents EXCEPT ![n].attached = @ \ {item}]
  /\ wanted' = [wanted EXCEPT ![n] = @ \ {item}]
  /\ disturbed' = IF Held(n) THEN disturbed \cup {n} ELSE disturbed
  /\ UNCHANGED <<secrets, run, readied>>

\* `agent configure` on an agent without an onboarding record makes one.
OpenOnboarding(n) ==
  /\ Command
  /\ Present(n)
  /\ agents[n].onboarding = "none"
  /\ agents' = [agents EXCEPT ![n].onboarding = "pending"]
  /\ disturbed' = IF agents[n].status # "installed" THEN disturbed \cup {n} ELSE disturbed
  /\ UNCHANGED <<secrets, run, wanted, readied>>

\* The last stage of the onboarding (module Onboarding has the stages).
FinishOnboarding(n) ==
  /\ Command
  /\ agents[n].onboarding = "pending"
  /\ agents' = [agents EXCEPT ![n].onboarding = "ready"]
  /\ readied' = readied \cup {n}
  /\ UNCHANGED <<secrets, run, wanted, disturbed>>

\* Mutant: the entry is stored under the name alone.
SetSecretByName(n) ==
  /\ Command
  /\ Present(n)
  /\ secrets' = secrets \cup {n}
  /\ UNCHANGED <<agents, run, history>>

SetSecret(n) ==
  /\ Command
  /\ Present(n)
  /\ secrets' = secrets \cup {<<agents[n].type, n>>}
  /\ UNCHANGED <<agents, run, history>>

\* remove_instance_secrets and remove_agent_from_host, the end of agent removal.
Remove(n) ==
  /\ Command
  /\ Present(n)
  /\ agents' = [agents EXCEPT ![n] = None]
  /\ secrets' = secrets \ {<<agents[n].type, n>>}
  /\ disturbed' = IF Held(n) THEN disturbed \cup {n} ELSE disturbed
  /\ Forgotten({n})
  /\ UNCHANGED run

-----------------------------------------------------------------------------
Next ==
  \/ \E p \in Procs :
       \/ \E type \in Types, name \in Names \cup {AnyName},
             mode \in {"plain", "cleanup", "resume"} : Start(p, type, name, mode)
       \/ CleanUp(p) \/ LoadSecrets(p) \/ SaveSecrets(p) \/ SecretsFail(p)
       \/ \E n \in Names, port \in Ports : Claim(p, n, port)
       \/ \E gateway \in BOOLEAN : SetInstalled(p, gateway)
       \/ SetFailed(p) \/ LeaveInstalling(p)
       \/ \E item \in Providers : AttachProvider(p, item)
       \/ CheckOnboarding(p) \/ InitOnboarding(p)
       \/ Stop(p)
  \/ \E n \in Names :
       \/ \E item \in Items : Attach(n, item) \/ Detach(n, item)
       \/ OpenOnboarding(n) \/ FinishOnboarding(n) \/ SetSecret(n) \/ Remove(n)

Spec == Init /\ [][Next]_vars
-----------------------------------------------------------------------------
TypeOK ==
  /\ agents \in [Names -> Records]
  /\ secrets \subseteq Keys
  /\ run \in [Procs -> Runs]
  /\ wanted \in [Names -> SUBSET Items]
  /\ disturbed \subseteq Names
  /\ readied \subseteq Names
  /\ begun \in 0 .. MaxCommands

\* While Ansible runs for an agent whose record nobody else touches, the record
\* says so: it is there, "installing", with the type and the port of the run.  So
\* every other plain installation of the type is refused until the end.
RecordHeld ==
  \A p \in Procs : run[p].step = "play" /\ run[p].name \notin disturbed =>
    LET record == agents[run[p].name] IN
      /\ record.status = "installing"
      /\ record.type = run[p].type
      /\ record.port = run[p].port

\* Two installations that nobody told to clean up or to resume never run for one
\* agent type at once ("IncompleteInstallationError"), as long as the records of
\* both are left alone.
OneInstaller ==
  \A p, q \in Procs :
    /\ run[p].step = "play" /\ run[q].step = "play"
    /\ run[p].type = run[q].type
    /\ run[p].mode = "plain" /\ run[q].mode = "plain"
    /\ {run[p].name, run[q].name} \cap disturbed = {}
    => p = q

\* The installations of a type follow one another, each with its record to itself.
Exclusive == RecordHeld /\ OneInstaller

\* No two agents of a host listen on the same port, however installations,
\* reinstallations, clean-ups and removals interleave, unless the record was taken
\* from under a running installation (whose late write then brings back its port).
PortsDistinct ==
  \A m, n \in Names \ disturbed :
    m # n /\ agents[m].port # NoPort => agents[m].port # agents[n].port

\* Whether it succeeds or fails, an installation gives back what was attached
\* before it ("attachments are user config that must survive even a failed
\* upgrade") and nothing the operator had detached.
AttachmentsKept ==
  \A n \in Names \ disturbed :
    agents[n].status \in {"installed", "failed"} => agents[n].attached = wanted[n]

\* A failed installation is never taken for an agent that is ready to start ("to
\* prevent status='failed' + onboarding='ready'").
FailedNotReady ==
  \A n \in Names \ disturbed : agents[n].status = "failed" => agents[n].onboarding # "ready"

\* What a failure keeps and what it must not keep of the record before it.
FailureKeeps == AttachmentsKept /\ FailedNotReady

\* The claim of set_installing that a reinstall over an installed or a failed
\* agent preserves the onboarding.
OnboardingSurvives ==
  \A n \in readied \ disturbed :
    agents[n].status = "installed" => agents[n].onboarding = "ready"

\* The claim of save_secrets that its lock prevents concurrent write races: an entry
\* of secrets.json goes only with its agent, not by somebody else's clean-up.
SecretsSurvive ==
  [][\A key \in secrets \ secrets' : agents'[key[2]].type # key[1]]_vars
=============================================================================
