------------------------------- MODULE Lifecycle -------------------------------
(***************************************************************************)
(* The life of one zeroclaw agent (core/lifecycle.py): it is installed,    *)
(* started, stopped, restarted, configured, synced, given secrets and      *)
(* skills, deleted and, when its host cannot be cleaned up, forgotten.  A  *)
(* command is a list of steps, each a playbook, a read or a locked write;  *)
(* between two steps other processes go on, and each may be the last.      *)
(*                                                                         *)
(* The bearer of the zeroclaw gateway is minted by its daemon when it is   *)
(* paired (tasks/pair.yaml) and kept in hosts.json.  The daemon remembers  *)
(* whom it paired with until its home is removed, and once it has been     *)
(* paired it pairs again only with who shows a bearer of it.  The other    *)
(* types of agents take the same steps without the pairing.                *)
(***************************************************************************)
EXTENDS Naturals, Sequences

CONSTANTS
  Procs,       \* processes running clawctl
  NoBearer,    \* an agent record without a gateway bearer
  MaxBearers,  \* bound: bearers the daemon mints
  MaxCommands  \* bound: commands begun

Bearers == 1 .. MaxBearers

LifecycleAssumption ==
  /\ MaxBearers \in Nat
  /\ MaxCommands \in Nat
  /\ NoBearer \notin Bearers

VARIABLES
  record,    \* agents[n] in hosts.json
  local,     \* what is kept of the agent besides: its entry of secrets.json
             \* ("secrets") and its agents/<name>/ directory ("state")
  daemon,    \* the agent on its host
  run,       \* run[p]: the command process p is in
  fresh,     \* the processes whose look at the record is still what it says
  minted,    \* how many bearers the daemon has minted (bounded by MaxBearers)
  raced,     \* history: what has run at the same time as a delete
  given_up,  \* history: "host" when the record was deleted although the host could
             \* not be cleaned up, "local" when secrets or state could not; and
             \* "failed" from when `create --cleanup-failed` has deleted it until
             \* the agent is installed again
  begun      \* commands begun (bounded by MaxCommands)

vars == <<record, local, daemon, run, fresh, minted, raced, given_up, begun>>
history == <<raced, given_up>>

(***************************************************************************)
(* The kind of a record is its status.  A "ghost" has only what a late     *)
(* write left, neither status nor type, a "bare" one the type by which     *)
(* every command finds it.                                                 *)
(***************************************************************************)
Records == [kind : {"none", "ghost", "bare", "installing", "failed", "installed"},
            runtime : {"none", "running", "stopped"},
            onboarding : {"none", "pending", "ready"}, auth : Bearers \cup {NoBearer}]
NoRecord == [kind |-> "none", runtime |-> "none", onboarding |-> "none", auth |-> NoBearer]
Typed == record.kind \notin {"none", "ghost"}
Incomplete == record.kind \in {"installing", "failed"}

\* The systemd unit, the home with the binary and devices.db, the process, and the
\* bearers in devices.db.
Daemons == [unit : BOOLEAN, home : BOOLEAN, running : BOOLEAN, paired : SUBSET Bearers]
NoDaemon == [unit |-> FALSE, home |-> FALSE, running |-> FALSE, paired |-> {}]
OnHost == daemon.unit \/ daemon.home \/ daemon.running

-----------------------------------------------------------------------------
(***************************************************************************)
(* The commands and their steps.                                           *)
(***************************************************************************)
InstallSteps   == <<"claim", "place", "installed">>
AnewSteps      == <<"claim anew", "place", "installed">>
CleanSteps     == <<"clean", "clean secrets">>
CleanAnewSteps == <<"clean", "clean secrets", "claim anew", "place", "installed">>
StartSteps     == <<"gate", "start", "running", "bearer", "pair", "token">>
StopSteps      == <<"stop", "stopped">>
SyncSteps      == <<"probe", "reload", "bearer", "pair", "token", "ready">>
ConfigureSteps == <<"bearer", "probe", "reload", "pair", "config", "ready">>

\* Mutant: the record is removed before the host is cleaned up.
RecordFirst(running) ==
  (IF running THEN StopSteps ELSE <<>>) \o <<"record", "uninstall", "secrets", "state">>

RemoveSteps(running) ==
  (IF running THEN StopSteps ELSE <<>>) \o <<"uninstall", "secrets", "state", "record">>

ForgetSteps == <<"look", "forget secrets", "forget state", "forget record">>

Steps == {"claim", "claim anew", "clean", "clean secrets", "place", "installed", "gate", "probe", "start", "running", "stop",
          "stopped", "reload", "bearer", "pair", "token", "config", "ready", "uninstall",
          "secrets", "state", "record", "look", "forget secrets", "forget state",
          "forget record", "put"}
Ops == {"none", "install", "start", "stop", "restart", "sync", "configure",
        "secret", "skill", "delete"}

(***************************************************************************)
(* "bearer" is what the process has read of, or minted for, the record;    *)
(* "kept" what an installer keeps in memory of the one it wiped.           *)
(***************************************************************************)
Idle == [op |-> "none", todo |-> <<>>, bearer |-> NoBearer, kept |-> NoRecord,
         stale |-> FALSE]

Init ==
  /\ record = NoRecord
  /\ local = {}
  /\ daemon = NoDaemon
  /\ run = [p \in Procs |-> Idle]
  /\ fresh = {}
  /\ minted = 0
  /\ raced = {}
  /\ given_up = {}
  /\ begun = 0

Busy == {p \in Procs : run[p].todo # <<>>}
At(p, step) == run[p].todo # <<>> /\ Head(run[p].todo) = step
Deleting(p) == run[p].op = "delete"

\* What p has become when it goes on with the steps "todo".
On(p, todo) == IF todo = <<>> THEN Idle ELSE [run[p] EXCEPT !.todo = todo]
Advance(p) == run' = [run EXCEPT ![p] = On(p, Tail(run[p].todo))]
Fail(p) == run' = [run EXCEPT ![p] = Idle]

\* A write of hosts.json: no earlier look at the record is up to date any more.
WriteRecord(new) == record' = new /\ fresh' = {}
UnchangedRecord == UNCHANGED <<record, fresh>>

-----------------------------------------------------------------------------
\* What the properties tell apart of the commands.
Class(op) == CASE op \in {"secret", "skill"}   -> "put"
               [] op \in {"install", "delete"} -> op
               [] OTHER                        -> "daemon"

Begin(p, op, todo) ==
  /\ p \notin Busy
  /\ begun < MaxCommands
  /\ begun' = begun + 1
  /\ run' = [run EXCEPT ![p] = [Idle EXCEPT !.op = op, !.todo = todo]]
  /\ raced' = raced \cup
       (IF \E q \in Busy : Deleting(q) THEN {Class(op)} ELSE {}) \cup
       (IF op = "delete" THEN {Class(run[q].op) : q \in Busy} ELSE {})
  /\ UNCHANGED <<record, local, daemon, fresh, minted, given_up>>

\* Of two installations at once there is module Install.
NoneInstalling == \A q \in Busy : run[q].op # "install"

BeginInstall(p) == NoneInstalling /\ Begin(p, "install", InstallSteps)

\* `create --cleanup-failed`, which removes every incomplete agent of the type it is
\* asked for, and goes on to install this one or another.
BeginCleanup(p) ==
  /\ NoneInstalling
  /\ \/ ~Incomplete /\ Begin(p, "install", AnewSteps)
     \/ Incomplete /\ \E todo \in {CleanSteps, CleanAnewSteps} : Begin(p, "install", todo)

BeginStart(p) == Typed /\ Begin(p, "start", StartSteps)
BeginStop(p) == Typed /\ Begin(p, "stop", StopSteps)
BeginRestart(p) == Typed /\ Begin(p, "restart", StopSteps \o StartSteps)
BeginSync(p) == Typed /\ ~Incomplete /\ Begin(p, "sync", SyncSteps)
BeginConfigure(p) == Typed /\ Begin(p, "configure", ConfigureSteps)
BeginPut(p, op) == Typed /\ op \in {"secret", "skill"} /\ Begin(p, op, <<"put">>)
BeginDelete(p) == Typed /\ Begin(p, "delete", RemoveSteps(record.runtime = "running"))

-----------------------------------------------------------------------------
(***************************************************************************)
(* run_installation (module Install has the rest of it).                   *)
(***************************************************************************)
\* The update of cleanup_agents deletes what was found incomplete, whatever it has
\* become; nothing is done on the host, and agents/<name>/ stays.
Clean(p) ==
  /\ At(p, "clean")
  /\ WriteRecord(NoRecord)
  /\ given_up' = given_up \cup {"failed"}
  /\ Advance(p)
  /\ UNCHANGED <<local, daemon, minted, raced, begun>>

\* set_installing.  A name is free, or its agent installed or failed; an installation
\* that has cleaned up keeps nothing.
Claim(p) ==
  /\ At(p, "claim") \/ At(p, "claim anew")
  /\ record.kind \in {"none", "failed", "installed"}
  /\ WriteRecord([NoRecord EXCEPT !.kind = "installing"])
  /\ given_up' = given_up \ {"failed"}
  /\ run' = [run EXCEPT ![p] = [On(p, Tail(run[p].todo)) EXCEPT
               !.kept = IF At(p, "claim") THEN record ELSE NoRecord]]
  /\ UNCHANGED <<local, daemon, minted, raced, begun>>

\* Mutant: the bearer is given back whatever is on the host.
PlaceKeeping(p) ==
  /\ At(p, "place")
  /\ daemon' = [daemon EXCEPT !.unit = TRUE, !.home = TRUE]
  /\ Advance(p)
  /\ UNCHANGED <<record, local, fresh, minted, history, begun>>

\* The playbook: user, home and unit.  The bearer is given back only when it finds
\* the binary there at the version it would install ("skip path").
Place(p) ==
  /\ At(p, "place")
  /\ daemon' = [daemon EXCEPT !.unit = TRUE, !.home = TRUE]
  /\ \E skipped \in {FALSE, daemon.home} :
       run' = [run EXCEPT ![p] = [On(p, Tail(run[p].todo)) EXCEPT
                 !.kept.auth = IF skipped THEN @ ELSE NoBearer]]
  /\ UNCHANGED <<record, local, fresh, minted, history, begun>>

\* set_failed writes the record, whether it is still there or not.
InstallFails(p) ==
  /\ At(p, "place") \/ At(p, "installed")
  /\ WriteRecord([record EXCEPT !.kind = "failed"])
  /\ Fail(p)
  /\ UNCHANGED <<local, daemon, minted, history, begun>>

Installed(p) ==
  LET kept == run[p].kept IN
  /\ At(p, "installed")
  /\ IF record.kind = "none" THEN UnchangedRecord
     ELSE WriteRecord([record EXCEPT !.kind = "installed",
            !.auth = IF kept.auth # NoBearer THEN kept.auth ELSE @,
            !.onboarding = IF kept.onboarding # "none" THEN kept.onboarding
                           ELSE IF @ = "none" THEN "pending" ELSE @])
  /\ Advance(p)
  /\ UNCHANGED <<local, daemon, minted, history, begun>>

-----------------------------------------------------------------------------
(***************************************************************************)
(* start, stop, restart, sync and configure.                               *)
(***************************************************************************)
\* start_agent: the record, the install probe and READY, without which `agent start`
\* can be forced.
Gate(p) ==
  /\ At(p, "gate")
  /\ Typed
  /\ daemon.unit /\ daemon.home
  /\ record.onboarding = "ready" \/ run[p].op = "start"
  /\ Advance(p)
  /\ UNCHANGED <<record, local, daemon, fresh, minted, history, begun>>

Probe(p) ==
  /\ At(p, "probe")
  /\ daemon.unit /\ daemon.home
  /\ Advance(p)
  /\ UNCHANGED <<record, local, daemon, fresh, minted, history, begun>>

\* The start playbook, and the restart of the unit by sync and configure.
StartDaemon(p) ==
  /\ At(p, "start") \/ At(p, "reload")
  /\ daemon.unit /\ daemon.home
  /\ daemon' = [daemon EXCEPT !.running = TRUE]
  /\ Advance(p)
  /\ UNCHANGED <<record, local, fresh, minted, history, begun>>

\* `agent sync --no-restart` and `--workspace-only` pair without a restart.
SkipReload(p) ==
  /\ At(p, "reload")
  /\ run[p].op = "sync"
  /\ Advance(p)
  /\ UNCHANGED <<record, local, daemon, fresh, minted, history, begun>>

StopDaemon(p) ==
  /\ At(p, "stop")
  /\ Typed
  /\ daemon' = [daemon EXCEPT !.running = FALSE]
  /\ Advance(p)
  /\ UNCHANGED <<record, local, fresh, minted, history, begun>>

\* _update_agent_runtime makes a record when there is none any more.
Haunted == IF record.kind = "none" THEN "ghost" ELSE record.kind

WriteRuntime(p, step, status) ==
  /\ At(p, step)
  /\ WriteRecord([record EXCEPT !.kind = Haunted, !.runtime = status])
  /\ Advance(p)
  /\ UNCHANGED <<local, daemon, minted, history, begun>>

\* _zeroclaw_repair_after_start and configure_agent read the bearer without the lock.
ReadBearer(p) ==
  /\ At(p, "bearer")
  /\ Typed
  /\ run' = [run EXCEPT ![p] = [On(p, Tail(run[p].todo)) EXCEPT !.bearer = record.auth]]
  /\ UNCHANGED <<record, local, daemon, fresh, minted, history, begun>>

\* tasks/pair.yaml: a daemon without a row in devices.db gives a code to anyone, a
\* locked one only to the bearer of a row.
Pair(p) ==
  /\ At(p, "pair")
  /\ daemon.running
  /\ daemon.paired = {} \/ run[p].bearer \in daemon.paired
  /\ minted < MaxBearers
  /\ minted' = minted + 1
  /\ daemon' = [daemon EXCEPT !.paired = @ \cup {minted'}]
  /\ run' = [run EXCEPT ![p] = [On(p, Tail(run[p].todo)) EXCEPT !.bearer = minted']]
  /\ UNCHANGED <<record, local, fresh, history, begun>>

\* The daemon answers 401: "the bearer in hosts.json is stale".
PairRefused(p) ==
  /\ At(p, "pair")
  /\ daemon.running
  /\ daemon.paired # {} /\ run[p].bearer \notin daemon.paired
  /\ run' = [run EXCEPT ![p] = [Idle EXCEPT !.op = run[p].op, !.stale = TRUE]]
  /\ UNCHANGED <<record, local, daemon, fresh, minted, history, begun>>

\* The write of the token: into the gateway section that is there, or, by
\* configure_agent, as part of the whole configuration, type included.
WriteBearer(p) ==
  /\ At(p, "token") \/ At(p, "config")
  /\ WriteRecord([record EXCEPT !.auth = run[p].bearer,
                    !.kind = IF At(p, "config") /\ ~Typed THEN "bare" ELSE Haunted])
  /\ Advance(p)
  /\ UNCHANGED <<local, daemon, minted, history, begun>>

\* transition_state(READY); an agent without onboarding is an error.
MarkReady(p) ==
  /\ At(p, "ready")
  /\ record.onboarding # "none"
  /\ WriteRecord([record EXCEPT !.onboarding = "ready"])
  /\ Advance(p)
  /\ UNCHANGED <<local, daemon, minted, history, begun>>

\* A secret is set, a skill is added.
Put(p) ==
  /\ At(p, "put")
  /\ local' = local \cup {IF run[p].op = "secret" THEN "secrets" ELSE "state"}
  /\ Advance(p)
  /\ UNCHANGED <<record, daemon, fresh, minted, history, begun>>

-----------------------------------------------------------------------------
(***************************************************************************)
(* remove_agent.  The errors of its stop, and of the removal of secrets    *)
(* and state, are warnings.                                                *)
(***************************************************************************)
StopIgnored(p) ==
  /\ Deleting(p)
  /\ At(p, "stop") \/ At(p, "stopped")
  /\ run' = [run EXCEPT ![p] = On(p, RemoveSteps(FALSE))]
  /\ UNCHANGED <<record, local, daemon, fresh, minted, history, begun>>

Uninstall(p) ==
  /\ At(p, "uninstall")
  /\ daemon' = NoDaemon
  /\ Advance(p)
  /\ UNCHANGED <<record, local, fresh, minted, history, begun>>

\* The playbook fails, before it has done anything, with the unit removed, or with
\* the process still there; the operator gives up or has the agent forgotten.
UninstallFails(p) ==
  /\ At(p, "uninstall")
  /\ \/ UNCHANGED daemon
     \/ \E running \in {FALSE, daemon.running} :
          daemon' = [daemon EXCEPT !.unit = FALSE, !.running = running]
  /\ Fail(p) \/ run' = [run EXCEPT ![p] = On(p, ForgetSteps)]
  /\ UNCHANGED <<record, local, fresh, minted, history, begun>>

\* remove_instance_secrets and cleanup_agent_state, and the secrets of what an
\* installation cleans up.
DropLocal(p) ==
  /\ \/ /\ At(p, "secrets") \/ At(p, "forget secrets") \/ At(p, "clean secrets")
        /\ local' = local \ {"secrets"}
     \/ (At(p, "state") \/ At(p, "forget state")) /\ local' = local \ {"state"}
  /\ Advance(p)
  /\ UNCHANGED <<record, daemon, fresh, minted, history, begun>>

DropIgnored(p) ==
  /\ At(p, "secrets") \/ At(p, "state") \/ At(p, "clean secrets")
  /\ given_up' = given_up \cup {"local"}
  /\ Advance(p)
  /\ UNCHANGED <<record, local, daemon, fresh, minted, raced, begun>>

\* remove_agent_from_host.
DropRecord(p) ==
  /\ At(p, "record")
  /\ WriteRecord(NoRecord)
  /\ Advance(p)
  /\ UNCHANGED <<local, daemon, minted, history, begun>>

\* hard_delete_agent: the record it looks at is the one it may delete.
Look(p) ==
  /\ At(p, "look")
  /\ Typed
  /\ fresh' = fresh \cup {p}
  /\ Advance(p)
  /\ UNCHANGED <<record, local, daemon, minted, history, begun>>

ForgetRecord(p) ==
  /\ At(p, "forget record")
  /\ p \in fresh
  /\ WriteRecord(NoRecord)
  /\ given_up' = given_up \cup {"host"}
  /\ Advance(p)
  /\ UNCHANGED <<local, daemon, minted, raced, begun>>

-----------------------------------------------------------------------------
\* A refusal, an error or the death of the process; an error leaves undone what
\* the step would have done, or done what the step after it would have recorded.
Stop(p) ==
  /\ p \in Busy
  /\ Fail(p)
  /\ UNCHANGED <<record, local, daemon, fresh, minted, history, begun>>

\* The daemon dies, or its host goes down; it comes up again (the unit is enabled).
DaemonFlips ==
  /\ daemon.unit /\ daemon.home
  /\ daemon' = [daemon EXCEPT !.running = ~@]
  /\ UNCHANGED <<record, local, run, fresh, minted, history, begun>>

Next ==
  \/ \E p \in Procs :
       \/ BeginInstall(p) \/ BeginCleanup(p)
       \/ BeginStart(p) \/ BeginStop(p) \/ BeginRestart(p)
       \/ BeginSync(p) \/ BeginConfigure(p) \/ BeginDelete(p)
       \/ \E op \in {"secret", "skill"} : BeginPut(p, op)
       \/ Clean(p) \/ Claim(p) \/ Place(p) \/ Installed(p) \/ InstallFails(p)
       \/ Gate(p) \/ Probe(p) \/ StartDaemon(p) \/ SkipReload(p) \/ StopDaemon(p)
       \/ WriteRuntime(p, "running", "running") \/ WriteRuntime(p, "stopped", "stopped")
       \/ ReadBearer(p) \/ Pair(p) \/ PairRefused(p) \/ WriteBearer(p)
       \/ MarkReady(p) \/ Put(p)
       \/ StopIgnored(p) \/ Uninstall(p) \/ UninstallFails(p)
       \/ DropLocal(p) \/ DropIgnored(p) \/ DropRecord(p)
       \/ Look(p) \/ ForgetRecord(p)
       \/ Stop(p)
  \/ DaemonFlips

Spec == Init /\ [][Next]_vars
-----------------------------------------------------------------------------
TypeOK ==
  /\ record \in Records
  /\ local \subseteq {"secrets", "state"}
  /\ daemon \in Daemons
  /\ \A p \in Procs :
       /\ run[p].op \in Ops
       /\ \A i \in DOMAIN run[p].todo : run[p].todo[i] \in Steps
       /\ run[p].bearer \in Bearers \cup {NoBearer}
       /\ run[p].kept \in Records
       /\ run[p].stale \in BOOLEAN
  /\ fresh \subseteq Procs
  /\ minted \in 0 .. MaxBearers
  /\ raced \subseteq {"install", "put", "daemon", "delete"}
  /\ given_up \subseteq {"host", "local", "failed"}
  /\ begun \in 0 .. MaxCommands

\* Nothing of an agent is left running or installed on a host without a record of
\* it, at whatever step an installation or a removal dies or fails ("orphaned
\* remote agents"), and whatever is done to the agent while it is removed, short of
\* installing it; unless it was forgotten after the operator was told, or is one that
\* `create --cleanup-failed` has forgotten and nobody has installed since.
DaemonRecorded ==
  "install" \notin raced /\ given_up \cap {"host", "failed"} = {} /\ OnHost
    => record.kind # "none"

\* Secrets and state are not left behind by a record that is gone, so that a
\* removal that was interrupted can be repeated ("Remove the record last so an
\* interrupted cleanup can be retried"), unless they were put there meanwhile; those
\* of an agent that `create --cleanup-failed` has forgotten wait for its next record.
LeftoversRecorded ==
  "put" \notin raced /\ given_up \cap {"local", "failed"} = {} /\ local # {}
    => record.kind # "none"

\* The bearer in hosts.json is one the daemon accepts, in whatever order pairings
\* end and their tokens are written, and whatever bearer an installation gives
\* back, as long as the agent is not removed in the middle of it.
BearerKnown ==
  /\ raced \cap {"daemon", "install"} = {}
  /\ daemon.home /\ record.auth # NoBearer
  => record.auth \in daemon.paired

\* The claim of tasks/pair.yaml that a configure re-pairs from scratch when the
\* bearer in hosts.json is stale.
ConfigureRepairs == \A p \in Procs : run[p].op = "configure" => ~run[p].stale
=============================================================================
