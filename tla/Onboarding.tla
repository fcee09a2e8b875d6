------------------------------- MODULE Onboarding -------------------------------
(***************************************************************************)
(* The onboarding of one agent (core/onboarding.py) and the commands that  *)
(* drive it: the end of an installation, `clawctl agent configure`, whose  *)
(* providers stage runs sync_agent (core/lifecycle.py), and `clawctl agent *)
(* sync`, which is sync_agent_canonical (core/lifecycle_canonical.py).     *)
(*                                                                         *)
(* A command is a list of calls.  Every call that changes the record reads *)
(* hosts.json and validates without the hosts lock, and then writes under  *)
(* it what it decided: two steps here, between which other processes go    *)
(* on.                                                                     *)
(***************************************************************************)
EXTENDS Naturals, Sequences

CONSTANTS
  Procs,      \* processes running clawctl
  Skippable,  \* stages the manifest marks `auto_skip` (hermes: identity)
  Manual,     \* stages sync_agent cannot complete by itself (openclaw: identity)
  MaxCommands \* bound: commands begun

Stages == {"providers", "identity", "channels", "validate"}

OnboardingAssumption ==
  /\ Skippable \subseteq Stages
  /\ Manual \subseteq {"identity"}
  /\ MaxCommands \in Nat

VARIABLES
  record,     \* the onboarding section of the agent, state "none" without one
  attached,   \* a provider is attached
  install,    \* status of the agent's last installation
  aside,      \* what an installation over the agent keeps of it in memory
  configured, \* a configure has succeeded on the host since the agent was last
              \* removed or cleaned up
  run,        \* run[p]: the command process p is in
  overlapped, \* history: the processes whose command was not alone
  reset,      \* history: the record was wiped or initialized under somebody's
              \* feet, and the agent has not been reinstalled in peace since
  begun       \* commands begun (bounded by MaxCommands)

vars == <<record, attached, install, aside, configured, run, overlapped, reset, begun>>

-----------------------------------------------------------------------------
States == Stages \cup {"pending", "ready"}

TRANSITIONS ==
  [pending   |-> {"providers", "ready"},
   providers |-> {"identity"},
   identity  |-> {"channels"},
   channels  |-> {"validate"},
   validate  |-> {"ready", "channels"},
   ready     |-> {"ready"}]

\* state_to_allowed_stages.
Completable(state) ==
  CASE state = "pending" -> {"providers"}
    [] state = "ready"   -> Stages
    [] OTHER             -> {state}

NoRecord == [state |-> "none", stages |-> [s \in Stages |-> "pending"]]

Fresh ==
  IF Stages \subseteq Skippable
    THEN [state |-> "ready", stages |-> [s \in Stages |-> "skipped"]]
    ELSE [state |-> "pending", stages |-> [s \in Stages |-> "pending"]]

Statuses == {"pending", "complete", "skipped"}
OnboardingRecords == [state : States \cup {"none"}, stages : [Stages -> Statuses]]

Nothing == [onboarding |-> NoRecord, attached |-> FALSE]

(***************************************************************************)
(* Calls.  "complete", "skip" and "go" are complete_stage (with COMPLETE   *)
(* and with SKIPPED) and transition_state; "patch" is                      *)
(* update_stage_metadata, "init" initialize_onboarding.                    *)
(***************************************************************************)
Call(op, arg) == [op |-> op, arg |-> arg]
CheckedOps == {"init", "complete", "skip", "patch", "go"}
Ops == CheckedOps \cup {"attach", "sync", "render", "configure", "refuse"}
Calls == [op : Ops, arg : States \cup {"-"}]

Idle == [kind |-> "none", todo |-> <<>>, checked |-> FALSE, said |-> "nothing"]

Init ==
  /\ record = NoRecord
  /\ attached = FALSE
  /\ install = "installed"
  /\ aside = Nothing
  /\ configured = FALSE
  /\ run = [p \in Procs |-> Idle]
  /\ overlapped = {}
  /\ reset = FALSE
  /\ begun = 0

Busy == {p \in Procs : run[p].todo # <<>>}
NextCall(p) == Head(run[p].todo)
Doing(p, op) == run[p].todo # <<>> /\ NextCall(p).op = op

Command == begun < MaxCommands /\ begun' = begun + 1
installVars == <<install, aside>>

-----------------------------------------------------------------------------
(***************************************************************************)
(* What a command does next.                                               *)
(***************************************************************************)
\* An exception or the death of the process.
End(p) == run' = [run EXCEPT ![p] = Idle]

\* On to the rest of the calls; after the last one the command reports success.
Continue(p, todo) ==
  run' = [run EXCEPT ![p].todo = todo, ![p].checked = FALSE,
                     ![p].said = IF todo = <<>> THEN "ok" ELSE "nothing"]

Advance(p) == Continue(p, Tail(run[p].todo))

\* How sync_agent settles a stage; a manual one must have been settled by the
\* operator when the command read the host ("seen").
Visit(stage, seen) ==
  <<Call("go", stage)>> \o
  (IF stage \in Skippable THEN <<Call("skip", stage)>>
   ELSE IF stage \notin Manual THEN <<Call("complete", stage)>>
   ELSE IF seen[stage] = "pending" THEN <<Call("refuse", "-")>>
   ELSE <<>>)

\* Mutant: READY is written before the playbook has run.
ReadyThenConfigure == <<Call("go", "ready"), Call("configure", "-")>>

ConfigureThenReady == <<Call("configure", "-"), Call("go", "ready")>>

\* Mutant: only the stage that was named is settled.
WalkNamed(seen) ==
  <<Call("complete", "providers"), Call("go", "providers"), Call("configure", "-")>>

Walk(seen) ==
  <<Call("complete", "providers"), Call("go", "providers")>>
    \o Visit("identity", seen) \o Visit("channels", seen) \o Visit("validate", seen)
    \o ConfigureThenReady

\* run_stage.
StageCall(stage) == Call(IF stage \in Skippable THEN "skip" ELSE "complete", stage)

InitIf(condition) == IF condition THEN <<Call("init", "-")>> ELSE <<>>

-----------------------------------------------------------------------------
(***************************************************************************)
(* The commands.                                                           *)
(***************************************************************************)
Begin(p, kind, todo) ==
  /\ p \notin Busy
  /\ Command
  /\ run' = [run EXCEPT ![p] = [Idle EXCEPT !.kind = kind, !.todo = todo]]
  /\ overlapped' = IF Busy = {} THEN overlapped \ {p} ELSE overlapped \cup Busy \cup {p}
  /\ UNCHANGED <<record, attached, configured, reset, installVars>>

\* The end of run_installation (module Install).
BeginInstalled(p) == Begin(p, "installed", InitIf(TRUE))

\* `agent configure --stage identity | validate`.
BeginStage(p, stage) ==
  Begin(p, "stage", InitIf(record.state \in {"none", "pending"}) \o <<StageCall(stage)>>)

\* `agent configure --stage providers --provider X`.
BeginProviders(p) ==
  Begin(p, "providers",
        InitIf(record.state = "none") \o <<Call("attach", "-"), Call("sync", "-")>>)

\* `agent sync`, which an incomplete installation refuses.
BeginCanonical(p) ==
  /\ install = "installed"
  /\ Begin(p, "canonical", <<Call("render", "-")>> \o ConfigureThenReady)

-----------------------------------------------------------------------------
(***************************************************************************)
(* The calls.                                                              *)
(***************************************************************************)
Attach(p) ==
  /\ Doing(p, "attach")
  /\ attached' = TRUE
  /\ Advance(p)
  /\ UNCHANGED <<record, configured, overlapped, reset, begun, installVars>>

\* sync_agent reads the host once and decides the whole walk on it.
Sync(p) ==
  LET state == IF record.state = "none" THEN "pending" ELSE record.state IN
  /\ Doing(p, "sync")
  /\ CASE attached /\ state # "ready" -> Continue(p, Walk(record.stages))
       [] ~attached /\ state = "pending" -> End(p)
       [] OTHER -> Continue(p, ConfigureThenReady)
  /\ UNCHANGED <<record, attached, configured, overlapped, reset, begun, installVars>>

\* build_render_inputs refuses an agent without a provider.
Render(p) ==
  /\ Doing(p, "render")
  /\ IF attached THEN Advance(p) ELSE End(p)
  /\ UNCHANGED <<record, attached, configured, overlapped, reset, begun, installVars>>

\* The playbook, or the canonical write, restart and health check, succeeds; it
\* may also fail (Stop).
Configure(p) ==
  /\ Doing(p, "configure")
  /\ configured' = TRUE
  /\ Advance(p)
  /\ UNCHANGED <<record, attached, overlapped, reset, begun, installVars>>

\* The validation of the next call.
Permitted(call) ==
  CASE call.op = "init"     -> record.state = "none"
    [] call.op = "complete" -> call.arg \in Completable(record.state)
    [] call.op = "go"       -> call.arg \in TRANSITIONS[record.state]
    [] OTHER                -> TRUE

\* What a command makes of a call that is not permitted: `initialize_onboarding`
\* has nothing to do, InvalidTransitionError is swallowed, except that the
\* metadata of the providers stage is patched instead.
InPlaceOf(call) ==
  IF call = Call("complete", "providers") THEN <<Call("patch", "providers")>> ELSE <<>>

\* The read and the validation, outside the hosts lock.
Check(p) ==
  /\ run[p].todo # <<>>
  /\ NextCall(p).op \in CheckedOps
  /\ ~run[p].checked
  /\ IF record.state = "none" /\ NextCall(p).op # "init" THEN End(p)
     ELSE IF Permitted(NextCall(p)) THEN run' = [run EXCEPT ![p].checked = TRUE]
     ELSE Continue(p, InPlaceOf(NextCall(p)) \o Tail(run[p].todo))
  /\ UNCHANGED <<record, attached, configured, overlapped, reset, begun, installVars>>

\* The updater of update_host: it writes what was decided, whatever the record
\* has become, unless there is none any more.
Written(call) ==
  CASE call.op = "init"     -> Fresh
    [] call.op = "complete" -> [record EXCEPT !.stages[call.arg] = "complete"]
    [] call.op = "skip"     -> [record EXCEPT !.stages[call.arg] = "skipped"]
    [] call.op = "go"       -> [record EXCEPT !.state = call.arg]
    [] OTHER                -> record

Refused(call) ==
  \/ call.op # "init" /\ record.state = "none"
  \/ call.op = "patch" /\ record.stages[call.arg] # "complete"

Write(p) ==
  LET call == NextCall(p) IN
  /\ run[p].checked
  /\ IF Refused(call) THEN End(p) /\ UNCHANGED record
                      ELSE Advance(p) /\ record' = Written(call)
  /\ reset' = (reset \/ (call.op = "init" /\ record.state # "none"))
  /\ UNCHANGED <<attached, configured, overlapped, begun, installVars>>

\* A refusal, an error (a failed playbook, a host that cannot be written) or the
\* death of the process.
Stop(p) ==
  /\ p \in Busy
  /\ End(p)
  /\ UNCHANGED <<record, attached, configured, overlapped, reset, begun, installVars>>

-----------------------------------------------------------------------------
\* `agent provider detach`.
Detach ==
  /\ Command
  /\ attached
  /\ attached' = FALSE
  /\ overlapped' = overlapped \cup Busy
  /\ UNCHANGED <<record, configured, run, reset, installVars>>

\* set_installing of an installation over the agent (an upgrade, a retry) wipes its
\* record; the installer keeps the onboarding and the attachments in memory.
SetAside ==
  /\ Command
  /\ install # "installing"
  /\ install' = "installing"
  /\ aside' = [onboarding |-> record, attached |-> attached]
  /\ record' = NoRecord
  /\ attached' = FALSE
  /\ overlapped' = overlapped \cup Busy
  /\ reset' = (reset \/ Busy # {})
  /\ UNCHANGED <<configured, run>>

\* set_installed gives both back, READY included, over what has been made of the
\* record since; set_failed only the attachments.
InstallEnds ==
  LET kept == aside.onboarding IN
  /\ install = "installing"
  /\ \/ /\ install' = "installed"
        /\ record' = IF kept.state = "none" THEN record ELSE kept
        /\ reset' = (reset \/ (kept.state # "none" /\ Busy # {}))
     \/ install' = "failed" /\ UNCHANGED <<record, reset>>
  /\ attached' = (attached \/ aside.attached)
  /\ aside' = Nothing
  /\ overlapped' = overlapped \cup Busy
  /\ UNCHANGED <<configured, run, begun>>

\* The agent is removed, or its installation cleaned up, and installed again.
Reinstall ==
  /\ Command
  /\ record' = NoRecord
  /\ attached' = FALSE
  /\ install' = "installed"
  /\ aside' = Nothing
  /\ configured' = FALSE
  /\ overlapped' = overlapped \cup Busy
  /\ reset' = (Busy # {})
  /\ UNCHANGED run

Next ==
  \/ \E p \in Procs :
       \/ BeginInstalled(p) \/ BeginProviders(p) \/ BeginCanonical(p)
       \/ \E stage \in {"identity", "validate"} : BeginStage(p, stage)
       \/ Attach(p) \/ Sync(p) \/ Render(p) \/ Configure(p)
       \/ Check(p) \/ Write(p) \/ Stop(p)
  \/ Detach \/ SetAside \/ InstallEnds \/ Reinstall

Spec == Init /\ [][Next]_vars
-----------------------------------------------------------------------------
TypeOK ==
  /\ record \in OnboardingRecords
  /\ attached \in BOOLEAN /\ configured \in BOOLEAN /\ reset \in BOOLEAN
  /\ install \in {"installed", "installing", "failed"}
  /\ aside \in [onboarding : OnboardingRecords, attached : BOOLEAN]
  /\ \A p \in Procs :
       /\ run[p].kind \in {"none", "installed", "stage", "providers", "canonical"}
       /\ \A i \in DOMAIN run[p].todo : run[p].todo[i] \in Calls
       /\ run[p].checked => run[p].todo # <<>> /\ NextCall(p).op \in CheckedOps
       /\ run[p].said \in {"nothing", "ok"}
  /\ overlapped \subseteq Procs
  /\ begun \in 0 .. MaxCommands

\* An agent is READY, which is all `agent start` looks at, only once a configure of it
\* has succeeded: a failed playbook, a crash, a walk of another process in between or
\* an installation that gives back the onboarding it has kept never leave a READY that
\* was not earned ("writing state=READY before the Ansible push lands ...").
ReadyMeansConfigured ==
  ~reset /\ ~(Stages \subseteq Skippable) /\ record.state = "ready" => configured

\* Whatever walks interleave, and however stale what they decide on, the providers
\* stage and the manual ones are settled once the agent is beyond them (channels and
\* validate are bookkeeping, and two walks can leave them open).  It is what makes a
\* walk that was cut short repairable: sync_agent cannot patch the metadata of a
\* providers stage that is not complete, and does not walk past an open manual one.
Behind(state) ==
  CASE state = "identity"               -> {"providers"}
    [] state \in {"channels", "validate"} -> {"providers"} \cup Manual
    [] OTHER                            -> {}

StagesBehind == ~reset => \A s \in Behind(record.state) : record.stages[s] # "pending"

\* A configure of the providers stage that was alone and reports success leaves the
\* agent READY, wherever an earlier one that failed had left it ("so a re-sync
\* after a previous failed configure_agent ... can advance the agent the rest of
\* the way").
WalkEnds ==
  \A p \in Procs \ overlapped :
    run[p].kind = "providers" /\ run[p].said = "nothing" /\ run'[p].said = "ok"
      => record'.state = "ready"
WalkFinishes == [][WalkEnds]_vars

\* The claim of the comments of both syncs that a sync cannot bypass the stage walk:
\* a READY agent has every stage settled that the operator must settle.
WalkNotBypassed ==
  ~reset /\ record.state = "ready" => \A s \in Manual : record.stages[s] # "pending"
=============================================================================
