--------------------------- MODULE ClaudeCredential ---------------------------
(***************************************************************************)
(* The credential of one claude agent: an OAuth document or an API key.    *)
(* secrets.json keeps the selected one; the account on the host has it in  *)
(* one of two files, and Claude Code takes whichever it finds.  Two        *)
(* operations bring the selection to the host, in different orders and     *)
(* without a lock: `agent sync` stages the new file, removes the other and *)
(* moves the staged one into place; `agent configure` backs up and         *)
(* replaces the file, removes the other, and rolls back what failed.       *)
(***************************************************************************)
EXTENDS Naturals, FiniteSets

CONSTANTS ClaudeProcs,    \* processes activating the credential
          MaxActivations, \* bound: activations begun
          MaxSelections   \* bound: selections and deletions of the operator

Modes == {"oauth", "api_key"}
Values == {"none", "first", "second"}

VARIABLES
  secret,     \* secrets.json: the value of each mode
  artifact,   \* on the host: the two files
  staged,      \* on the host: *.clawrium-stage
  backup,     \* on the host: *.clawrium-backup
  active,     \* active[p]: the activation process p runs
  mixed,      \* history: activations have overlapped, or one was cut off, since one ended well
  outcome,    \* history: what the activation that ended last, well and alone, had selected
  activations, selections

cvars == <<secret, artifact, staged, backup, active, mixed, outcome, activations, selections>>
account == <<artifact, staged, backup>>

Empty == [m \in Modes |-> "none"]
Other(m) == CHOOSE o \in Modes : o # m
Nothing == [mode |-> "oauth", value |-> "none"]
Resting == [at |-> "idle", how |-> "sync", mode |-> "oauth", value |-> "none",
            prior |-> FALSE, alone |-> FALSE]

TypeOK ==
  /\ secret \in [Modes -> Values] /\ artifact \in [Modes -> Values]
  /\ staged \in [Modes -> Values] /\ backup \in [Modes -> Values]
  /\ active \in [ClaudeProcs ->
       [at : {"idle", "read", "stage", "clean", "assert", "promote",
              "backup", "replace", "remove", "verify", "rescue"},
        how : {"sync", "configure"}, mode : Modes, value : Values,
        prior : BOOLEAN, alone : BOOLEAN]]
  /\ mixed \in BOOLEAN
  /\ outcome \in [mode : Modes, value : Values]
  /\ activations \in 0 .. MaxActivations /\ selections \in 0 .. MaxSelections

\* A store edited by hand may have both modes.
Init ==
  /\ secret \in [Modes -> {"none", "first"}]
  /\ artifact = Empty /\ staged = Empty /\ backup = Empty
  /\ active = [p \in ClaudeProcs |-> Resting]
  /\ mixed = FALSE /\ outcome = Nothing
  /\ activations = 0 /\ selections = 0

(***************************************************************************)
(* The selection on this machine.                                          *)
(***************************************************************************)
Selected == {m \in Modes : secret[m] # "none"}
\* configure_claude_credentials: refused while there are two modes; the other one goes in
\* the same write.
Configure(m, v) ==
  /\ selections < MaxSelections /\ selections' = selections + 1
  /\ Cardinality(Selected) <= 1
  /\ secret' = [Empty EXCEPT ![m] = v]
  /\ UNCHANGED <<account, active, mixed, outcome, activations>>
\* `agent secret create` and `agent secret import`, of one reserved key.
CreateSecret == \E m \in Modes, v \in Values \ {"none"} : Configure(m, v)
\* What the validator lets through of the operator's own ~/.claude/.credentials.json, when it
\* is a private file of the operator and has no field that is not known.
Documents == Values \ {"none"}
\* `agent provider attach`, with the document read on this machine.
ImportLocal == \E document \in Documents : Configure("oauth", document)
\* `agent secret delete`.
Deselect ==
  /\ selections < MaxSelections /\ selections' = selections + 1
  /\ \E m \in Selected : secret' = [secret EXCEPT ![m] = "none"]
  /\ UNCHANGED <<account, active, mixed, outcome, activations>>

(***************************************************************************)
(* An activation.                                                          *)
(***************************************************************************)
On(p, label) == active[p].at = label
To(p, label) == active' = [active EXCEPT ![p].at = label]
Stop(p) == active' = [active EXCEPT ![p] = Resting]
Local == UNCHANGED <<secret, activations, selections>>
Step == Local /\ UNCHANGED <<mixed, outcome>>
\* It ends well; the account is as selected if nobody else was at it.
Well(p) ==
  /\ Stop(p)
  /\ IF active[p].alone
     THEN outcome' = [mode |-> active[p].mode, value |-> active[p].value] /\ mixed' = FALSE
     ELSE UNCHANGED <<outcome, mixed>>

\* get_claude_credential_state: exactly one mode, or nothing is done.
Begin(p) ==
  /\ On(p, "idle") /\ activations < MaxActivations
  /\ activations' = activations + 1
  /\ Cardinality(Selected) = 1
  /\ LET alone == \A q \in ClaudeProcs : On(q, "idle") IN
     \E m \in Selected, how \in {"sync", "configure"} :
       /\ active' = [q \in ClaudeProcs |->
            IF q = p THEN [Resting EXCEPT !.at = "read", !.how = how, !.mode = m, !.alone = alone]
            ELSE IF On(q, "idle") THEN active[q] ELSE [active[q] EXCEPT !.alone = FALSE]]
       /\ mixed' = (mixed \/ ~ alone)
  /\ outcome' = Nothing
  /\ UNCHANGED <<secret, account, selections>>
\* get_active_claude_credential reads the store again for the value, once.
ReadValue(p) ==
  /\ On(p, "read")
  /\ LET m == active[p].mode IN
     active' = [active EXCEPT ![p] =
                  IF secret[m] = "none" THEN Resting
                  ELSE [@ EXCEPT !.value = secret[m],
                                 !.at = IF active[p].how = "sync" THEN "stage" ELSE "backup"]]
  /\ Step /\ UNCHANGED account

(***************************************************************************)
(* _sync_claude_settings.  The settings, the marker of the first run and   *)
(* the retired profile hook are written next to it and not distinguished.  *)
(***************************************************************************)
Stage(p) ==
  /\ On(p, "stage") /\ To(p, "clean")
  /\ staged' = [staged EXCEPT ![active[p].mode] = active[p].value]
  /\ Step /\ UNCHANGED <<artifact, backup>>
\* Mutant: the stale file is removed from under the name of the stage.
CleanStage(p) ==
  /\ On(p, "clean") /\ To(p, "promote")
  /\ staged' = [staged EXCEPT ![Other(active[p].mode)] = "none"]
  /\ Step /\ UNCHANGED <<artifact, backup>>
\* The file of the other mode is removed ...
Clean(p) ==
  /\ On(p, "clean") /\ To(p, "assert")
  /\ artifact' = [artifact EXCEPT ![Other(active[p].mode)] = "none"]
  /\ Step /\ UNCHANGED <<staged, backup>>
Unstage(p) == staged' = [staged EXCEPT ![active[p].mode] = "none"]
\* ... and seen to be gone; else the stage is dropped.
AssertAbsent(p) ==
  /\ On(p, "assert")
  /\ IF artifact[Other(active[p].mode)] = "none"
     THEN To(p, "promote") /\ UNCHANGED staged
     ELSE Stop(p) /\ Unstage(p)
  /\ Step /\ UNCHANGED <<artifact, backup>>
\* mv -f of what is staged by now; without a stage it fails.
Promote(p) ==
  /\ On(p, "promote")
  /\ LET m == active[p].mode IN
     IF staged[m] # "none"
     THEN artifact' = [artifact EXCEPT ![m] = staged[m]] /\ Unstage(p) /\ Well(p)
     ELSE Stop(p) /\ UNCHANGED <<artifact, staged, mixed, outcome>>
  /\ Local /\ UNCHANGED backup
\* A round trip fails: the stage is dropped, if the host still answers and the process lives.
SyncFails(p) ==
  /\ \E label \in {"stage", "clean", "assert", "promote"} : On(p, label)
  /\ Stop(p)
  /\ Unstage(p) \/ UNCHANGED staged
  /\ Step /\ UNCHANGED <<artifact, backup>>

(***************************************************************************)
(* The playbook of _configure_claude_settings.                             *)
(***************************************************************************)
BackUp(p) ==
  /\ On(p, "backup")
  /\ LET m == active[p].mode IN
     /\ active' = [active EXCEPT ![p].prior = artifact[m] # "none", ![p].at = "replace"]
     /\ backup' = IF artifact[m] # "none" THEN [backup EXCEPT ![m] = artifact[m]] ELSE backup
  /\ Step /\ UNCHANGED <<artifact, staged>>
Replace(p) ==
  /\ On(p, "replace") /\ To(p, "remove")
  /\ artifact' = [artifact EXCEPT ![active[p].mode] = active[p].value]
  /\ Step /\ UNCHANGED <<staged, backup>>
RemoveOther(p) ==
  /\ On(p, "remove") /\ To(p, "verify")
  /\ artifact' = [artifact EXCEPT ![Other(active[p].mode)] = "none"]
  /\ Step /\ UNCHANGED <<staged, backup>>
VerifyAbsent(p) ==
  /\ On(p, "verify")
  /\ IF artifact[Other(active[p].mode)] = "none"
     THEN Well(p) /\ backup' = [backup EXCEPT ![active[p].mode] = "none"]
     ELSE To(p, "rescue") /\ UNCHANGED <<mixed, outcome, backup>>
  /\ Local /\ UNCHANGED <<artifact, staged>>
\* A task of the block fails.
TaskFails(p) ==
  /\ \E label \in {"backup", "replace", "remove", "verify"} : On(p, label)
  /\ active' = [active EXCEPT ![p].at = "rescue",
                              ![p].prior = IF On(p, "backup") THEN artifact[active[p].mode] # "none" ELSE @]
  /\ Step /\ UNCHANGED account
\* The prior file comes back, if its backup is there; without one before, the new file goes.
Rescue(p) ==
  /\ On(p, "rescue") /\ Stop(p)
  /\ LET m == active[p].mode IN
     /\ artifact' = [artifact EXCEPT ![m] = IF ~ active[p].prior THEN "none"
                                            ELSE IF backup[m] # "none" THEN backup[m] ELSE @]
     /\ backup' = [backup EXCEPT ![m] = "none"]
  /\ Step /\ UNCHANGED staged
\* The host becomes unreachable or the process dies: no rescue, or one whose copy failed
\* too, which it ignores.
ConfigureCutOff(p) ==
  /\ \E label \in {"backup", "replace", "remove", "verify", "rescue"} : On(p, label)
  /\ Stop(p)
  /\ mixed' = TRUE
  /\ backup' \in {backup, [backup EXCEPT ![active[p].mode] = "none"]}
  /\ Local /\ UNCHANGED <<artifact, staged, outcome>>

Next ==
  \/ CreateSecret \/ ImportLocal \/ Deselect
  \/ \E p \in ClaudeProcs :
       \/ Begin(p) \/ ReadValue(p)
       \/ Stage(p) \/ Clean(p) \/ AssertAbsent(p) \/ Promote(p) \/ SyncFails(p)
       \/ BackUp(p) \/ Replace(p) \/ RemoveOther(p) \/ VerifyAbsent(p)
       \/ TaskFails(p) \/ Rescue(p) \/ ConfigureCutOff(p)

Spec == Init /\ [][Next]_cvars

(***************************************************************************)
(* Properties.                                                             *)
(***************************************************************************)
\* Claude Code never has two credentials to choose from once an activation is over, unless
\* activations overlapped or a configure was cut off; and an activation that ends well, and
\* that nobody overlapped, leaves exactly what was selected when it began, whatever the
\* ones before it left behind ("one stale credential is safer than two").
OneSource ==
  /\ (~ mixed /\ \A p \in ClaudeProcs : On(p, "idle")) =>
       \E m \in Modes : artifact[m] = "none"
  /\ outcome # Nothing =>
       artifact = [Empty EXCEPT ![outcome.mode] = outcome.value]
===============================================================================
