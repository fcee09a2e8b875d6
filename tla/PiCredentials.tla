----------------------------- MODULE PiCredentials -----------------------------
(***************************************************************************)
(* The provider of one pi agent and the credentials it puts on the agent's *)
(* host: the provider environment (an OpenRouter key, or the name of a     *)
(* bedrock profile), the AWS profile with its session caches, and          *)
(* auth.json, the OAuth document Pi itself gets by a login of the operator.*)
(* hosts.json says which provider is selected, and whether a Codex login   *)
(* that was removed has to be made again before Codex is used.             *)
(*                                                                         *)
(* detach, configure, sync, login and an inference with Codex run under a  *)
(* lock of the agent; attach does not.  Each may fail or be killed between *)
(* any two of its steps.                                                   *)
(***************************************************************************)
EXTENDS Naturals

CONSTANTS
  Procs,       \* processes running clawctl or a chat
  NoProc,      \* nobody: the lock is free
  OpenRouters, \* the registered providers of type openrouter
  Bedrocks,    \* of type bedrock with SSO, no two with the same SSO identity
  Codexes,     \* of type openai-codex
  NoProvider,  \* no provider is attached, or nothing is on the host
  MaxCommands  \* bound: commands ever begun

Providers == OpenRouters \cup Bedrocks \cup Codexes

\* A provider has one type.
PiAssumption ==
  /\ MaxCommands \in Nat
  /\ NoProvider \notin Providers /\ NoProc \notin Procs
  /\ OpenRouters \cap Bedrocks = {} /\ (OpenRouters \cup Bedrocks) \cap Codexes = {}

VARIABLES
  selection,   \* agents[n]["providers"] of hosts.json, a list of at most one
  recovery,    \* agents[n]["pi_codex_auth_recovery"]
  environment, \* the provider clawrium-provider.env on the host is of
  awsHome,     \* the provider the AWS profile and caches on the host are of
  oauth,       \* ~/.pi/agent/auth.json on the host holds a login
  piLock,      \* who has the lock of the agent
  picmd,       \* picmd[p]: the command process p runs
  jobs,        \* processes a Codex inference of which runs on the host
  pibegun,     \* commands begun (bounded by MaxCommands)
  loggedIn,    \* history: a login has been completed for the present selection
  dropped,     \* history: a detach removed the login and did not finish
  revoked      \* history: providers detached with success and not attached since

vars == <<selection, recovery, environment, awsHome, oauth, piLock, picmd, jobs, pibegun,
          loggedIn, dropped, revoked>>
local == <<selection, recovery>>
remote == <<environment, awsHome, oauth>>
history == <<loggedIn, dropped, revoked>>

Idle == [op |-> "none", at |-> "idle", provider |-> NoProvider, previous |-> NoProvider,
         had |-> FALSE]

Commands == [op : {"none", "attach", "detach", "sync", "configure", "login", "chat"},
             at : {"idle", "write", "lock", "revoke", "persist", "purge", "clean", "select",
                   "resolve", "provision", "undo", "restore", "native", "verify", "infer"},
             provider : Providers \cup {NoProvider}, previous : Providers \cup {NoProvider},
             had : BOOLEAN]
\* Labels without the lock of the agent.
Unlocked == {"idle", "write", "lock"}

TypeOK ==
  /\ selection \in Providers \cup {NoProvider}
  /\ {recovery, oauth, loggedIn, dropped} \subseteq BOOLEAN
  /\ environment \in OpenRouters \cup Bedrocks \cup {NoProvider}
  /\ awsHome \in Bedrocks \cup {NoProvider}
  /\ piLock \in Procs \cup {NoProc}
  /\ picmd \in [Procs -> Commands]
  /\ \A p \in Procs : piLock = p => picmd[p].at \notin Unlocked
  /\ jobs \subseteq Procs
  /\ pibegun \in 0 .. MaxCommands
  /\ revoked \subseteq Providers

Init ==
  /\ selection = NoProvider /\ recovery = FALSE
  /\ environment = NoProvider /\ awsHome = NoProvider /\ oauth = FALSE
  /\ piLock = NoProc
  /\ picmd = [p \in Procs |-> Idle]
  /\ jobs = {} /\ pibegun = 0
  /\ loggedIn = FALSE /\ dropped = FALSE /\ revoked = {}

(***************************************************************************)
(* Steps of a process.                                                     *)
(***************************************************************************)
On(p, op, label) == picmd[p].op = op /\ picmd[p].at = label
To(p, label) == picmd' = [picmd EXCEPT ![p].at = label] /\ UNCHANGED piLock
\* Mutant: a command that ends forgets to release the lock.
EndHolding(p) == picmd' = [picmd EXCEPT ![p] = Idle] /\ UNCHANGED piLock
End(p) ==
  /\ picmd' = [picmd EXCEPT ![p] = Idle]
  /\ piLock' = IF piLock = p THEN NoProc ELSE piLock
Take(p, c) == piLock = NoProc /\ piLock' = p /\ picmd' = [picmd EXCEPT ![p] = c]

Begin(p, op, label, n) ==
  /\ picmd[p].at = "idle" /\ pibegun < MaxCommands
  /\ pibegun' = pibegun + 1
  /\ picmd' = [picmd EXCEPT ![p] = [Idle EXCEPT !.op = op, !.at = label, !.provider = n]]
  /\ UNCHANGED <<local, remote, piLock, jobs, history>>

\* Any step may fail, or the process die: what was done stays, and the lock is released.
Stop(p) ==
  /\ picmd[p].at # "idle"
  /\ End(p)
  /\ jobs' \in {jobs, jobs \ {p}}
  /\ UNCHANGED <<local, remote, pibegun, history>>

\* hosts.json is written with a new selection.
Select(n, again) ==
  /\ selection' = n
  /\ loggedIn' = again
  /\ revoked' = IF n \in Codexes THEN revoked \ Codexes ELSE revoked \ {n}

(***************************************************************************)
(* What is removed on the host: revoke_pi_openrouter takes the caches, the *)
(* environment and the profile, revoke_pi_codex the login.  A failure may  *)
(* leave the first of the three removed and the others not.                *)
(***************************************************************************)
RevokeAll == environment' = NoProvider /\ awsHome' = NoProvider /\ UNCHANGED oauth
RevokeSome ==
  /\ \/ UNCHANGED environment /\ awsHome' \in {awsHome, NoProvider}
     \/ environment' = NoProvider /\ awsHome' = NoProvider
  /\ UNCHANGED oauth
RevokeLogin == oauth' = FALSE /\ UNCHANGED <<environment, awsHome>>

(***************************************************************************)
(* attach: the list is read and found empty, and written with the lock of  *)
(* hosts.json only.                                                        *)
(***************************************************************************)
BeginAttach(p) == \E n \in Providers : selection = NoProvider /\ Begin(p, "attach", "write", n)
WriteAttachment(p) ==
  /\ On(p, "attach", "write")
  /\ Select(picmd[p].provider, FALSE)
  /\ End(p)
  /\ UNCHANGED <<recovery, remote, jobs, pibegun, dropped>>

(***************************************************************************)
(* detach: found attached, then looked for again under the lock; the       *)
(* host is cleaned according to the type of the provider, and then         *)
(* hosts.json is written.                                                  *)
(***************************************************************************)
BeginDetach(p) ==
  \E n \in Providers : selection = n /\ Begin(p, "detach", "lock", n)
LockDetach(p) ==
  /\ On(p, "detach", "lock")
  /\ IF selection = picmd[p].provider
     THEN Take(p, [picmd[p] EXCEPT !.at = "revoke"])
     ELSE piLock = NoProc /\ End(p)
  /\ UNCHANGED <<local, remote, jobs, pibegun, history>>
RevokeDetached(p) ==
  /\ On(p, "detach", "revoke")
  /\ IF picmd[p].provider \in Codexes
     THEN RevokeLogin /\ dropped' = TRUE ELSE RevokeAll /\ UNCHANGED dropped
  /\ To(p, "persist")
  /\ UNCHANGED <<local, jobs, pibegun, loggedIn, revoked>>
RevokeFails(p) ==
  /\ On(p, "detach", "revoke") /\ picmd[p].provider \notin Codexes
  /\ RevokeSome
  /\ End(p)
  /\ UNCHANGED <<local, jobs, pibegun, history>>
PersistDetach(p) ==
  /\ On(p, "detach", "persist")
  /\ selection' = NoProvider
  /\ loggedIn' = FALSE /\ dropped' = FALSE
  /\ revoked' = revoked \cup {picmd[p].provider}
  /\ End(p)
  /\ UNCHANGED <<recovery, remote, jobs, pibegun>>

(***************************************************************************)
(* sync: under the lock the agent is resolved again, so that a sync that   *)
(* queued behind a detach does not bring a credential back; then the host  *)
(* gets what the provider needs and loses what another one left.           *)
(***************************************************************************)
BeginSync(p) == selection # NoProvider /\ Begin(p, "sync", "lock", selection)
\* Mutant: the sync goes on with the provider it resolved before it queued.
LockSyncStale(p) ==
  /\ On(p, "sync", "lock")
  /\ Take(p, [picmd[p] EXCEPT !.at = "provision"])
  /\ UNCHANGED <<local, remote, jobs, pibegun, history>>
LockSync(p) ==
  /\ On(p, "sync", "lock")
  /\ Take(p, [picmd[p] EXCEPT !.at = "resolve"])
  /\ UNCHANGED <<local, remote, jobs, pibegun, history>>
Resolve(p) ==
  /\ picmd[p].at = "resolve"
  /\ IF selection = NoProvider \/ (selection \in Codexes /\ recovery)
     THEN IF picmd[p].op = "sync" THEN End(p) ELSE To(p, "undo")
     ELSE picmd' = [picmd EXCEPT ![p].at = "provision", ![p].provider = selection]
          /\ UNCHANGED piLock
  /\ UNCHANGED <<local, remote, jobs, pibegun, history>>

\* Removals first, then the environment, then the profile.
Provisioned(n) ==
  /\ environment' = IF n \in Codexes THEN NoProvider ELSE n
  /\ awsHome' = IF n \in Bedrocks THEN n ELSE NoProvider
  /\ UNCHANGED oauth
ProvisionedPartly(n) ==
  /\ IF n \in Bedrocks
     THEN environment' = n /\ UNCHANGED awsHome
     ELSE awsHome' \in {awsHome, NoProvider} /\ UNCHANGED environment
  /\ UNCHANGED oauth
Provision(p) ==
  /\ picmd[p].at = "provision"
  /\ Provisioned(picmd[p].provider)
  /\ End(p)
  /\ UNCHANGED <<local, jobs, pibegun, history>>
\* The host fails on the way, or the SSO session of a bedrock profile is not ready.
ProvisionFails(p) ==
  /\ picmd[p].at = "provision"
  /\ \/ ProvisionedPartly(picmd[p].provider)
     \/ UNCHANGED remote
     \/ picmd[p].provider \in Bedrocks /\ Provisioned(picmd[p].provider)
  /\ IF picmd[p].op = "sync" THEN End(p) ELSE To(p, "undo")
  /\ UNCHANGED <<local, jobs, pibegun, history>>

(***************************************************************************)
(* configure --provider: replaces the selection and syncs, under one lock. *)
(* Leaving Codex, it first says in hosts.json that the login is to be made *)
(* again, then removes it; a change of the AWS identity cleans the host.   *)
(***************************************************************************)
LeavesCodex(p) == picmd[p].previous \in Codexes /\ picmd[p].provider \notin Codexes
ChangesIdentity(p) ==
  /\ picmd[p].previous # picmd[p].provider
  /\ picmd[p].previous \in Bedrocks \/ picmd[p].provider \in Bedrocks
BeginConfigure(p) == \E n \in Providers : Begin(p, "configure", "lock", n)
\* Mutant: the login is removed and the mark only comes with a failure.
LockConfigureUnmarked(p) ==
  /\ On(p, "configure", "lock")
  /\ LET to == picmd[p].provider
         c == [picmd[p] EXCEPT !.previous = selection, !.had = loggedIn]
         leaving == selection \in Codexes /\ to \notin Codexes
     IN IF recovery /\ to \in Codexes
        THEN piLock = NoProc /\ End(p)
        ELSE Take(p, [c EXCEPT !.at = IF leaving THEN "purge" ELSE "clean"])
  /\ UNCHANGED <<local, remote, jobs, pibegun, history>>
\* Codex is refused while its login is to be made again; the mark is written before "purge".
LockConfigure(p) ==
  /\ On(p, "configure", "lock")
  /\ LET to == picmd[p].provider
         c == [picmd[p] EXCEPT !.previous = selection, !.had = loggedIn]
         leaving == selection \in Codexes /\ to \notin Codexes
     IN IF recovery /\ to \in Codexes
        THEN piLock = NoProc /\ End(p) /\ UNCHANGED recovery
        ELSE /\ Take(p, [c EXCEPT !.at = IF leaving THEN "purge" ELSE "clean"])
             /\ recovery' = (recovery \/ leaving)
  /\ UNCHANGED <<selection, remote, jobs, pibegun, history>>
Purge(p) ==
  /\ On(p, "configure", "purge")
  /\ RevokeLogin
  /\ To(p, "clean")
  /\ UNCHANGED <<local, jobs, pibegun, history>>
Clean(p) ==
  /\ On(p, "configure", "clean")
  /\ IF ChangesIdentity(p)
     THEN \/ RevokeAll /\ To(p, "select")
          \/ RevokeSome /\ End(p)
     ELSE UNCHANGED remote /\ To(p, "select")
  /\ UNCHANGED <<local, jobs, pibegun, history>>
SelectReplacement(p) ==
  /\ On(p, "configure", "select")
  /\ Select(picmd[p].provider, picmd[p].provider = picmd[p].previous /\ picmd[p].had)
  /\ recovery' = (recovery /\ ~ LeavesCodex(p))
  /\ To(p, "resolve")
  /\ UNCHANGED <<remote, jobs, pibegun, dropped>>
\* The sync failed.  A Codex selection comes back with its mark; another replacement is
\* retained; a first selection is taken back once the host has been cleaned.
Undo(p) ==
  /\ On(p, "configure", "undo")
  /\ IF LeavesCodex(p) THEN To(p, "restore") /\ UNCHANGED remote
     ELSE IF picmd[p].previous # NoProvider THEN End(p) /\ UNCHANGED remote
     ELSE \/ RevokeAll /\ To(p, "restore")
          \/ RevokeSome /\ End(p)
  /\ UNCHANGED <<local, jobs, pibegun, history>>
RestoreAttachment(p) ==
  /\ On(p, "configure", "restore")
  /\ Select(picmd[p].previous, picmd[p].had)
  /\ recovery' = (recovery \/ LeavesCodex(p))
  /\ End(p)
  /\ UNCHANGED <<remote, jobs, pibegun, dropped>>

(***************************************************************************)
(* login: Pi runs in the operator's terminal while the lock is held.  With *)
(* the mark in hosts.json what auth.json holds is removed first; the mark  *)
(* goes when a login is found and the selection is still the same.         *)
(***************************************************************************)
BeginLogin(p) == \E n \in Codexes : Begin(p, "login", "lock", n)
LockLogin(p) ==
  /\ On(p, "login", "lock")
  /\ IF selection = picmd[p].provider
     THEN Take(p, [picmd[p] EXCEPT !.at = "native"])
     ELSE piLock = NoProc /\ End(p)
  /\ UNCHANGED <<local, remote, jobs, pibegun, history>>
NativeLogin(p) ==
  /\ On(p, "login", "native")
  /\ oauth' \in {oauth /\ ~ recovery, TRUE}
  /\ To(p, "verify")
  /\ UNCHANGED <<local, environment, awsHome, jobs, pibegun, history>>
VerifyLogin(p) ==
  /\ On(p, "login", "verify")
  /\ IF oauth /\ selection = picmd[p].provider
     THEN recovery' = FALSE /\ loggedIn' = TRUE /\ dropped' = FALSE
     ELSE UNCHANGED <<recovery, loggedIn, dropped>>
  /\ End(p)
  /\ UNCHANGED <<selection, remote, jobs, pibegun, revoked>>

(***************************************************************************)
(* An inference with Codex, of chat or of exec: authorised and run under   *)
(* the lock, on the host as long as auth.json is there.  A chat that is    *)
(* cancelled returns a second later, whether or not the host has finished. *)
(***************************************************************************)
BeginInference(p) == selection \in Codexes /\ Begin(p, "chat", "lock", selection)
LockInference(p) ==
  /\ On(p, "chat", "lock") /\ piLock = NoProc
  /\ IF selection = picmd[p].provider /\ ~ recovery /\ oauth
     THEN Take(p, [picmd[p] EXCEPT !.at = "infer"]) /\ jobs' = jobs \cup {p}
     ELSE End(p) /\ UNCHANGED jobs
  /\ UNCHANGED <<local, remote, pibegun, history>>
InferenceEnds(p) ==
  /\ On(p, "chat", "infer")
  /\ jobs' = jobs \ {p}
  /\ End(p)
  /\ UNCHANGED <<local, remote, pibegun, history>>
\* What a cancelled chat left running on the host ends.
JobEnds(p) ==
  /\ p \in jobs /\ picmd[p].at # "infer"
  /\ jobs' = jobs \ {p}
  /\ UNCHANGED <<local, remote, piLock, picmd, pibegun, history>>

Next ==
  \E p \in Procs :
    \/ BeginAttach(p) \/ WriteAttachment(p)
    \/ BeginDetach(p) \/ LockDetach(p) \/ RevokeDetached(p) \/ RevokeFails(p) \/ PersistDetach(p)
    \/ BeginSync(p) \/ LockSync(p) \/ Resolve(p) \/ Provision(p) \/ ProvisionFails(p)
    \/ BeginConfigure(p) \/ LockConfigure(p) \/ Purge(p) \/ Clean(p) \/ SelectReplacement(p)
    \/ Undo(p) \/ RestoreAttachment(p)
    \/ BeginLogin(p) \/ LockLogin(p) \/ NativeLogin(p) \/ VerifyLogin(p)
    \/ BeginInference(p) \/ LockInference(p) \/ InferenceEnds(p) \/ JobEnds(p)
    \/ Stop(p)

Spec == Init /\ [][Next]_vars

(***************************************************************************)
(* Properties.                                                             *)
(***************************************************************************)
\* A Codex selection that had a login and has lost it says so in hosts.json, wherever the
\* replacement of the provider stopped ("a locally selected Codex provider [must not look]
\* usable"), except after a detach that removed the login and could not finish.
GateClosed ==
  piLock = NoProc /\ selection \in Codexes /\ loggedIn /\ ~ oauth /\ ~ dropped => recovery

\* "a concurrent sync re-resolves under the same lock and therefore cannot resurrect a
\* detached credential": nothing of a provider that was detached is on the host until it
\* is attached again.
NoneResurrected ==
  \A n \in revoked :
    /\ environment # n /\ awsHome # n
    /\ n \in Codexes => ~ oauth

\* As long as somebody waits for a Codex inference, its login is not taken away, nor is it
\* run on a login that is to be made again.
InferenceKeepsLogin ==
  \A p \in jobs : picmd[p].at = "infer" => oauth /\ ~ recovery

\* "so detached state never masks a live bearer": with no provider attached there is no
\* credential on the host.
DetachedIsClean ==
  piLock = NoProc /\ selection = NoProvider
    => environment = NoProvider /\ awsHome = NoProvider /\ ~ oauth
=============================================================================
