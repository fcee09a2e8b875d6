------------------------------ MODULE CodexOAuth ------------------------------
(***************************************************************************)
(* The OAuth credential of one codex agent, from the login of the operator *)
(* to the auth.json of the agent.  It is spread over three places no write *)
(* covers at once: which provider is selected (hosts.json), the document   *)
(* with its journal and its activation request (secrets.json), and on the  *)
(* agent's host auth.json, which Codex refreshes in place, next to a       *)
(* receipt.                                                                *)
(*                                                                         *)
(* attach and detach (cli/clawctl/agent/provider.py) and sync and          *)
(* configure (core/lifecycle.py, the playbook configure.yaml) run one at a *)
(* time under a lock of the agent that dies with its holder.  Every step   *)
(* that leaves a mark is an action, and each may be the last: the next     *)
(* command resolves what the journal says was begun.                       *)
(***************************************************************************)
EXTENDS Naturals

CONSTANTS
  Clis,        \* processes running clawctl
  NoCli,       \* nobody: the lock is free
  Providers,   \* the registered providers of type codex-oauth
  NoProvider,  \* no provider is attached
  MaxLogins,   \* bound: logins the operator may import
  MaxAttaches  \* bound: attach commands begun

NoDocument == 0
Imported == 1 .. MaxLogins
Supplied == MaxLogins + 1  \* written with `agent secret create`, past the lock
Documents == Imported \cup {Supplied}
NoId == 0
Ids == 1 .. MaxAttaches

ASSUME CodexOAuthAssumption ==
  /\ MaxLogins \in Nat \ {0}
  /\ MaxAttaches \in Nat
  /\ NoProvider \notin Providers
  /\ NoCli \notin Clis

VARIABLES
  selected,  \* agents[n]["providers"] of hosts.json, a list of at most one
  secrets,   \* the agent's entry of secrets.json
  auth,      \* ~/.codex/auth.json on the agent's host
  receipt,   \* ~/.codex/.clawrium-oauth-fingerprint next to it
  holder,    \* who has the lock of the agent
  run,       \* run[c]: the command process c is in
  attaches,  \* attach commands begun (bounded by MaxAttaches)
  asked,     \* history: the document of an attach that reported success and that
             \* nothing was asked of since, or NoDocument
  misread,   \* history: a recovery took a selection for the present one that is not
  waived     \* history: the activation whose receipt the operator removed last

vars == <<selected, secrets, auth, receipt, holder, run, attaches, asked, misread, waived>>
remote == <<auth, receipt>>
history == <<asked, misread, waived>>

NoTransaction == [operation |-> "none", provider |-> NoProvider,
                  previous |-> NoDocument, document |-> NoDocument]
Transactions == [operation : {"attach", "detach"}, provider : Providers,
                 previous : Documents \cup {NoDocument}, document : Documents]
NoReceipt == [kind |-> "none", id |-> NoId, document |-> NoDocument]
Pending(id) == [kind |-> "pending", id |-> id, document |-> NoDocument]
Completed(id, doc) == [kind |-> "complete", id |-> id, document |-> doc]

\* A command: where it is, the selection it has read, the document and the activation
\* it carries, and whether it is undoing itself.
Idle == [at |-> "idle", command |-> "none", provider |-> NoProvider, view |-> NoProvider,
         previous |-> NoDocument, document |-> NoDocument, id |-> NoId, failing |-> FALSE]

Secrets == [document : Documents \cup {NoDocument}, activation : Ids \cup {NoId},
            transaction : Transactions \cup {NoTransaction}]
Credentials == [document : Documents \cup {NoDocument}, valid : BOOLEAN, refreshed : BOOLEAN,
                by : Ids \cup {NoId}]
Receipts == [kind : {"none", "pending", "complete"}, id : Ids \cup {NoId},
             document : Documents \cup {NoDocument}]
Labels == {"idle", "lock", "recover", "forget", "clear", "prepare", "journal", "metadata",
           "commit", "request", "inspect", "pend", "install", "complete", "restore", "finish"}
Commands == [at : Labels, command : {"none", "attach", "detach", "sync"},
             provider : Providers \cup {NoProvider}, view : Providers \cup {NoProvider},
             previous : Documents \cup {NoDocument}, document : Documents \cup {NoDocument},
             id : Ids \cup {NoId}, failing : BOOLEAN]

TypeOK ==
  /\ selected \in Providers \cup {NoProvider}
  /\ secrets \in Secrets
  /\ auth \in Credentials
  /\ receipt \in Receipts
  /\ holder \in Clis \cup {NoCli}
  /\ run \in [Clis -> Commands]
  /\ attaches \in 0 .. MaxAttaches
  /\ asked \in Documents \cup {NoDocument}
  /\ misread \in BOOLEAN
  /\ waived \in Ids \cup {NoId}

Init ==
  /\ selected = NoProvider
  /\ secrets = [document |-> NoDocument, activation |-> NoId, transaction |-> NoTransaction]
  /\ auth = [document |-> NoDocument, valid |-> FALSE, refreshed |-> FALSE, by |-> NoId]
  /\ receipt = NoReceipt
  /\ holder = NoCli
  /\ run = [c \in Clis |-> Idle]
  /\ attaches = 0
  /\ asked = NoDocument
  /\ misread = FALSE
  /\ waived = NoId

(***************************************************************************)
(* Steps of a process: it is at a label, goes to the next, or ends and     *)
(* lets go of the lock.                                                    *)
(***************************************************************************)
On(c, label) == run[c].at = label
Go(c, label) == run' = [run EXCEPT ![c].at = label] /\ UNCHANGED holder
End(c) ==
  /\ run' = [run EXCEPT ![c] = Idle]
  /\ holder' = IF holder = c THEN NoCli ELSE holder

(***************************************************************************)
(* The commands.  sync and configure resolve the agent, its host record    *)
(* with the attachments included, before they queue for the lock; attach   *)
(* and detach once they have it.                                           *)
(***************************************************************************)
BeginAttach(c) ==
  /\ On(c, "idle")
  /\ attaches < MaxAttaches
  /\ \E prov \in Providers :
       run' = [run EXCEPT ![c] = [Idle EXCEPT !.at = "lock", !.command = "attach",
                                              !.provider = prov, !.id = attaches + 1]]
  /\ attaches' = attaches + 1
  /\ UNCHANGED <<selected, secrets, remote, holder, history>>

BeginDetach(c) ==
  /\ On(c, "idle")
  /\ \E prov \in Providers :
       run' = [run EXCEPT ![c] = [Idle EXCEPT !.at = "lock", !.command = "detach",
                                              !.provider = prov]]
  /\ UNCHANGED <<selected, secrets, remote, holder, attaches, history>>

BeginSync(c) ==
  /\ On(c, "idle")
  /\ run' = [run EXCEPT ![c] = [Idle EXCEPT !.at = "lock", !.command = "sync",
                                            !.view = selected]]
  /\ UNCHANGED <<selected, secrets, remote, holder, attaches, history>>

Acquire(c) ==
  /\ On(c, "lock")
  /\ holder = NoCli
  /\ holder' = c
  /\ run' = [run EXCEPT ![c].at = "recover",
                        ![c].view = IF run[c].command = "sync" THEN @ ELSE selected]
  /\ UNCHANGED <<selected, secrets, remote, attaches, history>>

(***************************************************************************)
(* Recovery.  What the journal says was begun is completed when the        *)
(* selection says so and undone when it does not, and the document is only *)
(* replaced while it is still the one the journal names.                   *)
(***************************************************************************)
\* Mutant: the document is replaced whatever it is by now.
SwapBlindly(doc, old, new) == new

Swap(doc, old, new) == IF doc = old THEN new ELSE doc

\* Mutant: what was begun is completed whatever is selected.
RecoveredForward(doc, txn, chosen) ==
  IF txn.operation = "attach" THEN Swap(doc, txn.previous, txn.document)
  ELSE Swap(doc, txn.document, NoDocument)

Recovered(doc, txn, chosen) ==
  IF txn.operation = "attach"
  THEN IF chosen THEN Swap(doc, txn.previous, txn.document)
                 ELSE Swap(doc, txn.document, txn.previous)
  ELSE IF chosen THEN Swap(doc, NoDocument, txn.previous)
                 ELSE Swap(doc, txn.document, NoDocument)

\* Where a command goes on once nothing is pending any more.
Proceed(c) ==
  IF run[c].failing THEN End(c)
  ELSE Go(c, IF run[c].command = "sync" THEN "request" ELSE "prepare")

Recover(c) ==
  LET txn == secrets.transaction
      chosen == run[c].view = txn.provider IN
  /\ On(c, "recover")
  /\ IF txn = NoTransaction
     THEN Proceed(c) /\ UNCHANGED <<secrets, misread>>
     ELSE /\ secrets' = [secrets EXCEPT !.document = Recovered(@, txn, chosen)]
          /\ misread' = (misread \/ (chosen # (selected = txn.provider)))
          /\ Go(c, IF txn.operation = "attach" /\ ~chosen THEN "forget" ELSE "clear")
  /\ UNCHANGED <<selected, remote, attaches, asked, waived>>

\* An attach that is undone takes its activation request with it.
Forget(c) ==
  /\ On(c, "forget")
  /\ secrets' = [secrets EXCEPT !.activation = NoId]
  /\ Go(c, "clear")
  /\ UNCHANGED <<selected, remote, attaches, history>>

ClearJournal(c) ==
  /\ On(c, "clear")
  /\ secrets' = [secrets EXCEPT !.transaction = NoTransaction]
  /\ Proceed(c)
  /\ UNCHANGED <<selected, remote, attaches, history>>

(***************************************************************************)
(* attach and detach: the journal and the document in one write, then the  *)
(* selection, then the journal again.                                      *)
(***************************************************************************)
PrepareAttach(c) ==
  /\ On(c, "prepare") /\ run[c].command = "attach"
  /\ IF run[c].view \in {NoProvider, run[c].provider}
     THEN /\ \E login \in Imported :
               run' = [run EXCEPT ![c].at = "journal", ![c].previous = secrets.document,
                                  ![c].document = login]
          /\ UNCHANGED holder
     ELSE End(c)
  /\ UNCHANGED <<selected, secrets, remote, attaches, history>>

PrepareDetach(c) ==
  /\ On(c, "prepare") /\ run[c].command = "detach"
  /\ IF run[c].view = run[c].provider /\ secrets.document # NoDocument
     THEN /\ run' = [run EXCEPT ![c].at = "journal", ![c].previous = secrets.document,
                                ![c].document = secrets.document]
          /\ UNCHANGED holder
     ELSE End(c)
  /\ UNCHANGED <<selected, secrets, remote, attaches, history>>

JournalOf(c) == [operation |-> run[c].command, provider |-> run[c].provider,
                 previous |-> run[c].previous, document |-> run[c].document]

\* Mutant: a refreshed document is not asked to be activated.
JournalAttachUnasked(c) ==
  /\ On(c, "journal") /\ run[c].command = "attach"
  /\ secrets' = [secrets EXCEPT !.document = run[c].document, !.transaction = JournalOf(c)]
  /\ asked' = NoDocument
  /\ Go(c, IF run[c].view = NoProvider THEN "metadata" ELSE "commit")
  /\ UNCHANGED <<selected, remote, attaches, misread, waived>>

JournalAttach(c) ==
  /\ On(c, "journal") /\ run[c].command = "attach"
  /\ secrets' = [document |-> run[c].document, activation |-> run[c].id,
                 transaction |-> JournalOf(c)]
  /\ asked' = NoDocument
  /\ Go(c, IF run[c].view = NoProvider THEN "metadata" ELSE "commit")
  /\ UNCHANGED <<selected, remote, attaches, misread, waived>>

JournalDetach(c) ==
  /\ On(c, "journal") /\ run[c].command = "detach"
  /\ secrets' = [document |-> NoDocument, activation |-> NoId, transaction |-> JournalOf(c)]
  /\ asked' = NoDocument
  /\ Go(c, "metadata")
  /\ UNCHANGED <<selected, remote, attaches, misread, waived>>

\* The write of hosts.json, which may fail, or be interrupted when it is already done.
\* Either way the command recovers by the selection it had read before.
Metadata(c) ==
  /\ On(c, "metadata")
  /\ \E written, raised \in BOOLEAN :
       /\ written \/ raised
       /\ selected' = IF ~written THEN selected
                      ELSE IF run[c].command = "attach" THEN run[c].provider ELSE NoProvider
       /\ run' = [run EXCEPT ![c].at = IF raised THEN "recover" ELSE "commit",
                             ![c].failing = raised]
  /\ UNCHANGED <<secrets, remote, holder, attaches, history>>

Commit(c) ==
  /\ On(c, "commit")
  /\ secrets' = [secrets EXCEPT !.transaction = NoTransaction]
  /\ asked' = IF run[c].command = "attach" /\ secrets.document = run[c].document
              THEN run[c].document ELSE NoDocument
  /\ End(c)
  /\ UNCHANGED <<selected, remote, attaches, misread, waived>>

(***************************************************************************)
(* sync and configure, and the playbook on the agent's host.               *)
(***************************************************************************)
Request(c) ==
  /\ On(c, "request")
  /\ IF secrets.document = NoDocument THEN End(c)
     ELSE /\ run' = [run EXCEPT ![c].at = "inspect", ![c].id = secrets.activation,
                                ![c].document = secrets.document]
          /\ UNCHANGED holder
  /\ UNCHANGED <<selected, secrets, remote, attaches, history>>

Applied(c) == receipt = Completed(run[c].id, run[c].document)
\* Mutant: a receipt of an interrupted activation is no reason to stop.
NeverInterrupted == FALSE

Interrupted == receipt.kind = "pending"

Inspect(c) ==
  /\ On(c, "inspect")
  /\ IF run[c].id # NoId /\ Interrupted THEN End(c)
     ELSE Go(c, CASE run[c].id # NoId /\ ~Applied(c) -> "pend"
                  [] (run[c].id = NoId \/ Applied(c)) /\ ~auth.valid -> "restore"
                  [] OTHER -> "finish")
  /\ UNCHANGED <<selected, secrets, remote, attaches, history>>

RecordPending(c) ==
  /\ On(c, "pend")
  /\ receipt' = Pending(run[c].id)
  /\ Go(c, "install")
  /\ UNCHANGED <<selected, secrets, auth, attaches, history>>

WriteAuth(c) ==
  auth' = [document |-> run[c].document, valid |-> TRUE, refreshed |-> FALSE, by |-> run[c].id]

InstallAuth(c) ==
  /\ On(c, "install")
  /\ WriteAuth(c)
  /\ Go(c, "complete")
  /\ UNCHANGED <<selected, secrets, receipt, attaches, history>>

RecordComplete(c) ==
  /\ On(c, "complete")
  /\ receipt' = Completed(run[c].id, run[c].document)
  /\ Go(c, "finish")
  /\ UNCHANGED <<selected, secrets, auth, attaches, history>>

\* A document Codex cannot use is replaced whatever was asked for.
RestoreAuth(c) ==
  /\ On(c, "restore")
  /\ WriteAuth(c)
  /\ Go(c, "finish")
  /\ UNCHANGED <<selected, secrets, receipt, attaches, history>>

\* The request is dropped, or stays when that write fails: sync has succeeded.
Finish(c) ==
  /\ On(c, "finish")
  /\ \/ run[c].id # NoId /\ secrets' = [secrets EXCEPT !.activation = NoId]
     \/ UNCHANGED secrets
  /\ End(c)
  /\ UNCHANGED <<selected, remote, attaches, history>>

(***************************************************************************)
(* A command dies: it is killed, a write raises, the playbook stops.       *)
(***************************************************************************)
Die(c) ==
  /\ ~On(c, "idle")
  /\ End(c)
  /\ UNCHANGED <<selected, secrets, remote, attaches, history>>

(***************************************************************************)
(* The operator and Codex itself.                                          *)
(***************************************************************************)
\* agent secret create writes any key, without the lock of the agent.
SupplySecret ==
  /\ secrets' = [secrets EXCEPT !.document = Supplied]
  /\ asked' = NoDocument
  /\ UNCHANGED <<selected, remote, holder, run, attaches, misread, waived>>

\* docs/operations/codex-oauth-recovery.md: the operator has seen that the agent can
\* still authenticate, and wants its credential replaced.
RemoveReceipt ==
  /\ Interrupted
  /\ waived' = receipt.id
  /\ receipt' = NoReceipt
  /\ UNCHANGED <<selected, secrets, auth, holder, run, attaches, asked, misread>>

Refresh ==
  /\ auth.valid
  /\ auth' = [auth EXCEPT !.refreshed = TRUE]
  /\ UNCHANGED <<selected, secrets, receipt, holder, run, attaches, history>>

LoseAuth ==
  /\ auth.valid
  /\ auth' = [auth EXCEPT !.valid = FALSE]
  /\ UNCHANGED <<selected, secrets, receipt, holder, run, attaches, history>>

Locked(c) ==
  \/ Recover(c) \/ Forget(c) \/ ClearJournal(c)
  \/ PrepareAttach(c) \/ PrepareDetach(c) \/ JournalAttach(c) \/ JournalDetach(c)
  \/ Metadata(c) \/ Commit(c)
  \/ Request(c) \/ Inspect(c) \/ RecordPending(c) \/ InstallAuth(c) \/ RecordComplete(c)
  \/ RestoreAuth(c) \/ Finish(c)

Next ==
  \/ \E c \in Clis : \/ BeginAttach(c) \/ BeginDetach(c) \/ BeginSync(c)
                     \/ Acquire(c) \/ Locked(c) \/ Die(c)
  \/ SupplySecret \/ RemoveReceipt \/ Refresh \/ LoseAuth

Spec == Init /\ [][Next]_vars

-----------------------------------------------------------------------------
\* Selection and credential belong together: a selected provider has a document to
\* activate, and where none is selected there is neither a request nor a document,
\* but for one the operator has put there directly.
Paired ==
  /\ selected # NoProvider => secrets.document # NoDocument
  /\ selected = NoProvider => /\ secrets.document \in {NoDocument, Supplied}
                              /\ secrets.activation = NoId

AtRest == holder = NoCli /\ secrets.transaction = NoTransaction

\* Whatever died in whatever order, once the journal is gone the two files agree, unless a
\* recovery went by a selection that was no longer the present one (provider.py:428-482).
Settled == AtRest /\ ~misread => Paired

\* Without that exception, as the docstring of the recovery has it ("selected means
\* complete the intent; unselected means restore the prior credential").
RecoveryAgrees == AtRest => Paired

\* A credential Codex has refreshed is overwritten for a request only, and for the same
\* request at most once, however often sync is interrupted and repeated, unless the
\* operator has taken away the receipt that says so (configure.yaml:54-73).
Overwritten == auth.valid /\ auth.refreshed /\ auth'.valid /\ ~auth'.refreshed
RefreshKeptStep ==
  Overwritten => /\ auth'.by # NoId
                 /\ \/ <<auth'.by, auth'.document>> # <<auth.by, auth.document>>
                    \/ auth'.by = waived
RefreshKept == [][RefreshKeptStep]_vars

\* Undoing or completing an interrupted command never touches a document that was
\* written after it (provider.py:434-436): the command's journal does not name it.
RecoveryKeepsNewerStep ==
  \A c \in Clis :
    /\ Recover(c)
    /\ secrets.document = Supplied
    /\ Supplied \notin {secrets.transaction.previous, secrets.transaction.document}
    => secrets'.document = Supplied
RecoveryKeepsNewer == [][RecoveryKeepsNewerStep]_vars

\* After an attach that reported success, the next sync that reports success has left
\* the agent with that document, whatever died in between (docs/agent-support/codex.md:29-31).
SyncActivatesStep == \A c \in Clis : Finish(c) /\ asked # NoDocument => auth.document = asked
SyncActivates == [][SyncActivatesStep]_vars
=============================================================================
