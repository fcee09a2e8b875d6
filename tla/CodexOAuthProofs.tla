--------------------------- MODULE CodexOAuthProofs ---------------------------
(***************************************************************************)
(* Proofs about CodexOAuth, for any processes and providers, any number of *)
(* logins and any bound on attaches.                                       *)
(*                                                                         *)
(* The inductive invariant has four parts besides the types.  Locked says  *)
(* who is past the lock and what a command knows there.  Journaled says    *)
(* what the journal, the document and the selection may be while a command *)
(* is half done, as long as no recovery was misled.  Answered follows the  *)
(* document of a successful attach to the agent's host.  Receipted relates *)
(* the receipt to the credential it was written for; both rest on Numbered:*)
(* the number of an attach that has not written its request yet is found   *)
(* nowhere else.                                                           *)
(***************************************************************************)
EXTENDS CodexOAuth, TLAPS

Recovering == {"recover", "forget", "clear"}
Activating == {"inspect", "pend", "install", "complete", "restore", "finish"}

\* The lock is had by the one command that is past it.
LockHeld == \A c \in Clis : run[c].at \notin {"idle", "lock"} <=> holder = c

\* What a command is and has read, label by label.
CommandKnown ==
  \A c \in Clis :
    /\ run[c].at # "idle" => run[c].command \in {"attach", "detach", "sync"}
    /\ run[c].command \in {"attach", "detach"} => run[c].provider \in Providers
    /\ run[c].at \in {"prepare", "journal", "metadata", "commit"} =>
         run[c].command \in {"attach", "detach"} /\ ~ run[c].failing
    /\ run[c].at \in {"journal", "metadata", "commit"} => run[c].document \in Documents
    /\ run[c].at \in Recovering \cup {"prepare", "journal", "metadata"}
         /\ run[c].command # "sync" /\ ~ run[c].failing => run[c].view = selected
    /\ run[c].at \in {"journal", "metadata"} /\ run[c].command = "attach" =>
         run[c].view \in {NoProvider, run[c].provider}
    /\ run[c].at \in {"journal", "metadata"} /\ run[c].command = "detach" =>
         run[c].view = run[c].provider /\ run[c].previous = run[c].document
    /\ run[c].at = "metadata" /\ run[c].command = "attach" => run[c].view = NoProvider

\* Which command has a journal.
JournalKnown ==
  \A c \in Clis :
    /\ run[c].at \in {"prepare", "journal", "request"} \cup Activating =>
         secrets.transaction = NoTransaction
    /\ run[c].at \in {"forget", "clear"} => secrets.transaction # NoTransaction
    /\ run[c].at \in {"metadata", "commit"} => secrets.transaction = JournalOf(c)

\* What there is to recover from: an attach may be undone to nothing or to what the
\* operator supplied, a detach that is done has left no request and no other document.
HalfDone ==
  LET txn == secrets.transaction IN
  /\ selected \in {NoProvider, txn.provider}
  /\ txn.operation = "attach" =>
       /\ selected = NoProvider => /\ txn.previous \in {NoDocument, Supplied}
                                   /\ secrets.document \in {txn.document, NoDocument,
                                      Supplied}
       /\ selected # NoProvider => secrets.document # NoDocument
  /\ txn.operation = "detach" =>
       /\ txn.previous # NoDocument /\ secrets.activation = NoId
       /\ selected = NoProvider => secrets.document \in {NoDocument, Supplied}

Journaled ==
  ~ misread =>
    /\ secrets.transaction = NoTransaction => Paired
    /\ secrets.transaction # NoTransaction => HalfDone
    /\ \A c \in Clis :
         /\ run[c].at \in {"clear", "commit"} => Paired
         /\ run[c].at = "forget" =>
              selected = NoProvider /\ secrets.document \in {NoDocument, Supplied}
         /\ run[c].at = "journal" /\ run[c].command = "attach" /\ run[c].view = NoProvider =>
              run[c].previous \in {NoDocument, Supplied}
         /\ run[c].at = "metadata" =>
              secrets.document \in {Supplied, IF run[c].command = "attach"
                                              THEN run[c].document ELSE NoDocument}

\* An attach that has not asked for an activation yet.
Unasked(c) ==
  /\ run[c].command = "attach" /\ ~ run[c].failing
  /\ run[c].at \in Recovering \cup {"lock", "prepare", "journal"}
Numbered ==
  /\ {secrets.activation, auth.by, receipt.id} \subseteq 0 .. attaches
  /\ \A c \in Clis :
       /\ Unasked(c) =>
            /\ run[c].id \in 1 .. attaches
            /\ run[c].id \notin {secrets.activation, auth.by, receipt.id}
            /\ \A d \in Clis \ {c} : Unasked(d) => run[d].id # run[c].id
       /\ run[c].at \in {"metadata", "commit"} /\ run[c].command = "attach" =>
            /\ run[c].id = secrets.activation /\ run[c].id # NoId
            /\ run[c].id # receipt.id

\* The document of an attach that succeeded is the one on record, and on the agent's host
\* once its activation is no longer asked for or has a receipt.
Answered ==
  /\ asked # NoDocument =>
       /\ secrets.transaction = NoTransaction /\ secrets.document = asked
       /\ secrets.activation = NoId \/ receipt = Completed(secrets.activation, asked) =>
            auth.document = asked
  /\ \A c \in Clis :
       /\ run[c].at \in Activating =>
            /\ run[c].id = secrets.activation
            /\ asked # NoDocument => run[c].document = asked
       /\ run[c].at = "finish" /\ asked # NoDocument => auth.document = asked

Waived(id) == waived = id /\ receipt.kind # "pending"
\* The credential of the activation that is asked for has a receipt, unless the operator
\* took it away.
Receipted ==
  /\ auth.by # NoId /\ auth.by = secrets.activation =>
       \/ receipt = Pending(auth.by) \/ receipt = Completed(auth.by, auth.document)
       \/ Waived(auth.by)
  /\ \A c \in Clis :
       /\ run[c].at = "restore" => ~ auth.valid /\ (run[c].id = NoId \/ Applied(c))
       /\ run[c].at \in {"pend", "install"} =>
            /\ run[c].id # NoId
            /\ <<auth.by, auth.document>> = <<run[c].id, run[c].document>> =>
                 waived = run[c].id
       /\ run[c].at = "pend" => receipt.kind # "pending"
       /\ run[c].at = "install" => receipt = Pending(run[c].id) \/ Waived(run[c].id)
       /\ run[c].at = "complete" =>
            <<auth.by, auth.document>> = <<run[c].id, run[c].document>>

IInv ==
  /\ TypeOK
  /\ LockHeld
  /\ CommandKnown
  /\ JournalKnown
  /\ Journaled
  /\ Numbered
  /\ Answered
  /\ Receipted

-----------------------------------------------------------------------------
(* Types.                                                                   *)

(* What no command and no document is. *)
LEMMA Distinct ==
  /\ NoDocument \notin Documents /\ Supplied \in Documents /\ Imported \subseteq Documents
  /\ Supplied # NoDocument /\ NoId \notin Ids
  /\ NoProvider \notin Providers /\ NoCli \notin Clis
BY CodexOAuthAssumption DEF Documents, Imported, Supplied, NoDocument, NoId, Ids

LEMMA IdleType == Idle \in Commands
BY DEF Idle, Commands, Labels

(* A command keeps its type when it goes on to a label, or ends. *)
LEMMA GoType ==
  ASSUME NEW c \in Clis, NEW label \in Labels, run \in [Clis -> Commands], Go(c, label)
  PROVE  run' \in [Clis -> Commands]
BY DEF Go, Commands

LEMMA EndType ==
  ASSUME NEW c \in Clis, run \in [Clis -> Commands], holder \in Clis \cup {NoCli}, End(c)
  PROVE  run' \in [Clis -> Commands] /\ holder' \in Clis \cup {NoCli}
BY IdleType DEF End

LEMMA ProceedType ==
  ASSUME NEW c \in Clis, run \in [Clis -> Commands], holder \in Clis \cup {NoCli},
     Proceed(c)
  PROVE  run' \in [Clis -> Commands] /\ holder' \in Clis \cup {NoCli}
<1>1. CASE run[c].failing
  BY <1>1, EndType DEF Proceed
<1>2. CASE ~ run[c].failing
  <2>1. \E label \in {"request", "prepare"} : Go(c, label)
    BY <1>2 DEF Proceed
  <2> QED
    BY <2>1, GoType DEF Labels, Go
<1> QED
  BY <1>1, <1>2

(* A recovery leaves the document, or puts one of the journal in its place. *)
LEMMA RecoveredType ==
  ASSUME NEW doc \in Documents \cup {NoDocument}, NEW txn \in Transactions, NEW chosen
  PROVE  Recovered(doc, txn, chosen) \in Documents \cup {NoDocument}
BY DEF Recovered, Swap, Transactions

(* The journal of a command that has a document. *)
LEMMA JournalType ==
  ASSUME NEW c \in Clis, run[c] \in Commands, run[c].command \in {"attach", "detach"},
         run[c].provider \in Providers, run[c].document \in Documents
  PROVE  JournalOf(c) \in Transactions
BY DEF JournalOf, Transactions, Commands

(* Every step keeps the types. *)
LEMMA NextTypeOK == IInv /\ [Next]_vars => TypeOK'
<1> SUFFICES ASSUME IInv, [Next]_vars
             PROVE  TypeOK'
  OBVIOUS
<1> USE Distinct, CodexOAuthAssumption
    DEF IInv, TypeOK, On, CommandKnown, vars, remote, history
<1>1. ASSUME NEW c \in Clis, BeginAttach(c)
      PROVE  TypeOK'
  <2>1. PICK prov \in Providers :
          run' = [run EXCEPT ![c] = [Idle EXCEPT !.at = "lock", !.command = "attach",
                                                 !.provider = prov, !.id = attaches + 1]]
    BY <1>1 DEF BeginAttach
  <2>2. attaches + 1 \in Ids /\ attaches' \in 0 .. MaxAttaches
    BY <1>1 DEF BeginAttach, Ids
  <2>3. run' \in [Clis -> Commands]
    BY <2>1, <2>2 DEF Idle, Commands, Labels
  <2> QED
    BY <1>1, <2>2, <2>3 DEF BeginAttach
<1>2. ASSUME NEW c \in Clis, BeginDetach(c)
      PROVE  TypeOK'
  <2>0. PICK prov \in Providers :
          run' = [run EXCEPT ![c] = [Idle EXCEPT !.at = "lock", !.command = "detach",
                                                 !.provider = prov]]
    BY <1>2 DEF BeginDetach
  <2>1. run' \in [Clis -> Commands]
    BY <2>0 DEF Idle, Commands, Labels
  <2> QED
    BY <1>2, <2>1 DEF BeginDetach
<1>3. ASSUME NEW c \in Clis, BeginSync(c)
      PROVE  TypeOK'
  <2>1. run' \in [Clis -> Commands]
    BY <1>3 DEF BeginSync, Idle, Commands, Labels
  <2> QED
    BY <1>3, <2>1 DEF BeginSync
<1>4. ASSUME NEW c \in Clis, Acquire(c)
      PROVE  TypeOK'
  <2> DEFINE view == IF run[c].command = "sync" THEN run[c].view ELSE selected
  <2>0. run' = [run EXCEPT ![c] = [run[c] EXCEPT !.at = "recover", !.view = view]]
    BY <1>4 DEF Acquire, Commands
  <2>2. view \in Providers \cup {NoProvider}
    BY DEF Commands
  <2> HIDE DEF view
  <2>3. \A r \in Commands : [r EXCEPT !.at = "recover", !.view = view] \in Commands
    BY ZenonT(60), <2>2 DEF Commands, Labels
  <2>1. run' \in [Clis -> Commands]
    BY <2>0, <2>3
  <2> QED
    BY <1>4, <2>1 DEF Acquire
<1>5. ASSUME NEW c \in Clis, Recover(c)
      PROVE  TypeOK'
  <2>1. CASE secrets.transaction = NoTransaction
    BY <1>5, <2>1, ProceedType DEF Recover
  <2>2. CASE secrets.transaction # NoTransaction
    <3>1. secrets.transaction \in Transactions /\ secrets.document \in Documents \cup {NoDocument}
      BY <2>2 DEF Secrets
    <3>2. secrets' \in Secrets
      BY <1>5, <2>2, <3>1, RecoveredType DEF Recover, Secrets
    <3>3. \E label \in Labels : Go(c, label)
      BY <1>5, <2>2 DEF Recover, Labels
    <3>4. run' \in [Clis -> Commands] /\ holder' = holder
      BY <3>3, GoType DEF Go
    <3>5. misread' \in BOOLEAN
      BY <1>5, <2>2 DEF Recover
    <3> QED
      BY <1>5, <3>2, <3>4, <3>5 DEF Recover
  <2> QED
    BY <2>1, <2>2
<1>6. ASSUME NEW c \in Clis, Forget(c)
      PROVE  TypeOK'
  <2>1. secrets' \in Secrets
    BY <1>6 DEF Forget, Secrets
  <2>2. \E label \in Labels : Go(c, label)
    BY <1>6 DEF Forget, Labels
  <2>3. run' \in [Clis -> Commands] /\ holder' = holder
    BY <2>2, GoType DEF Go
  <2> QED
    BY <1>6, <2>1, <2>3 DEF Forget
<1>7. ASSUME NEW c \in Clis, ClearJournal(c)
      PROVE  TypeOK'
  <2>1. secrets' \in Secrets
    BY <1>7 DEF ClearJournal, Secrets
  <2> QED
    BY <1>7, <2>1, ProceedType DEF ClearJournal
<1>8. ASSUME NEW c \in Clis, PrepareAttach(c)
      PROVE  TypeOK'
  <2>1. CASE End(c)
    BY <1>8, <2>1, EndType DEF PrepareAttach
  <2>2. CASE ~ End(c)
    <3>1. run' \in [Clis -> Commands]
      BY <1>8, <2>2 DEF PrepareAttach, Secrets, Commands, Labels
    <3> QED
      BY <1>8, <2>2, <3>1 DEF PrepareAttach
  <2> QED
    BY <2>1, <2>2
<1>9. ASSUME NEW c \in Clis, PrepareDetach(c)
      PROVE  TypeOK'
  <2>1. CASE End(c)
    BY <1>9, <2>1, EndType DEF PrepareDetach
  <2>2. CASE ~ End(c)
    <3>1. run' \in [Clis -> Commands]
      BY <1>9, <2>2 DEF PrepareDetach, Secrets, Commands, Labels
    <3> QED
      BY <1>9, <2>2, <3>1 DEF PrepareDetach
  <2> QED
    BY <2>1, <2>2
<1>10. ASSUME NEW c \in Clis, JournalAttach(c)
      PROVE  TypeOK'
  <2>1. run[c] \in Commands /\ run[c].document \in Documents /\ run[c].provider \in Providers
    BY <1>10 DEF JournalAttach
  <2>2. secrets' \in Secrets
    BY <1>10, <2>1, JournalType DEF JournalAttach, Secrets, Commands
  <2>3. \E label \in Labels : Go(c, label)
    BY <1>10 DEF JournalAttach, Labels
  <2>4. run' \in [Clis -> Commands] /\ holder' = holder
    BY <2>3, GoType DEF Go
  <2> QED
    BY <1>10, <2>2, <2>4 DEF JournalAttach
<1>11. ASSUME NEW c \in Clis, JournalDetach(c)
      PROVE  TypeOK'
  <2>1. run[c] \in Commands /\ run[c].document \in Documents /\ run[c].provider \in Providers
    BY <1>11 DEF JournalDetach
  <2>2. secrets' \in Secrets
    BY <1>11, <2>1, JournalType DEF JournalDetach, Secrets, Commands
  <2>3. \E label \in Labels : Go(c, label)
    BY <1>11 DEF JournalDetach, Labels
  <2>4. run' \in [Clis -> Commands] /\ holder' = holder
    BY <2>3, GoType DEF Go
  <2> QED
    BY <1>11, <2>2, <2>4 DEF JournalDetach
<1>12. ASSUME NEW c \in Clis, Metadata(c)
      PROVE  TypeOK'
  <2>0. PICK raised \in BOOLEAN :
          run' = [run EXCEPT ![c] = [run[c] EXCEPT !.at = IF raised THEN "recover" ELSE "commit",
                                                   !.failing = raised]]
    BY ZenonT(60), <1>12 DEF Metadata, Commands
  <2>3. \A label \in Labels, r \in Commands :
          [r EXCEPT !.at = label, !.failing = raised] \in Commands
    BY DEF Commands
  <2>1. run' \in [Clis -> Commands]
    BY <2>0, <2>3 DEF Labels
  <2>2. selected' \in Providers \cup {NoProvider}
    BY <1>12 DEF Metadata
  <2> QED
    BY <1>12, <2>1, <2>2 DEF Metadata
<1>13. ASSUME NEW c \in Clis, Commit(c)
      PROVE  TypeOK'
  <2>1. secrets' \in Secrets /\ asked' \in Documents \cup {NoDocument}
    BY <1>13 DEF Commit, Secrets
  <2> QED
    BY <1>13, <2>1, EndType DEF Commit
<1>14. ASSUME NEW c \in Clis, Request(c)
      PROVE  TypeOK'
  <2>1. CASE End(c)
    BY <1>14, <2>1, EndType DEF Request
  <2>2. CASE ~ End(c)
    <3>1. run' \in [Clis -> Commands]
      BY <1>14, <2>2 DEF Request, Secrets, Commands, Labels
    <3> QED
      BY <1>14, <2>2, <3>1 DEF Request
  <2> QED
    BY <2>1, <2>2
<1>15. ASSUME NEW c \in Clis, Inspect(c)
      PROVE  TypeOK'
  <2>1. CASE End(c)
    BY <1>15, <2>1, EndType DEF Inspect
  <2>2. CASE ~ End(c)
    <3>1. \E label \in Labels : Go(c, label)
      BY <1>15, <2>2 DEF Inspect, Labels
    <3>2. run' \in [Clis -> Commands] /\ holder' = holder
      BY <3>1, GoType DEF Go
    <3> QED
      BY <1>15, <3>2 DEF Inspect
  <2> QED
    BY <2>1, <2>2
<1>16. ASSUME NEW c \in Clis, RecordPending(c)
      PROVE  TypeOK'
  <2>1. receipt' \in Receipts
    BY <1>16 DEF RecordPending, Pending, Receipts, Commands
  <2>2. \E label \in Labels : Go(c, label)
    BY <1>16 DEF RecordPending, Labels
  <2>3. run' \in [Clis -> Commands] /\ holder' = holder
    BY <2>2, GoType DEF Go
  <2> QED
    BY <1>16, <2>1, <2>3 DEF RecordPending
<1>17. ASSUME NEW c \in Clis, InstallAuth(c)
      PROVE  TypeOK'
  <2>1. auth' \in Credentials
    BY <1>17 DEF InstallAuth, WriteAuth, Credentials, Commands
  <2>2. \E label \in Labels : Go(c, label)
    BY <1>17 DEF InstallAuth, Labels
  <2>3. run' \in [Clis -> Commands] /\ holder' = holder
    BY <2>2, GoType DEF Go
  <2> QED
    BY <1>17, <2>1, <2>3 DEF InstallAuth
<1>18. ASSUME NEW c \in Clis, RecordComplete(c)
      PROVE  TypeOK'
  <2>1. receipt' \in Receipts
    BY <1>18 DEF RecordComplete, Completed, Receipts, Commands
  <2>2. \E label \in Labels : Go(c, label)
    BY <1>18 DEF RecordComplete, Labels
  <2>3. run' \in [Clis -> Commands] /\ holder' = holder
    BY <2>2, GoType DEF Go
  <2> QED
    BY <1>18, <2>1, <2>3 DEF RecordComplete
<1>19. ASSUME NEW c \in Clis, RestoreAuth(c)
      PROVE  TypeOK'
  <2>1. auth' \in Credentials
    BY <1>19 DEF RestoreAuth, WriteAuth, Credentials, Commands
  <2>2. \E label \in Labels : Go(c, label)
    BY <1>19 DEF RestoreAuth, Labels
  <2>3. run' \in [Clis -> Commands] /\ holder' = holder
    BY <2>2, GoType DEF Go
  <2> QED
    BY <1>19, <2>1, <2>3 DEF RestoreAuth
<1>20. ASSUME NEW c \in Clis, Finish(c)
      PROVE  TypeOK'
  <2>1. secrets' \in Secrets
    BY <1>20 DEF Finish, Secrets
  <2> QED
    BY <1>20, <2>1, EndType DEF Finish
<1>21. ASSUME NEW c \in Clis, Die(c)
      PROVE  TypeOK'
  BY <1>21, EndType DEF Die
<1>22. CASE SupplySecret
  <2>1. secrets' \in Secrets
    BY <1>22 DEF SupplySecret, Secrets
  <2> QED
    BY <1>22, <2>1 DEF SupplySecret
<1>23. CASE RemoveReceipt
  <2>1. receipt' \in Receipts /\ waived' \in Ids \cup {NoId}
    BY <1>23 DEF RemoveReceipt, NoReceipt, Receipts
  <2> QED
    BY <1>23, <2>1 DEF RemoveReceipt
<1>24. CASE Refresh
  <2>1. auth' \in Credentials
    BY <1>24 DEF Refresh, Credentials
  <2> QED
    BY <1>24, <2>1 DEF Refresh
<1>25. CASE LoseAuth
  <2>1. auth' \in Credentials
    BY <1>25 DEF LoseAuth, Credentials
  <2> QED
    BY <1>25, <2>1 DEF LoseAuth
<1>26. CASE UNCHANGED vars
  BY <1>26
<1> QED
  BY <1>1, <1>2, <1>3, <1>4, <1>5, <1>6, <1>7, <1>8, <1>9, <1>10, <1>11, <1>12, <1>13,
     <1>14, <1>15, <1>16, <1>17, <1>18, <1>19, <1>20, <1>21, <1>22, <1>23, <1>24,
        <1>25, <1>26 DEF Next, Locked

-----------------------------------------------------------------------------
(* The parts of the invariant, one lemma each. *)

(* Whoever passes the lock has it, and lets go of it when it ends. *)
LEMMA NextLockHeld == IInv /\ [Next]_vars => LockHeld'
<1> SUFFICES ASSUME IInv, [Next]_vars
             PROVE  LockHeld'
  OBVIOUS
<1>0. run \in [Clis -> Commands]
  BY DEF IInv, TypeOK
<1> USE <1>0, Distinct
    DEF IInv, On, Idle, vars, Commands, Labels, remote, history,
        LockHeld
<1>1. ASSUME NEW c \in Clis, BeginAttach(c)
      PROVE  LockHeld'
  BY <1>1 DEF BeginAttach
<1>2. ASSUME NEW c \in Clis, BeginDetach(c)
      PROVE  LockHeld'
  BY <1>2 DEF BeginDetach
<1>3. ASSUME NEW c \in Clis, BeginSync(c)
      PROVE  LockHeld'
  BY <1>3 DEF BeginSync
<1>4. ASSUME NEW c \in Clis, Acquire(c)
      PROVE  LockHeld'
  BY <1>4 DEF Acquire
<1>5. ASSUME NEW c \in Clis, Recover(c)
      PROVE  LockHeld'
  BY <1>5 DEF Recover, Proceed, Go, End
<1>6. ASSUME NEW c \in Clis, Forget(c)
      PROVE  LockHeld'
  BY <1>6 DEF Forget, Go
<1>7. ASSUME NEW c \in Clis, ClearJournal(c)
      PROVE  LockHeld'
  BY <1>7 DEF ClearJournal, Proceed, Go, End
<1>8. ASSUME NEW c \in Clis, PrepareAttach(c)
      PROVE  LockHeld'
  BY <1>8 DEF PrepareAttach, End
<1>9. ASSUME NEW c \in Clis, PrepareDetach(c)
      PROVE  LockHeld'
  BY <1>9 DEF PrepareDetach, End
<1>10. ASSUME NEW c \in Clis, JournalAttach(c)
      PROVE  LockHeld'
  BY <1>10 DEF JournalAttach, Go, JournalOf
<1>11. ASSUME NEW c \in Clis, JournalDetach(c)
      PROVE  LockHeld'
  BY <1>11 DEF JournalDetach, Go, JournalOf
<1>12. ASSUME NEW c \in Clis, Metadata(c)
      PROVE  LockHeld'
  BY <1>12 DEF Metadata
<1>13. ASSUME NEW c \in Clis, Commit(c)
      PROVE  LockHeld'
  BY <1>13 DEF Commit, End
<1>14. ASSUME NEW c \in Clis, Request(c)
      PROVE  LockHeld'
  BY <1>14 DEF Request, End
<1>15. ASSUME NEW c \in Clis, Inspect(c)
      PROVE  LockHeld'
  BY <1>15 DEF Inspect, Go, End, Applied, Interrupted
<1>16. ASSUME NEW c \in Clis, RecordPending(c)
      PROVE  LockHeld'
  BY <1>16 DEF RecordPending, Go, Pending
<1>17. ASSUME NEW c \in Clis, InstallAuth(c)
      PROVE  LockHeld'
  BY <1>17 DEF InstallAuth, Go, WriteAuth
<1>18. ASSUME NEW c \in Clis, RecordComplete(c)
      PROVE  LockHeld'
  BY <1>18 DEF RecordComplete, Go, Completed
<1>19. ASSUME NEW c \in Clis, RestoreAuth(c)
      PROVE  LockHeld'
  BY <1>19 DEF RestoreAuth, Go, WriteAuth
<1>20. ASSUME NEW c \in Clis, Finish(c)
      PROVE  LockHeld'
  BY <1>20 DEF Finish, End
<1>21. ASSUME NEW c \in Clis, Die(c)
      PROVE  LockHeld'
  BY <1>21 DEF Die, End
<1>22. CASE SupplySecret
  BY <1>22 DEF SupplySecret
<1>23. CASE RemoveReceipt
  BY <1>23 DEF RemoveReceipt, Interrupted, NoReceipt
<1>24. CASE Refresh
  BY <1>24 DEF Refresh
<1>25. CASE LoseAuth
  BY <1>25 DEF LoseAuth
<1>26. CASE UNCHANGED vars
  BY <1>26
<1> QED
  BY <1>1, <1>2, <1>3, <1>4, <1>5, <1>6, <1>7, <1>8, <1>9, <1>10, <1>11, <1>12, <1>13,
     <1>14, <1>15, <1>16, <1>17, <1>18, <1>19, <1>20, <1>21, <1>22, <1>23, <1>24,
        <1>25, <1>26 DEF Next, Locked

(* What a command has read stays true as long as it has the lock. *)
LEMMA NextCommandKnown == IInv /\ [Next]_vars => CommandKnown'
<1> SUFFICES ASSUME IInv, [Next]_vars
             PROVE  CommandKnown'
  OBVIOUS
<1>0. run \in [Clis -> Commands] /\ secrets \in Secrets
  BY DEF IInv, TypeOK
<1> USE <1>0, Distinct
    DEF IInv, On, Idle, vars, Commands, Labels, remote, history,
        LockHeld, CommandKnown, Recovering
<1>1. ASSUME NEW c \in Clis, BeginAttach(c)
      PROVE  CommandKnown'
  BY <1>1 DEF BeginAttach
<1>2. ASSUME NEW c \in Clis, BeginDetach(c)
      PROVE  CommandKnown'
  BY <1>2 DEF BeginDetach
<1>3. ASSUME NEW c \in Clis, BeginSync(c)
      PROVE  CommandKnown'
  BY <1>3 DEF BeginSync
<1>4. ASSUME NEW c \in Clis, Acquire(c)
      PROVE  CommandKnown'
  BY <1>4 DEF Acquire
<1>5. ASSUME NEW c \in Clis, Recover(c)
      PROVE  CommandKnown'
  BY <1>5 DEF Recover, Proceed, Go, End
<1>6. ASSUME NEW c \in Clis, Forget(c)
      PROVE  CommandKnown'
  BY <1>6 DEF Forget, Go
<1>7. ASSUME NEW c \in Clis, ClearJournal(c)
      PROVE  CommandKnown'
  BY <1>7 DEF ClearJournal, Proceed, Go, End
<1>8. ASSUME NEW c \in Clis, PrepareAttach(c)
      PROVE  CommandKnown'
  BY <1>8 DEF PrepareAttach, End, Documents
<1>9. ASSUME NEW c \in Clis, PrepareDetach(c)
      PROVE  CommandKnown'
  BY <1>9 DEF PrepareDetach, End
<1>10. ASSUME NEW c \in Clis, JournalAttach(c)
      PROVE  CommandKnown'
  BY <1>10 DEF JournalAttach, Go, JournalOf
<1>11. ASSUME NEW c \in Clis, JournalDetach(c)
      PROVE  CommandKnown'
  BY <1>11 DEF JournalDetach, Go, JournalOf
<1>12. ASSUME NEW c \in Clis, Metadata(c)
      PROVE  CommandKnown'
  BY <1>12 DEF Metadata
<1>13. ASSUME NEW c \in Clis, Commit(c)
      PROVE  CommandKnown'
  BY <1>13 DEF Commit, End
<1>14. ASSUME NEW c \in Clis, Request(c)
      PROVE  CommandKnown'
  BY <1>14 DEF Request, End
<1>15. ASSUME NEW c \in Clis, Inspect(c)
      PROVE  CommandKnown'
  BY <1>15 DEF Inspect, Go, End, Applied, Interrupted
<1>16. ASSUME NEW c \in Clis, RecordPending(c)
      PROVE  CommandKnown'
  BY <1>16 DEF RecordPending, Go, Pending
<1>17. ASSUME NEW c \in Clis, InstallAuth(c)
      PROVE  CommandKnown'
  BY <1>17 DEF InstallAuth, Go, WriteAuth
<1>18. ASSUME NEW c \in Clis, RecordComplete(c)
      PROVE  CommandKnown'
  BY <1>18 DEF RecordComplete, Go, Completed
<1>19. ASSUME NEW c \in Clis, RestoreAuth(c)
      PROVE  CommandKnown'
  BY <1>19 DEF RestoreAuth, Go, WriteAuth
<1>20. ASSUME NEW c \in Clis, Finish(c)
      PROVE  CommandKnown'
  BY <1>20 DEF Finish, End
<1>21. ASSUME NEW c \in Clis, Die(c)
      PROVE  CommandKnown'
  BY <1>21 DEF Die, End
<1>22. CASE SupplySecret
  BY <1>22 DEF SupplySecret
<1>23. CASE RemoveReceipt
  BY <1>23 DEF RemoveReceipt, Interrupted, NoReceipt
<1>24. CASE Refresh
  BY <1>24 DEF Refresh
<1>25. CASE LoseAuth
  BY <1>25 DEF LoseAuth
<1>26. CASE UNCHANGED vars
  BY <1>26
<1> QED
  BY <1>1, <1>2, <1>3, <1>4, <1>5, <1>6, <1>7, <1>8, <1>9, <1>10, <1>11, <1>12, <1>13,
     <1>14, <1>15, <1>16, <1>17, <1>18, <1>19, <1>20, <1>21, <1>22, <1>23, <1>24,
        <1>25, <1>26 DEF Next, Locked

(* Only the command that has the lock writes or clears the journal. *)
LEMMA NextJournalKnown == IInv /\ [Next]_vars => JournalKnown'
<1> SUFFICES ASSUME IInv, [Next]_vars
             PROVE  JournalKnown'
  OBVIOUS
<1>0. run \in [Clis -> Commands] /\ secrets \in Secrets
  BY DEF IInv, TypeOK
<1> USE <1>0, Distinct
    DEF IInv, On, Idle, vars, Commands, Labels, remote, history,
        LockHeld, CommandKnown, JournalKnown, JournalOf, Secrets,
        NoTransaction, Activating
<1>1. ASSUME NEW c \in Clis, BeginAttach(c)
      PROVE  JournalKnown'
  BY <1>1 DEF BeginAttach
<1>2. ASSUME NEW c \in Clis, BeginDetach(c)
      PROVE  JournalKnown'
  BY <1>2 DEF BeginDetach
<1>3. ASSUME NEW c \in Clis, BeginSync(c)
      PROVE  JournalKnown'
  BY <1>3 DEF BeginSync
<1>4. ASSUME NEW c \in Clis, Acquire(c)
      PROVE  JournalKnown'
  BY <1>4 DEF Acquire
<1>5. ASSUME NEW c \in Clis, Recover(c)
      PROVE  JournalKnown'
  BY <1>5 DEF Recover, Proceed, Go, End
<1>6. ASSUME NEW c \in Clis, Forget(c)
      PROVE  JournalKnown'
  BY <1>6 DEF Forget, Go
<1>7. ASSUME NEW c \in Clis, ClearJournal(c)
      PROVE  JournalKnown'
  BY <1>7 DEF ClearJournal, Proceed, Go, End
<1>8. ASSUME NEW c \in Clis, PrepareAttach(c)
      PROVE  JournalKnown'
  BY <1>8 DEF PrepareAttach, End
<1>9. ASSUME NEW c \in Clis, PrepareDetach(c)
      PROVE  JournalKnown'
  BY <1>9 DEF PrepareDetach, End
<1>10. ASSUME NEW c \in Clis, JournalAttach(c)
      PROVE  JournalKnown'
  BY <1>10 DEF JournalAttach, Go, JournalOf
<1>11. ASSUME NEW c \in Clis, JournalDetach(c)
      PROVE  JournalKnown'
  BY <1>11 DEF JournalDetach, Go, JournalOf
<1>12. ASSUME NEW c \in Clis, Metadata(c)
      PROVE  JournalKnown'
  BY <1>12 DEF Metadata
<1>13. ASSUME NEW c \in Clis, Commit(c)
      PROVE  JournalKnown'
  BY <1>13 DEF Commit, End
<1>14. ASSUME NEW c \in Clis, Request(c)
      PROVE  JournalKnown'
  BY <1>14 DEF Request, End
<1>15. ASSUME NEW c \in Clis, Inspect(c)
      PROVE  JournalKnown'
  BY <1>15 DEF Inspect, Go, End, Applied, Interrupted
<1>16. ASSUME NEW c \in Clis, RecordPending(c)
      PROVE  JournalKnown'
  BY <1>16 DEF RecordPending, Go, Pending
<1>17. ASSUME NEW c \in Clis, InstallAuth(c)
      PROVE  JournalKnown'
  BY <1>17 DEF InstallAuth, Go, WriteAuth
<1>18. ASSUME NEW c \in Clis, RecordComplete(c)
      PROVE  JournalKnown'
  BY <1>18 DEF RecordComplete, Go, Completed
<1>19. ASSUME NEW c \in Clis, RestoreAuth(c)
      PROVE  JournalKnown'
  BY <1>19 DEF RestoreAuth, Go, WriteAuth
<1>20. ASSUME NEW c \in Clis, Finish(c)
      PROVE  JournalKnown'
  BY <1>20 DEF Finish, End
<1>21. ASSUME NEW c \in Clis, Die(c)
      PROVE  JournalKnown'
  BY <1>21 DEF Die, End
<1>22. CASE SupplySecret
  BY <1>22 DEF SupplySecret
<1>23. CASE RemoveReceipt
  BY <1>23 DEF RemoveReceipt, Interrupted, NoReceipt
<1>24. CASE Refresh
  BY <1>24 DEF Refresh
<1>25. CASE LoseAuth
  BY <1>25 DEF LoseAuth
<1>26. CASE UNCHANGED vars
  BY <1>26
<1> QED
  BY <1>1, <1>2, <1>3, <1>4, <1>5, <1>6, <1>7, <1>8, <1>9, <1>10, <1>11, <1>12, <1>13,
     <1>14, <1>15, <1>16, <1>17, <1>18, <1>19, <1>20, <1>21, <1>22, <1>23, <1>24,
        <1>25, <1>26 DEF Next, Locked

(* Whatever is interrupted where, what is left can be completed or undone. *)
LEMMA NextJournaled == IInv /\ [Next]_vars => Journaled'
<1> SUFFICES ASSUME IInv, [Next]_vars
             PROVE  Journaled'
  OBVIOUS
<1>0. run \in [Clis -> Commands] /\ secrets \in Secrets
  BY DEF IInv, TypeOK
<1> USE <1>0, Distinct
    DEF IInv, On, Idle, vars, Commands, Labels, remote, history,
        LockHeld, CommandKnown, JournalKnown, JournalOf, Secrets, Journaled,
        Paired, HalfDone, Recovering
<1>1. ASSUME NEW c \in Clis, BeginAttach(c)
      PROVE  Journaled'
  BY <1>1 DEF BeginAttach
<1>2. ASSUME NEW c \in Clis, BeginDetach(c)
      PROVE  Journaled'
  BY <1>2 DEF BeginDetach
<1>3. ASSUME NEW c \in Clis, BeginSync(c)
      PROVE  Journaled'
  BY <1>3 DEF BeginSync
<1>4. ASSUME NEW c \in Clis, Acquire(c)
      PROVE  Journaled'
  BY <1>4 DEF Acquire
<1>5. ASSUME NEW c \in Clis, Recover(c)
      PROVE  Journaled'
  <2> DEFINE txn == secrets.transaction
             chosen == run[c].view = txn.provider
  <2>1. CASE txn = NoTransaction
    BY <1>5, <2>1 DEF Recover, Proceed, Go, End
  <2>2. CASE txn # NoTransaction /\ ~ misread'
    <3>1. chosen = (selected = txn.provider) /\ HalfDone /\ txn \in Transactions
      BY <1>5, <2>2 DEF Recover
    <3>2. secrets' = [secrets EXCEPT !.document = Recovered(secrets.document, txn,
       chosen)]
      BY <1>5, <2>2 DEF Recover
    <3>3. secrets'.transaction = txn /\ secrets'.activation = secrets.activation
      BY <3>2
    <3>4. selected # NoProvider => secrets'.document # NoDocument
      BY <3>1, <3>2 DEF Recovered, Swap, Transactions
    <3>5. selected = NoProvider => secrets'.document \in {NoDocument, Supplied}
      BY <3>1, <3>2 DEF Recovered, Swap, Transactions
    <3>6. txn.operation \in {"attach", "detach"}
      BY <3>1 DEF Transactions
    <3>7. HalfDone'
      BY <1>5, <3>1, <3>3, <3>4, <3>5 DEF Recover
    <3>8. run' = [run EXCEPT ![c].at = IF txn.operation = "attach" /\ ~ chosen
                                      THEN "forget" ELSE "clear"]
      BY <1>5, <2>2 DEF Recover, Go
    <3>9. txn.operation = "detach" \/ chosen => Paired'
      BY <1>5, <3>1, <3>3, <3>4, <3>5, <3>6 DEF Recover, Transactions
    <3> HIDE DEF chosen
    <3>10. ~ chosen => selected = NoProvider
      BY <3>1
    <3>11. UNCHANGED selected
      BY <1>5 DEF Recover
    <3> HIDE DEF HalfDone, Paired
    <3> QED
      BY <1>5, <2>2, <3>3, <3>5, <3>6, <3>7, <3>8, <3>9, <3>10, <3>11 DEF Recover
  <2> QED
    BY <2>1, <2>2
<1>6. ASSUME NEW c \in Clis, Forget(c)
      PROVE  Journaled'
  BY <1>6 DEF Forget, Go
<1>7. ASSUME NEW c \in Clis, ClearJournal(c)
      PROVE  Journaled'
  BY <1>7 DEF ClearJournal, Proceed, Go, End
<1>8. ASSUME NEW c \in Clis, PrepareAttach(c)
      PROVE  Journaled'
  BY <1>8 DEF PrepareAttach, End
<1>9. ASSUME NEW c \in Clis, PrepareDetach(c)
      PROVE  Journaled'
  BY <1>9 DEF PrepareDetach, End
<1>10. ASSUME NEW c \in Clis, JournalAttach(c)
      PROVE  Journaled'
  <2>1. /\ secrets'.document = run[c].document /\ secrets'.activation = run[c].id
        /\ secrets'.transaction = JournalOf(c) /\ UNCHANGED <<selected, misread>>
    BY <1>10 DEF JournalAttach
  <2>2. run[c].document # NoDocument /\ secrets'.transaction # NoTransaction
    BY <1>10, <2>1 DEF JournalAttach, NoTransaction
  <2>3. ~ misread' => HalfDone'
    BY <1>10, <2>1, <2>2 DEF JournalAttach
  <2>4. ~ misread' /\ run[c].view # NoProvider => Paired'
    BY <1>10, <2>1, <2>2 DEF JournalAttach
  <2>5. run' = [run EXCEPT ![c].at = IF run[c].view = NoProvider THEN "metadata" ELSE "commit"]
    BY <1>10 DEF JournalAttach, Go
  <2> HIDE DEF HalfDone, Paired
  <2> QED
    BY <1>10, <2>1, <2>2, <2>3, <2>4, <2>5 DEF JournalAttach
<1>11. ASSUME NEW c \in Clis, JournalDetach(c)
      PROVE  Journaled'
  <2>1. /\ secrets'.document = NoDocument /\ secrets'.activation = NoId
        /\ secrets'.transaction = JournalOf(c) /\ UNCHANGED <<selected, misread>>
    BY <1>11 DEF JournalDetach
  <2>2. secrets'.transaction # NoTransaction /\ run[c].command = "detach"
    BY <1>11, <2>1 DEF JournalDetach, NoTransaction
  <2>3. selected = run[c].provider /\ run[c].provider # NoProvider
    BY <1>11 DEF JournalDetach
  <2>6. run[c].previous # NoDocument
    BY <1>11, <2>2 DEF JournalDetach
  <2>4. HalfDone'
    BY <2>1, <2>2, <2>3, <2>6
  <2>5. run' = [run EXCEPT ![c].at = "metadata"]
    BY <1>11 DEF JournalDetach, Go
  <2> HIDE DEF HalfDone, Paired
  <2> QED
    BY <1>11, <2>1, <2>2, <2>4, <2>5 DEF JournalDetach
<1>12. ASSUME NEW c \in Clis, Metadata(c)
      PROVE  Journaled'
  <2>1. PICK written \in BOOLEAN, raised \in BOOLEAN :
          /\ written \/ raised
          /\ selected' = IF ~ written THEN selected
                         ELSE IF run[c].command = "attach" THEN run[c].provider ELSE NoProvider
          /\ run' = [run EXCEPT ![c].at = IF raised THEN "recover" ELSE "commit",
                                ![c].failing = raised]
    BY <1>12 DEF Metadata
  <2>2. secrets.transaction = JournalOf(c) /\ UNCHANGED <<secrets, misread>>
    BY <1>12 DEF Metadata
  <2>3. secrets.transaction # NoTransaction
    BY <1>12, <2>2 DEF Metadata, NoTransaction
  <2>4. ~ misread' => HalfDone' /\ (written => Paired')
    BY <1>12, <2>1, <2>2, <2>3 DEF Metadata
  <2> HIDE DEF HalfDone, Paired
  <2> QED
    BY <1>12, <2>1, <2>2, <2>3, <2>4 DEF Metadata
<1>13. ASSUME NEW c \in Clis, Commit(c)
      PROVE  Journaled'
  BY <1>13 DEF Commit, End
<1>14. ASSUME NEW c \in Clis, Request(c)
      PROVE  Journaled'
  BY <1>14 DEF Request, End
<1>15. ASSUME NEW c \in Clis, Inspect(c)
      PROVE  Journaled'
  BY <1>15 DEF Inspect, Go, End, Applied, Interrupted
<1>16. ASSUME NEW c \in Clis, RecordPending(c)
      PROVE  Journaled'
  BY <1>16 DEF RecordPending, Go, Pending
<1>17. ASSUME NEW c \in Clis, InstallAuth(c)
      PROVE  Journaled'
  BY <1>17 DEF InstallAuth, Go, WriteAuth
<1>18. ASSUME NEW c \in Clis, RecordComplete(c)
      PROVE  Journaled'
  BY <1>18 DEF RecordComplete, Go, Completed
<1>19. ASSUME NEW c \in Clis, RestoreAuth(c)
      PROVE  Journaled'
  BY <1>19 DEF RestoreAuth, Go, WriteAuth
<1>20. ASSUME NEW c \in Clis, Finish(c)
      PROVE  Journaled'
  BY <1>20 DEF Finish, End
<1>21. ASSUME NEW c \in Clis, Die(c)
      PROVE  Journaled'
  BY <1>21 DEF Die, End
<1>22. CASE SupplySecret
  BY <1>22 DEF SupplySecret
<1>23. CASE RemoveReceipt
  BY <1>23 DEF RemoveReceipt, Interrupted, NoReceipt
<1>24. CASE Refresh
  BY <1>24 DEF Refresh
<1>25. CASE LoseAuth
  BY <1>25 DEF LoseAuth
<1>26. CASE UNCHANGED vars
  BY <1>26
<1> QED
  BY <1>1, <1>2, <1>3, <1>4, <1>5, <1>6, <1>7, <1>8, <1>9, <1>10, <1>11, <1>12, <1>13,
     <1>14, <1>15, <1>16, <1>17, <1>18, <1>19, <1>20, <1>21, <1>22, <1>23, <1>24,
        <1>25, <1>26 DEF Next, Locked

(* An attach gets a number of its own, and writes it with its document. *)
LEMMA NextNumbered == IInv /\ [Next]_vars => Numbered'
<1> SUFFICES ASSUME IInv, [Next]_vars
             PROVE  Numbered'
  OBVIOUS
<1>0. /\ run \in [Clis -> Commands] /\ secrets \in Secrets
     /\ auth \in Credentials /\ receipt \in Receipts /\ attaches \in Nat
  BY DEF IInv, TypeOK
<1> USE <1>0, Distinct
    DEF IInv, On, Idle, vars, Commands, Labels, remote, history,
        LockHeld, CommandKnown, Numbered, Unasked, Answered, Activating,
        Recovering, Secrets, Credentials, Receipts, NoId, Ids
<1>1. ASSUME NEW c \in Clis, BeginAttach(c)
      PROVE  Numbered'
  BY <1>1 DEF BeginAttach
<1>2. ASSUME NEW c \in Clis, BeginDetach(c)
      PROVE  Numbered'
  BY <1>2 DEF BeginDetach
<1>3. ASSUME NEW c \in Clis, BeginSync(c)
      PROVE  Numbered'
  BY <1>3 DEF BeginSync
<1>4. ASSUME NEW c \in Clis, Acquire(c)
      PROVE  Numbered'
  BY <1>4 DEF Acquire
<1>5. ASSUME NEW c \in Clis, Recover(c)
      PROVE  Numbered'
  BY <1>5 DEF Recover, Proceed, Go, End
<1>6. ASSUME NEW c \in Clis, Forget(c)
      PROVE  Numbered'
  BY <1>6 DEF Forget, Go
<1>7. ASSUME NEW c \in Clis, ClearJournal(c)
      PROVE  Numbered'
  BY <1>7 DEF ClearJournal, Proceed, Go, End
<1>8. ASSUME NEW c \in Clis, PrepareAttach(c)
      PROVE  Numbered'
  BY <1>8 DEF PrepareAttach, End
<1>9. ASSUME NEW c \in Clis, PrepareDetach(c)
      PROVE  Numbered'
  BY <1>9 DEF PrepareDetach, End
<1>10. ASSUME NEW c \in Clis, JournalAttach(c)
      PROVE  Numbered'
  BY <1>10 DEF JournalAttach, Go, JournalOf
<1>11. ASSUME NEW c \in Clis, JournalDetach(c)
      PROVE  Numbered'
  BY <1>11 DEF JournalDetach, Go, JournalOf
<1>12. ASSUME NEW c \in Clis, Metadata(c)
      PROVE  Numbered'
  BY <1>12 DEF Metadata
<1>13. ASSUME NEW c \in Clis, Commit(c)
      PROVE  Numbered'
  BY <1>13 DEF Commit, End
<1>14. ASSUME NEW c \in Clis, Request(c)
      PROVE  Numbered'
  BY <1>14 DEF Request, End
<1>15. ASSUME NEW c \in Clis, Inspect(c)
      PROVE  Numbered'
  BY <1>15 DEF Inspect, Go, End, Applied, Interrupted
<1>16. ASSUME NEW c \in Clis, RecordPending(c)
      PROVE  Numbered'
  BY <1>16 DEF RecordPending, Go, Pending
<1>17. ASSUME NEW c \in Clis, InstallAuth(c)
      PROVE  Numbered'
  BY <1>17 DEF InstallAuth, Go, WriteAuth
<1>18. ASSUME NEW c \in Clis, RecordComplete(c)
      PROVE  Numbered'
  BY <1>18 DEF RecordComplete, Go, Completed
<1>19. ASSUME NEW c \in Clis, RestoreAuth(c)
      PROVE  Numbered'
  BY <1>19 DEF RestoreAuth, Go, WriteAuth
<1>20. ASSUME NEW c \in Clis, Finish(c)
      PROVE  Numbered'
  BY <1>20 DEF Finish, End
<1>21. ASSUME NEW c \in Clis, Die(c)
      PROVE  Numbered'
  BY <1>21 DEF Die, End
<1>22. CASE SupplySecret
  BY <1>22 DEF SupplySecret
<1>23. CASE RemoveReceipt
  BY <1>23 DEF RemoveReceipt, Interrupted, NoReceipt
<1>24. CASE Refresh
  BY <1>24 DEF Refresh
<1>25. CASE LoseAuth
  BY <1>25 DEF LoseAuth
<1>26. CASE UNCHANGED vars
  BY <1>26
<1> QED
  BY <1>1, <1>2, <1>3, <1>4, <1>5, <1>6, <1>7, <1>8, <1>9, <1>10, <1>11, <1>12, <1>13,
     <1>14, <1>15, <1>16, <1>17, <1>18, <1>19, <1>20, <1>21, <1>22, <1>23, <1>24,
        <1>25, <1>26 DEF Next, Locked

(* What a successful attach asked for is what the agent's host gets. *)
LEMMA NextAnswered == IInv /\ [Next]_vars => Answered'
<1> SUFFICES ASSUME IInv, [Next]_vars
             PROVE  Answered'
  OBVIOUS
<1>0. /\ run \in [Clis -> Commands] /\ secrets \in Secrets
     /\ auth \in Credentials /\ receipt \in Receipts /\ attaches \in Nat
  BY DEF IInv, TypeOK
<1> USE <1>0, Distinct
    DEF IInv, On, Idle, vars, Commands, Labels, remote, history,
        LockHeld, CommandKnown, JournalKnown, Numbered, Answered, Receipted,
        Secrets, Credentials, Receipts, Activating, Completed, Pending
<1>1. ASSUME NEW c \in Clis, BeginAttach(c)
      PROVE  Answered'
  BY <1>1 DEF BeginAttach
<1>2. ASSUME NEW c \in Clis, BeginDetach(c)
      PROVE  Answered'
  BY <1>2 DEF BeginDetach
<1>3. ASSUME NEW c \in Clis, BeginSync(c)
      PROVE  Answered'
  BY <1>3 DEF BeginSync
<1>4. ASSUME NEW c \in Clis, Acquire(c)
      PROVE  Answered'
  BY <1>4 DEF Acquire
<1>5. ASSUME NEW c \in Clis, Recover(c)
      PROVE  Answered'
  BY <1>5 DEF Recover, Proceed, Go, End
<1>6. ASSUME NEW c \in Clis, Forget(c)
      PROVE  Answered'
  BY <1>6 DEF Forget, Go
<1>7. ASSUME NEW c \in Clis, ClearJournal(c)
      PROVE  Answered'
  BY <1>7 DEF ClearJournal, Proceed, Go, End
<1>8. ASSUME NEW c \in Clis, PrepareAttach(c)
      PROVE  Answered'
  BY <1>8 DEF PrepareAttach, End
<1>9. ASSUME NEW c \in Clis, PrepareDetach(c)
      PROVE  Answered'
  BY <1>9 DEF PrepareDetach, End
<1>10. ASSUME NEW c \in Clis, JournalAttach(c)
      PROVE  Answered'
  BY <1>10 DEF JournalAttach, Go, JournalOf
<1>11. ASSUME NEW c \in Clis, JournalDetach(c)
      PROVE  Answered'
  BY <1>11 DEF JournalDetach, Go, JournalOf
<1>12. ASSUME NEW c \in Clis, Metadata(c)
      PROVE  Answered'
  BY <1>12 DEF Metadata
<1>13. ASSUME NEW c \in Clis, Commit(c)
      PROVE  Answered'
  BY <1>13 DEF Commit, End
<1>14. ASSUME NEW c \in Clis, Request(c)
      PROVE  Answered'
  BY <1>14 DEF Request, End
<1>15. ASSUME NEW c \in Clis, Inspect(c)
      PROVE  Answered'
  BY <1>15 DEF Inspect, Go, End, Applied, Interrupted
<1>16. ASSUME NEW c \in Clis, RecordPending(c)
      PROVE  Answered'
  BY <1>16 DEF RecordPending, Go, Pending
<1>17. ASSUME NEW c \in Clis, InstallAuth(c)
      PROVE  Answered'
  BY <1>17 DEF InstallAuth, Go, WriteAuth
<1>18. ASSUME NEW c \in Clis, RecordComplete(c)
      PROVE  Answered'
  BY <1>18 DEF RecordComplete, Go, Completed
<1>19. ASSUME NEW c \in Clis, RestoreAuth(c)
      PROVE  Answered'
  BY <1>19 DEF RestoreAuth, Go, WriteAuth
<1>20. ASSUME NEW c \in Clis, Finish(c)
      PROVE  Answered'
  BY <1>20 DEF Finish, End
<1>21. ASSUME NEW c \in Clis, Die(c)
      PROVE  Answered'
  BY <1>21 DEF Die, End
<1>22. CASE SupplySecret
  BY <1>22 DEF SupplySecret
<1>23. CASE RemoveReceipt
  BY <1>23 DEF RemoveReceipt, Interrupted, NoReceipt
<1>24. CASE Refresh
  BY <1>24 DEF Refresh
<1>25. CASE LoseAuth
  BY <1>25 DEF LoseAuth
<1>26. CASE UNCHANGED vars
  BY <1>26
<1> QED
  BY <1>1, <1>2, <1>3, <1>4, <1>5, <1>6, <1>7, <1>8, <1>9, <1>10, <1>11, <1>12, <1>13,
     <1>14, <1>15, <1>16, <1>17, <1>18, <1>19, <1>20, <1>21, <1>22, <1>23, <1>24,
        <1>25, <1>26 DEF Next, Locked

(* A credential is written between its pending and its completed receipt. *)
LEMMA NextReceipted == IInv /\ [Next]_vars => Receipted'
<1> SUFFICES ASSUME IInv, [Next]_vars
             PROVE  Receipted'
  OBVIOUS
<1>0. /\ run \in [Clis -> Commands] /\ secrets \in Secrets
     /\ auth \in Credentials /\ receipt \in Receipts /\ attaches \in Nat
  BY DEF IInv, TypeOK
<1> USE <1>0, Distinct
    DEF IInv, On, Idle, vars, Commands, Labels, remote, history,
        LockHeld, CommandKnown, JournalKnown, Numbered, Answered, Receipted,
        Waived, Secrets, Credentials, Receipts, Activating, Completed, Pending,
        Applied, Unasked, Recovering
<1>1. ASSUME NEW c \in Clis, BeginAttach(c)
      PROVE  Receipted'
  BY <1>1 DEF BeginAttach
<1>2. ASSUME NEW c \in Clis, BeginDetach(c)
      PROVE  Receipted'
  BY <1>2 DEF BeginDetach
<1>3. ASSUME NEW c \in Clis, BeginSync(c)
      PROVE  Receipted'
  BY <1>3 DEF BeginSync
<1>4. ASSUME NEW c \in Clis, Acquire(c)
      PROVE  Receipted'
  BY <1>4 DEF Acquire
<1>5. ASSUME NEW c \in Clis, Recover(c)
      PROVE  Receipted'
  BY <1>5 DEF Recover, Proceed, Go, End
<1>6. ASSUME NEW c \in Clis, Forget(c)
      PROVE  Receipted'
  BY <1>6 DEF Forget, Go
<1>7. ASSUME NEW c \in Clis, ClearJournal(c)
      PROVE  Receipted'
  BY <1>7 DEF ClearJournal, Proceed, Go, End
<1>8. ASSUME NEW c \in Clis, PrepareAttach(c)
      PROVE  Receipted'
  BY <1>8 DEF PrepareAttach, End
<1>9. ASSUME NEW c \in Clis, PrepareDetach(c)
      PROVE  Receipted'
  BY <1>9 DEF PrepareDetach, End
<1>10. ASSUME NEW c \in Clis, JournalAttach(c)
      PROVE  Receipted'
  BY <1>10 DEF JournalAttach, Go, JournalOf
<1>11. ASSUME NEW c \in Clis, JournalDetach(c)
      PROVE  Receipted'
  BY <1>11 DEF JournalDetach, Go, JournalOf
<1>12. ASSUME NEW c \in Clis, Metadata(c)
      PROVE  Receipted'
  BY <1>12 DEF Metadata
<1>13. ASSUME NEW c \in Clis, Commit(c)
      PROVE  Receipted'
  BY <1>13 DEF Commit, End
<1>14. ASSUME NEW c \in Clis, Request(c)
      PROVE  Receipted'
  BY <1>14 DEF Request, End
<1>15. ASSUME NEW c \in Clis, Inspect(c)
      PROVE  Receipted'
  BY <1>15 DEF Inspect, Go, End, Applied, Interrupted
<1>16. ASSUME NEW c \in Clis, RecordPending(c)
      PROVE  Receipted'
  BY <1>16 DEF RecordPending, Go, Pending
<1>17. ASSUME NEW c \in Clis, InstallAuth(c)
      PROVE  Receipted'
  BY <1>17 DEF InstallAuth, Go, WriteAuth
<1>18. ASSUME NEW c \in Clis, RecordComplete(c)
      PROVE  Receipted'
  BY <1>18 DEF RecordComplete, Go, Completed
<1>19. ASSUME NEW c \in Clis, RestoreAuth(c)
      PROVE  Receipted'
  BY <1>19 DEF RestoreAuth, Go, WriteAuth
<1>20. ASSUME NEW c \in Clis, Finish(c)
      PROVE  Receipted'
  BY <1>20 DEF Finish, End
<1>21. ASSUME NEW c \in Clis, Die(c)
      PROVE  Receipted'
  BY <1>21 DEF Die, End
<1>22. CASE SupplySecret
  BY <1>22 DEF SupplySecret
<1>23. CASE RemoveReceipt
  BY <1>23 DEF RemoveReceipt, Interrupted, NoReceipt
<1>24. CASE Refresh
  BY <1>24 DEF Refresh
<1>25. CASE LoseAuth
  BY <1>25 DEF LoseAuth
<1>26. CASE UNCHANGED vars
  BY <1>26
<1> QED
  BY <1>1, <1>2, <1>3, <1>4, <1>5, <1>6, <1>7, <1>8, <1>9, <1>10, <1>11, <1>12, <1>13,
     <1>14, <1>15, <1>16, <1>17, <1>18, <1>19, <1>20, <1>21, <1>22, <1>23, <1>24,
        <1>25, <1>26 DEF Next, Locked

-----------------------------------------------------------------------------
(* Nothing is attached and no command has begun. *)
LEMMA InitIInv == Init => IInv
<1> SUFFICES ASSUME Init
             PROVE  IInv
  OBVIOUS
<1>1. \A c \in Clis : run[c] = Idle
  BY DEF Init
<1> USE Distinct, CodexOAuthAssumption DEF Init
<1>2. TypeOK
  <2>1. run \in [Clis -> Commands]
    BY IdleType
  <2>2. secrets \in Secrets
    BY DEF Secrets
  <2>3. auth \in Credentials /\ receipt \in Receipts
    BY DEF Credentials, Receipts, NoReceipt
  <2>4. selected \in Providers \cup {NoProvider} /\ holder \in Clis \cup {NoCli}
    OBVIOUS
  <2>5. attaches \in 0 .. MaxAttaches
    OBVIOUS
  <2>6. /\ asked \in Documents \cup {NoDocument} /\ waived \in Ids \cup {NoId}
        /\ misread \in BOOLEAN
    OBVIOUS
  <2> QED
    BY <2>1, <2>2, <2>3, <2>4, <2>5, <2>6 DEF TypeOK
<1>3. LockHeld /\ CommandKnown /\ JournalKnown
  BY <1>1 DEF LockHeld, CommandKnown, JournalKnown, Idle, Recovering, Activating
<1>4. Journaled
  BY <1>1 DEF Journaled, Paired, Idle
<1>5. Numbered
  BY <1>1 DEF Numbered, Unasked, Idle, NoReceipt, NoId, Recovering
<1>6. Answered /\ Receipted
  BY <1>1 DEF Answered, Receipted, Idle, NoReceipt, Activating
<1> QED
  BY <1>2, <1>3, <1>4, <1>5, <1>6 DEF IInv

(* Every step of a command, of the operator and of Codex keeps the invariant. *)
LEMMA NextIInv == IInv /\ [Next]_vars => IInv'
BY NextTypeOK, NextLockHeld, NextCommandKnown, NextJournalKnown, NextJournaled,
   NextNumbered, NextAnswered, NextReceipted DEF IInv

(* The strengthened invariant holds in every reachable state. *)
THEOREM Invariance == Spec => []IInv
BY InitIInv, NextIInv, PTL DEF Spec

(* Type correctness of the selection, the secrets, the files on the agent's *)
(* host and the commands.                                                   *)
THEOREM TypeCorrect == Spec => []TypeOK
<1>1. IInv => TypeOK
  BY DEF IInv
<1> QED
  BY <1>1, Invariance, PTL

(* Once no journal is left, selection and credential belong together, unless *)
(* a recovery went by a stale selection: provider.py:428-482, after deaths   *)
(* at any step of any number of commands.                                    *)
THEOREM SelectionSettles == Spec => []Settled
<1>1. IInv => Settled
  BY DEF IInv, Journaled, Settled, AtRest
<1> QED
  BY <1>1, Invariance, PTL

(* InstallAuth writes for a request that has not been written yet, RestoreAuth *)
(* when there is nothing Codex can use.                                        *)
LEMMA StepKeepsRefreshed == IInv /\ [Next]_vars => RefreshKeptStep
<1> SUFFICES ASSUME IInv, [Next]_vars
             PROVE  RefreshKeptStep
  OBVIOUS
<1>0. /\ run \in [Clis -> Commands] /\ secrets \in Secrets
     /\ auth \in Credentials /\ receipt \in Receipts /\ attaches \in Nat
  BY DEF IInv, TypeOK
<1> USE <1>0, Distinct
    DEF IInv, On, Idle, vars, Commands, Labels, remote, history,
        LockHeld, CommandKnown, Receipted, Credentials, Receipts, RefreshKeptStep,
        Overwritten
<1>1. ASSUME NEW c \in Clis, BeginAttach(c)
      PROVE  RefreshKeptStep
  BY <1>1 DEF BeginAttach
<1>2. ASSUME NEW c \in Clis, BeginDetach(c)
      PROVE  RefreshKeptStep
  BY <1>2 DEF BeginDetach
<1>3. ASSUME NEW c \in Clis, BeginSync(c)
      PROVE  RefreshKeptStep
  BY <1>3 DEF BeginSync
<1>4. ASSUME NEW c \in Clis, Acquire(c)
      PROVE  RefreshKeptStep
  BY <1>4 DEF Acquire
<1>5. ASSUME NEW c \in Clis, Recover(c)
      PROVE  RefreshKeptStep
  BY <1>5 DEF Recover, Proceed, Go, End
<1>6. ASSUME NEW c \in Clis, Forget(c)
      PROVE  RefreshKeptStep
  BY <1>6 DEF Forget, Go
<1>7. ASSUME NEW c \in Clis, ClearJournal(c)
      PROVE  RefreshKeptStep
  BY <1>7 DEF ClearJournal, Proceed, Go, End
<1>8. ASSUME NEW c \in Clis, PrepareAttach(c)
      PROVE  RefreshKeptStep
  BY <1>8 DEF PrepareAttach, End
<1>9. ASSUME NEW c \in Clis, PrepareDetach(c)
      PROVE  RefreshKeptStep
  BY <1>9 DEF PrepareDetach, End
<1>10. ASSUME NEW c \in Clis, JournalAttach(c)
      PROVE  RefreshKeptStep
  BY <1>10 DEF JournalAttach, Go, JournalOf
<1>11. ASSUME NEW c \in Clis, JournalDetach(c)
      PROVE  RefreshKeptStep
  BY <1>11 DEF JournalDetach, Go, JournalOf
<1>12. ASSUME NEW c \in Clis, Metadata(c)
      PROVE  RefreshKeptStep
  BY <1>12 DEF Metadata
<1>13. ASSUME NEW c \in Clis, Commit(c)
      PROVE  RefreshKeptStep
  BY <1>13 DEF Commit, End
<1>14. ASSUME NEW c \in Clis, Request(c)
      PROVE  RefreshKeptStep
  BY <1>14 DEF Request, End
<1>15. ASSUME NEW c \in Clis, Inspect(c)
      PROVE  RefreshKeptStep
  BY <1>15 DEF Inspect, Go, End, Applied, Interrupted
<1>16. ASSUME NEW c \in Clis, RecordPending(c)
      PROVE  RefreshKeptStep
  BY <1>16 DEF RecordPending, Go, Pending
<1>17. ASSUME NEW c \in Clis, InstallAuth(c)
      PROVE  RefreshKeptStep
  BY <1>17 DEF InstallAuth, Go, WriteAuth
<1>18. ASSUME NEW c \in Clis, RecordComplete(c)
      PROVE  RefreshKeptStep
  BY <1>18 DEF RecordComplete, Go, Completed
<1>19. ASSUME NEW c \in Clis, RestoreAuth(c)
      PROVE  RefreshKeptStep
  BY <1>19 DEF RestoreAuth, Go, WriteAuth
<1>20. ASSUME NEW c \in Clis, Finish(c)
      PROVE  RefreshKeptStep
  BY <1>20 DEF Finish, End
<1>21. ASSUME NEW c \in Clis, Die(c)
      PROVE  RefreshKeptStep
  BY <1>21 DEF Die, End
<1>22. CASE SupplySecret
  BY <1>22 DEF SupplySecret
<1>23. CASE RemoveReceipt
  BY <1>23 DEF RemoveReceipt, Interrupted, NoReceipt
<1>24. CASE Refresh
  BY <1>24 DEF Refresh
<1>25. CASE LoseAuth
  BY <1>25 DEF LoseAuth
<1>26. CASE UNCHANGED vars
  BY <1>26
<1> QED
  BY <1>1, <1>2, <1>3, <1>4, <1>5, <1>6, <1>7, <1>8, <1>9, <1>10, <1>11, <1>12, <1>13,
     <1>14, <1>15, <1>16, <1>17, <1>18, <1>19, <1>20, <1>21, <1>22, <1>23, <1>24,
        <1>25, <1>26 DEF Next, Locked

(* A credential Codex has refreshed is overwritten for a request only, and once *)
(* per request, unless the operator removed its receipt (configure.yaml:54-73). *)
THEOREM RefreshesKept == Spec => RefreshKept
BY Invariance, StepKeepsRefreshed, PTL DEF Spec, RefreshKept

(* Recovery compares before it swaps (provider.py:434-436). *)
THEOREM NewerDocumentKept == Spec => RecoveryKeepsNewer
<1>1. IInv /\ [Next]_vars => RecoveryKeepsNewerStep
  <2> SUFFICES ASSUME IInv, NEW c \in Clis, Recover(c), secrets.document = Supplied,
                      Supplied \notin {secrets.transaction.previous,
                                      secrets.transaction.document}
               PROVE  secrets'.document = Supplied
    BY DEF RecoveryKeepsNewerStep
  <2>1. secrets \in Secrets
    BY DEF IInv, TypeOK
  <2> QED
    BY <2>1, Distinct DEF Recover, Recovered, Swap, Secrets
<1> QED
  BY <1>1, Invariance, PTL DEF Spec, RecoveryKeepsNewer

(* After an attach that reported success a sync that reports success has left *)
(* the agent with its document (docs/agent-support/codex.md:29-31).           *)
THEOREM AttachActivated == Spec => SyncActivates
<1>1. IInv /\ [Next]_vars => SyncActivatesStep
  BY DEF IInv, Answered, SyncActivatesStep, Finish, On
<1> QED
  BY <1>1, Invariance, PTL DEF Spec, SyncActivates
=============================================================================
