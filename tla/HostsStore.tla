------------------------------ MODULE HostsStore ------------------------------
(***************************************************************************)
(* How core/hosts.py keeps hosts.json: a writer opens .hosts.lock, takes   *)
(* an exclusive flock, loads the file, applies the change in memory, dumps *)
(* the result into a temporary file of its own and renames it over         *)
(* hosts.json, then lets the lock go; load_hosts by itself takes no lock.  *)
(* A process may die between any two of these steps: the kernel releases   *)
(* its flock and its temporary file is left behind.                        *)
(*                                                                         *)
(* secrets.json, integrations.json, channels.json and providers.json are   *)
(* written by the same sequence of steps, each under its own lock file.    *)
(***************************************************************************)
EXTENDS StoreCalls

CONSTANTS
  NoFile,  \* no temporary file
  Torn     \* a file that was created and not dumped to its end

ASSUME NotContents == {NoFile, Torn} \cap Contents = {}

VARIABLES
  hosts,   \* hosts.json as a reader finds it: a value of Contents, or Torn
  lock,    \* the process that holds the flock of .hosts.lock, or NoProc
  pc,      \* pc[p]: the step process p is about to take
  snap,    \* snap[p]: what load_hosts returned to p
  tmp,     \* tmp[p]: the temporary file p is writing: NoFile, Torn or a value
  call,    \* call[p]: the call p is in, or NoCall
  outcome  \* outcome[p]: what that call returned or raised, or "none"

vars == <<hosts, lock, pc, snap, tmp, call, outcome>>

Steps == {"idle", "reading", "waiting", "locked", "loaded", "dumping",
          "replacing", "unlocking", "returning"}

\* The steps taken inside `with _hosts_lock()`.
Critical == {"locked", "loaded", "dumping", "replacing", "unlocking"}

Init ==
  /\ hosts = NoHosts
  /\ lock = NoProc
  /\ pc = [p \in Procs |-> "idle"]
  /\ snap = [p \in Procs |-> NoHosts]
  /\ tmp = [p \in Procs |-> NoFile]
  /\ call = [p \in Procs |-> NoCall]
  /\ outcome = [p \in Procs |-> "none"]

-----------------------------------------------------------------------------
Begin(p, c) ==
  /\ pc[p] = "idle"
  /\ pc' = [pc EXCEPT ![p] = IF c.kind = "load" THEN "reading" ELSE "waiting"]
  /\ call' = [call EXCEPT ![p] = c]
  /\ UNCHANGED <<hosts, lock, snap, tmp, outcome>>

\* load_hosts outside any lock: get_host, get_agent_by_name, alias_exists, ...
Read(p) ==
  /\ pc[p] = "reading"
  /\ snap' = [snap EXCEPT ![p] = hosts]
  /\ outcome' = [outcome EXCEPT ![p] = "ok"]
  /\ pc' = [pc EXCEPT ![p] = "returning"]
  /\ UNCHANGED <<hosts, lock, tmp, call>>

Acquire(p) ==
  /\ pc[p] = "waiting"
  /\ lock = NoProc
  /\ lock' = p
  /\ pc' = [pc EXCEPT ![p] = "locked"]
  /\ UNCHANGED <<hosts, snap, tmp, call, outcome>>

Load(p) ==
  /\ pc[p] = "locked"
  /\ snap' = [snap EXCEPT ![p] = hosts]
  /\ pc' = [pc EXCEPT ![p] = "loaded"]
  /\ UNCHANGED <<hosts, lock, tmp, call, outcome>>

\* Mutant: the updater that raises still counts as a success for its caller.
RefuseSilently(p) ==
  /\ pc[p] = "loaded"
  /\ ~Rewrites(call[p], snap[p])
  /\ outcome' = [outcome EXCEPT ![p] = "ok"]
  /\ pc' = [pc EXCEPT ![p] = "unlocking"]
  /\ UNCHANGED <<hosts, lock, snap, tmp, call>>

\* The change does not apply: DuplicateHostError, a host that is not there,
\* or an updater that raises.  The file is not touched.
Refuse(p) ==
  /\ pc[p] = "loaded"
  /\ ~Rewrites(call[p], snap[p])
  /\ outcome' = [outcome EXCEPT ![p] = Outcome(call[p], snap[p])]
  /\ pc' = [pc EXCEPT ![p] = "unlocking"]
  /\ UNCHANGED <<hosts, lock, snap, tmp, call>>

\* Mutant: the lock covers the load only, and is free again during the write.
OpenTempUnlocked(p) ==
  /\ pc[p] = "loaded"
  /\ Rewrites(call[p], snap[p])
  /\ lock' = NoProc
  /\ tmp' = [tmp EXCEPT ![p] = Torn]
  /\ pc' = [pc EXCEPT ![p] = "dumping"]
  /\ UNCHANGED <<hosts, snap, call, outcome>>

\* tempfile.mkstemp: a new file, empty so far.
OpenTemp(p) ==
  /\ pc[p] = "loaded"
  /\ Rewrites(call[p], snap[p])
  /\ tmp' = [tmp EXCEPT ![p] = Torn]
  /\ pc' = [pc EXCEPT ![p] = "dumping"]
  /\ UNCHANGED <<hosts, lock, snap, call, outcome>>

Dump(p) ==
  /\ pc[p] = "dumping"
  /\ tmp' = [tmp EXCEPT ![p] = Rewritten(p, call[p], snap[p])]
  /\ pc' = [pc EXCEPT ![p] = "replacing"]
  /\ UNCHANGED <<hosts, lock, snap, call, outcome>>

\* fchmod, json.dump or os.replace raises: the temporary file is unlinked and
\* the exception reaches the caller.
WriteFails(p) ==
  /\ pc[p] \in {"dumping", "replacing"}
  /\ tmp' = [tmp EXCEPT ![p] = NoFile]
  /\ outcome' = [outcome EXCEPT ![p] = "raised"]
  /\ pc' = [pc EXCEPT ![p] = "unlocking"]
  /\ UNCHANGED <<hosts, lock, snap, call>>

\* Mutant: the file is renamed before the dump is flushed.
ReplaceEarly(p) ==
  /\ pc[p] \in {"dumping", "replacing"}
  /\ hosts' = tmp[p]
  /\ tmp' = [tmp EXCEPT ![p] = NoFile]
  /\ outcome' = [outcome EXCEPT ![p] = "ok"]
  /\ pc' = [pc EXCEPT ![p] = "unlocking"]
  /\ UNCHANGED <<lock, snap, call>>

Replace(p) ==
  /\ pc[p] = "replacing"
  /\ hosts' = tmp[p]
  /\ tmp' = [tmp EXCEPT ![p] = NoFile]
  /\ outcome' = [outcome EXCEPT ![p] = "ok"]
  /\ pc' = [pc EXCEPT ![p] = "unlocking"]
  /\ UNCHANGED <<lock, snap, call>>

Unlock(p) ==
  /\ pc[p] = "unlocking"
  /\ lock' = NoProc
  /\ pc' = [pc EXCEPT ![p] = "returning"]
  /\ UNCHANGED <<hosts, snap, tmp, call, outcome>>

\* What a process knew of its call is gone with the call.
Forget(p) ==
  /\ pc' = [pc EXCEPT ![p] = "idle"]
  /\ snap' = [snap EXCEPT ![p] = NoHosts]
  /\ call' = [call EXCEPT ![p] = NoCall]
  /\ outcome' = [outcome EXCEPT ![p] = "none"]

Return(p) ==
  /\ pc[p] = "returning"
  /\ Forget(p)
  /\ UNCHANGED <<hosts, lock, tmp>>

\* Mutant: the lock is a file whose presence means "held"; it survives its owner.
CrashKeepsLock(p) ==
  /\ pc[p] # "idle"
  /\ Forget(p)
  /\ tmp' = [tmp EXCEPT ![p] = NoFile]
  /\ UNCHANGED <<hosts, lock>>

\* The process dies.  The kernel closes the lock file's descriptor, which
\* releases the flock.  Its temporary file stays on disk under the random name
\* mkstemp gave it, which nobody opens again.
Crash(p) ==
  /\ pc[p] # "idle"
  /\ lock' = IF lock = p THEN NoProc ELSE lock
  /\ Forget(p)
  /\ tmp' = [tmp EXCEPT ![p] = NoFile]
  /\ UNCHANGED hosts

\* What p does by itself once it has begun a call.
Proceed(p) ==
  \/ Read(p) \/ Load(p) \/ Refuse(p) \/ OpenTemp(p) \/ Dump(p)
  \/ WriteFails(p) \/ Replace(p) \/ Unlock(p) \/ Return(p)

Next ==
  \E p \in Procs :
    \/ \E c \in Calls : Begin(p, c)
    \/ Acquire(p)
    \/ Proceed(p)
    \/ Crash(p)

Spec == Init /\ [][Next]_vars

(***************************************************************************)
(* A running process takes its next step.  A process blocked in flock gets *)
(* the lock if it is free again and again: the kernel wakes the waiters of *)
(* a file lock in turn and none of them is passed over for ever.           *)
(***************************************************************************)
FairSpec ==
  Spec /\ \A p \in Procs : WF_vars(Proceed(p)) /\ SF_vars(Acquire(p))

-----------------------------------------------------------------------------
TypeOK ==
  /\ hosts \in Contents \cup {Torn}
  /\ lock \in Procs \cup {NoProc}
  /\ pc \in [Procs -> Steps]
  /\ snap \in [Procs -> Contents]
  /\ tmp \in [Procs -> Contents \cup {NoFile, Torn}]
  /\ call \in [Procs -> Calls \cup {NoCall}]
  /\ outcome \in [Procs -> Outcomes]

\* A reader never finds a partly written hosts.json, whenever a writer dies:
\* the rename only ever publishes a temporary file that was dumped to its end.
WholeFile == hosts \in Contents

\* At most one process is between taking the flock and releasing it, deaths
\* of holders included.
MutualExclusion ==
  \A p, q \in Procs : pc[p] \in Critical /\ pc[q] \in Critical => p = q

\* From the load under the lock to the rename, what a writer loaded is what
\* the file still holds: nobody's update is overwritten ("Prevents TOCTOU
\* races", update_host).
SnapshotFresh ==
  \A p \in Procs : pc[p] \in {"loaded", "dumping", "replacing"} => snap[p] = hosts

\* Writers follow one another: no two are inside, and no update is lost.
Serialized == MutualExclusion /\ SnapshotFresh

\* The calls are atomic: the lock, the temporary file and the rename implement
\* AtomicStore, with every call taking effect at its rename, at its refusal or,
\* for an unlocked load, at its read.
StageOf(step) ==
  CASE step = "idle" -> "idle"
    [] step \in {"unlocking", "returning"} -> "done"
    [] OTHER -> "called"

Atomic == INSTANCE AtomicStore
            WITH store <- hosts, stage <- [p \in Procs |-> StageOf(pc[p])]

Linearizable == Atomic!AtomicSpec

\* Every call returns or its process dies, even when other processes die
\* holding the lock.
CallsEnd == \A p \in Procs : pc[p] # "idle" ~> pc[p] = "idle"
=============================================================================
