--------------------------- MODULE HostsStoreProofs ---------------------------
(***************************************************************************)
(* Proofs about HostsStore, for any set of processes and of hostnames.     *)
(*                                                                         *)
(* The inductive invariant is IInv: besides the types it says that the     *)
(* process in the critical section is the one that holds the flock         *)
(* (LockHeld), that what a writer loaded is still what the file holds      *)
(* (SnapshotFresh), that a temporary file about to be renamed holds the    *)
(* writer's rewrite of that snapshot (TempDumped), and that a call exists  *)
(* while its process is in it (InCall).  MutualExclusion follows from      *)
(* LockHeld, WholeFile is a conjunct, and the refinement of AtomicStore    *)
(* rests on SnapshotFresh and TempDumped.                                  *)
(***************************************************************************)
EXTENDS HostsStore, TLAPS

LockHeld == \A p \in Procs : pc[p] \in Critical => lock = p

TempDumped ==
  \A p \in Procs :
    pc[p] = "replacing" => tmp[p] = Rewritten(p, call[p], snap[p])

InCall ==
  \A p \in Procs :
    /\ pc[p] # "idle" => call[p] \in Calls
    /\ pc[p] \in {"dumping", "replacing"} => Rewrites(call[p], snap[p])
    /\ pc[p] = "reading" => call[p].kind = "load"

IInv ==
  /\ TypeOK
  /\ WholeFile
  /\ LockHeld
  /\ SnapshotFresh
  /\ TempDumped
  /\ InCall

-----------------------------------------------------------------------------
(* The value of a file with no host is a value of the file. *)
LEMMA NoHostsType == NoHosts \in Contents
  BY DEF NoHosts, Contents, Records, Absent

(* A rewrite of a value of the file is a value of the file: add_host,       *)
(* remove_host and update_host leave a well-formed hosts.json.              *)
LEMMA RewrittenType ==
  ASSUME NEW p \in Procs, NEW c \in Calls, NEW s \in Contents
  PROVE  Rewritten(p, c, s) \in Contents
<1>1. c.host \in Hostnames
  BY DEF Calls
<1>2. s[c.host] \in Records
  BY <1>1 DEF Contents
<1>3. s[c.host].updates \subseteq Procs
  BY <1>2 DEF Records
<1> DEFINE r == CASE c.kind = "add"    -> [registered |-> TRUE, updates |-> {}]
                  [] c.kind = "remove" -> Absent
                  [] OTHER -> [registered |-> TRUE,
                               updates |-> s[c.host].updates \cup {p}]
<1>4. r \in Records
  <2>1. CASE c.kind = "add"
    BY <2>1 DEF Records
  <2>2. CASE c.kind = "remove"
    BY <2>2 DEF Records, Absent
  <2>3. CASE c.kind \notin {"add", "remove"}
    BY <1>3, <2>3 DEF Records
  <2> QED
    BY <2>1, <2>2, <2>3
<1>5. Rewritten(p, c, s) = [s EXCEPT ![c.host] = r]
  BY DEF Rewritten
<1> HIDE DEF r
<1> QED
  BY <1>1, <1>4, <1>5 DEF Contents

(* Every call has one of the listed outcomes on every value of the file. *)
LEMMA OutcomeType ==
  ASSUME NEW c \in Calls, NEW s \in Contents
  PROVE  Outcome(c, s) \in Outcomes
BY DEF Calls, Outcome, Outcomes

-----------------------------------------------------------------------------
(* No call has begun and the file is empty. *)
LEMMA InitIInv == Init => IInv
BY NoHostsType
   DEF Init, IInv, TypeOK, WholeFile, LockHeld, SnapshotFresh, TempDumped,
       InCall, Critical, Steps, Outcomes

(* Every step of a process keeps the inductive invariant. *)
LEMMA NextIInv == IInv /\ [Next]_vars => IInv'
<1> SUFFICES ASSUME IInv, [Next]_vars
             PROVE  IInv'
  OBVIOUS
<1> USE NoHostsType, NoProcAssumption
    DEF IInv, TypeOK, WholeFile, LockHeld, SnapshotFresh, TempDumped, InCall,
        Critical, Steps
<1>1. ASSUME NEW p \in Procs, NEW c \in Calls, Begin(p, c)
      PROVE  IInv'
  BY <1>1 DEF Begin
<1>2. ASSUME NEW p \in Procs, Read(p)
      PROVE  IInv'
  BY <1>2 DEF Read, Outcomes
<1>3. ASSUME NEW p \in Procs, Acquire(p)
      PROVE  IInv'
  BY <1>3 DEF Acquire
<1>4. ASSUME NEW p \in Procs, Load(p)
      PROVE  IInv'
  BY <1>4 DEF Load
<1>5. ASSUME NEW p \in Procs, Refuse(p)
      PROVE  IInv'
  <2>1. Outcome(call[p], snap[p]) \in Outcomes
    BY <1>5, OutcomeType DEF Refuse
  <2> QED
    BY <1>5, <2>1 DEF Refuse
<1>6. ASSUME NEW p \in Procs, OpenTemp(p)
      PROVE  IInv'
  BY <1>6 DEF OpenTemp
<1>7. ASSUME NEW p \in Procs, Dump(p)
      PROVE  IInv'
  <2>1. Rewritten(p, call[p], snap[p]) \in Contents
    BY <1>7, RewrittenType DEF Dump
  <2> QED
    BY <1>7, <2>1 DEF Dump
<1>8. ASSUME NEW p \in Procs, WriteFails(p)
      PROVE  IInv'
  BY <1>8 DEF WriteFails, Outcomes
<1>9. ASSUME NEW p \in Procs, Replace(p)
      PROVE  IInv'
  <2>1. tmp[p] \in Contents
    BY <1>9, RewrittenType DEF Replace
  <2> QED
    BY <1>9, <2>1 DEF Replace, Outcomes
<1>10. ASSUME NEW p \in Procs, Unlock(p)
       PROVE  IInv'
  BY <1>10 DEF Unlock
<1>11. ASSUME NEW p \in Procs, Return(p)
       PROVE  IInv'
  BY <1>11 DEF Return, Forget, Outcomes
<1>12. ASSUME NEW p \in Procs, Crash(p)
       PROVE  IInv'
  BY <1>12 DEF Crash, Forget, Outcomes
<1>13. CASE UNCHANGED vars
  BY <1>13 DEF vars
<1> QED
  BY <1>1, <1>2, <1>3, <1>4, <1>5, <1>6, <1>7, <1>8, <1>9, <1>10, <1>11,
     <1>12, <1>13 DEF Next, Proceed

(* hosts.json, the lock, the temporary files and every call keep their types, *)
(* and the strengthened invariant holds in every reachable state.             *)
THEOREM Invariance == Spec => []IInv
BY InitIInv, NextIInv, PTL DEF Spec

(* Type correctness of the lock, load, dump and rename protocol. *)
THEOREM TypeCorrect == Spec => []TypeOK
<1>1. IInv => TypeOK
  BY DEF IInv
<1> QED
  BY <1>1, Invariance, PTL

(* A reader of hosts.json never finds a partly written file. *)
THEOREM FileAlwaysWhole == Spec => []WholeFile
<1>1. IInv => WholeFile
  BY DEF IInv
<1> QED
  BY <1>1, Invariance, PTL

(* Two processes are never inside `with _hosts_lock()` together. *)
THEOREM Exclusion == Spec => []MutualExclusion
<1>1. IInv => MutualExclusion
  BY DEF IInv, LockHeld, MutualExclusion
<1> QED
  BY <1>1, Invariance, PTL

(* What a writer loaded under the lock is what it replaces. *)
THEOREM NoLostUpdate == Spec => []SnapshotFresh
<1>1. IInv => SnapshotFresh
  BY DEF IInv
<1> QED
  BY <1>1, Invariance, PTL

(* Writers of hosts.json follow one another. *)
THEOREM WritersSerialized == Spec => []Serialized
BY Exclusion, NoLostUpdate, PTL DEF Serialized

-----------------------------------------------------------------------------
(* The stage of every process, as AtomicStore sees it. *)
Stages == [q \in Procs |-> StageOf(pc[q])]

(* A step that leaves every process in its stage, and a step that moves one   *)
(* process to another stage.                                                  *)
LEMMA StagesMove ==
  ASSUME TypeOK, NEW p \in Procs, NEW to, pc' = [pc EXCEPT ![p] = to]
  PROVE  Stages' = [Stages EXCEPT ![p] = StageOf(to)]
BY DEF Stages, TypeOK

LEMMA StagesSame ==
  ASSUME TypeOK, NEW p \in Procs, NEW to, pc' = [pc EXCEPT ![p] = to],
         StageOf(to) = StageOf(pc[p])
  PROVE  Stages' = Stages
BY DEF Stages, TypeOK

(* The two modules mean the same by a call. *)
LEMMA SameCalls ==
  ASSUME NEW p, NEW c, NEW s
  PROVE  /\ Atomic!Outcome(c, s) = Outcome(c, s)
         /\ Atomic!Rewrites(c, s) <=> Rewrites(c, s)
         /\ Atomic!Rewritten(p, c, s) = Rewritten(p, c, s)
BY DEF Outcome, Atomic!Outcome, Rewrites, Atomic!Rewrites, Rewritten,
       Atomic!Rewritten, Absent, Atomic!Absent

(* The file starts empty and every process idle. *)
LEMMA InitRefines == Init => Atomic!AInit
BY DEF Init, Atomic!AInit, StageOf, NoHosts, Atomic!NoHosts, Absent, Atomic!Absent

(* Every step of the lock, load, dump and rename protocol is a step of the    *)
(* atomic store or leaves it as it is.                                        *)
LEMMA StepRefines == IInv /\ [Next]_vars => [Atomic!ANext]_(Atomic!avars)
<1> SUFFICES ASSUME IInv, [Next]_vars
             PROVE  [Atomic!ANext]_(Atomic!avars)
  OBVIOUS
<1> USE DEF IInv, TypeOK
<1>0. Stages = [q \in Procs |-> StageOf(pc[q])]
  BY DEF Stages
<1>1. ASSUME NEW p \in Procs, NEW c \in Calls, Begin(p, c)
      PROVE  Atomic!ABegin(p, c)
  <2>1. Stages' = [Stages EXCEPT ![p] = "called"] /\ Stages[p] = "idle"
    BY <1>1, StagesMove DEF Begin, StageOf, Stages
  <2> QED
    BY <1>1, <2>1 DEF Begin, Atomic!ABegin, Stages
<1>2. ASSUME NEW p \in Procs, Read(p)
      PROVE  Atomic!ATakeEffect(p)
  <2>1. Stages' = [Stages EXCEPT ![p] = "done"] /\ Stages[p] = "called"
    BY <1>2, StagesMove DEF Read, StageOf, Stages
  <2>2. call[p].kind = "load"
    BY <1>2 DEF Read, InCall
  <2>3. Outcome(call[p], hosts) = "ok" /\ ~Rewrites(call[p], hosts)
    BY <2>2 DEF Outcome, Rewrites
  <2> QED
    BY <1>2, <2>1, <2>3, SameCalls DEF Read, Atomic!ATakeEffect, Stages
<1>3. ASSUME NEW p \in Procs, Acquire(p)
      PROVE  UNCHANGED Atomic!avars
  <2>1. Stages' = Stages
    BY <1>3, StagesSame DEF Acquire, StageOf
  <2> QED
    BY <1>3, <2>1 DEF Acquire, Atomic!avars, Stages
<1>4. ASSUME NEW p \in Procs, Load(p)
      PROVE  UNCHANGED Atomic!avars
  <2>1. Stages' = Stages
    BY <1>4, StagesSame DEF Load, StageOf
  <2> QED
    BY <1>4, <2>1 DEF Load, Atomic!avars, Stages
<1>5. ASSUME NEW p \in Procs, Refuse(p)
      PROVE  Atomic!ATakeEffect(p)
  <2>1. Stages' = [Stages EXCEPT ![p] = "done"] /\ Stages[p] = "called"
    BY <1>5, StagesMove DEF Refuse, StageOf, Stages
  <2>2. snap[p] = hosts
    BY <1>5 DEF Refuse, SnapshotFresh
  <2> QED
    BY <1>5, <2>1, <2>2, SameCalls DEF Refuse, Atomic!ATakeEffect, Stages
<1>6. ASSUME NEW p \in Procs, OpenTemp(p)
      PROVE  UNCHANGED Atomic!avars
  <2>1. Stages' = Stages
    BY <1>6, StagesSame DEF OpenTemp, StageOf
  <2> QED
    BY <1>6, <2>1 DEF OpenTemp, Atomic!avars, Stages
<1>7. ASSUME NEW p \in Procs, Dump(p)
      PROVE  UNCHANGED Atomic!avars
  <2>1. Stages' = Stages
    BY <1>7, StagesSame DEF Dump, StageOf
  <2> QED
    BY <1>7, <2>1 DEF Dump, Atomic!avars, Stages
<1>8. ASSUME NEW p \in Procs, WriteFails(p)
      PROVE  Atomic!AWriteFails(p)
  <2>1. Stages' = [Stages EXCEPT ![p] = "done"] /\ Stages[p] = "called"
    BY <1>8, StagesMove DEF WriteFails, StageOf, Stages
  <2>2. Rewrites(call[p], hosts)
    BY <1>8 DEF WriteFails, SnapshotFresh, InCall
  <2> QED
    BY <1>8, <2>1, <2>2, SameCalls DEF WriteFails, Atomic!AWriteFails, Stages
<1>9. ASSUME NEW p \in Procs, Replace(p)
      PROVE  Atomic!ATakeEffect(p)
  <2>1. Stages' = [Stages EXCEPT ![p] = "done"] /\ Stages[p] = "called"
    BY <1>9, StagesMove DEF Replace, StageOf, Stages
  <2>2. snap[p] = hosts /\ tmp[p] = Rewritten(p, call[p], snap[p])
    BY <1>9 DEF Replace, SnapshotFresh, TempDumped
  <2>3. Rewrites(call[p], hosts) /\ Outcome(call[p], hosts) = "ok"
    BY <1>9, <2>2 DEF Replace, InCall, Rewrites
  <2> QED
    BY <1>9, <2>1, <2>2, <2>3, SameCalls
    DEF Replace, Atomic!ATakeEffect, Stages
<1>10. ASSUME NEW p \in Procs, Unlock(p)
      PROVE  UNCHANGED Atomic!avars
  <2>1. Stages' = Stages
    BY <1>10, StagesSame DEF Unlock, StageOf
  <2> QED
    BY <1>10, <2>1 DEF Unlock, Atomic!avars, Stages
<1>11. ASSUME NEW p \in Procs, Return(p)
       PROVE  Atomic!AReturn(p)
  <2>1. Stages' = [Stages EXCEPT ![p] = "idle"] /\ Stages[p] = "done"
    BY <1>11, StagesMove DEF Return, Forget, StageOf, Stages, Steps
  <2> QED
    BY <1>11, <2>1 DEF Return, Forget, Atomic!AReturn, Stages
<1>12. ASSUME NEW p \in Procs, Crash(p)
       PROVE  Atomic!ACrash(p)
  <2>1. Stages' = [Stages EXCEPT ![p] = "idle"] /\ Stages[p] # "idle"
    BY <1>12, StagesMove DEF Crash, Forget, StageOf, Stages, Steps
  <2> QED
    BY <1>12, <2>1 DEF Crash, Forget, Atomic!ACrash, Stages
<1>13. CASE UNCHANGED vars
  BY <1>13 DEF vars, Atomic!avars, StageOf
<1>14. Atomic!Calls = Calls
  BY DEF Calls, Atomic!Calls
<1> QED
  BY <1>1, <1>2, <1>3, <1>4, <1>5, <1>6, <1>7, <1>8, <1>9, <1>10, <1>11,
     <1>12, <1>13, <1>14 DEF Next, Proceed, Atomic!ANext

(* hosts.json behind its lock file implements the atomic store: each call of  *)
(* add_host, remove_host, update_host and load_hosts takes effect at one      *)
(* instant, entirely or not at all, crashes and failed writes included.       *)
THEOREM ImplementsAtomicStore == Spec => Linearizable
BY InitRefines, Invariance, StepRefines, PTL
   DEF Spec, Linearizable, Atomic!AtomicSpec

=============================================================================
