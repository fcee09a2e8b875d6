----------------------------- MODULE AtomicStore -----------------------------
(***************************************************************************)
(* What hosts.json promises to its callers: every call of add_host,        *)
(* remove_host, update_host and load_hosts takes effect at one instant     *)
(* between its start and its end, on the value the file has at that        *)
(* instant, and its outcome is the outcome for that value.  A write may    *)
(* fail and a process may die; either way the call took effect entirely or *)
(* not at all.                                                             *)
(*                                                                         *)
(* HostsStore implements this specification with an flock, a temporary     *)
(* file and a rename.  The modules of the commands (HostCommands,          *)
(* Install, ...) use each of these calls as one atomic step for that       *)
(* reason.                                                                 *)
(***************************************************************************)
EXTENDS StoreCalls

VARIABLES
  store,    \* the value of hosts.json
  stage,    \* stage[p]: where process p is in its call
  call,     \* call[p]: the call p is in, or NoCall
  outcome   \* outcome[p]: the outcome of that call, "none" before it has one

avars == <<store, stage, call, outcome>>

AInit ==
  /\ store = NoHosts
  /\ stage = [p \in Procs |-> "idle"]
  /\ call = [p \in Procs |-> NoCall]
  /\ outcome = [p \in Procs |-> "none"]

\* Process p starts call c.
ABegin(p, c) ==
  /\ stage[p] = "idle"
  /\ stage' = [stage EXCEPT ![p] = "called"]
  /\ call' = [call EXCEPT ![p] = c]
  /\ UNCHANGED <<store, outcome>>

\* The call of p takes effect.
ATakeEffect(p) ==
  /\ stage[p] = "called"
  /\ stage' = [stage EXCEPT ![p] = "done"]
  /\ outcome' = [outcome EXCEPT ![p] = Outcome(call[p], store)]
  /\ store' = IF Rewrites(call[p], store) THEN Rewritten(p, call[p], store)
                                          ELSE store
  /\ UNCHANGED call

\* The write of the call of p fails: the caller is told and nothing changed.
AWriteFails(p) ==
  /\ stage[p] = "called"
  /\ Rewrites(call[p], store)
  /\ stage' = [stage EXCEPT ![p] = "done"]
  /\ outcome' = [outcome EXCEPT ![p] = "raised"]
  /\ UNCHANGED <<store, call>>

\* The call of p returns.
AReturn(p) ==
  /\ stage[p] = "done"
  /\ stage' = [stage EXCEPT ![p] = "idle"]
  /\ call' = [call EXCEPT ![p] = NoCall]
  /\ outcome' = [outcome EXCEPT ![p] = "none"]
  /\ UNCHANGED store

\* Process p dies: a call that has taken effect stays, the others never will.
ACrash(p) ==
  /\ stage[p] # "idle"
  /\ stage' = [stage EXCEPT ![p] = "idle"]
  /\ call' = [call EXCEPT ![p] = NoCall]
  /\ outcome' = [outcome EXCEPT ![p] = "none"]
  /\ UNCHANGED store

ANext ==
  \E p \in Procs :
    \/ \E c \in Calls : ABegin(p, c)
    \/ ATakeEffect(p)
    \/ AWriteFails(p)
    \/ AReturn(p)
    \/ ACrash(p)

AtomicSpec == AInit /\ [][ANext]_avars
=============================================================================
