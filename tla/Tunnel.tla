--------------------------------- MODULE Tunnel ---------------------------------
(***************************************************************************)
(* The ssh tunnel to the dashboard of one agent.  tunnels/<key>.json names *)
(* the process and the local port; ensure reuses what is alive, is ours    *)
(* and answers, and else replaces it.  A lock orders the threads of one    *)
(* process, not the GUI and the command line, and not close, which the     *)
(* reaper and the shutdown of the GUI call.                                *)
(***************************************************************************)
EXTENDS Naturals

CONSTANTS Threads, \* worker threads of the GUI
          Cli,     \* a clawctl command, a process of its own
          Pids,    \* numbers of processes
          Ports,   \* local ports
          MaxCalls \* bound: calls ever begun

Nobody == "nobody"
TunnelAssumption ==
  /\ Threads \cap {Cli, Nobody} = {}
  /\ 0 \notin Pids \cup Ports
  /\ MaxCalls \in Nat

VARIABLES
  file,   \* the state file: [pid, port], or NoTunnel
  ssh,    \* ssh[i]: the process that has number i
  pc, op, \* of each caller: its next step, and its call
  seen,   \* seen[p]: the tunnel that p read
  wanted, \* wanted[p]: the port p means to use, or 0
  child,  \* child[p]: the ssh that p spawned, or 0
  evicting, \* evicting[p]: p has found no tunnel to reuse, and removes what is left
  lock,   \* the thread of the GUI that holds the lock of the key, or Nobody
  calm,   \* history: no two processes overlapped, no close an ensure, and none was killed
  wrong,  \* history: a process that is no tunnel was sent a signal
  calls   \* bounded by MaxCalls

vars == <<file, ssh, pc, op, seen, wanted, child, evicting, lock, calm, wrong, calls>>

Callers == Threads \cup {Cli}
NoTunnel == [pid |-> 0, port |-> 0]
\* A tunnel connects, forwards, or forwards to a dashboard that is gone.
Live == {"connecting", "up", "hung"}
Steps == {"idle", "lock", "read", "probe", "term", "kill", "delete", "spawn", "wait", "write"}
Running == {p \in Callers : pc[p] # "idle"}

TypeOK ==
  /\ file \in [pid : Pids \cup {0}, port : Ports \cup {0}]
  /\ ssh \in [Pids -> [state : Live \cup {"free", "other"}, port : Ports \cup {0}]]
  /\ pc \in [Callers -> Steps] /\ op \in [Callers -> {"ensure", "close"}]
  /\ seen \in [Callers -> [pid : Pids \cup {0}, port : Ports \cup {0}]]
  /\ wanted \in [Callers -> Ports \cup {0}] /\ child \in [Callers -> Pids \cup {0}]
  /\ \A i, j \in Pids : {ssh[i].state, ssh[j].state} \subseteq {"up", "hung"} /\ ssh[i].port = ssh[j].port
       => i = j
  /\ lock \in Threads \cup {Nobody}
  /\ evicting \in [Callers -> BOOLEAN] /\ {calm, wrong} \subseteq BOOLEAN
  /\ calls \in 0 .. MaxCalls

Nothing == [state |-> "free", port |-> 0]
Init ==
  /\ file = NoTunnel /\ ssh = [i \in Pids |-> Nothing]
  /\ pc = [p \in Callers |-> "idle"] /\ op = [p \in Callers |-> "ensure"]
  /\ seen = [p \in Callers |-> NoTunnel]
  /\ wanted = [p \in Callers |-> 0] /\ child = [p \in Callers |-> 0]
  /\ evicting = [p \in Callers |-> FALSE]
  /\ lock = Nobody /\ calm = TRUE /\ wrong = FALSE /\ calls = 0

At(p, s) == pc[p] = s
Go(p, s) == pc' = [pc EXCEPT ![p] = s]
Keep == UNCHANGED <<op, calm, calls>>
\* A caller that is done lets go of the lock.
Done(p) == Go(p, "idle") /\ lock' = IF lock = p THEN Nobody ELSE lock

Bound(port) == \E i \in Pids : ssh[i].port = port /\ ssh[i].state \in {"up", "hung"}
Healthy(port) == \E i \in Pids : ssh[i].port = port /\ ssh[i].state = "up"
\* The process has the command line that was recorded.
Ours(t) == t.pid # 0 /\ ssh[t.pid].state \in Live /\ ssh[t.pid].port = t.port

Begin(p, o) ==
  /\ At(p, "idle") /\ calls < MaxCalls /\ calls' = calls + 1
  /\ p = Cli => o = "ensure"
  /\ op' = [op EXCEPT ![p] = o]
  /\ Go(p, IF o = "ensure" /\ p # Cli THEN "lock" ELSE "read")
  /\ seen' = [seen EXCEPT ![p] = NoTunnel] /\ wanted' = [wanted EXCEPT ![p] = 0]
  /\ child' = [child EXCEPT ![p] = 0]
  /\ evicting' = [evicting EXCEPT ![p] = o = "close"]
  /\ calm' = (calm /\ \A q \in Running : {p, q} \subseteq Threads /\ {o, op[q]} = {"ensure"})
  /\ UNCHANGED <<file, ssh, lock, wrong>>

\* Mutant: every call makes a lock of its own.
LockOfItsOwn(p) == FALSE
LockTaken(p) == lock # Nobody
Lock(p) ==
  /\ At(p, "lock") /\ ~ LockTaken(p)
  /\ lock' = p /\ Go(p, "read")
  /\ UNCHANGED <<file, ssh, seen, wanted, child, evicting, wrong>> /\ Keep

\* The port of the tunnel before is wanted again.
Read(p) ==
  /\ At(p, "read") /\ seen' = [seen EXCEPT ![p] = file]
  /\ wanted' = IF evicting[p] THEN wanted ELSE [wanted EXCEPT ![p] = file.port]
  /\ CASE file # NoTunnel -> Go(p, IF evicting[p] THEN "term" ELSE "probe") /\ UNCHANGED lock
       [] file = NoTunnel /\ op[p] = "ensure" -> Go(p, "spawn") /\ UNCHANGED lock
       [] OTHER -> Done(p)
  /\ UNCHANGED <<file, ssh, child, evicting, wrong>> /\ Keep

\* _existing_healthy_tunnel.
Probe(p) ==
  /\ At(p, "probe")
  /\ CASE ~ Ours(seen[p]) -> Go(p, "delete") /\ UNCHANGED lock
       [] Ours(seen[p]) /\ Healthy(seen[p].port) -> Done(p)
       [] OTHER -> Go(p, "term") /\ UNCHANGED lock
  /\ UNCHANGED <<file, ssh, seen, wanted, child, evicting, wrong>> /\ Keep

(***************************************************************************)
(* _terminate: SIGTERM, two seconds, and SIGKILL.  Between the test of the *)
(* command line and the signal there is no step.                           *)
(***************************************************************************)
Dead(i) == [ssh EXCEPT ![i] = Nothing]
Hits(i) == wrong' = (wrong \/ ssh[i].state = "other")
Term(p) ==
  /\ At(p, "term")
  /\ \/ Ours(seen[p]) /\ ssh' = Dead(seen[p].pid) /\ Go(p, "delete")
     \/ Ours(seen[p]) /\ UNCHANGED ssh /\ Go(p, "kill")
     \/ ~ Ours(seen[p]) /\ UNCHANGED ssh /\ Go(p, "delete")
  /\ UNCHANGED <<file, seen, wanted, child, evicting, lock, wrong>> /\ Keep
\* Mutant: it is not.
KillBlindly(p) ==
  /\ At(p, "kill") /\ Go(p, "delete")
  /\ IF ssh[seen[p].pid].state # "free" THEN ssh' = Dead(seen[p].pid) /\ Hits(seen[p].pid) ELSE UNCHANGED <<ssh, wrong>>
  /\ UNCHANGED <<file, seen, wanted, child, evicting, lock>> /\ Keep
\* The command line is read again.
Kill(p) ==
  /\ At(p, "kill") /\ Go(p, "delete")
  /\ IF Ours(seen[p]) THEN ssh' = Dead(seen[p].pid) /\ Hits(seen[p].pid) ELSE UNCHANGED <<ssh, wrong>>
  /\ UNCHANGED <<file, seen, wanted, child, evicting, lock>> /\ Keep
\* The file goes, whatever it says by now; ensure then evicts what it finds in it.
Delete(p) ==
  /\ At(p, "delete") /\ file' = NoTunnel
  /\ CASE ~ evicting[p] -> Go(p, "read") /\ evicting' = [evicting EXCEPT ![p] = TRUE] /\ UNCHANGED lock
       [] evicting[p] /\ op[p] = "ensure" -> Go(p, "spawn") /\ UNCHANGED <<evicting, lock>>
       [] OTHER -> Done(p) /\ UNCHANGED evicting
  /\ UNCHANGED <<ssh, seen, wanted, child, wrong>> /\ Keep

(***************************************************************************)
(* A new tunnel.                                                           *)
(***************************************************************************)
Spawn(p) ==
  /\ At(p, "spawn")
  /\ \E port \in Ports, i \in Pids :
       /\ ~ Bound(port)
       /\ wanted[p] # 0 /\ ~ Bound(wanted[p]) => port = wanted[p]
       /\ ssh[i].state = "free" /\ ssh' = [ssh EXCEPT ![i] = [state |-> "connecting", port |-> port]]
       /\ wanted' = [wanted EXCEPT ![p] = port] /\ child' = [child EXCEPT ![p] = i]
  /\ Go(p, "wait")
  /\ UNCHANGED <<file, seen, evicting, lock, wrong>> /\ Keep
\* Anybody who answers on the port will do; a child that does not answer in time is ended.
IsChild(i, port) == i # 0 /\ ssh[i].state \in Live /\ ssh[i].port = port
Wait(p) ==
  /\ At(p, "wait")
  /\ \/ Healthy(wanted[p]) /\ Go(p, "write") /\ UNCHANGED <<ssh, lock>>
     \/ /\ ~ Healthy(wanted[p]) /\ Done(p)
        /\ ssh' = IF IsChild(child[p], wanted[p]) THEN Dead(child[p]) ELSE ssh
  /\ UNCHANGED <<file, seen, wanted, child, evicting, wrong>> /\ Keep
Write(p) ==
  /\ At(p, "write") /\ file' = [pid |-> child[p], port |-> wanted[p]]
  /\ Done(p)
  /\ UNCHANGED <<ssh, seen, wanted, child, evicting, wrong>> /\ Keep

\* The process of a caller ends, and with it all its threads.
Killed(p) ==
  /\ p \in Running /\ calm' = FALSE
  /\ pc' = [q \in Callers |-> IF (q = Cli) = (p = Cli) THEN "idle" ELSE pc[q]]
  /\ lock' = IF p = Cli THEN lock ELSE Nobody
  /\ UNCHANGED <<file, ssh, op, seen, wanted, child, evicting, wrong, calls>>

(***************************************************************************)
(* Processes and the dashboard.                                            *)
(***************************************************************************)
Outside == UNCHANGED <<file, pc, op, seen, wanted, child, evicting, lock, calm, wrong, calls>>
\* Mutant: without ExitOnForwardFailure a second tunnel counts on a port that it does not have.
ConnectsAnyway(i) ==
  /\ ssh[i].state = "connecting"
  /\ \E s \in {"up", "hung"} : ssh' = [ssh EXCEPT ![i].state = s]
  /\ Outside
\* ExitOnForwardFailure: who finds the port taken exits.
Connects(i) ==
  /\ ssh[i].state = "connecting"
  /\ \/ Bound(ssh[i].port) /\ ssh' = Dead(i)
     \/ \E s \in {"up", "hung"} : ~ Bound(ssh[i].port) /\ ssh' = [ssh EXCEPT ![i].state = s]
  /\ Outside
Dashboard(i) ==
  /\ ssh[i].state \in {"up", "hung"}
  /\ ssh' = [ssh EXCEPT ![i].state = IF @ = "up" THEN "hung" ELSE "up"]
  /\ Outside
Exits(i) == ssh[i].state # "free" /\ ssh' = Dead(i) /\ Outside
Reused(i) ==
  /\ ssh[i].state = "free" /\ ssh' = [ssh EXCEPT ![i] = [state |-> "other", port |-> 0]]
  /\ Outside

Next ==
  \/ \E p \in Callers :
       \/ Begin(p, "ensure") \/ Begin(p, "close")
       \/ Lock(p) \/ Read(p) \/ Probe(p) \/ Term(p) \/ Kill(p) \/ Delete(p)
       \/ Spawn(p) \/ Wait(p) \/ Write(p) \/ Killed(p)
  \/ \E i \in Pids : Connects(i) \/ Dashboard(i) \/ Exits(i) \/ Reused(i)

Spec == Init /\ [][Next]_vars

(***************************************************************************)
(* Properties.                                                             *)
(***************************************************************************)
\* However many threads of the GUI ask for the tunnel at the same time: when they are
\* done, a tunnel that lives is the one the file names, so there is one, and close finds it.
TunnelKnown ==
  calm /\ Running = {} =>
    \A i \in Pids : ssh[i].state \in Live => file = [pid |-> i, port |-> ssh[i].port]

\* Whoever overlaps, is killed or dies: no process that got the number of a tunnel is
\* sent a signal.
NeverOther == ~ wrong
=============================================================================
