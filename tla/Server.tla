--------------------------------- MODULE Server ---------------------------------
(***************************************************************************)
(* `clawctl server start | stop | status`: a detached server of the GUI on *)
(* one fixed port, and server.json, which names its process.  The commands *)
(* take no lock; what they find in the file they test against the process  *)
(* and against the port, because a number may belong to another process by *)
(* now.                                                                    *)
(***************************************************************************)
EXTENDS Naturals

CONSTANTS Procs,       \* commands that run at once
          Pids,        \* numbers of processes
          MaxCommands  \* bound: commands ever begun

NoPid == 0
ServerAssumption == NoPid \notin Pids /\ MaxCommands \in Nat

VARIABLES
  file,    \* server.json: the number of a process, or NoPid
  proc,    \* proc[i]: the process that has number i
  foreign, \* a program of somebody else (or `server run`) listens on the port
  pc, op,  \* of each command: its next step, and which command it is
  seen,    \* seen[p]: the number that p read
  child,   \* child[p]: the process that p spawned
  calm,    \* history: no command overlapped another or was killed, nobody took the port from one
  met,     \* history: a foreign program has had the port
  wrong,   \* history: a command sent a signal to a process that is no server
  commands \* bounded by MaxCommands

vars == <<file, proc, foreign, pc, op, seen, child, calm, met, wrong, commands>>

Servers == {"booting", "serving", "stopping"}
Steps == {"idle", "read", "probe", "clear", "port", "spawn", "wait", "kill", "confirm", "record",
          "term", "await"}
Running == {p \in Procs : pc[p] # "idle"}

TypeOK ==
  /\ file \in Pids \cup {NoPid}
  /\ proc \in [Pids -> Servers \cup {"free", "other"}]
  /\ \A i, j \in Pids : {proc[i], proc[j]} = {"serving"} => i = j /\ ~ foreign
  /\ pc \in [Procs -> Steps] /\ op \in [Procs -> {"start", "stop", "status"}]
  /\ seen \in [Procs -> Pids \cup {NoPid}] /\ child \in [Procs -> Pids \cup {NoPid}]
  /\ {foreign, calm, met, wrong} \subseteq BOOLEAN
  /\ commands \in 0 .. MaxCommands

Init ==
  /\ file = NoPid /\ proc = [i \in Pids |-> "free"] /\ foreign = FALSE
  /\ pc = [p \in Procs |-> "idle"] /\ op = [p \in Procs |-> "start"]
  /\ seen = [p \in Procs |-> NoPid] /\ child = [p \in Procs |-> NoPid]
  /\ calm = TRUE /\ met = FALSE /\ wrong = FALSE
  /\ commands = 0

At(p, s) == pc[p] = s
Go(p, s) == pc' = [pc EXCEPT ![p] = s]
Done(p) == Go(p, "idle")
History == UNCHANGED <<foreign, op, calm, met, commands>>

Alive(i) == i \in Pids /\ proc[i] # "free"
Accepting == foreign \/ \E i \in Pids : proc[i] = "serving"

Begin(p, o) ==
  /\ At(p, "idle") /\ commands < MaxCommands /\ commands' = commands + 1
  /\ Go(p, "read") /\ op' = [op EXCEPT ![p] = o]
  /\ seen' = [seen EXCEPT ![p] = NoPid] /\ child' = [child EXCEPT ![p] = NoPid]
  /\ calm' = (calm /\ Running = {})
  /\ UNCHANGED <<file, proc, foreign, met, wrong>>

(***************************************************************************)
(* The file, the process and the port.                                     *)
(***************************************************************************)
Read(p) ==
  /\ At(p, "read") /\ seen' = [seen EXCEPT ![p] = file]
  /\ CASE file # NoPid -> Go(p, "probe")
       [] file = NoPid /\ op[p] = "start" -> Go(p, "port")
       [] OTHER -> Done(p)
  /\ UNCHANGED <<file, proc, child, wrong>> /\ History
\* Mutant: a live process is the server, whoever has the port.
IsAlive(p) == Alive(seen[p])
\* Of a live process whose port does not answer the number has been given away.
IsServer(p) == Alive(seen[p]) /\ Accepting
Probe(p) ==
  /\ At(p, "probe")
  /\ CASE ~ IsServer(p) -> Go(p, "clear")
       [] IsServer(p) /\ op[p] = "stop" -> Go(p, "term")
       [] OTHER -> Done(p)
  /\ UNCHANGED <<file, proc, seen, child, wrong>> /\ History
\* clear_state: the file goes, whatever it says by now.
Clear(p) ==
  /\ At(p, "clear") /\ file' = NoPid
  /\ IF op[p] = "start" THEN Go(p, "port") ELSE Done(p)
  /\ UNCHANGED <<proc, seen, child, wrong>> /\ History

(***************************************************************************)
(* start_detached.                                                         *)
(***************************************************************************)
Port(p) ==
  /\ At(p, "port")
  /\ IF Accepting THEN Done(p) ELSE Go(p, "spawn")
  /\ UNCHANGED <<file, proc, seen, child, wrong>> /\ History
Spawn(p) ==
  /\ At(p, "spawn")
  /\ \/ \E i \in Pids : /\ proc[i] = "free" /\ proc' = [proc EXCEPT ![i] = "booting"]
                        /\ child' = [child EXCEPT ![p] = i] /\ Go(p, "wait")
     \/ UNCHANGED <<proc, child>> /\ Done(p)
  /\ UNCHANGED <<file, seen, wrong>> /\ History
\* Until the child has exited, somebody accepts on the port, or time is up.
Wait(p) ==
  /\ At(p, "wait")
  /\ \/ ~ Alive(child[p]) /\ Done(p)
     \/ Alive(child[p]) /\ Accepting /\ Go(p, "confirm")
     \/ Alive(child[p]) /\ ~ Accepting /\ Go(p, "kill")
  /\ UNCHANGED <<file, proc, seen, child, wrong>> /\ History
Ended(i) == IF Alive(i) THEN [proc EXCEPT ![i] = "free"] ELSE proc
Kill(p) ==
  /\ At(p, "kill") /\ proc' = Ended(child[p]) /\ Done(p)
  /\ UNCHANGED <<file, seen, child, wrong>> /\ History
Confirm(p) ==
  /\ At(p, "confirm")
  /\ IF Alive(child[p]) THEN Go(p, "record") ELSE Done(p)
  /\ UNCHANGED <<file, proc, seen, child, wrong>> /\ History
Record(p) ==
  /\ At(p, "record") /\ file' = child[p] /\ Done(p)
  /\ UNCHANGED <<proc, seen, child, wrong>> /\ History

(***************************************************************************)
(* stop_running: SIGTERM, five seconds for the requests under way, SIGKILL.*)
(***************************************************************************)
Signals(i) == wrong' = (wrong \/ proc[i] = "other")
Term(p) ==
  /\ At(p, "term")
  /\ IF Alive(seen[p])
     THEN /\ Signals(seen[p]) /\ Go(p, "await")
          /\ proc' = [proc EXCEPT ![seen[p]] =
                        CASE @ = "serving" -> "stopping" [] @ = "booting" -> "free" [] OTHER -> @]
     ELSE UNCHANGED <<proc, wrong>> /\ Go(p, "clear")
  /\ UNCHANGED <<file, seen, child>> /\ History
Await(p) ==
  /\ At(p, "await") /\ Go(p, "clear")
  /\ IF Alive(seen[p])
     THEN Signals(seen[p]) /\ proc' = Ended(seen[p])
     ELSE UNCHANGED <<proc, wrong>>
  /\ UNCHANGED <<file, seen, child>> /\ History

\* A command is interrupted; the child is in a session of its own.
Killed(p) ==
  /\ p \in Running /\ Done(p) /\ calm' = FALSE
  /\ UNCHANGED <<file, proc, foreign, op, seen, child, met, wrong, commands>>

(***************************************************************************)
(* Processes.  Numbers come round when no command runs: they are given out *)
(* one after the other, and a command takes seconds.                       *)
(***************************************************************************)
Still == UNCHANGED <<file, pc, op, seen, child, wrong, commands>>
Binds(i) ==
  /\ proc[i] = "booting"
  /\ proc' = [proc EXCEPT ![i] = IF Accepting THEN "free" ELSE "serving"]
  /\ Still /\ UNCHANGED <<foreign, calm, met>>
Exits(i) ==
  /\ proc[i] # "free" /\ proc' = [proc EXCEPT ![i] = "free"]
  /\ Still /\ UNCHANGED <<foreign, calm, met>>
Reused(i) ==
  /\ proc[i] = "free" /\ Running = {}
  /\ proc' = [proc EXCEPT ![i] = "other"]
  /\ Still /\ UNCHANGED <<foreign, calm, met>>
Foreign ==
  /\ \/ ~ Accepting /\ foreign' = TRUE /\ met' = TRUE /\ calm' = (calm /\ Running = {})
     \/ foreign /\ foreign' = FALSE /\ UNCHANGED <<met, calm>>
  /\ Still /\ UNCHANGED <<proc>>

Next ==
  \/ \E p \in Procs :
       \/ \E o \in {"start", "stop", "status"} : Begin(p, o)
       \/ Read(p) \/ Probe(p) \/ Clear(p)
       \/ Port(p) \/ Spawn(p) \/ Wait(p) \/ Kill(p) \/ Confirm(p) \/ Record(p)
       \/ Term(p) \/ Await(p) \/ Killed(p)
  \/ \E i \in Pids : Binds(i) \/ Exits(i) \/ Reused(i)
  \/ Foreign

Spec == Init /\ [][Next]_vars

(***************************************************************************)
(* Properties.                                                             *)
(***************************************************************************)
\* Commands that ran one after the other leave no server behind that server.json does not
\* name: `stop` finds it, and `start` does not call its port taken.
ServerKnown ==
  calm /\ Running = {} => \A i \in Pids : proc[i] \in Servers => file = i

\* As long as nobody else uses the port, such commands send no signal to a process that has
\* got the number of a server that died.
RightTarget == calm /\ ~ met => ~ wrong
=============================================================================
