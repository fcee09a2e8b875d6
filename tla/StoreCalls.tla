------------------------------ MODULE StoreCalls ------------------------------
(***************************************************************************)
(* The calls core/hosts.py offers on hosts.json and what each of them does *)
(* to the value of the file, shared by AtomicStore (the promise) and       *)
(* HostsStore (how it is kept).                                            *)
(***************************************************************************)
EXTENDS Naturals

CONSTANTS
  Procs,      \* the clawctl and GUI processes that share the file
  Hostnames,  \* the hostnames a record may carry
  NoProc,     \* the holder of a lock nobody holds
  NoCall      \* the call of a process that is in none

ASSUME NoProcAssumption == NoProc \notin Procs

(***************************************************************************)
(* A host that is not registered, and a registered one: the set of         *)
(* processes whose updaters its record carries, so that an update that is  *)
(* lost shows.                                                             *)
(***************************************************************************)
Absent    == [registered |-> FALSE, updates |-> {}]
Records   == [registered : BOOLEAN, updates : SUBSET Procs]
Contents  == [Hostnames -> Records]
NoHosts   == [h \in Hostnames |-> Absent]   \* no hosts.json yet: load_hosts gives []

(***************************************************************************)
(* A call.  "raises" says whether the updater of an update_host raises (as *)
(* the updaters of the address commands and of run_installation do).       *)
(***************************************************************************)
Calls    == [kind : {"add", "remove", "update", "load"},
             host : Hostnames,
             raises : BOOLEAN]
Outcomes == {"none", "ok", "duplicate", "absent", "raised"}

\* The outcome of call c on the value s of the file.
Outcome(c, s) ==
  CASE c.kind = "add"    -> IF s[c.host].registered THEN "duplicate" ELSE "ok"
    [] c.kind = "remove" -> IF s[c.host].registered THEN "ok" ELSE "absent"
    [] c.kind = "update" -> IF ~s[c.host].registered THEN "absent"
                            ELSE IF c.raises THEN "raised" ELSE "ok"
    [] c.kind = "load"   -> "ok"

\* Whether call c on s rewrites the file.
Rewrites(c, s) == c.kind # "load" /\ Outcome(c, s) = "ok"

\* The value call c of process p makes of s, when it rewrites the file.
Rewritten(p, c, s) ==
  [s EXCEPT ![c.host] =
     CASE c.kind = "add"    -> [registered |-> TRUE, updates |-> {}]
       [] c.kind = "remove" -> Absent
       [] OTHER             -> [registered |-> TRUE, updates |-> @.updates \cup {p}]]
===============================================================================
