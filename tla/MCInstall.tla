------------------------------- MODULE MCInstall -------------------------------
(***************************************************************************)
(* Install and HostCommands in one run of TLC: the two kinds of commands   *)
(* that look hosts.json up without its lock and write it minutes later.    *)
(* An installation changes the agents of a host and a host command the     *)
(* rest of its record, so each behaviour runs one of the two: `focus` says *)
(* which.  TLC takes the names of Install for network names too, which it  *)
(* may then take for interchangeable.                                      *)
(***************************************************************************)
EXTENDS Install, TLC

CONSTANTS p1, p2, n1, n2, t1, t2, q1, q2, i1, a3, x1,
          Addrs, Aliases, NoAlias, Null, MaxHosts, MaxAddrs, MaxHostCommands

VARIABLES focus, hosts, keys, cmd, mixed, begunCommands

H == INSTANCE HostCommands WITH MaxCommands <- MaxHostCommands, begun <- begunCommands

ASSUME HostsAssumption == H!BoundsAssumption /\ H!NamesAssumption

hostVars == <<hosts, keys, cmd, mixed, begunCommands>>
all == <<focus, vars, hostVars>>

\* A behaviour of HostCommands begins with nothing, or after a create that has run by itself.
AfterCreate ==
  /\ \E addr \in Addrs, alias \in Aliases \cup {NoAlias} :
       hosts = <<H!NewHost(addr, alias)>> /\ keys = {addr}
  /\ cmd = [p \in Procs |-> H!Idle] /\ mixed = FALSE /\ begunCommands = 0

\* The part that is not run: Install stands still in its initial state, HostCommands has no
\* state.
NoHostCommands ==
  /\ hosts = <<>> /\ keys = <<>> /\ cmd = <<>> /\ mixed = <<>> /\ begunCommands = <<>>
MCInit ==
  \/ focus = "agents" /\ Init /\ NoHostCommands
  \/ focus = "hosts" /\ Init /\ (H!Init \/ AfterCreate)
MCNext ==
  /\ UNCHANGED focus
  /\ \/ focus = "agents" /\ Next /\ UNCHANGED hostVars
     \/ focus = "hosts" /\ H!Next /\ UNCHANGED vars
MCSpec == MCInit /\ [][MCNext]_all

\* Processes, names, types and ports are only ever compared.
Symmetry ==
  Permutations(Procs) \cup Permutations(Names) \cup Permutations(Types)
    \cup Permutations(Ports)

\* HostCommands!HostnameIsPrimary: every host is dialled by a primary address it has.
HostnameIsPrimary == focus = "hosts" => H!HostnameIsPrimary
\* HostCommands!SequentialIdentity: a host registered by one command at a time has a key_id
\* and a keypair of its own.
SequentialIdentity == focus = "hosts" => H!SequentialIdentity
=============================================================================
