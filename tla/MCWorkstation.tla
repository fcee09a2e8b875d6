----------------------------- MODULE MCWorkstation -----------------------------
(***************************************************************************)
(* Four parts that keep files of their own on the workstation and share    *)
(* no state: Skills, Server, Tunnel and Manifest, in one run of TLC.  Each *)
(* behaviour runs one of them: `focus` says which.                         *)
(***************************************************************************)
EXTENDS Skills, TLC

CONSTANTS a, Cli, Pids, Ports, Agents,
          MaxServerCommands, MaxCalls, MaxRuns
VARIABLES focus,
  sFile, sProc, sForeign, sPc, sOp, sSeen, sChild, sCalm, sMet, sWrong, sCommands,
  tFile, tSsh, tPc, tOp, tSeen, tWanted, tChild, tEvicting, tLock, tCalm, tWrong, tCalls,
  doc, hosts, providers, fleet, actual, todo, errors, command, disturbed, last, runs

S == INSTANCE Server WITH
       MaxCommands <- MaxServerCommands, file <- sFile, proc <- sProc, foreign <- sForeign,
       pc <- sPc, op <- sOp, seen <- sSeen, child <- sChild, calm <- sCalm, met <- sMet,
       wrong <- sWrong, commands <- sCommands
T == INSTANCE Tunnel WITH
       Threads <- Procs,
       file <- tFile, ssh <- tSsh, pc <- tPc, op <- tOp, seen <- tSeen, wanted <- tWanted,
       child <- tChild, evicting <- tEvicting, lock <- tLock, calm <- tCalm, wrong <- tWrong,
       calls <- tCalls
M == INSTANCE Manifest

ASSUME WorkstationAssumption ==
  S!ServerAssumption /\ T!TunnelAssumption /\ M!ManifestAssumption

serverVars ==
  <<sFile, sProc, sForeign, sPc, sOp, sSeen, sChild, sCalm, sMet, sWrong, sCommands>>
tunnelVars ==
  <<tFile, tSsh, tPc, tOp, tSeen, tWanted, tChild, tEvicting, tLock, tCalm, tWrong, tCalls>>
manifestVars ==
  <<doc, hosts, providers, fleet, actual, todo, errors, command, disturbed, last, runs>>
all == <<focus, vars, serverVars, tunnelVars, manifestVars>>

\* The parts that are not run: Skills stands still in one of its initial states, the others
\* have no state.
SkillsStill == Init /\ \A p \in Procs : name[p] = a
NoServer ==
  /\ sFile = <<>> /\ sProc = <<>> /\ sForeign = <<>> /\ sPc = <<>> /\ sOp = <<>>
  /\ sSeen = <<>> /\ sChild = <<>> /\ sCalm = <<>> /\ sMet = <<>> /\ sWrong = <<>>
  /\ sCommands = <<>>
NoTunnel ==
  /\ tFile = <<>> /\ tSsh = <<>> /\ tPc = <<>> /\ tOp = <<>> /\ tSeen = <<>>
  /\ tWanted = <<>> /\ tChild = <<>> /\ tEvicting = <<>> /\ tLock = <<>> /\ tCalm = <<>>
  /\ tWrong = <<>> /\ tCalls = <<>>
NoManifest ==
  /\ doc = <<>> /\ hosts = <<>> /\ providers = <<>> /\ fleet = <<>> /\ actual = <<>>
  /\ todo = <<>> /\ errors = <<>> /\ command = <<>> /\ disturbed = <<>> /\ last = <<>>
  /\ runs = <<>>
MCInit ==
  \/ focus = "skills" /\ Init /\ NoServer /\ NoTunnel /\ NoManifest
  \/ focus = "server" /\ SkillsStill /\ S!Init /\ NoTunnel /\ NoManifest
  \/ focus = "tunnel" /\ SkillsStill /\ NoServer /\ T!Init /\ NoManifest
  \/ focus = "manifest" /\ SkillsStill /\ NoServer /\ NoTunnel /\ M!Init
MCNext ==
  /\ UNCHANGED focus
  /\ \/ focus = "skills" /\ Next /\ UNCHANGED <<serverVars, tunnelVars, manifestVars>>
     \/ focus = "server" /\ S!Next /\ UNCHANGED <<vars, tunnelVars, manifestVars>>
     \/ focus = "tunnel" /\ T!Next /\ UNCHANGED <<vars, serverVars, manifestVars>>
     \/ focus = "manifest" /\ M!Next /\ UNCHANGED <<vars, serverVars, tunnelVars>>
MCSpec == MCInit /\ [][MCNext]_all

Symmetry == Permutations(Procs)

\* The type invariants of the parts.
TypesOK ==
  /\ TypeOK
  /\ focus = "server" => S!TypeOK
  /\ focus = "tunnel" => T!TypeOK
  /\ focus = "manifest" => M!TypeOK
\* Agrees and AddedStays of Skills: the list of skills and their directories agree, and what
\* was added without a rival stays.
SkillsAgree == Agrees /\ AddedStays
\* Server!ServerKnown and Tunnel!TunnelKnown: no server runs that server.json does not name,
\* after commands that ran one after the other; and however many threads ask for it, with no
\* other process beside them, one tunnel lives, and its file names it.
ProcessesKnown ==
  /\ focus = "server" => S!ServerKnown
  /\ focus = "tunnel" => T!TunnelKnown
\* Server!RightTarget and Tunnel!NeverOther: no signal goes to a process that has inherited
\* the number of a tunnel, nor, as long as commands run one after the other and nobody else
\* has had the port, of a server.
RightTarget ==
  /\ focus = "server" => S!RightTarget
  /\ focus = "tunnel" => T!NeverOther
\* Manifest!Settles: a command without errors has done what it planned.
Settles == focus = "manifest" => M!Settles
\* Manifest!Reconciled: after an apply without errors every agent has its provider.
Reconciled == focus = "manifest" => M!Reconciled
=============================================================================
