----------------------------- MODULE InstallProofs -----------------------------
(***************************************************************************)
(* Proofs about Install, for any processes, names, types, ports and        *)
(* attachments, and any number of commands, and about HostCommands, for    *)
(* any network names and aliases and any number of hosts, addresses and    *)
(* commands.                                                               *)
(***************************************************************************)
EXTENDS MCInstall, TLAPS, SequenceTheorems, WellFoundedInduction

(***************************************************************************)
(* The inductive invariant, IInv.  None of the properties is inductive     *)
(* alone.  That a running installation owns its record needs that no other *)
(* run holds the name (HoldersDistinct), and that a success writes a type  *)
(* needs that a run has one (RunTyped).  That a failed installation is not *)
(* ready to start needs that one being installed has no onboarding either  *)
(* (Bare).  That attachments survive needs what the two files do not say   *)
(* while an installation runs: they are split between the record and what  *)
(* the installer has set aside in memory (Kept).                           *)
(***************************************************************************)
RunTyped ==
  /\ run \in [Procs -> Runs]
  /\ \A p \in Procs :
       /\ run[p].step # "idle" => run[p].type \in Types
       /\ run[p].step \in {"play", "attach", "check", "init"} => run[p].name \in Names

\* An agent that is recorded has a type, under which its secrets are filed.
AgentTyped ==
  /\ agents \in [Names -> Records]
  /\ \A n \in Names : Present(n) => agents[n].type \in Types

\* No two runs of Ansible are for one name.
HoldersDistinct ==
  \A n \in Names \ disturbed :
    \A p, q \in Procs : Holds(p, n) /\ Holds(q, n) => p = q

\* An agent that is being installed, or failed to be, has no onboarding.
Bare ==
  \A n \in Names \ disturbed :
    agents[n].status \in {"installing", "failed"} => agents[n].onboarding = "none"

\* What the operator has attached is in the record, or is put back into it by the
\* installer that holds it, however its run ends.
GivenBack(attached, kept) == IF kept = {} THEN attached ELSE kept

KeptOf(n) ==
  /\ ~Present(n) => wanted[n] = {}
  /\ Present(n) /\ ~Held(n) => agents[n].attached = wanted[n]
  /\ \A p \in Procs :
       Holds(p, n) => wanted[n] = GivenBack(agents[n].attached, run[p].kept)

Kept == \A n \in Names \ disturbed : KeptOf(n)

Typed == TypeOK /\ RunTyped /\ AgentTyped
Holding == RecordHeld /\ HoldersDistinct /\ OneInstaller
IInv == Typed /\ Holding /\ PortsDistinct /\ Bare /\ Kept

-----------------------------------------------------------------------------
\* There is no agent and no run to begin with.
LEMMA InitIInv == Init => IInv
BY InstallAssumption
   DEF Init, IInv, Holding, Typed, TypeOK, RunTyped, AgentTyped, RecordHeld, HoldersDistinct,
       OneInstaller, PortsDistinct, Bare, Kept, KeptOf, Idle, None, Records, Runs,
       Onboardings, Present, Holds, Held, Keys

(***************************************************************************)
(* A run that ends, and one that goes on: to a step for which no name is   *)
(* needed, or from one for which it was.                                   *)
(***************************************************************************)
LEMMA EndTyped ==
  ASSUME RunTyped, NEW p \in Procs, End(p)
  PROVE  RunTyped'
<1>1. Idle \in Runs /\ Idle.step = "idle"
  BY DEF Idle, Runs, Onboardings
<1> QED
  BY <1>1 DEF End, RunTyped

LEMMA GoTyped ==
  ASSUME RunTyped, NEW p \in Procs, run[p].step # "idle",
         NEW step \in {"load", "save", "claim", "attach", "check", "init"}, Go(p, step),
         \/ step \in {"load", "save", "claim"}
         \/ run[p].step \in {"play", "attach", "check"}
  PROVE  RunTyped'
<1>1. run[p] \in Runs /\ run'[p] = [run[p] EXCEPT !.step = step]
  BY DEF Go, RunTyped
<1>2. run'[p] \in Runs /\ run'[p].type = run[p].type /\ run'[p].step = step
      /\ run'[p].name = run[p].name
  BY <1>1 DEF Runs
<1>3. run' \in [Procs -> Runs] /\ \A q \in Procs \ {p} : run'[q] = run[q]
  BY <1>2 DEF Go, RunTyped
<1> QED
  BY <1>2, <1>3 DEF RunTyped

\* Every step keeps the types: one level-1 step for each action.
LEMMA TypedStep == Typed /\ [Next]_vars => Typed'
<1> SUFFICES ASSUME Typed, [Next]_vars
             PROVE  Typed'
  OBVIOUS
<1> USE InstallAssumption
<1>1. ASSUME NEW p \in Procs, NEW type \in Types, NEW name \in Names \cup {AnyName},
             NEW mode \in {"plain", "cleanup", "resume"}, Start(p, type, name, mode)
      PROVE  Typed'
  <2>1. Incomplete(type) \subseteq Names
    BY DEF Incomplete
  <2>2. run'[p] \in Runs /\ run'[p].type = type /\ run'[p].step \in {"cleanup", "claim"}
    BY <1>1, <2>1 DEF Start, Typed, TypeOK, Runs, Idle, Onboardings
  <2>3. run' \in [Procs -> Runs] /\ \A q \in Procs \ {p} : run'[q] = run[q]
    BY <1>1, <2>2 DEF Start, Typed, TypeOK
  <2>4. RunTyped'
    BY <2>2, <2>3 DEF Typed, RunTyped
  <2>5. begun' \in 0 .. MaxCommands
    BY <1>1 DEF Start, Command, Typed, TypeOK
  <2> QED
    BY <1>1, <2>4, <2>5 DEF Start, Typed, TypeOK, RunTyped, AgentTyped, Present, history
<1>2. ASSUME NEW p \in Procs, CleanUp(p)
      PROVE  Typed'
  <2>1. RunTyped'
    BY <1>2, GoTyped DEF CleanUp, Typed
  <2>2. None \in Records /\ None.status = "none"
    BY DEF None, Records, Onboardings
  <2>3. AgentTyped'
    BY <1>2, <2>2 DEF CleanUp, Typed, AgentTyped, Present
  <2> QED
    BY <1>2, <2>1, <2>3
       DEF CleanUp, Typed, TypeOK, RunTyped, AgentTyped, Forgotten, HeldByOthers, Runs
<1>3. ASSUME NEW p \in Procs, LoadSecrets(p) \/ SaveSecrets(p) \/ SecretsFail(p)
      PROVE  Typed'
  <2>1. run[p] \in Runs /\ run[p].loaded \subseteq Keys /\ run[p].step # "idle"
    BY <1>3 DEF LoadSecrets, SaveSecrets, SecretsFail, Typed, TypeOK, Runs
  <2>2. PICK step \in {"save", "claim"}, loaded \in SUBSET Keys :
          run' = [run EXCEPT ![p] = [[run[p] EXCEPT !.step = step] EXCEPT !.loaded = loaded]]
    BY <1>3 DEF LoadSecrets, SaveSecrets, SecretsFail, Typed, TypeOK
  <2>3. [run[p] EXCEPT !.step = step] \in Runs
        /\ [run[p] EXCEPT !.step = step].type = run[p].type
        /\ [run[p] EXCEPT !.step = step].step = step
    BY <2>1, <2>2 DEF Runs
  <2>4. run'[p] \in Runs /\ run'[p].type = run[p].type /\ run'[p].step = step
    BY <2>1, <2>2, <2>3 DEF Runs, Typed, TypeOK
  <2>5. run' \in [Procs -> Runs] /\ \A q \in Procs \ {p} : run'[q] = run[q]
    BY <2>2, <2>4 DEF Typed, TypeOK
  <2>6. UNCHANGED <<agents, wanted, disturbed, readied, begun>>
        /\ secrets' \subseteq Keys
    BY <1>3, <2>1 DEF LoadSecrets, SaveSecrets, SecretsFail, history, Typed, TypeOK
  <2>7. RunTyped' /\ AgentTyped'
    BY <2>1, <2>4, <2>5, <2>6 DEF Typed, RunTyped, AgentTyped, Present
  <2> QED
    BY <2>5, <2>6, <2>7 DEF Typed, TypeOK
<1>4. ASSUME NEW p \in Procs, NEW n \in Names, NEW port \in Ports, Claim(p, n, port)
      PROVE  Typed'
  <2>1. agents[n] \in Records /\ run[p] \in Runs /\ run[p].type \in Types
    BY <1>4 DEF Claim, Typed, TypeOK, RunTyped
  <2>2. agents'[n] \in Records /\ agents'[n].type \in Types
    BY <1>4, <2>1 DEF Claim, Typed, TypeOK, Resumed, Wiped, None, Records, Onboardings
  <2>3. run'[p] \in Runs /\ run'[p].type \in Types /\ run'[p].name = n
    BY ZenonT(60), <1>4, <2>1 DEF Claim, Typed, TypeOK, Records, Runs, Onboardings
  <2>4. agents' \in [Names -> Records] /\ \A m \in Names \ {n} : agents'[m] = agents[m]
    BY <1>4, <2>2 DEF Claim, Typed, TypeOK
  <2>5. run' \in [Procs -> Runs] /\ \A q \in Procs \ {p} : run'[q] = run[q]
    BY <1>4, <2>3 DEF Claim, Typed, TypeOK
  <2>6. RunTyped' /\ AgentTyped'
    BY <2>2, <2>3, <2>4, <2>5 DEF Typed, RunTyped, AgentTyped, Present
  <2>7. UNCHANGED <<secrets, begun>> /\ disturbed' \in SUBSET Names
        /\ wanted' \in [Names -> SUBSET Items] /\ readied' \in SUBSET Names
    BY <1>4 DEF Claim, Typed, TypeOK, Forgotten
  <2> QED
    BY <2>4, <2>5, <2>6, <2>7 DEF Typed, TypeOK
<1>5. ASSUME NEW p \in Procs, NEW gateway \in BOOLEAN, SetInstalled(p, gateway)
      PROVE  Typed'
  <2> DEFINE n == run[p].name
             kept == Reattached(agents[n], run[p].kept)
  <2>1. n \in Names /\ run[p] \in Runs /\ run[p].type \in Types /\ agents[n] \in Records
    BY <1>5 DEF SetInstalled, Typed, RunTyped, AgentTyped
  <2>2. kept \in Records
    BY <2>1 DEF Reattached, Records, Runs
  <2>3. Present(n) => agents'[n] \in Records /\ agents'[n].type \in Types
    BY <1>5, <2>1, <2>2 DEF SetInstalled, Records, Runs, Onboardings, Typed, TypeOK
  <2>4. AgentTyped'
    BY <1>5, <2>1, <2>3 DEF SetInstalled, Typed, AgentTyped, Present
  <2>5. RunTyped'
    BY <1>5, GoTyped DEF SetInstalled, Typed
  <2> QED
    BY <1>5, <2>4, <2>5 DEF SetInstalled, history, Typed, TypeOK, RunTyped, AgentTyped
<1>6. ASSUME NEW p \in Procs, SetFailed(p)
      PROVE  Typed'
  <2> DEFINE n == run[p].name
             kept == Reattached(agents[n], run[p].kept)
  <2>1. n \in Names /\ run[p] \in Runs /\ run[p].type \in Types /\ agents[n] \in Records
    BY <1>6 DEF SetFailed, Typed, RunTyped, AgentTyped
  <2>2. kept \in Records
    BY <2>1 DEF Reattached, Records, Runs
  <2>3. agents'[n] \in Records /\ agents'[n].type \in Types
    BY <1>6, <2>1, <2>2 DEF SetFailed, Records, Runs, Onboardings, Typed, TypeOK
  <2>4. AgentTyped'
    BY <1>6, <2>1, <2>3 DEF SetFailed, Typed, AgentTyped, Present
  <2>5. RunTyped'
    BY <1>6, EndTyped DEF SetFailed, Typed
  <2> QED
    BY <1>6, <2>4, <2>5 DEF SetFailed, history, Typed, TypeOK, RunTyped, AgentTyped
<1>7. ASSUME NEW p \in Procs, LeaveInstalling(p)
      PROVE  Typed'
  <2>1. RunTyped'
    BY <1>7, EndTyped DEF LeaveInstalling, Typed
  <2>2. AgentTyped'
    BY <1>7 DEF LeaveInstalling, Typed, AgentTyped, Present
  <2>3. agents[run[p].name].attached \subseteq Items
    BY <1>7 DEF LeaveInstalling, Typed, RunTyped, AgentTyped, Records
  <2> QED
    BY <1>7, <2>1, <2>2, <2>3 DEF LeaveInstalling, Typed, TypeOK, RunTyped
<1>8. ASSUME NEW p \in Procs, NEW item \in Providers, AttachProvider(p, item)
      PROVE  Typed'
  <2> DEFINE n == run[p].name
             new == (agents[n].attached \ Providers) \cup {item}
  <2>1. n \in Names /\ agents[n] \in Records /\ item \in Items
    BY <1>8 DEF AttachProvider, Typed, RunTyped, AgentTyped
  <2>2. [agents[n] EXCEPT !.attached = new] \in Records
        /\ [agents[n] EXCEPT !.attached = new].type = agents[n].type
    BY <2>1 DEF Records
  <2>3. AgentTyped'
    BY <1>8, <2>1, <2>2 DEF AttachProvider, Typed, AgentTyped, Present
  <2>4. RunTyped'
    BY <1>8, GoTyped DEF AttachProvider, Typed
  <2>5. disturbed' \subseteq Names /\ wanted' \in [Names -> SUBSET Items]
    BY <1>8, <2>1 DEF AttachProvider, Typed, TypeOK, HeldByOthers
  <2> QED
    BY <1>8, <2>3, <2>4, <2>5 DEF AttachProvider, Typed, TypeOK, RunTyped, AgentTyped
<1>9. ASSUME NEW p \in Procs, CheckOnboarding(p)
      PROVE  Typed'
  <2>1. RunTyped'
    BY <1>9, GoTyped, EndTyped DEF CheckOnboarding, Typed
  <2> QED
    BY <1>9, <2>1
       DEF CheckOnboarding, history, Typed, TypeOK, RunTyped, AgentTyped, Present
<1>10. ASSUME NEW p \in Procs, InitOnboarding(p)
       PROVE  Typed'
  <2> DEFINE n == run[p].name
  <2>1. n \in Names /\ agents[n] \in Records
    BY <1>10 DEF InitOnboarding, Typed, RunTyped, AgentTyped
  <2>2. [agents[n] EXCEPT !.onboarding = "pending"] \in Records
        /\ [agents[n] EXCEPT !.onboarding = "pending"].type = agents[n].type
    BY <2>1 DEF Records, Onboardings
  <2>3. AgentTyped'
    BY <1>10, <2>1, <2>2 DEF InitOnboarding, Typed, AgentTyped, Present
  <2>4. RunTyped'
    BY <1>10, EndTyped DEF InitOnboarding, Typed
  <2> QED
    BY <1>10, <2>1, <2>3, <2>4 DEF InitOnboarding, Typed, TypeOK, RunTyped, AgentTyped
<1>11. ASSUME NEW p \in Procs, Stop(p)
       PROVE  Typed'
  <2>1. RunTyped'
    BY <1>11, EndTyped DEF Stop, Typed
  <2> QED
    BY <1>11, <2>1 DEF Stop, history, Typed, TypeOK, RunTyped, AgentTyped, Present
<1>12. ASSUME NEW n \in Names, NEW item \in Items, Attach(n, item) \/ Detach(n, item)
       PROVE  Typed'
  <2>1. agents[n] \in Records /\ Present(n)
    BY <1>12 DEF Attach, Detach, Typed, AgentTyped
  <2>2. PICK attached \in SUBSET Items :
          agents' = [agents EXCEPT ![n] = [agents[n] EXCEPT !.attached = attached]]
    BY <1>12, <2>1 DEF Attach, Detach, Typed, AgentTyped, Records
  <2>3. [agents[n] EXCEPT !.attached = attached] \in Records
        /\ [agents[n] EXCEPT !.attached = attached].type = agents[n].type
    BY <2>1 DEF Records
  <2>4. AgentTyped'
    BY <2>1, <2>2, <2>3 DEF Typed, AgentTyped, Present
  <2>5. begun' \in 0 .. MaxCommands
    BY <1>12 DEF Attach, Detach, Command, Typed, TypeOK
  <2> QED
    BY <1>12, <2>4, <2>5 DEF Attach, Detach, Typed, TypeOK, RunTyped, AgentTyped
<1>13. ASSUME NEW n \in Names, OpenOnboarding(n) \/ FinishOnboarding(n)
       PROVE  Typed'
  <2>1. PICK onboarding \in Onboardings :
          agents' = [agents EXCEPT ![n] = [agents[n] EXCEPT !.onboarding = onboarding]]
    BY <1>13 DEF OpenOnboarding, FinishOnboarding, Onboardings, Typed, AgentTyped
  <2>2. [agents[n] EXCEPT !.onboarding = onboarding] \in Records
        /\ [agents[n] EXCEPT !.onboarding = onboarding].type = agents[n].type
        /\ [agents[n] EXCEPT !.onboarding = onboarding].status = agents[n].status
    BY DEF Records, Typed, AgentTyped
  <2>3. AgentTyped'
    BY <2>1, <2>2 DEF Typed, AgentTyped, Present
  <2>4. begun' \in 0 .. MaxCommands
    BY <1>13 DEF OpenOnboarding, FinishOnboarding, Command, Typed, TypeOK
  <2> QED
    BY <1>13, <2>3, <2>4
       DEF OpenOnboarding, FinishOnboarding, Typed, TypeOK, RunTyped, AgentTyped
<1>14. ASSUME NEW n \in Names, SetSecret(n)
       PROVE  Typed'
  <2>1. <<agents[n].type, n>> \in Keys
    BY <1>14 DEF SetSecret, Keys, Typed, AgentTyped
  <2>2. begun' \in 0 .. MaxCommands
    BY <1>14 DEF SetSecret, Command, Typed, TypeOK
  <2> QED
    BY <1>14, <2>1, <2>2
       DEF SetSecret, history, Typed, TypeOK, RunTyped, AgentTyped, Present
<1>15. ASSUME NEW n \in Names, Remove(n)
       PROVE  Typed'
  <2>1. None \in Records /\ None.status = "none"
    BY DEF None, Records, Onboardings
  <2>2. AgentTyped'
    BY <1>15, <2>1 DEF Remove, Typed, AgentTyped, Present
  <2>3. begun' \in 0 .. MaxCommands
    BY <1>15 DEF Remove, Command, Typed, TypeOK
  <2> QED
    BY <1>15, <2>2, <2>3 DEF Remove, Forgotten, Typed, TypeOK, RunTyped, AgentTyped
<1>16. CASE UNCHANGED vars
  BY <1>16 DEF vars, Typed, TypeOK, RunTyped, AgentTyped, Present
<1> QED
  BY <1>1, <1>2, <1>3, <1>4, <1>5, <1>6, <1>7, <1>8, <1>9, <1>10, <1>11, <1>12,
     <1>13, <1>14, <1>15, <1>16 DEF Next

-----------------------------------------------------------------------------
(***************************************************************************)
(* Every step but set_installing is quiet: it starts no Ansible run, and   *)
(* of the records nobody has disturbed it changes neither the port, nor,   *)
(* while a run holds the record, the status and the type.                  *)
(***************************************************************************)
Untouched(n) ==
  /\ agents'[n].status = agents[n].status
  /\ agents'[n].type = agents[n].type
  /\ agents'[n].port = agents[n].port

Quiet ==
  /\ disturbed \subseteq disturbed'
  /\ \A q \in Procs : run'[q].step = "play" => run'[q] = run[q]
  /\ \A n \in Names \ disturbed' :
       /\ agents'[n].port \in {agents[n].port, NoPort}
       /\ \A q \in Procs : Holds(q, n)' => Untouched(n)

LEMMA EndQuiet ==
  ASSUME Typed, NEW p \in Procs, End(p)
  PROVE  \A q \in Procs : run'[q].step = "play" => q # p /\ run'[q] = run[q]
BY DEF End, Idle, Typed, TypeOK

LEMMA GoQuiet ==
  ASSUME Typed, NEW p \in Procs, NEW step, step # "play", Go(p, step)
  PROVE  \A q \in Procs : run'[q].step = "play" => q # p /\ run'[q] = run[q]
<1>1. run[p] \in Runs /\ run'[p] = [run[p] EXCEPT !.step = step]
  BY DEF Go, Typed, TypeOK
<1>2. run'[p].step = step
  BY <1>1 DEF Runs
<1> QED
  BY <1>2 DEF Go, Typed, TypeOK

LEMMA OthersQuiet ==
  ASSUME Typed, Holding, Next,
         ~ \E p \in Procs, n \in Names, port \in Ports : Claim(p, n, port)
  PROVE  Quiet
<1>1. ASSUME NEW p \in Procs, NEW type \in Types, NEW name \in Names \cup {AnyName},
             NEW mode \in {"plain", "cleanup", "resume"}, Start(p, type, name, mode)
      PROVE  Quiet
  <2>1. run'[p].step # "play"
    BY <1>1 DEF Start, Typed, TypeOK, Idle
  <2> QED
    BY <1>1, <2>1 DEF Start, history, Quiet, Untouched, Typed, TypeOK
<1>2. ASSUME NEW p \in Procs, CleanUp(p)
      PROVE  Quiet
  <2>1. \A q \in Procs : run'[q].step = "play" => q # p /\ run'[q] = run[q]
    BY <1>2, GoQuiet DEF CleanUp
  <2>2. ASSUME NEW n \in Names \ disturbed', NEW q \in Procs, Holds(q, n)'
        PROVE  n \notin run[p].found
    BY <1>2, <2>1, <2>2 DEF CleanUp, Holds, HeldByOthers
  <2>3. \A n \in Names : agents'[n] = IF n \in run[p].found THEN None ELSE agents[n]
    BY <1>2 DEF CleanUp
  <2> QED
    BY <1>2, <2>1, <2>2, <2>3 DEF CleanUp, Quiet, Untouched, None
<1>3. ASSUME NEW p \in Procs, LoadSecrets(p) \/ SaveSecrets(p) \/ SecretsFail(p)
      PROVE  Quiet
  <2>1. run[p] \in Runs
    BY DEF Typed, TypeOK
  <2>2. run'[p].step # "play"
    BY <1>3, <2>1 DEF LoadSecrets, SaveSecrets, SecretsFail, Runs, Typed, TypeOK
  <2> QED
    BY <1>3, <2>2
       DEF LoadSecrets, SaveSecrets, SecretsFail, history, Quiet, Untouched, Typed, TypeOK
<1>4. ASSUME NEW p \in Procs, NEW gateway \in BOOLEAN, SetInstalled(p, gateway)
      PROVE  Quiet
  <2>0. PICK n \in Names : n = run[p].name
    BY <1>4 DEF SetInstalled, Typed, RunTyped
  <2>1. \A q \in Procs : run'[q].step = "play" => q # p /\ run'[q] = run[q]
    BY <1>4, GoQuiet DEF SetInstalled
  <2>2. Holds(p, n) /\ agents[n] \in Records /\ run[p] \in Runs
    BY <1>4, <2>0 DEF SetInstalled, Holds, Typed, RunTyped, AgentTyped
  <2>3. n \notin disturbed => \A q \in Procs : ~Holds(q, n)'
    BY <2>1, <2>2 DEF Holding, HoldersDistinct, Holds
  <2>4. n \notin disturbed => agents[n].port = run[p].port
    BY <2>0, <2>2 DEF Holding, RecordHeld, Holds
  <2>5. Reattached(agents[n], run[p].kept) \in Records
        /\ Reattached(agents[n], run[p].kept).port = agents[n].port
    BY <2>2 DEF Reattached, Records, Runs
  <2>6. n \notin disturbed => agents'[n].port = agents[n].port
    BY <1>4, <2>0, <2>2, <2>4, <2>5 DEF SetInstalled, Typed, TypeOK, Records
  <2>7. \A m \in Names \ {n} : agents'[m] = agents[m]
    BY <1>4, <2>0, <2>2 DEF SetInstalled, Typed, TypeOK
  <2> QED
    BY <1>4, <2>1, <2>3, <2>6, <2>7 DEF SetInstalled, history, Quiet, Untouched
<1>5. ASSUME NEW p \in Procs, SetFailed(p)
      PROVE  Quiet
  <2>0. PICK n \in Names : n = run[p].name
    BY <1>5 DEF SetFailed, Typed, RunTyped
  <2>1. \A q \in Procs : run'[q].step = "play" => q # p /\ run'[q] = run[q]
    BY <1>5, EndQuiet DEF SetFailed
  <2>2. Holds(p, n) /\ agents[n] \in Records /\ run[p] \in Runs
    BY <1>5, <2>0 DEF SetFailed, Holds, Typed, RunTyped, AgentTyped
  <2>3. n \notin disturbed => \A q \in Procs : ~Holds(q, n)'
    BY <2>1, <2>2 DEF Holding, HoldersDistinct, Holds
  <2>4. Reattached(agents[n], run[p].kept) \in Records
        /\ Reattached(agents[n], run[p].kept).port = agents[n].port
    BY <2>2 DEF Reattached, Records, Runs
  <2>5. agents'[n].port = agents[n].port
    BY <1>5, <2>0, <2>2, <2>4 DEF SetFailed, Typed, TypeOK, Records
  <2>6. \A m \in Names \ {n} : agents'[m] = agents[m]
    BY <1>5, <2>0, <2>2 DEF SetFailed, Typed, TypeOK
  <2> QED
    BY <1>5, <2>1, <2>3, <2>5, <2>6 DEF SetFailed, history, Quiet, Untouched
<1>6. ASSUME NEW p \in Procs, LeaveInstalling(p) \/ Stop(p)
      PROVE  Quiet
  BY <1>6, EndQuiet DEF LeaveInstalling, Stop, history, Quiet, Untouched
<1>7. ASSUME NEW p \in Procs, NEW item \in Providers, AttachProvider(p, item)
      PROVE  Quiet
  <2> DEFINE n == run[p].name
             new == (agents[n].attached \ Providers) \cup {item}
  <2>1. \A q \in Procs : run'[q].step = "play" => q # p /\ run'[q] = run[q]
    BY <1>7, GoQuiet DEF AttachProvider
  <2>2. agents[n] \in Records
    BY <1>7 DEF AttachProvider, Typed, RunTyped, AgentTyped
  <2>3. [agents[n] EXCEPT !.attached = new].status = agents[n].status
        /\ [agents[n] EXCEPT !.attached = new].type = agents[n].type
        /\ [agents[n] EXCEPT !.attached = new].port = agents[n].port
    BY <2>2 DEF Records
  <2>4. \A m \in Names : Untouched(m)
    BY <1>7, <2>3 DEF AttachProvider, Untouched, Typed, TypeOK
  <2>5. disturbed \subseteq disturbed'
    BY <1>7 DEF AttachProvider
  <2> QED
    BY <2>1, <2>4, <2>5 DEF Quiet, Untouched
<1>8. ASSUME NEW p \in Procs, CheckOnboarding(p)
      PROVE  Quiet
  <2>1. \A q \in Procs : run'[q].step = "play" => q # p /\ run'[q] = run[q]
    BY <1>8, GoQuiet, EndQuiet DEF CheckOnboarding
  <2> QED
    BY <1>8, <2>1 DEF CheckOnboarding, history, Quiet, Untouched
<1>9. ASSUME NEW p \in Procs, InitOnboarding(p)
      PROVE  Quiet
  <2> DEFINE n == run[p].name
  <2>1. \A q \in Procs : run'[q].step = "play" => q # p /\ run'[q] = run[q]
    BY <1>9, EndQuiet DEF InitOnboarding
  <2>2. agents[n] \in Records
    BY <1>9 DEF InitOnboarding, Typed, RunTyped, AgentTyped
  <2>3. [agents[n] EXCEPT !.onboarding = "pending"].status = agents[n].status
        /\ [agents[n] EXCEPT !.onboarding = "pending"].type = agents[n].type
        /\ [agents[n] EXCEPT !.onboarding = "pending"].port = agents[n].port
    BY <2>2 DEF Records
  <2>4. \A m \in Names : Untouched(m)
    BY <1>9, <2>3 DEF InitOnboarding, Untouched, Typed, TypeOK
  <2>5. disturbed \subseteq disturbed'
    BY <1>9 DEF InitOnboarding
  <2> QED
    BY <2>1, <2>4, <2>5 DEF Quiet, Untouched
<1>10. ASSUME NEW n \in Names, NEW item \in Items, Attach(n, item) \/ Detach(n, item)
       PROVE  Quiet
  <2>1. PICK attached :
          agents' = [agents EXCEPT ![n] = [agents[n] EXCEPT !.attached = attached]]
    BY <1>10 DEF Attach, Detach, Typed, TypeOK
  <2>2. [agents[n] EXCEPT !.attached = attached].status = agents[n].status
        /\ [agents[n] EXCEPT !.attached = attached].type = agents[n].type
        /\ [agents[n] EXCEPT !.attached = attached].port = agents[n].port
    BY DEF Records, Typed, TypeOK
  <2>3. \A m \in Names : Untouched(m)
    BY <2>1, <2>2 DEF Untouched, Typed, TypeOK
  <2>4. UNCHANGED run /\ disturbed \subseteq disturbed'
    BY <1>10 DEF Attach, Detach
  <2> QED
    BY <2>3, <2>4 DEF Quiet, Untouched
<1>11. ASSUME NEW n \in Names, OpenOnboarding(n) \/ FinishOnboarding(n)
       PROVE  Quiet
  <2>1. PICK onboarding :
          agents' = [agents EXCEPT ![n] = [agents[n] EXCEPT !.onboarding = onboarding]]
    BY <1>11 DEF OpenOnboarding, FinishOnboarding
  <2>2. [agents[n] EXCEPT !.onboarding = onboarding].status = agents[n].status
        /\ [agents[n] EXCEPT !.onboarding = onboarding].type = agents[n].type
        /\ [agents[n] EXCEPT !.onboarding = onboarding].port = agents[n].port
    BY DEF Records, Typed, TypeOK
  <2>3. \A m \in Names : Untouched(m)
    BY <2>1, <2>2 DEF Untouched, Typed, TypeOK
  <2>4. UNCHANGED run /\ disturbed \subseteq disturbed'
    BY <1>11 DEF OpenOnboarding, FinishOnboarding
  <2> QED
    BY <2>3, <2>4 DEF Quiet, Untouched
<1>12. ASSUME NEW n \in Names, SetSecret(n)
       PROVE  Quiet
  BY <1>12 DEF SetSecret, history, Quiet, Untouched
<1>13. ASSUME NEW n \in Names, Remove(n)
       PROVE  Quiet
  <2>1. agents'[n] = None /\ \A m \in Names \ {n} : agents'[m] = agents[m]
    BY <1>13 DEF Remove, Typed, TypeOK
  <2>2. UNCHANGED run /\ disturbed \subseteq disturbed'
    BY <1>13 DEF Remove
  <2>3. \A q \in Procs : Holds(q, n)' => n \in disturbed'
    BY <1>13, <2>2 DEF Remove, Held, Holds
  <2> QED
    BY <2>1, <2>2, <2>3 DEF Quiet, Untouched, None
<1> QED
  BY <1>1, <1>2, <1>3, <1>4, <1>5, <1>6, <1>7, <1>8, <1>9, <1>10, <1>11, <1>12, <1>13
     DEF Next

LEMMA QuietHolding ==
  ASSUME Typed, Holding, Quiet
  PROVE  Holding'
<1>1. \A q \in Procs : run'[q].step = "play" => run[q].step = "play" /\ run'[q] = run[q]
  BY DEF Quiet
<1>2. RecordHeld'
  BY <1>1 DEF Quiet, Untouched, Holding, RecordHeld, Holds, Typed, RunTyped
<1>3. HoldersDistinct'
  BY <1>1 DEF Quiet, Holding, HoldersDistinct, Holds
<1>4. OneInstaller'
  BY <1>1 DEF Quiet, Holding, OneInstaller
<1> QED
  BY <1>2, <1>3, <1>4 DEF Holding

LEMMA QuietPorts ==
  ASSUME PortsDistinct, Quiet
  PROVE  PortsDistinct'
BY DEF PortsDistinct, Quiet

(***************************************************************************)
(* set_installing: what it writes into the record and remembers of it.     *)
(***************************************************************************)
LEMMA ClaimWrites ==
  ASSUME Typed, NEW p \in Procs, NEW n \in Names, NEW port \in Ports, Claim(p, n, port)
  PROVE  /\ agents'[n].status = "installing"
         /\ agents'[n].type = run[p].type
         /\ agents'[n].port = port
         /\ \A m \in Names \ {n} : agents'[m] = agents[m]
         /\ run'[p].step = "play" /\ run'[p].name = n /\ run'[p].port = port
         /\ run'[p].type = run[p].type /\ run'[p].mode = run[p].mode
         /\ \A q \in Procs \ {p} : run'[q] = run[q]
         /\ disturbed \subseteq disturbed'
<1>1. agents[n] \in Records /\ run[p] \in Runs
  BY DEF Typed, TypeOK
<1>2. /\ agents'[n].status = "installing"
      /\ agents'[n].type = run[p].type
      /\ agents'[n].port = port
      /\ \A m \in Names \ {n} : agents'[m] = agents[m]
  BY <1>1 DEF Claim, Resumed, Wiped, None, Records, Typed, TypeOK
<1>3. /\ run'[p].step = "play" /\ run'[p].name = n /\ run'[p].port = port
      /\ run'[p].type = run[p].type /\ run'[p].mode = run[p].mode
      /\ \A q \in Procs \ {p} : run'[q] = run[q]
  BY <1>1 DEF Claim, Runs, Typed, TypeOK
<1> QED
  BY <1>2, <1>3 DEF Claim

\* A name that is claimed, and not disturbed by it, is nobody else's.
LEMMA ClaimUnheld ==
  ASSUME Typed, Holding, NEW p \in Procs, NEW n \in Names, NEW port \in Ports,
         Claim(p, n, port), n \notin disturbed'
  PROVE  \A q \in Procs : ~Holds(q, n)
<1> SUFFICES ASSUME NEW q \in Procs, Holds(q, n)
             PROVE  FALSE
  OBVIOUS
<1>1. agents[n].status = "installing"
  BY ClaimWrites DEF Holding, RecordHeld, Holds
<1>2. q # p
  BY DEF Claim, Holds
<1>3. HeldByOthers(p, {n}) # {}
  BY <1>2 DEF HeldByOthers
<1>4. run[p].mode # "resume"
  BY <1>1, <1>3 DEF Claim
<1> QED
  BY <1>1, <1>4 DEF Claim, NameAccepted, Present

LEMMA ClaimHolding ==
  ASSUME Typed, Holding, NEW p \in Procs, NEW n \in Names, NEW port \in Ports,
         Claim(p, n, port)
  PROVE  Holding'
<1>1. n \notin disturbed' => \A q \in Procs \ {p} : ~Holds(q, n)
  BY ClaimUnheld
<1>2. RecordHeld'
  <2> SUFFICES ASSUME NEW q \in Procs, run'[q].step = "play", run'[q].name \notin disturbed'
               PROVE  /\ agents'[run'[q].name].status = "installing"
                      /\ agents'[run'[q].name].type = run'[q].type
                      /\ agents'[run'[q].name].port = run'[q].port
    BY DEF RecordHeld
  <2>1. CASE q = p
    BY <2>1, ClaimWrites
  <2>2. CASE q # p
    <3>1. run'[q] = run[q] /\ run[q].name \in Names
      BY <2>2, ClaimWrites DEF Typed, RunTyped
    <3>2. run[q].name # n
      BY <1>1, <2>2, <3>1 DEF Holds
    <3> QED
      BY <3>1, <3>2, ClaimWrites DEF Holding, RecordHeld
  <2> QED
    BY <2>1, <2>2
<1>3. HoldersDistinct'
  BY <1>1, ClaimWrites DEF Holding, HoldersDistinct, Holds
<1>4. OneInstaller'
  <2>1. ASSUME NEW q \in Procs \ {p}, run[q].step = "play", run[q].type = run[p].type,
               run[p].mode = "plain", run[q].name \notin disturbed'
        PROVE  FALSE
    <3>1. run[q].name \in Installing(run[p].type)
      BY <2>1, ClaimWrites
         DEF Installing, Incomplete, Holding, RecordHeld, Typed, RunTyped
    <3> QED
      BY <2>1, <3>1 DEF Claim, NoneInstalling
  <2> QED
    BY <2>1, ClaimWrites DEF Holding, OneInstaller
<1> QED
  BY <1>2, <1>3, <1>4 DEF Holding

LEMMA ClaimPorts ==
  ASSUME Typed, PortsDistinct, NEW p \in Procs, NEW n \in Names, NEW port \in Ports,
         Claim(p, n, port)
  PROVE  PortsDistinct'
<1>1. n \notin disturbed' => \A m \in Names \ disturbed' : m # n => agents[m].port # port
  <2>1. (port = agents[n].port /\ port # NoPort) \/ port \in Unused(n)
    BY InstallAssumption DEF Claim, Pickable
  <2> QED
    BY <2>1, ClaimWrites DEF PortsDistinct, Unused
<1> QED
  BY <1>1, ClaimWrites DEF PortsDistinct

LEMMA HoldingStep ==
  ASSUME Typed, Holding, PortsDistinct, [Next]_vars
  PROVE  Holding' /\ PortsDistinct'
<1>1. CASE \E p \in Procs, n \in Names, port \in Ports : Claim(p, n, port)
  BY <1>1, ClaimHolding, ClaimPorts
<1>2. CASE Next /\ ~ \E p \in Procs, n \in Names, port \in Ports : Claim(p, n, port)
  BY <1>2, OthersQuiet, QuietHolding, QuietPorts
<1>3. CASE UNCHANGED vars
  BY <1>3 DEF vars, Holding, RecordHeld, HoldersDistinct, Holds, OneInstaller, PortsDistinct
<1> QED
  BY <1>1, <1>2, <1>3

-----------------------------------------------------------------------------
\* A failed installation has no onboarding: set_installing takes it away, and only
\* set_installed gives it back.
LEMMA BareStep ==
  ASSUME Typed, Holding, Bare, [Next]_vars
  PROVE  Bare'
<1>1. ASSUME UNCHANGED agents, disturbed \subseteq disturbed'
      PROVE  Bare'
  BY <1>1 DEF Bare
<1>2. ASSUME NEW p \in Procs, CleanUp(p)
      PROVE  Bare'
  <2>1. \A n \in Names : agents'[n] = None \/ agents'[n] = agents[n]
    BY <1>2 DEF CleanUp
  <2> QED
    BY <1>2, <2>1 DEF CleanUp, Bare, None
<1>3. ASSUME NEW p \in Procs, NEW n \in Names, NEW port \in Ports, Claim(p, n, port)
      PROVE  Bare'
  <2>1. agents[n] \in Records
    BY DEF Typed, TypeOK
  <2>2. ASSUME n \notin disturbed'
        PROVE  agents'[n].onboarding = "none"
    <3>1. CASE run[p].mode = "resume"
      <4>1. n \notin disturbed /\ agents[n].status = "installing"
        BY <1>3, <2>2, <3>1 DEF Claim
      <4>2. agents[n].onboarding = "none"
        BY <4>1 DEF Bare
      <4> QED
        BY <1>3, <2>1, <3>1, <4>2 DEF Claim, Resumed, Records, Typed, TypeOK
    <3>2. CASE run[p].mode # "resume"
      BY <1>3, <3>2 DEF Claim, Wiped, None, Typed, TypeOK
    <3> QED
      BY <3>1, <3>2
  <2> QED
    BY <1>3, <2>2, ClaimWrites DEF Bare
<1>4. ASSUME NEW p \in Procs, NEW gateway \in BOOLEAN, SetInstalled(p, gateway)
      PROVE  Bare'
  <2>1. PICK n \in Names : n = run[p].name
    BY <1>4 DEF SetInstalled, Typed, RunTyped
  <2>2. Reattached(agents[n], run[p].kept) \in Records
    BY <2>1 DEF Reattached, Records, Runs, Typed, TypeOK
  <2>3. agents'[n] = agents[n] \/ agents'[n].status = "installed"
    BY <1>4, <2>1, <2>2 DEF SetInstalled, Records, Typed, TypeOK
  <2>4. \A m \in Names \ {n} : agents'[m] = agents[m]
    BY <1>4, <2>1 DEF SetInstalled, Typed, TypeOK
  <2> QED
    BY <1>4, <2>3, <2>4 DEF SetInstalled, history, Bare
<1>5. ASSUME NEW p \in Procs, SetFailed(p)
      PROVE  Bare'
  <2>1. PICK n \in Names : n = run[p].name
    BY <1>5 DEF SetFailed, Typed, RunTyped
  <2>2. n \notin disturbed => agents[n].onboarding = "none"
    BY <1>5, <2>1 DEF SetFailed, Holding, RecordHeld, Bare
  <2>3. agents[n] \in Records /\ run[p] \in Runs
    BY DEF Typed, TypeOK
  <2>4. Reattached(agents[n], run[p].kept) \in Records
        /\ Reattached(agents[n], run[p].kept).onboarding = agents[n].onboarding
    BY <2>3 DEF Reattached, Records, Runs
  <2>5. agents'[n].onboarding = agents[n].onboarding
        /\ \A m \in Names \ {n} : agents'[m] = agents[m]
    BY <1>5, <2>1, <2>4 DEF SetFailed, Records, Typed, TypeOK
  <2> QED
    BY <1>5, <2>2, <2>5 DEF SetFailed, history, Bare
<1>6. ASSUME NEW n \in Names, NEW attached, disturbed \subseteq disturbed',
             agents' = [agents EXCEPT ![n] = [agents[n] EXCEPT !.attached = attached]]
      PROVE  Bare'
  <2>1. [agents[n] EXCEPT !.attached = attached].status = agents[n].status
        /\ [agents[n] EXCEPT !.attached = attached].onboarding = agents[n].onboarding
    BY DEF Records, Typed, TypeOK
  <2> QED
    BY <1>6, <2>1 DEF Bare, Typed, TypeOK
<1>7. ASSUME NEW n \in Names, NEW onboarding, disturbed \subseteq disturbed',
             agents[n].status = "installed" \/ n \in disturbed' \/ agents[n].onboarding # "none",
             agents' = [agents EXCEPT ![n] = [agents[n] EXCEPT !.onboarding = onboarding]]
      PROVE  Bare'
  <2>1. [agents[n] EXCEPT !.onboarding = onboarding].status = agents[n].status
    BY DEF Records, Typed, TypeOK
  <2> QED
    BY <1>7, <2>1 DEF Bare, Typed, TypeOK
<1>8. ASSUME NEW p \in Procs, NEW item \in Providers, AttachProvider(p, item)
      PROVE  Bare'
  <2>1. PICK n \in Names : n = run[p].name
    BY <1>8 DEF AttachProvider, Typed, RunTyped
  <2> QED
    BY <1>1, <1>6, <1>8, <2>1 DEF AttachProvider
<1>9. ASSUME NEW p \in Procs, InitOnboarding(p)
      PROVE  Bare'
  <2>1. PICK n \in Names : n = run[p].name
    BY <1>9 DEF InitOnboarding, Typed, RunTyped
  <2> QED
    BY <1>1, <1>7, <1>9, <2>1 DEF InitOnboarding
<1>10. ASSUME NEW n \in Names, NEW item \in Items, Attach(n, item) \/ Detach(n, item)
       PROVE  Bare'
  BY <1>6, <1>10 DEF Attach, Detach
<1>11. ASSUME NEW n \in Names, OpenOnboarding(n) \/ FinishOnboarding(n)
       PROVE  Bare'
  BY <1>7, <1>11 DEF OpenOnboarding, FinishOnboarding
<1>12. ASSUME NEW n \in Names, Remove(n)
       PROVE  Bare'
  <2>1. agents'[n] = None /\ \A m \in Names \ {n} : agents'[m] = agents[m]
    BY <1>12 DEF Remove, Typed, TypeOK
  <2> QED
    BY <1>12, <2>1 DEF Remove, Bare, None
<1> QED
  BY <1>1, <1>2, <1>3, <1>4, <1>5, <1>8, <1>9, <1>10, <1>11, <1>12
     DEF Next, vars, history, Start, LoadSecrets, SaveSecrets, SecretsFail,
         LeaveInstalling, CheckOnboarding, Stop, SetSecret

-----------------------------------------------------------------------------
\* A step that touches neither the attachments of a name nor the runs that hold it.
LEMMA KeptSame ==
  ASSUME Kept, NEW n \in Names \ disturbed, wanted'[n] = wanted[n],
         agents'[n].status = agents[n].status, agents'[n].attached = agents[n].attached,
         \A q \in Procs : Holds(q, n)' => Holds(q, n) /\ run'[q] = run[q],
         \A q \in Procs : Holds(q, n) => Holds(q, n)'
  PROVE  KeptOf(n)'
BY DEF Kept, KeptOf, Present, Held

\* A step that leaves a name nobody holds with what the operator wants of it.
LEMMA KeptFree ==
  ASSUME NEW n \in Names, \A q \in Procs : ~Holds(q, n)',
         agents'[n].status # "none" => agents'[n].attached = wanted'[n],
         agents'[n].status = "none" => wanted'[n] = {}
  PROVE  KeptOf(n)'
BY DEF KeptOf, Present, Held

\* How a run that ends leaves the others.
LEMMA RunsApart ==
  ASSUME Typed, NEW p \in Procs, NEW step, step # "play", End(p) \/ Go(p, step)
  PROVE  /\ \A q \in Procs : run'[q].step = "play" => q # p /\ run'[q] = run[q]
         /\ \A q \in Procs \ {p} : run'[q] = run[q]
BY EndQuiet, GoQuiet DEF End, Go, Typed, TypeOK

LEMMA KeptStep ==
  ASSUME Typed, Holding, Kept, [Next]_vars
  PROVE  Kept'
<1>0. disturbed \subseteq disturbed'
  <2>1. CASE \E p \in Procs, n \in Names, port \in Ports : Claim(p, n, port)
    BY <2>1, ClaimWrites
  <2>2. CASE Next /\ ~ \E p \in Procs, n \in Names, port \in Ports : Claim(p, n, port)
    BY <2>2, OthersQuiet DEF Quiet
  <2> QED
    BY <2>1, <2>2 DEF vars
<1> SUFFICES ASSUME NEW n \in Names \ disturbed'
             PROVE  KeptOf(n)'
  BY DEF Kept
<1>1. n \in Names \ disturbed /\ KeptOf(n) /\ agents[n] \in Records
  BY <1>0 DEF Kept, Typed, TypeOK
<1>2. ASSUME UNCHANGED <<agents, wanted>>, NEW p \in Procs, ~Holds(p, n), ~Holds(p, n)',
             \A q \in Procs \ {p} : run'[q] = run[q]
      PROVE  KeptOf(n)'
  BY <1>1, <1>2, KeptSame DEF Holds
<1>3. ASSUME NEW p \in Procs, NEW type \in Types, NEW name \in Names \cup {AnyName},
             NEW mode \in {"plain", "cleanup", "resume"}, Start(p, type, name, mode)
      PROVE  KeptOf(n)'
  <2>1. run[p].step = "idle" /\ run'[p].step # "play"
        /\ \A q \in Procs \ {p} : run'[q] = run[q]
    BY <1>3 DEF Start, Idle, Typed, TypeOK
  <2> QED
    BY <1>2, <1>3, <2>1 DEF Start, history, Holds
<1>4. ASSUME NEW p \in Procs, CleanUp(p)
      PROVE  KeptOf(n)'
  <2>1. \A q \in Procs : run'[q].step = "play" => q # p /\ run'[q] = run[q]
    BY <1>4, RunsApart DEF CleanUp
  <2>2. CASE n \in run[p].found
    <3>1. agents'[n] = None /\ wanted'[n] = {}
      BY <1>4, <2>2 DEF CleanUp, Forgotten
    <3>2. \A q \in Procs : ~Holds(q, n)'
      BY <1>4, <2>1, <2>2 DEF CleanUp, HeldByOthers, Holds
    <3> QED
      BY <3>1, <3>2, KeptFree DEF None
  <2>3. CASE n \notin run[p].found
    <3>1. agents'[n] = agents[n] /\ wanted'[n] = wanted[n]
      BY <1>4, <2>3 DEF CleanUp, Forgotten
    <3>2. \A q \in Procs \ {p} : run'[q] = run[q]
      BY <1>4, RunsApart DEF CleanUp
    <3> QED
      BY <1>1, <1>4, <2>1, <3>1, <3>2, KeptSame DEF CleanUp, Holds
  <2> QED
    BY <2>2, <2>3
<1>5. ASSUME NEW p \in Procs, LoadSecrets(p) \/ SaveSecrets(p) \/ SecretsFail(p)
      PROVE  KeptOf(n)'
  <2>1. run[p] \in Runs
    BY DEF Typed, TypeOK
  <2>2. run[p].step # "play" /\ run'[p].step # "play"
        /\ \A q \in Procs \ {p} : run'[q] = run[q]
    BY <1>5, <2>1 DEF LoadSecrets, SaveSecrets, SecretsFail, Runs, Typed, TypeOK
  <2> QED
    BY <1>2, <1>5, <2>2 DEF LoadSecrets, SaveSecrets, SecretsFail, history, Holds
<1>6. ASSUME NEW p \in Procs, NEW m \in Names, NEW port \in Ports, Claim(p, m, port)
      PROVE  KeptOf(n)'
  <2>0. /\ \A x \in Names \ {m} : agents'[x] = agents[x]
        /\ run'[p].step = "play" /\ run'[p].name = m
        /\ \A q \in Procs \ {p} : run'[q] = run[q]
    BY <1>6, ClaimWrites
  <2>1. CASE m # n
    <3>1. agents'[n] = agents[n]
      BY <1>1, <2>0, <2>1
    <3>2. wanted'[n] = wanted[n]
      BY <1>1, <1>6, <2>1 DEF Claim, Forgotten
    <3>3. run[p].step # "play"
      BY <1>6 DEF Claim
    <3>4. \A q \in Procs : Holds(q, n) => q # p
      BY <3>3 DEF Holds
    <3>5. \A q \in Procs : Holds(q, n)' => q # p
      BY <2>0, <2>1 DEF Holds
    <3>6. \A q \in Procs : Holds(q, n)' => Holds(q, n) /\ run'[q] = run[q]
      BY <2>0, <3>5 DEF Holds
    <3>7. \A q \in Procs : Holds(q, n) => Holds(q, n)'
      BY <2>0, <3>4 DEF Holds
    <3> QED
      BY <1>1, <3>1, <3>2, <3>6, <3>7, KeptSame
  <2>2. CASE m = n
    <3>1. \A q \in Procs : ~Holds(q, n)
      BY <1>6, <2>2, ClaimUnheld
    <3>2. \A q \in Procs : Holds(q, n)' => q = p
      BY <1>6, <3>1, ClaimWrites DEF Holds
    <3>3. Holds(p, n)' /\ agents'[n].status = "installing"
      BY <1>6, <2>2, ClaimWrites DEF Holds
    <3>4. wanted[n] = IF Present(n) THEN agents[n].attached ELSE {}
      BY <1>1, <3>1 DEF KeptOf, Held
    <3>5. run[p] \in Runs /\ run[p].mode \in {"plain", "cleanup", "resume"}
      BY DEF Typed, TypeOK, Runs
    <3>6. wanted'[n] = GivenBack(agents'[n].attached, run'[p].kept)
      <4>1. CASE run[p].mode = "resume"
        <5>0. Present(n)
          BY <1>6, <2>2, <4>1 DEF Claim, NameAccepted
        <5>3. agents'[n] = Resumed(agents[n], run[p].type, port)
          BY <1>1, <1>6, <2>2, <4>1 DEF Claim, Typed, TypeOK
        <5>1. agents'[n].attached = agents[n].attached /\ Present(n)
          BY <1>1, <5>0, <5>3 DEF Resumed, Records
        <5>2. run'[p].kept = {} /\ wanted'[n] = wanted[n]
          BY <1>6, <3>5, <4>1 DEF Claim, Runs, Typed, TypeOK
        <5> QED
          BY <3>4, <5>1, <5>2 DEF GivenBack
      <4>2. CASE run[p].mode = "cleanup"
        <5>1. agents'[n].attached = {} /\ wanted'[n] = {}
          BY <1>6, <2>2, <4>2 DEF Claim, Wiped, None, Forgotten, Typed, TypeOK
        <5>2. run'[p].kept = {}
          BY <1>6, <3>5, <4>2 DEF Claim, Runs, Typed, TypeOK
        <5> QED
          BY <5>1, <5>2 DEF GivenBack
      <4>3. CASE run[p].mode = "plain"
        <5>1. agents'[n].attached = {} /\ wanted'[n] = wanted[n]
          BY <1>6, <2>2, <4>3 DEF Claim, Wiped, None, Typed, TypeOK
        <5>2. run'[p].kept = IF Present(n) THEN agents[n].attached ELSE {}
          BY <1>6, <2>2, <3>5, <4>3 DEF Claim, Runs, Typed, TypeOK
        <5> QED
          BY <3>4, <5>1, <5>2 DEF GivenBack
      <4> QED
        BY <3>5, <4>1, <4>2, <4>3
    <3> QED
      BY <3>2, <3>3, <3>6 DEF KeptOf, Present, Held
  <2> QED
    BY <2>1, <2>2
<1>7. ASSUME NEW p \in Procs, run[p].step = "play", run[p].name # n,
             \A q \in Procs : run'[q].step = "play" => q # p /\ run'[q] = run[q],
             \A q \in Procs \ {p} : run'[q] = run[q],
             agents'[n] = agents[n], wanted'[n] = wanted[n]
      PROVE  KeptOf(n)'
  BY <1>1, <1>7, KeptSame DEF Holds
<1>8. ASSUME NEW p \in Procs, run[p].step = "play", run[p].name = n,
             \A q \in Procs : run'[q].step = "play" => q # p /\ run'[q] = run[q]
      PROVE  /\ \A q \in Procs : ~Holds(q, n)'
             /\ agents[n].status = "installing"
             /\ wanted[n] = Reattached(agents[n], run[p].kept).attached
  <2>1. Holds(p, n)
    BY <1>8 DEF Holds
  <2>2. \A q \in Procs : ~Holds(q, n)'
    BY <1>1, <1>8, <2>1 DEF Holding, HoldersDistinct, Holds
  <2>3. agents[n].status = "installing"
    BY <1>1, <1>8 DEF Holding, RecordHeld
  <2>4. wanted[n] = GivenBack(agents[n].attached, run[p].kept)
    BY <1>1, <2>1 DEF KeptOf
  <2> QED
    BY <1>1, <2>2, <2>3, <2>4 DEF GivenBack, Reattached, Records
<1>9. ASSUME NEW p \in Procs, NEW gateway \in BOOLEAN, SetInstalled(p, gateway)
      PROVE  KeptOf(n)'
  <2>1. \A q \in Procs : run'[q].step = "play" => q # p /\ run'[q] = run[q]
    BY <1>9, RunsApart DEF SetInstalled
  <2>2. \A q \in Procs \ {p} : run'[q] = run[q]
    BY <1>9, RunsApart DEF SetInstalled
  <2>3. CASE run[p].name # n
    <3>1. agents'[n] = agents[n] /\ wanted'[n] = wanted[n]
      BY <1>1, <1>9, <2>3 DEF SetInstalled, history, Typed, TypeOK
    <3> QED
      BY <1>7, <1>9, <2>1, <2>2, <2>3, <3>1 DEF SetInstalled
  <2>4. CASE run[p].name = n
    <3>1. /\ \A q \in Procs : ~Holds(q, n)'
          /\ agents[n].status = "installing"
          /\ wanted[n] = Reattached(agents[n], run[p].kept).attached
      BY <1>8, <1>9, <2>1, <2>4 DEF SetInstalled
    <3>2. run[p] \in Runs
      BY DEF Typed, TypeOK
    <3>3. Reattached(agents[n], run[p].kept) \in Records
      BY <1>1, <3>2 DEF Reattached, Records, Runs
    <3>4. agents'[n].attached = Reattached(agents[n], run[p].kept).attached
          /\ agents'[n].status = "installed" /\ wanted'[n] = wanted[n]
      BY <1>9, <2>4, <3>1, <3>3 DEF SetInstalled, history, Present, Records, Typed, TypeOK
    <3> QED
      BY <3>1, <3>4, KeptFree
  <2> QED
    BY <2>3, <2>4
<1>10. ASSUME NEW p \in Procs, SetFailed(p)
       PROVE  KeptOf(n)'
  <2>1. \A q \in Procs : run'[q].step = "play" => q # p /\ run'[q] = run[q]
    BY <1>10, EndQuiet DEF SetFailed
  <2>2. \A q \in Procs \ {p} : run'[q] = run[q]
    BY <1>10 DEF SetFailed, End
  <2>3. CASE run[p].name # n
    <3>1. agents'[n] = agents[n] /\ wanted'[n] = wanted[n]
      BY <1>1, <1>10, <2>3 DEF SetFailed, history, Typed, TypeOK
    <3> QED
      BY <1>7, <1>10, <2>1, <2>2, <2>3, <3>1 DEF SetFailed
  <2>4. CASE run[p].name = n
    <3>1. /\ \A q \in Procs : ~Holds(q, n)'
          /\ agents[n].status = "installing"
          /\ wanted[n] = Reattached(agents[n], run[p].kept).attached
      BY <1>8, <1>10, <2>1, <2>4 DEF SetFailed
    <3>2. run[p] \in Runs
      BY DEF Typed, TypeOK
    <3>3. Reattached(agents[n], run[p].kept) \in Records
      BY <1>1, <3>2 DEF Reattached, Records, Runs
    <3>4. agents'[n].attached = Reattached(agents[n], run[p].kept).attached
          /\ agents'[n].status = "failed" /\ wanted'[n] = wanted[n]
      BY <1>10, <2>4, <3>1, <3>3 DEF SetFailed, history, Records, Typed, TypeOK
    <3> QED
      BY <3>1, <3>4, KeptFree
  <2> QED
    BY <2>3, <2>4
<1>11. ASSUME NEW p \in Procs, LeaveInstalling(p)
       PROVE  KeptOf(n)'
  <2>1. \A q \in Procs : run'[q].step = "play" => q # p /\ run'[q] = run[q]
    BY <1>11, EndQuiet DEF LeaveInstalling
  <2>2. \A q \in Procs \ {p} : run'[q] = run[q]
    BY <1>11 DEF LeaveInstalling, End
  <2>3. CASE run[p].name # n
    <3>1. agents'[n] = agents[n] /\ wanted'[n] = wanted[n]
      BY <1>1, <1>11, <2>3 DEF LeaveInstalling, Typed, TypeOK
    <3> QED
      BY <1>7, <1>11, <2>1, <2>2, <2>3, <3>1 DEF LeaveInstalling
  <2>4. CASE run[p].name = n
    <3>1. /\ \A q \in Procs : ~Holds(q, n)'
          /\ agents[n].status = "installing"
      BY <1>8, <1>11, <2>1, <2>4 DEF LeaveInstalling
    <3>2. agents'[n] = agents[n] /\ wanted'[n] = agents[n].attached
      BY <1>11, <2>4 DEF LeaveInstalling, Typed, TypeOK
    <3> QED
      BY <3>1, <3>2, KeptFree
  <2> QED
    BY <2>3, <2>4
<1>12. ASSUME NEW p \in Procs, NEW item \in Providers, AttachProvider(p, item)
       PROVE  KeptOf(n)'
  <2>1. \A q \in Procs : run'[q].step = "play" => q # p /\ run'[q] = run[q]
    BY <1>12, RunsApart DEF AttachProvider
  <2>2. \A q \in Procs \ {p} : run'[q] = run[q]
    BY <1>12, RunsApart DEF AttachProvider
  <2>3. ~Holds(p, n)
    BY <1>12 DEF AttachProvider, Holds
  <2>4. CASE run[p].name # n \/ ~Present(n)
    <3>1. agents'[n] = agents[n] /\ wanted'[n] = wanted[n]
      BY <1>1, <1>12, <2>4 DEF AttachProvider, Typed, TypeOK
    <3> QED
      BY <1>1, <2>1, <2>2, <2>3, <3>1, KeptSame DEF Holds
  <2>5. CASE run[p].name = n /\ Present(n)
    <3> DEFINE new == (agents[n].attached \ Providers) \cup {item}
    <3>1. \A q \in Procs : ~Holds(q, n)
      BY <1>12, <2>3, <2>5 DEF AttachProvider, HeldByOthers
    <3>2. \A q \in Procs : ~Holds(q, n)'
      BY <2>1, <3>1 DEF Holds
    <3>3. agents[n].attached = wanted[n]
      BY <1>1, <2>5, <3>1 DEF KeptOf, Held
    <3>4. [agents[n] EXCEPT !.attached = new].attached = new
          /\ [agents[n] EXCEPT !.attached = new].status = agents[n].status
      BY <1>1 DEF Records
    <3>5. agents'[n] = [agents[n] EXCEPT !.attached = new]
          /\ wanted'[n] = (wanted[n] \ Providers) \cup {item}
      BY <1>12, <2>5 DEF AttachProvider, Typed, TypeOK
    <3>6. agents'[n].attached = wanted'[n] /\ agents'[n].status # "none"
      BY <2>5, <3>3, <3>4, <3>5 DEF Present
    <3> QED
      BY <3>2, <3>6, KeptFree
  <2> QED
    BY <2>4, <2>5
<1>13. ASSUME NEW p \in Procs, CheckOnboarding(p) \/ Stop(p)
       PROVE  KeptOf(n)'
  <2>1. \A q \in Procs : run'[q].step = "play" => q # p /\ run'[q] = run[q]
    BY <1>13, RunsApart DEF CheckOnboarding, Stop
  <2>2. \A q \in Procs \ {p} : run'[q] = run[q]
    BY <1>13, RunsApart DEF CheckOnboarding, Stop
  <2> QED
    BY <1>2, <1>13, <2>1, <2>2 DEF CheckOnboarding, Stop, history, Holds
<1>14. ASSUME NEW m \in Names, NEW onboarding,
              agents' = [agents EXCEPT ![m] = [agents[m] EXCEPT !.onboarding = onboarding]]
       PROVE  agents'[n].status = agents[n].status /\ agents'[n].attached = agents[n].attached
  <2>1. [agents[n] EXCEPT !.onboarding = onboarding].status = agents[n].status
        /\ [agents[n] EXCEPT !.onboarding = onboarding].attached = agents[n].attached
    BY <1>1 DEF Records
  <2> QED
    BY <1>1, <1>14, <2>1 DEF Typed, TypeOK
<1>15. ASSUME NEW p \in Procs, InitOnboarding(p)
       PROVE  KeptOf(n)'
  <2>1. \A q \in Procs : run'[q].step = "play" => q # p /\ run'[q] = run[q]
    BY <1>15, EndQuiet DEF InitOnboarding
  <2>2. \A q \in Procs \ {p} : run'[q] = run[q]
    BY <1>15 DEF InitOnboarding, End
  <2>3. run[p].name \in Names
    BY <1>15 DEF InitOnboarding, Typed, RunTyped
  <2>4. agents'[n].status = agents[n].status /\ agents'[n].attached = agents[n].attached
    BY <1>14, <1>15, <2>3 DEF InitOnboarding
  <2> QED
    BY <1>1, <1>15, <2>1, <2>2, <2>4, KeptSame DEF InitOnboarding, Holds
<1>16. ASSUME NEW m \in Names, OpenOnboarding(m) \/ FinishOnboarding(m)
       PROVE  KeptOf(n)'
  <2>1. agents'[n].status = agents[n].status /\ agents'[n].attached = agents[n].attached
    BY <1>14, <1>16 DEF OpenOnboarding, FinishOnboarding
  <2> QED
    BY <1>1, <1>16, <2>1, KeptSame DEF OpenOnboarding, FinishOnboarding, Holds
<1>17. ASSUME NEW m \in Names, NEW item \in Items, Attach(m, item) \/ Detach(m, item)
       PROVE  KeptOf(n)'
  <2>1. CASE m # n
    <3>1. agents'[n] = agents[n] /\ wanted'[n] = wanted[n] /\ UNCHANGED run
      BY <1>1, <1>17, <2>1 DEF Attach, Detach, Typed, TypeOK
    <3> QED
      BY <1>1, <3>1, KeptSame DEF Holds
  <2>2. CASE m = n
    <3>1. UNCHANGED run /\ Present(n) /\ \A q \in Procs : ~Holds(q, n)
      BY <1>17, <2>2 DEF Attach, Detach, Held
    <3>2. agents[n].attached = wanted[n]
      BY <1>1, <3>1 DEF KeptOf, Held
    <3>3. PICK new \in {wanted[n] \cup {item}, wanted[n] \ {item}} :
            agents'[n] = [agents[n] EXCEPT !.attached = new] /\ wanted'[n] = new
      BY ZenonT(60), <1>1, <1>17, <2>2, <3>2 DEF Attach, Detach, Typed, TypeOK
    <3>4. [agents[n] EXCEPT !.attached = new].attached = new
          /\ [agents[n] EXCEPT !.attached = new].status = agents[n].status
      BY <1>1 DEF Records
    <3> QED
      BY <3>1, <3>3, <3>4, KeptFree DEF Present, Holds
  <2> QED
    BY <2>1, <2>2
<1>18. ASSUME NEW m \in Names, SetSecret(m)
       PROVE  KeptOf(n)'
  BY <1>1, <1>18, KeptSame DEF SetSecret, history, Holds
<1>19. ASSUME NEW m \in Names, Remove(m)
       PROVE  KeptOf(n)'
  <2>1. CASE m # n
    <3>1. agents'[n] = agents[n] /\ wanted'[n] = wanted[n] /\ UNCHANGED run
      BY <1>1, <1>19, <2>1 DEF Remove, Forgotten, Typed, TypeOK
    <3> QED
      BY <1>1, <3>1, KeptSame DEF Holds
  <2>2. CASE m = n
    <3>1. agents'[n] = None /\ wanted'[n] = {}
      BY <1>19, <2>2 DEF Remove, Forgotten, Typed, TypeOK
    <3>2. \A q \in Procs : ~Holds(q, n)'
      BY <1>19, <2>2 DEF Remove, Held, Holds
    <3> QED
      BY <3>1, <3>2, KeptFree DEF None
  <2> QED
    BY <2>1, <2>2
<1>20. CASE UNCHANGED vars
  BY <1>1, <1>20, KeptSame DEF vars, Holds
<1> QED
  BY <1>3, <1>4, <1>5, <1>6, <1>9, <1>10, <1>11, <1>12, <1>13, <1>15, <1>16, <1>17,
     <1>18, <1>19, <1>20 DEF Next

-----------------------------------------------------------------------------
\* Every step keeps the invariant.
LEMMA NextIInv == IInv /\ [Next]_vars => IInv'
BY TypedStep, HoldingStep, BareStep, KeptStep DEF IInv

\* The inductive invariant holds of every reachable state of an installation.
THEOREM Invariance == Spec => []IInv
BY InitIInv, NextIInv, PTL DEF Spec

\* Type correctness of the installation of the agents of a host.
THEOREM TypeCorrect == Spec => []TypeOK
<1>1. IInv => TypeOK
  BY DEF IInv, Typed
<1> QED
  BY <1>1, Invariance, PTL

\* The record of an agent that is being installed, and that nobody disturbs, is its
\* installer's from the claim to the result.
THEOREM RecordIsHeld == Spec => []RecordHeld
<1>1. IInv => RecordHeld
  BY DEF IInv, Holding
<1> QED
  BY <1>1, Invariance, PTL

\* However many installers run, no two plain ones of a type run at once.
THEOREM OneAtATime == Spec => []OneInstaller
<1>1. IInv => OneInstaller
  BY DEF IInv, Holding
<1> QED
  BY <1>1, Invariance, PTL

\* Both at once: installations of a type follow one another.
THEOREM InstallationsExclusive == Spec => []Exclusive
BY RecordIsHeld, OneAtATime, PTL DEF Exclusive

\* No two agents get one gateway port, for any number of installers and any pool.
THEOREM PortsStayDistinct == Spec => []PortsDistinct
<1>1. IInv => PortsDistinct
  BY DEF IInv
<1> QED
  BY <1>1, Invariance, PTL

\* What is attached survives every installation, whether it succeeds or fails.
THEOREM AttachmentsSurvive == Spec => []AttachmentsKept
<1>1. IInv => AttachmentsKept
  <2> SUFFICES ASSUME IInv, NEW n \in Names \ disturbed,
                      agents[n].status \in {"installed", "failed"}
               PROVE  agents[n].attached = wanted[n]
    BY DEF AttachmentsKept
  <2>1. Present(n)
    BY DEF Present
  <2>2. \A p \in Procs : ~Holds(p, n)
    BY DEF IInv, Holding, RecordHeld, Holds
  <2> QED
    BY <2>1, <2>2 DEF IInv, Kept, KeptOf, Held
<1> QED
  BY <1>1, Invariance, PTL

\* A failed installation is never ready to start.
THEOREM FailedIsNotReady == Spec => []FailedNotReady
<1>1. IInv => FailedNotReady
  BY DEF IInv, Bare, FailedNotReady
<1> QED
  BY <1>1, Invariance, PTL

\* A failed installation leaves what is attached, and nothing that would let the agent start.
THEOREM FailureKeepsHolds == Spec => []FailureKeeps
BY AttachmentsSurvive, FailedIsNotReady, PTL DEF FailureKeeps

-----------------------------------------------------------------------------
(***************************************************************************)
(* HostCommands.  Its inductive invariant is HostsInv.  That the hostname  *)
(* is a primary address is inductive with the types.  That a host is       *)
(* itself (SequentialIdentity) needs more: as long as nothing has          *)
(* overlapped, hostnames are distinct, one command runs at a time          *)
(* (OneRuns), and what it has read of hosts.json and carries to its write  *)
(* is still so (CarriesOn).                                                *)
(***************************************************************************)
Carried(c) ==
  /\ c.op \in {"create", "rerecord", "apply", "rename", "add", "drop", "primary"} => c.to \in Addrs
  /\ c.op \in {"create", "rerecord"} => c.key \in Addrs

CommandsTyped == \A p \in Procs : Carried(cmd[p])

NamedPrimary(h) == \E k \in H!Primaries(h) : h.addresses[k].address = h.hostname

OneRuns == \A p, q \in Procs : cmd[p] # H!Idle /\ cmd[q] # H!Idle => p = q

\* What the command c has read: that the name is new, or the key_id of the host it is about.
CarriesOn(c, hs, ks) ==
  /\ c.op = "create" =>
       /\ c.key = c.to
       /\ \A i \in DOMAIN hs : hs[i].key_id # c.to
       /\ c.step = "commit" => c.key \in ks
  /\ c.op = "rerecord" \/ (c.op = "delete" /\ c.step = "commit") =>
       \A i \in DOMAIN hs : hs[i].hostname = c.host => hs[i].key_id = c.key
  /\ c.op = "delete" /\ c.step = "dropkeys" =>
       \A i \in DOMAIN hs : hs[i].key_id # c.key

Identity ==
  /\ OneRuns
  /\ ~ H!SharedHostname(hosts)
  /\ H!KeyIdsDistinct
  /\ \A i \in DOMAIN hosts : hosts[i].key_id \in keys
  /\ \A p \in Procs : CarriesOn(cmd[p], hosts, keys)

HostsInv ==
  /\ H!TypeOK /\ CommandsTyped
  /\ H!HostnameIsPrimary
  /\ mixed \/ Identity

HostCmds == [op : H!Ops, step : H!OpSteps, host : Addrs \cup {Null}, to : Addrs \cup {Null},
             alias : Aliases \cup {NoAlias}, key : Addrs \cup {Null}]

\* A set of numbers that is not empty has a least one, which the model chooses.
LEMMA LeastIn ==
  ASSUME NEW S \in SUBSET Nat, S # {}
  PROVE  H!Least(S) \in S
<1>1. PICK i \in S : \A j \in S : ~ (<<j, i>> \in OpToRel(<, Nat))
  BY WFMin, NatLessThanWellFounded
<1>2. \A j \in S : ~ (j < i)
  BY <1>1 DEF OpToRel
<1>3. \A j \in S : i <= j
  BY <1>2
<1> QED
  BY <1>3 DEF H!Least

\* get_host returns a record of the list that the name resolves to.
LEMMA GetHostFinds ==
  ASSUME NEW hs \in Seq(H!HostRecords), NEW name, H!Lookup(hs, name) # {}
  PROVE  \E i \in DOMAIN hs : H!GetHost(hs, name) = hs[i] /\ H!Resolves(hs[i], name)
<1>1. H!Lookup(hs, name) \in SUBSET Nat /\ H!Lookup(hs, name) \subseteq DOMAIN hs
  BY DEF H!Lookup
<1>2. H!Least(H!Lookup(hs, name)) \in H!Lookup(hs, name)
  BY <1>1, LeastIn
<1> QED
  BY <1>1, <1>2 DEF H!GetHost, H!Lookup

-----------------------------------------------------------------------------
(***************************************************************************)
(* What the updaters make of a record.                                     *)
(***************************************************************************)
LEMMA PrimariesIn ==
  ASSUME NEW h \in H!HostRecords
  PROVE  /\ H!Primaries(h) \in SUBSET Nat /\ H!Primaries(h) \subseteq DOMAIN h.addresses
         /\ \A addr : H!Positions(h, addr) \in SUBSET Nat
         /\ \A addr : H!Positions(h, addr) \subseteq DOMAIN h.addresses
         /\ h.addresses \in Seq(H!Entries)
         /\ h = [hostname |-> h.hostname, key_id |-> h.key_id, alias |-> h.alias,
                 addresses |-> h.addresses]
BY DEF H!Primaries, H!Positions, H!HostRecords

\* The addresses of a host with one of them the primary.
Marked(h, addr) ==
  [k \in DOMAIN h.addresses |->
     [address |-> h.addresses[k].address, primary |-> h.addresses[k].address = addr]]

LEMMA MarkedTyped ==
  ASSUME NEW h \in H!HostRecords, NEW addr
  PROVE  /\ Marked(h, addr) \in Seq(H!Entries)
         /\ DOMAIN Marked(h, addr) = DOMAIN h.addresses
         /\ Len(Marked(h, addr)) = Len(h.addresses)
<1> DEFINE n == Len(h.addresses)
<1>1. n \in Nat /\ DOMAIN h.addresses = 1 .. n /\ h.addresses \in Seq(H!Entries)
  BY DEF H!HostRecords
<1>2. \A k \in 1 .. n : h.addresses[k].address \in Addrs
  <2>1. \A k \in 1 .. n : h.addresses[k] \in H!Entries
    BY <1>1
  <2> QED
    BY <2>1 DEF H!Entries
<1>3. \A k \in 1 .. n : Marked(h, addr)[k] \in H!Entries
  BY <1>1, <1>2 DEF Marked, H!Entries
<1>4. DOMAIN Marked(h, addr) = 1 .. n
  BY <1>1 DEF Marked
<1>5. Marked(h, addr) = [k \in 1 .. n |-> Marked(h, addr)[k]]
  BY <1>1 DEF Marked
<1> HIDE DEF n
<1>6. [k \in 1 .. n |-> Marked(h, addr)[k]] \in [1 .. n -> H!Entries]
  BY <1>3
<1>7. Marked(h, addr) \in Seq(H!Entries)
  BY <1>1, <1>5, <1>6, IsASeq
<1> QED
  BY <1>1, <1>4, <1>7 DEF n

UpdatedWell(h, c) ==
  /\ H!Updated(h, c) \in H!HostRecords
  /\ NamedPrimary(H!Updated(h, c))
  /\ H!Updated(h, c).key_id = IF c.op = "rerecord" THEN c.key ELSE h.key_id

LEMMA RerecordedWell ==
  ASSUME NEW h \in H!HostRecords, NEW c \in HostCmds, Carried(c), c.op = "rerecord"
  PROVE  UpdatedWell(h, c)
<1> DEFINE old == Marked(h, c.to)
           new == Append(old, [address |-> c.to, primary |-> TRUE])
           r == H!Rerecorded(h, c)
<1>1. c.to \in Addrs /\ c.key \in Addrs
  BY DEF Carried
<1>2. old \in Seq(H!Entries) /\ DOMAIN old = DOMAIN h.addresses /\ Len(old) = Len(h.addresses)
  BY MarkedTyped
<1>3. H!Updated(h, c) = r
  BY DEF H!Updated
<1>4. CASE H!Positions(h, c.to) # {}
  <2>1. r = [h EXCEPT !.hostname = c.to, !.key_id = c.key, !.addresses = old]
    BY <1>4 DEF H!Rerecorded, Marked
  <2>2. r \in H!HostRecords /\ r.hostname = c.to /\ r.key_id = c.key /\ r.addresses = old
    BY <2>1, <1>1, <1>2 DEF H!HostRecords
  <2>3. PICK k \in DOMAIN h.addresses : h.addresses[k].address = c.to
    BY <1>4 DEF H!Positions
  <2>4. k \in DOMAIN old /\ old[k].primary /\ old[k].address = c.to
    BY <2>3, <1>2 DEF Marked
  <2>5. k \in H!Primaries(r) /\ r.addresses[k].address = r.hostname
    BY <2>2, <2>4 DEF H!Primaries
  <2> QED
    BY <1>3, <2>2, <2>5 DEF UpdatedWell, NamedPrimary
<1>5. CASE H!Positions(h, c.to) = {}
  <2>1. r = [h EXCEPT !.hostname = c.to, !.key_id = c.key, !.addresses = new]
    BY <1>5 DEF H!Rerecorded, Marked
  <2>2. new \in Seq(H!Entries) /\ Len(new) = Len(old) + 1
        /\ new[Len(old) + 1] = [address |-> c.to, primary |-> TRUE]
    BY <1>1, <1>2 DEF H!Entries
  <2>3. r \in H!HostRecords /\ r.hostname = c.to /\ r.key_id = c.key /\ r.addresses = new
    BY <2>1, <1>1, <2>2 DEF H!HostRecords
  <2>4. Len(old) + 1 \in DOMAIN new
    BY <2>2, <1>2
  <2> HIDE DEF new, old, r
  <2>5. Len(old) + 1 \in H!Primaries(r) /\ r.addresses[Len(old) + 1].address = r.hostname
    BY <2>2, <2>3, <2>4 DEF H!Primaries
  <2> QED
    BY <1>3, <2>3, <2>5 DEF UpdatedWell, NamedPrimary
<1> QED
  BY <1>4, <1>5

LEMMA RenamedWell ==
  ASSUME NEW h \in H!HostRecords, NEW c \in HostCmds, Carried(c), c.op = "rename",
         NamedPrimary(h)
  PROVE  UpdatedWell(h, c)
<1> DEFINE first == H!Least(H!Primaries(h))
           r == H!Renamed(h, c.to)
           new == [h.addresses EXCEPT ![first].address = c.to]
<1>1. c.to \in Addrs /\ H!Updated(h, c) = r
  BY DEF Carried, H!Updated
<1>2. CASE c.to = h.hostname
  BY <1>1, <1>2 DEF H!Renamed, UpdatedWell
<1>3. CASE c.to # h.hostname
  <2>1. H!Primaries(h) # {}
    BY DEF NamedPrimary
  <2>2. first \in H!Primaries(h)
    BY <2>1, LeastIn, PrimariesIn
  <2>3. first \in DOMAIN h.addresses /\ h.addresses[first].primary
    BY <2>2 DEF H!Primaries
  <2>4. r = [h EXCEPT !.hostname = c.to, !.addresses = new]
    BY <1>3, <2>1 DEF H!Renamed
  <2>8. h.addresses \in Seq(H!Entries) /\ h.addresses[first] \in H!Entries
    BY <2>3, PrimariesIn
  <2>9. [h.addresses[first] EXCEPT !.address = c.to] \in H!Entries
        /\ [h.addresses[first] EXCEPT !.address = c.to].address = c.to
        /\ [h.addresses[first] EXCEPT !.address = c.to].primary
    BY <1>1, <2>3, <2>8 DEF H!Entries
  <2>5. new \in Seq(H!Entries) /\ DOMAIN new = DOMAIN h.addresses
        /\ new[first].address = c.to /\ new[first].primary
    BY <2>3, <2>8, <2>9
  <2>6. r \in H!HostRecords /\ r.hostname = c.to /\ r.key_id = h.key_id /\ r.addresses = new
    BY <2>4, <2>5, <1>1 DEF H!HostRecords
  <2>7. first \in H!Primaries(r) /\ r.addresses[first].address = r.hostname
    BY <2>3, <2>5, <2>6 DEF H!Primaries
  <2> QED
    BY <1>1, <2>6, <2>7 DEF UpdatedWell, NamedPrimary
<1> QED
  BY <1>2, <1>3

LEMMA RealiasedWell ==
  ASSUME NEW h \in H!HostRecords, NEW c \in HostCmds, c.op = "realias", NamedPrimary(h)
  PROVE  UpdatedWell(h, c)
<1>1. H!Updated(h, c) = [h EXCEPT !.alias = c.alias] /\ c.alias \in Aliases \cup {NoAlias}
  BY DEF H!Updated, HostCmds
<1>2. H!Updated(h, c) \in H!HostRecords /\ H!Updated(h, c).hostname = h.hostname
      /\ H!Updated(h, c).addresses = h.addresses /\ H!Updated(h, c).key_id = h.key_id
  BY <1>1 DEF H!HostRecords
<1> QED
  BY <1>2 DEF UpdatedWell, NamedPrimary, H!Primaries

LEMMA AddedWell ==
  ASSUME NEW h \in H!HostRecords, NEW c \in HostCmds, Carried(c), c.op = "add", NamedPrimary(h)
  PROVE  UpdatedWell(h, c)
<1> DEFINE new == Append(h.addresses, [address |-> c.to, primary |-> FALSE])
           r == H!Updated(h, c)
<1>1. c.to \in Addrs /\ r = [h EXCEPT !.addresses = new]
  BY DEF Carried, H!Updated, H!Readdressed
<1>2. new \in Seq(H!Entries) /\ DOMAIN h.addresses \subseteq DOMAIN new
      /\ \A k \in DOMAIN h.addresses : new[k] = h.addresses[k]
  <2>1. [address |-> c.to, primary |-> FALSE] \in H!Entries
    BY <1>1 DEF H!Entries
  <2> QED
    BY <2>1, PrimariesIn
<1>3. r \in H!HostRecords /\ r.hostname = h.hostname /\ r.key_id = h.key_id /\ r.addresses = new
  BY <1>1, <1>2 DEF H!HostRecords
<1> QED
  BY <1>2, <1>3 DEF UpdatedWell, NamedPrimary, H!Primaries

LEMMA DroppedWell ==
  ASSUME NEW h \in H!HostRecords, NEW c \in HostCmds, Carried(c), c.op = "drop", NamedPrimary(h),
         H!Accepts(h, c)
  PROVE  UpdatedWell(h, c)
<1> DEFINE at == H!Least(H!Positions(h, c.to))
           new == H!Without(h.addresses, at)
           r == H!Updated(h, c)
<1>1. r = [h EXCEPT !.addresses = new]
  BY DEF H!Updated, H!Readdressed
<1>2. at \in DOMAIN h.addresses /\ ~ h.addresses[at].primary
  BY LeastIn, PrimariesIn DEF H!Accepts
<1>3. new \in Seq(H!Entries) /\ Len(new) = Len(h.addresses) - 1
      /\ \A j \in 1 .. Len(h.addresses) - 1 :
           new[j] = IF j < at THEN h.addresses[j] ELSE h.addresses[j + 1]
  BY <1>2, PrimariesIn DEF H!Without
<1>4. r \in H!HostRecords /\ r.hostname = h.hostname /\ r.key_id = h.key_id /\ r.addresses = new
  BY <1>1, <1>3 DEF H!HostRecords
<1>5. PICK k \in DOMAIN h.addresses : h.addresses[k].primary /\ h.addresses[k].address = h.hostname
  BY DEF NamedPrimary, H!Primaries
<1>6. k # at
  BY <1>2, <1>5
<1>7. CASE k < at
  <2>1. k \in DOMAIN new /\ new[k] = h.addresses[k]
    BY <1>2, <1>3, <1>7, PrimariesIn
  <2> QED
    BY <1>4, <1>5, <2>1 DEF UpdatedWell, NamedPrimary, H!Primaries
<1>8. CASE k > at
  <2>1. k - 1 \in DOMAIN new /\ new[k - 1] = h.addresses[k]
    BY <1>2, <1>3, <1>8, PrimariesIn
  <2> QED
    BY <1>4, <1>5, <2>1 DEF UpdatedWell, NamedPrimary, H!Primaries
<1> QED
  BY <1>2, <1>6, <1>7, <1>8, PrimariesIn

LEMMA PrimaryWell ==
  ASSUME NEW h \in H!HostRecords, NEW c \in HostCmds, Carried(c), c.op = "primary",
         H!Accepts(h, c)
  PROVE  UpdatedWell(h, c)
<1> DEFINE new == Marked(h, c.to)
           r == H!Updated(h, c)
<1>1. c.to \in Addrs /\ r = [h EXCEPT !.hostname = c.to, !.addresses = new]
  BY DEF Carried, H!Updated, H!Readdressed, Marked
<1>2. new \in Seq(H!Entries) /\ DOMAIN new = DOMAIN h.addresses
  BY MarkedTyped
<1>3. r \in H!HostRecords /\ r.hostname = c.to /\ r.key_id = h.key_id /\ r.addresses = new
  BY <1>1, <1>2 DEF H!HostRecords
<1>4. PICK k \in DOMAIN h.addresses : h.addresses[k].address = c.to
  BY DEF H!Accepts, H!Positions
<1>5. k \in DOMAIN new /\ new[k].primary /\ new[k].address = c.to
  BY <1>2, <1>4 DEF Marked
<1> HIDE DEF new, r
<1> QED
  BY <1>3, <1>5 DEF UpdatedWell, NamedPrimary, H!Primaries, r

\* Whatever an update does to a record that is dialled by a primary address it has, it still
\* is; and a record keeps its key_id, or gets the one the re-record has read.
LEMMA UpdateWell ==
  ASSUME NEW h \in H!HostRecords, NEW c \in HostCmds, Carried(c), NamedPrimary(h),
         c.op \in {"rerecord", "rename", "realias", "add", "drop", "primary"}, H!Accepts(h, c)
  PROVE  UpdatedWell(h, c)
BY RerecordedWell, RenamedWell, RealiasedWell, AddedWell, DroppedWell, PrimaryWell

-----------------------------------------------------------------------------
(***************************************************************************)
(* The steps.                                                              *)
(***************************************************************************)
LEMMA HostsTyped ==
  ASSUME HostsInv
  PROVE  /\ hosts \in Seq(H!HostRecords) /\ Len(hosts) \in Nat /\ Len(hosts) <= MaxHosts
         /\ DOMAIN hosts = 1 .. Len(hosts)
         /\ \A i \in DOMAIN hosts : hosts[i] \in H!HostRecords
         /\ cmd \in [Procs -> HostCmds]
         /\ keys \subseteq Addrs /\ mixed \in BOOLEAN /\ begunCommands \in 0 .. MaxHostCommands
BY DEF HostsInv, H!TypeOK, HostCmds

LEMMA IdleCommand == H!Idle \in HostCmds /\ Carried(H!Idle) /\ H!Idle.op = "none"
BY DEF H!Idle, HostCmds, H!Ops, H!OpSteps, Carried

\* A step that leaves hosts.json alone and takes no key away.
LEMMA Walks ==
  ASSUME HostsInv, NEW p \in Procs, NEW c \in HostCmds, Carried(c),
         cmd' = [cmd EXCEPT ![p] = c], hosts' = hosts, keys \subseteq keys', keys' \subseteq Addrs,
         mixed' \in BOOLEAN, begunCommands' \in 0 .. MaxHostCommands,
         ~ mixed' => /\ ~ mixed
                     /\ c # H!Idle => \A q \in Procs \ {p} : cmd[q] = H!Idle
                     /\ CarriesOn(c, hosts', keys')
  PROVE  HostsInv'
<1>1. cmd' \in [Procs -> HostCmds] /\ cmd'[p] = c
      /\ \A q \in Procs \ {p} : cmd'[q] = cmd[q]
  BY HostsTyped
<1>2. H!TypeOK'
  BY <1>1, HostsTyped DEF H!TypeOK, HostCmds
<1>3. CommandsTyped'
  <2> SUFFICES ASSUME NEW q \in Procs PROVE Carried(cmd'[q])
    BY DEF CommandsTyped, Carried
  <2> QED
    BY <1>1 DEF HostsInv, CommandsTyped
<1>4. H!HostnameIsPrimary'
  BY DEF HostsInv, H!HostnameIsPrimary, H!Primaries
<1>5. ASSUME ~ mixed' PROVE Identity'
  <2>1. Identity
    BY <1>5 DEF HostsInv
  <2>2. OneRuns'
    BY <1>1, <1>5, <2>1 DEF Identity, OneRuns
  <2>3. ~ H!SharedHostname(hosts)' /\ H!KeyIdsDistinct'
        /\ \A i \in DOMAIN hosts' : hosts'[i].key_id \in keys'
    BY <2>1 DEF Identity, H!SharedHostname, H!KeyIdsDistinct
  <2>4. ASSUME NEW q \in Procs PROVE CarriesOn(cmd'[q], hosts', keys')
    <3>1. CASE q = p
      <4>1. cmd'[q] = c
        BY <1>1, <3>1
      <4> QED
        BY <4>1, <1>5 DEF CarriesOn
    <3>2. CASE q # p
      <4>1. cmd'[q] = cmd[q] /\ CarriesOn(cmd[q], hosts, keys)
        BY <1>1, <2>1, <3>2 DEF Identity
      <4>2. \A c1 : CarriesOn(c1, hosts, keys) => CarriesOn(c1, hosts', keys')
        BY DEF CarriesOn
      <4> QED
        BY <4>1, <4>2
    <3> QED
      BY <3>1, <3>2
  <2> QED
    BY <2>2, <2>3, <2>4 DEF Identity
<1> QED
  BY <1>2, <1>3, <1>4, <1>5 DEF HostsInv

\* A command begins with what it has read.
LEMMA Begins ==
  ASSUME HostsInv, NEW p \in Procs, NEW c \in HostCmds, Carried(c), H!Begin(p, c),
         ~ mixed => CarriesOn(c, hosts, keys)
  PROVE  HostsInv'
<1>1. mixed' \in BOOLEAN /\ begunCommands' \in 0 .. MaxHostCommands /\ keys' \subseteq Addrs
  BY HostsTyped, HostsAssumption DEF H!Begin, H!BoundsAssumption
<1>2. ~ mixed' => ~ mixed /\ \A q \in Procs : cmd[q] = H!Idle
  BY DEF H!Begin
<1>3. hosts' = hosts /\ keys' = keys /\ cmd' = [cmd EXCEPT ![p] = c]
  BY DEF H!Begin
<1>4. ~ mixed' => CarriesOn(c, hosts', keys')
  BY <1>2, <1>3 DEF CarriesOn
<1> QED
  BY <1>1, <1>2, <1>3, <1>4, Walks

LEMMA CreateNewKeeps ==
  ASSUME HostsInv, NEW p \in Procs, NEW addr \in Addrs, NEW alias \in Aliases \cup {NoAlias},
         H!CreateNew(p, addr, alias)
  PROVE  HostsInv'
<1> DEFINE c == [H!Idle EXCEPT !.op = "create", !.step = "keypair", !.to = addr,
                               !.alias = alias, !.key = addr]
<1>1. c \in HostCmds /\ Carried(c) /\ c.op = "create" /\ c.step = "keypair" /\ c.to = addr
      /\ c.key = addr
  BY DEF H!Idle, HostCmds, H!Ops, H!OpSteps, Carried
<1>2. \A i \in DOMAIN hosts : hosts[i].key_id # addr
  BY HostsAssumption DEF H!CreateNew, H!Lookup, H!Resolves, H!NamesAssumption
<1>3. CarriesOn(c, hosts, keys)
  BY <1>1, <1>2 DEF CarriesOn
<1>4. H!Begin(p, c)
  BY DEF H!CreateNew
<1> QED
  BY <1>1, <1>3, <1>4, Begins

LEMMA CreateAgainKeeps ==
  ASSUME HostsInv, NEW p \in Procs, NEW addr \in Addrs, NEW alias \in Aliases,
         H!CreateAgain(p, addr, alias)
  PROVE  HostsInv'
<1> DEFINE found == IF H!Lookup(hosts, addr) # {} THEN addr ELSE alias
           existing == H!GetHost(hosts, found)
           c == [H!Idle EXCEPT !.op = "rerecord", !.step = "keypair", !.to = addr,
                               !.host = existing.hostname, !.key = existing.key_id]
<1>1. H!Lookup(hosts, found) # {} /\ H!Begin(p, c)
  BY DEF H!CreateAgain
<1>2. PICK i \in DOMAIN hosts : existing = hosts[i]
  BY <1>1, GetHostFinds, HostsTyped
<1>3. existing.hostname \in Addrs /\ existing.key_id \in Addrs
  BY <1>2, HostsTyped DEF H!HostRecords
<1>4. c \in HostCmds /\ Carried(c) /\ c.op = "rerecord" /\ c.host = hosts[i].hostname
      /\ c.key = hosts[i].key_id
  BY <1>2, <1>3 DEF H!Idle, HostCmds, H!Ops, H!OpSteps, Carried
<1>5. ~ mixed => CarriesOn(c, hosts, keys)
  BY <1>4 DEF CarriesOn, HostsInv, Identity, H!SharedHostname
<1> QED
  BY <1>1, <1>4, <1>5, Begins

LEMMA ApplyDiffKeeps ==
  ASSUME HostsInv, NEW p \in Procs, NEW addr \in Addrs, NEW alias \in Aliases \cup {NoAlias},
         H!ApplyDiff(p, addr, alias)
  PROVE  HostsInv'
<1> DEFINE c == [H!Idle EXCEPT !.op = "apply", !.step = "commit", !.to = addr, !.alias = alias]
<1>1. c \in HostCmds /\ Carried(c) /\ c.op = "apply"
  BY DEF H!Idle, HostCmds, H!Ops, H!OpSteps, Carried
<1>2. CarriesOn(c, hosts, keys)
  BY <1>1 DEF CarriesOn
<1>3. H!Begin(p, c)
  BY DEF H!ApplyDiff
<1> QED
  BY <1>1, <1>2, <1>3, Begins

LEMMA FindHostKeeps ==
  ASSUME HostsInv, NEW p \in Procs, NEW op \in {"rename", "realias", "add", "drop", "primary", "delete"},
         NEW name \in H!LookupNames, NEW addr \in Addrs \cup {Null},
         NEW alias \in Aliases \cup {NoAlias},
         op \in {"rename", "add", "drop", "primary"} => addr \in Addrs,
         H!FindHost(p, op, name, addr, alias)
  PROVE  HostsInv'
<1> DEFINE h == H!GetHost(hosts, name)
           c == [op |-> op, step |-> IF op = "delete" THEN "commit" ELSE "check",
                 host |-> h.hostname, to |-> addr, alias |-> alias,
                 key |-> IF op \in {"rename", "delete"} THEN h.key_id ELSE Null]
<1>1. H!Lookup(hosts, name) # {} /\ H!Begin(p, c)
  BY DEF H!FindHost
<1>2. PICK i \in DOMAIN hosts : h = hosts[i]
  BY <1>1, GetHostFinds, HostsTyped
<1>3. h.hostname \in Addrs /\ h.key_id \in Addrs
  BY <1>2, HostsTyped DEF H!HostRecords
<1>4. c \in HostCmds /\ Carried(c) /\ c.op = op /\ c.host = hosts[i].hostname
      /\ (op = "delete" => c.key = hosts[i].key_id /\ c.step = "commit")
  BY <1>2, <1>3 DEF HostCmds, H!Ops, H!OpSteps, Carried
<1>5. ~ mixed => CarriesOn(c, hosts, keys)
  BY <1>4 DEF CarriesOn, HostsInv, Identity, H!SharedHostname
<1> QED
  BY <1>1, <1>4, <1>5, Begins

\* The command of p moves on; whoever is alone stays so.
LEMMA MovesOn ==
  ASSUME HostsInv, NEW p \in Procs, cmd[p] # H!Idle, NEW c \in HostCmds, Carried(c),
         cmd' = [cmd EXCEPT ![p] = c], hosts' = hosts, keys \subseteq keys', keys' \subseteq Addrs,
         UNCHANGED <<mixed, begunCommands>>, ~ mixed => CarriesOn(c, hosts', keys')
  PROVE  HostsInv'
<1>1. ~ mixed => \A q \in Procs \ {p} : cmd[q] = H!Idle
  BY DEF HostsInv, Identity, OneRuns
<1>2. mixed' \in BOOLEAN /\ begunCommands' \in 0 .. MaxHostCommands
  BY HostsTyped
<1> QED
  BY <1>1, <1>2, Walks

LEMMA IdleCarries == CarriesOn(H!Idle, hosts', keys')
BY IdleCommand DEF CarriesOn

LEMMA StopKeeps == ASSUME HostsInv, NEW p \in Procs, H!Stop(p) PROVE HostsInv'
BY MovesOn, IdleCommand, IdleCarries, HostsTyped DEF H!Stop, H!Done

LEMMA Busy ==
  ASSUME HostsInv, NEW p \in Procs, NEW ops, NEW step, H!At(p, ops, step), "none" \notin ops
  PROVE  /\ cmd[p] # H!Idle /\ cmd[p] \in HostCmds /\ Carried(cmd[p])
         /\ cmd[p].op \in ops /\ cmd[p].step = step
         /\ ~ mixed => CarriesOn(cmd[p], hosts, keys)
BY HostsTyped, IdleCommand DEF H!At, HostsInv, CommandsTyped, Identity

LEMMA EnsureKeypairKeeps == ASSUME HostsInv, NEW p \in Procs, H!EnsureKeypair(p) PROVE HostsInv'
<1> DEFINE c == [cmd[p] EXCEPT !.step = "commit"]
<1>1. H!At(p, {"create", "rerecord"}, "keypair")
  BY DEF H!EnsureKeypair
<1>2. cmd[p] # H!Idle /\ cmd[p] \in HostCmds /\ Carried(cmd[p])
      /\ cmd[p].op \in {"create", "rerecord"} /\ (~ mixed => CarriesOn(cmd[p], hosts, keys))
  BY <1>1, Busy
<1>3. c \in HostCmds /\ c.op = cmd[p].op /\ c.step = "commit" /\ c.to = cmd[p].to
      /\ c.key = cmd[p].key /\ c.host = cmd[p].host
  BY <1>2 DEF HostCmds, H!OpSteps
<1>4. Carried(c) /\ c.key \in Addrs
  BY <1>2, <1>3 DEF Carried
<1>5. cmd' = [cmd EXCEPT ![p] = c] /\ keys' = keys \cup {c.key}
  BY <1>3, HostsTyped DEF H!EnsureKeypair, H!GoTo
<1>6. hosts' = hosts /\ UNCHANGED <<mixed, begunCommands>>
  BY DEF H!EnsureKeypair
<1>7. ~ mixed => CarriesOn(c, hosts', keys')
  BY <1>2, <1>3, <1>5, <1>6 DEF CarriesOn
<1> QED
  BY <1>2, <1>3, <1>4, <1>5, <1>6, <1>7, MovesOn, HostsTyped

LEMMA ApplyKeypairKeeps == ASSUME HostsInv, NEW p \in Procs, H!ApplyKeypair(p) PROVE HostsInv'
<1>1. H!At(p, {"apply"}, "keypair")
  BY DEF H!ApplyKeypair
<1>2. cmd[p] # H!Idle /\ cmd[p].to \in Addrs
  BY <1>1, Busy DEF Carried
<1> QED
  BY <1>2, MovesOn, IdleCommand, IdleCarries, HostsTyped DEF H!ApplyKeypair, H!Done

LEMMA CheckRenameKeeps == ASSUME HostsInv, NEW p \in Procs, H!CheckRename(p) PROVE HostsInv'
<1> DEFINE c == [cmd[p] EXCEPT !.step = "commit", !.key = Null]
<1>1. H!At(p, {"rename"}, "check")
  BY DEF H!CheckRename
<1>2. cmd[p] # H!Idle /\ cmd[p] \in HostCmds /\ Carried(cmd[p]) /\ cmd[p].op = "rename"
  BY <1>1, Busy
<1>3. c \in HostCmds /\ c.op = "rename" /\ c.to = cmd[p].to
  BY <1>2 DEF HostCmds, H!OpSteps
<1>4. Carried(c) /\ CarriesOn(c, hosts', keys')
  BY <1>2, <1>3 DEF Carried, CarriesOn
<1>5. cmd' = [cmd EXCEPT ![p] = c]
  BY HostsTyped DEF H!CheckRename
<1> QED
  BY <1>2, <1>3, <1>4, <1>5, MovesOn, HostsTyped DEF H!CheckRename

LEMMA CheckAliasKeeps == ASSUME HostsInv, NEW p \in Procs, H!CheckAlias(p) PROVE HostsInv'
<1> DEFINE c == [cmd[p] EXCEPT !.step = "commit"]
<1>1. H!At(p, {"realias"}, "check")
  BY DEF H!CheckAlias
<1>2. cmd[p] # H!Idle /\ cmd[p] \in HostCmds /\ Carried(cmd[p]) /\ cmd[p].op = "realias"
  BY <1>1, Busy
<1>3. c \in HostCmds /\ c.op = "realias"
  BY <1>2 DEF HostCmds, H!OpSteps
<1>4. Carried(c) /\ CarriesOn(c, hosts', keys')
  BY <1>2, <1>3 DEF Carried, CarriesOn
<1>5. cmd' = [cmd EXCEPT ![p] = c]
  BY HostsTyped DEF H!CheckAlias, H!GoTo
<1> QED
  BY <1>2, <1>3, <1>4, <1>5, MovesOn, HostsTyped DEF H!CheckAlias

LEMMA CheckAddressKeeps == ASSUME HostsInv, NEW p \in Procs, H!CheckAddress(p) PROVE HostsInv'
<1> DEFINE to == H!GetHost(hosts, cmd[p].host).hostname
           c == [cmd[p] EXCEPT !.step = "commit", !.host = to]
<1>1. H!At(p, {"add", "drop", "primary"}, "check")
  BY DEF H!CheckAddress
<1>2. cmd[p] # H!Idle /\ cmd[p] \in HostCmds /\ Carried(cmd[p])
      /\ cmd[p].op \in {"add", "drop", "primary"}
  BY <1>1, Busy
<1>3. PICK i \in DOMAIN hosts : H!GetHost(hosts, cmd[p].host) = hosts[i]
  BY GetHostFinds, HostsTyped DEF H!CheckAddress
<1>4. to \in Addrs
  BY <1>3, HostsTyped DEF H!HostRecords
<1>5. c \in HostCmds /\ c.op = cmd[p].op /\ c.to = cmd[p].to
  BY <1>2, <1>4 DEF HostCmds, H!OpSteps
<1>6. Carried(c) /\ CarriesOn(c, hosts', keys')
  BY <1>2, <1>5 DEF Carried, CarriesOn
<1>7. cmd' = [cmd EXCEPT ![p] = c]
  BY HostsTyped DEF H!CheckAddress
<1> QED
  BY <1>2, <1>5, <1>6, <1>7, MovesOn, HostsTyped DEF H!CheckAddress

LEMMA DeleteKeysKeeps == ASSUME HostsInv, NEW p \in Procs, H!DeleteKeys(p) PROVE HostsInv'
<1>1. H!At(p, {"delete"}, "dropkeys")
  BY DEF H!DeleteKeys
<1>2. cmd[p] # H!Idle /\ cmd[p] \in HostCmds /\ cmd[p].op = "delete" /\ cmd[p].step = "dropkeys"
      /\ (~ mixed => CarriesOn(cmd[p], hosts, keys))
  BY <1>1, Busy
<1>3. hosts' = hosts /\ keys' = keys \ {cmd[p].key} /\ mixed' = mixed
      /\ begunCommands' = begunCommands /\ cmd' = [cmd EXCEPT ![p] = H!Idle]
  BY DEF H!DeleteKeys, H!Done
<1>4. cmd' \in [Procs -> HostCmds] /\ cmd'[p] = H!Idle
      /\ \A q \in Procs \ {p} : cmd'[q] = cmd[q]
  BY <1>3, HostsTyped, IdleCommand
<1>5. H!TypeOK'
  BY <1>3, <1>4, HostsTyped DEF H!TypeOK, HostCmds
<1>6. CommandsTyped'
  <2> SUFFICES ASSUME NEW q \in Procs PROVE Carried(cmd'[q])
    BY DEF CommandsTyped, Carried
  <2> QED
    BY <1>4, IdleCommand DEF HostsInv, CommandsTyped
<1>7. H!HostnameIsPrimary'
  BY <1>3 DEF HostsInv, H!HostnameIsPrimary, H!Primaries
<1>8. ASSUME ~ mixed' PROVE Identity'
  <2>1. Identity /\ CarriesOn(cmd[p], hosts, keys)
    BY <1>2, <1>3, <1>8 DEF HostsInv
  <2>2. \A q \in Procs : cmd'[q] = H!Idle
    BY <1>2, <1>4, <2>1 DEF Identity, OneRuns
  <2>3. OneRuns'
    BY <2>2 DEF OneRuns
  <2>4. ~ H!SharedHostname(hosts)' /\ H!KeyIdsDistinct'
    BY <1>3, <2>1 DEF Identity, H!SharedHostname, H!KeyIdsDistinct
  <2>5. \A i \in DOMAIN hosts' : hosts'[i].key_id \in keys'
    BY <1>2, <1>3, <2>1 DEF Identity, CarriesOn
  <2>6. \A q \in Procs : CarriesOn(cmd'[q], hosts', keys')
    BY <2>2, IdleCommand DEF CarriesOn
  <2> QED
    BY <2>3, <2>4, <2>5, <2>6 DEF Identity
<1> QED
  BY <1>5, <1>6, <1>7, <1>8 DEF HostsInv

-----------------------------------------------------------------------------
(***************************************************************************)
(* The steps that write hosts.json.  As long as nothing has overlapped all *)
(* other commands are idle, so that nobody carries what is no longer so.   *)
(***************************************************************************)
\* What has to be shown of a write: the records, and the identity of the hosts.
LEMMA Written ==
  ASSUME HostsInv, NEW p \in Procs, cmd[p] # H!Idle, NEW c \in HostCmds, Carried(c),
         cmd' = [cmd EXCEPT ![p] = c],
         hosts' \in Seq(H!HostRecords), Len(hosts') <= MaxHosts,
         \A i \in DOMAIN hosts' : NamedPrimary(hosts'[i]),
         keys' = keys, begunCommands' = begunCommands, mixed' \in BOOLEAN,
         ~ mixed' => /\ ~ mixed
                     /\ ~ H!SharedHostname(hosts')
                     /\ \A i, j \in DOMAIN hosts' : hosts'[i].key_id = hosts'[j].key_id => i = j
                     /\ \A i \in DOMAIN hosts' : hosts'[i].key_id \in keys
                     /\ CarriesOn(c, hosts', keys)
  PROVE  HostsInv'
<1>1. cmd' \in [Procs -> HostCmds] /\ cmd'[p] = c
      /\ \A q \in Procs \ {p} : cmd'[q] = cmd[q]
  BY HostsTyped
<1>2. H!TypeOK'
  BY <1>1, HostsTyped DEF H!TypeOK, HostCmds
<1>3. CommandsTyped'
  <2> SUFFICES ASSUME NEW q \in Procs PROVE Carried(cmd'[q])
    BY DEF CommandsTyped, Carried
  <2> QED
    BY <1>1 DEF HostsInv, CommandsTyped
<1>4. H!HostnameIsPrimary'
  BY DEF H!HostnameIsPrimary, NamedPrimary, H!Primaries
<1>5. ASSUME ~ mixed' PROVE Identity'
  <2>1. Identity
    BY <1>5 DEF HostsInv
  <2>2. \A q \in Procs \ {p} : cmd'[q] = H!Idle
    BY <1>1, <2>1 DEF Identity, OneRuns
  <2>3. OneRuns'
    BY <2>2 DEF OneRuns
  <2>4. ~ H!SharedHostname(hosts)' /\ H!KeyIdsDistinct'
        /\ \A i \in DOMAIN hosts' : hosts'[i].key_id \in keys'
    BY <1>5 DEF H!SharedHostname, H!KeyIdsDistinct
  <2>5. \A q \in Procs : CarriesOn(cmd'[q], hosts', keys')
    BY <1>1, <1>5, <2>2, IdleCarries
  <2> QED
    BY <2>3, <2>4, <2>5 DEF Identity
<1> QED
  BY <1>2, <1>3, <1>4, <1>5 DEF HostsInv

LEMMA PrimariesNow == ASSUME HostsInv PROVE \A i \in DOMAIN hosts : NamedPrimary(hosts[i])
BY DEF HostsInv, H!HostnameIsPrimary, NamedPrimary

LEMMA NewHostWell ==
  ASSUME NEW addr \in Addrs, NEW alias \in Aliases \cup {NoAlias}
  PROVE  /\ H!NewHost(addr, alias) \in H!HostRecords /\ NamedPrimary(H!NewHost(addr, alias))
         /\ H!NewHost(addr, alias).hostname = addr /\ H!NewHost(addr, alias).key_id = addr
<1> DEFINE entry == [address |-> addr, primary |-> TRUE]
           h == H!NewHost(addr, alias)
<1>1. <<entry>> \in Seq(H!Entries) /\ 1 \in DOMAIN <<entry>> /\ <<entry>>[1] = entry
  BY DEF H!Entries
<1>2. h.addresses = <<entry>> /\ h.hostname = addr /\ h.key_id = addr /\ h.alias = alias
  BY DEF H!NewHost
<1>3. h \in H!HostRecords
  BY <1>1 DEF H!NewHost, H!HostRecords
<1>4. 1 \in H!Primaries(h) /\ h.addresses[1].address = addr
  BY <1>1, <1>2 DEF H!Primaries
<1> QED
  BY <1>2, <1>3, <1>4 DEF NamedPrimary

LEMMA AddHostKeeps == ASSUME HostsInv, NEW p \in Procs, H!AddHost(p) PROVE HostsInv'
<1> DEFINE on == [cmd[p] EXCEPT !.step = "keypair"]
           c == IF cmd[p].op = "apply" THEN on ELSE H!Idle
           new == H!NewHost(cmd[p].to, cmd[p].alias)
<1>1. H!At(p, {"create", "apply"}, "commit")
  BY DEF H!AddHost
<1>2. cmd[p] # H!Idle /\ cmd[p] \in HostCmds /\ Carried(cmd[p]) /\ cmd[p].step = "commit"
      /\ cmd[p].op \in {"create", "apply"} /\ (~ mixed => CarriesOn(cmd[p], hosts, keys))
  BY <1>1, Busy
<1>3. on \in HostCmds /\ Carried(on)
  BY <1>2 DEF HostCmds, H!OpSteps, Carried
<1>4. c \in HostCmds /\ Carried(c) /\ (cmd[p].op = "create" => c = H!Idle)
  BY <1>2, <1>3, IdleCommand
<1>5. cmd' = [cmd EXCEPT ![p] = c]
  BY HostsTyped DEF H!AddHost, H!GoTo, H!Done
<1>6. keys' = keys /\ begunCommands' = begunCommands /\ mixed' = (mixed \/ cmd[p].op = "apply")
      /\ Len(hosts) < MaxHosts
  BY DEF H!AddHost
<1>7. ~ mixed' => ~ mixed /\ cmd[p].op = "create"
  BY <1>2, <1>6
<1>8. mixed' \in BOOLEAN
  BY <1>6, HostsTyped
<1>9. new \in H!HostRecords /\ NamedPrimary(new) /\ new.hostname = cmd[p].to
      /\ new.key_id = cmd[p].to
  <2>1. cmd[p].to \in Addrs /\ cmd[p].alias \in Aliases \cup {NoAlias}
    BY <1>2 DEF Carried, HostCmds
  <2> QED
    BY <2>1, NewHostWell
<1> HIDE DEF c, on, new
<1>10. CASE H!Named(hosts, cmd[p].to) # {}
  <2>1. hosts' = hosts
    BY <1>10 DEF H!AddHost
  <2>2. ~ mixed' => CarriesOn(c, hosts', keys')
    BY <1>4, <1>7, IdleCarries
  <2>3. c # H!Idle => mixed'
    BY <1>4, <1>7
  <2>4. begunCommands' \in 0 .. MaxHostCommands /\ keys' \subseteq Addrs
    BY <1>6, HostsTyped
  <2> QED
    BY <1>4, <1>5, <1>6, <1>7, <1>8, <2>1, <2>2, <2>3, <2>4, Walks
<1>11. CASE H!Named(hosts, cmd[p].to) = {}
  <2>1. hosts' = Append(hosts, new)
    BY <1>11 DEF H!AddHost, new
  <2>2. /\ hosts' \in Seq(H!HostRecords) /\ Len(hosts') = Len(hosts) + 1
        /\ \A i \in DOMAIN hosts : hosts'[i] = hosts[i]
        /\ hosts'[Len(hosts) + 1] = new
        /\ DOMAIN hosts' = DOMAIN hosts \cup {Len(hosts) + 1}
    BY <1>9, <2>1, HostsTyped
  <2>3. Len(hosts') <= MaxHosts
    BY <1>6, <2>2, HostsTyped, HostsAssumption DEF H!BoundsAssumption
  <2>4. \A i \in DOMAIN hosts' : NamedPrimary(hosts'[i])
    BY <1>9, <2>2, PrimariesNow
  <2>5. \A i \in DOMAIN hosts : hosts[i].hostname # new.hostname
    BY <1>9, <1>11 DEF H!Named
  <2>6. ASSUME ~ mixed'
        PROVE  /\ ~ mixed
               /\ ~ H!SharedHostname(hosts')
               /\ \A i, j \in DOMAIN hosts' : hosts'[i].key_id = hosts'[j].key_id => i = j
               /\ \A i \in DOMAIN hosts' : hosts'[i].key_id \in keys
               /\ CarriesOn(c, hosts', keys)
    <3>1. ~ mixed /\ cmd[p].op = "create" /\ c = H!Idle /\ Identity
      BY <1>4, <1>7, <2>6 DEF HostsInv
    <3>2. new.key_id \in keys /\ \A i \in DOMAIN hosts : hosts[i].key_id # new.key_id
      BY <1>2, <1>9, <3>1 DEF CarriesOn
    <3>3. ~ H!SharedHostname(hosts')
      BY <2>2, <2>5, <3>1 DEF Identity, H!SharedHostname
    <3>4. \A i, j \in DOMAIN hosts' : hosts'[i].key_id = hosts'[j].key_id => i = j
      BY <2>2, <3>1, <3>2 DEF Identity, H!KeyIdsDistinct
    <3>5. \A i \in DOMAIN hosts' : hosts'[i].key_id \in keys
      BY <2>2, <3>1, <3>2 DEF Identity
    <3> QED
      BY <1>6, <3>1, <3>3, <3>4, <3>5, IdleCarries
  <2> QED
    BY <1>2, <1>4, <1>5, <1>6, <1>8, <2>2, <2>3, <2>4, <2>6, Written
<1> QED
  BY <1>10, <1>11

LEMMA UpdateHostKeeps == ASSUME HostsInv, NEW p \in Procs, H!UpdateHost(p) PROVE HostsInv'
<1> DEFINE i == H!Least(H!Named(hosts, cmd[p].host))
           h == H!Updated(hosts[i], cmd[p])
<1>1. H!At(p, {"rerecord", "rename", "realias", "add", "drop", "primary"}, "commit")
  BY DEF H!UpdateHost
<1>2. cmd[p] # H!Idle /\ cmd[p] \in HostCmds /\ Carried(cmd[p])
      /\ cmd[p].op \in {"rerecord", "rename", "realias", "add", "drop", "primary"}
      /\ (~ mixed => CarriesOn(cmd[p], hosts, keys))
  BY <1>1, Busy
<1>3. i \in DOMAIN hosts /\ hosts[i].hostname = cmd[p].host
  <2>1. H!Named(hosts, cmd[p].host) \in SUBSET Nat
    BY HostsTyped DEF H!Named
  <2>2. i \in H!Named(hosts, cmd[p].host)
    BY <2>1, LeastIn DEF H!UpdateHost
  <2> QED
    BY <2>2 DEF H!Named
<1>4. H!Accepts(hosts[i], cmd[p]) /\ hosts' = [hosts EXCEPT ![i] = h]
      /\ cmd' = [cmd EXCEPT ![p] = H!Idle] /\ mixed' = (mixed \/ H!SharedHostname(hosts'))
      /\ keys' = keys /\ begunCommands' = begunCommands
  BY DEF H!UpdateHost, H!Done
<1>5. hosts[i] \in H!HostRecords /\ NamedPrimary(hosts[i])
  BY <1>3, HostsTyped, PrimariesNow
<1>6. UpdatedWell(hosts[i], cmd[p])
  BY <1>2, <1>4, <1>5, UpdateWell
<1> HIDE DEF i, h
<1>7. h \in H!HostRecords /\ NamedPrimary(h)
      /\ h.key_id = (IF cmd[p].op = "rerecord" THEN cmd[p].key ELSE hosts[i].key_id)
  BY <1>6 DEF UpdatedWell, h
<1>8. hosts' \in Seq(H!HostRecords) /\ Len(hosts') = Len(hosts) /\ DOMAIN hosts' = DOMAIN hosts
      /\ hosts'[i] = h /\ \A j \in DOMAIN hosts \ {i} : hosts'[j] = hosts[j]
  BY <1>3, <1>4, <1>7, HostsTyped
<1>9. \A j \in DOMAIN hosts' : NamedPrimary(hosts'[j])
  BY <1>7, <1>8, PrimariesNow
<1>10. mixed' \in BOOLEAN
  BY <1>4, HostsTyped DEF H!SharedHostname
<1>11. ASSUME ~ mixed'
       PROVE  /\ ~ mixed
              /\ ~ H!SharedHostname(hosts')
              /\ \A j, k \in DOMAIN hosts' : hosts'[j].key_id = hosts'[k].key_id => j = k
              /\ \A j \in DOMAIN hosts' : hosts'[j].key_id \in keys
              /\ CarriesOn(H!Idle, hosts', keys)
  <2>1. ~ mixed /\ ~ H!SharedHostname(hosts') /\ Identity
    BY <1>4, <1>11 DEF HostsInv
  <2>2. h.key_id = hosts[i].key_id
    BY <1>2, <1>3, <1>7, <2>1 DEF CarriesOn
  <2>3. \A j \in DOMAIN hosts : hosts'[j].key_id = hosts[j].key_id
    BY <1>8, <2>2
  <2>4. \A j, k \in DOMAIN hosts' : hosts'[j].key_id = hosts'[k].key_id => j = k
    BY <1>8, <2>1, <2>3 DEF Identity, H!KeyIdsDistinct
  <2>5. \A j \in DOMAIN hosts' : hosts'[j].key_id \in keys
    BY <1>8, <2>1, <2>3 DEF Identity
  <2> QED
    BY <1>4, <2>1, <2>4, <2>5, IdleCarries
<1>12. Len(hosts') <= MaxHosts
  BY <1>8, HostsTyped
<1> QED
  BY <1>2, <1>4, <1>8, <1>9, <1>10, <1>11, <1>12, IdleCommand, Written

\* What is left of a sequence when the others go: the same records, each once.
LEMMA LeftTyped ==
  ASSUME NEW hs \in Seq(H!HostRecords), NEW S \in SUBSET (DOMAIN hs), NEW left \in H!InOrder(S)
  PROVE  /\ [j \in DOMAIN left |-> hs[left[j]]] \in Seq(H!HostRecords)
         /\ Len([j \in DOMAIN left |-> hs[left[j]]]) <= MaxHosts
         /\ \A j \in DOMAIN left : left[j] \in S
         /\ \A j, k \in DOMAIN left : left[j] = left[k] => j = k
<1> DEFINE new == [j \in DOMAIN left |-> hs[left[j]]]
<1>1. DOMAIN hs \subseteq Nat /\ \A i \in DOMAIN hs : hs[i] \in H!HostRecords
  OBVIOUS
<1>2. PICK n \in 0 .. MaxHosts : left \in [1 .. n -> S]
  BY DEF H!InOrder
<1>3. n \in Nat /\ n <= MaxHosts /\ DOMAIN left = 1 .. n
  BY <1>2, HostsAssumption DEF H!BoundsAssumption
<1>4. \A j, k \in 1 .. n : j < k => left[j] < left[k]
  BY <1>3 DEF H!InOrder
<1>5. \A j \in 1 .. n : left[j] \in S /\ left[j] \in Nat
  BY <1>1, <1>2
<1>6. \A j \in 1 .. n : hs[left[j]] \in H!HostRecords
  BY <1>1, <1>5
<1>7. new = [j \in 1 .. n |-> hs[left[j]]]
  BY <1>3
<1>8. new \in [1 .. n -> H!HostRecords]
  BY <1>6, <1>7
<1>9. new \in Seq(H!HostRecords)
  BY <1>3, <1>8, IsASeq
<1>10. Len(new) = n
  BY <1>3, <1>7, <1>9
<1>11. \A j, k \in 1 .. n : left[j] = left[k] => j = k
  BY <1>3, <1>4, <1>5
<1> QED
  BY <1>3, <1>5, <1>9, <1>10, <1>11

LEMMA RemoveHostKeeps == ASSUME HostsInv, NEW p \in Procs, H!RemoveHost(p) PROVE HostsInv'
<1> DEFINE c == [cmd[p] EXCEPT !.step = "dropkeys"]
           S == DOMAIN hosts \ H!Named(hosts, cmd[p].host)
<1>1. H!At(p, {"delete"}, "commit")
  BY DEF H!RemoveHost
<1>2. cmd[p] # H!Idle /\ cmd[p] \in HostCmds /\ Carried(cmd[p]) /\ cmd[p].op = "delete"
      /\ cmd[p].step = "commit" /\ (~ mixed => CarriesOn(cmd[p], hosts, keys))
  BY <1>1, Busy
<1>3. c \in HostCmds /\ c.op = "delete" /\ c.step = "dropkeys" /\ c.key = cmd[p].key
      /\ Carried(c)
  BY <1>2 DEF HostCmds, H!OpSteps, Carried
<1>4. cmd' = [cmd EXCEPT ![p] = c] /\ keys' = keys /\ mixed' = mixed
      /\ begunCommands' = begunCommands /\ H!Named(hosts, cmd[p].host) # {}
  BY HostsTyped DEF H!RemoveHost, H!GoTo
<1>5. PICK left \in H!InOrder(S) : hosts' = [j \in DOMAIN left |-> hosts[left[j]]]
  BY DEF H!RemoveHost
<1>6. hosts' \in Seq(H!HostRecords) /\ Len(hosts') <= MaxHosts
      /\ (\A j \in DOMAIN left : left[j] \in S)
      /\ (\A j, k \in DOMAIN left : left[j] = left[k] => j = k)
  <2>1. hosts \in Seq(H!HostRecords) /\ S \in SUBSET (DOMAIN hosts)
    BY HostsTyped
  <2> HIDE DEF S
  <2> QED
    BY <1>5, <2>1, LeftTyped
<1>7. DOMAIN hosts' = DOMAIN left /\ \A j \in DOMAIN left : hosts'[j] = hosts[left[j]]
  BY <1>5
<1>8. \A j \in DOMAIN left : left[j] \in DOMAIN hosts /\ hosts[left[j]].hostname # cmd[p].host
  BY <1>6 DEF H!Named
<1> HIDE DEF c, S
<1>9. \A j \in DOMAIN hosts' : NamedPrimary(hosts'[j])
  BY <1>7, <1>8, PrimariesNow
<1>10. mixed' \in BOOLEAN
  BY <1>4, HostsTyped
<1>11. ASSUME ~ mixed'
       PROVE  /\ ~ mixed
              /\ ~ H!SharedHostname(hosts')
              /\ \A j, k \in DOMAIN hosts' : hosts'[j].key_id = hosts'[k].key_id => j = k
              /\ \A j \in DOMAIN hosts' : hosts'[j].key_id \in keys
              /\ CarriesOn(c, hosts', keys)
  <2>1. ~ mixed /\ Identity
    BY <1>4, <1>11 DEF HostsInv
  <2>2. ~ H!SharedHostname(hosts')
    BY <1>6, <1>7, <1>8, <2>1 DEF Identity, H!SharedHostname
  <2>3. \A j, k \in DOMAIN hosts' : hosts'[j].key_id = hosts'[k].key_id => j = k
    BY <1>6, <1>7, <1>8, <2>1 DEF Identity, H!KeyIdsDistinct
  <2>4. \A j \in DOMAIN hosts' : hosts'[j].key_id \in keys
    BY <1>7, <1>8, <2>1 DEF Identity
  <2>5. PICK i \in DOMAIN hosts : hosts[i].hostname = cmd[p].host
    BY <1>4 DEF H!Named
  <2>6. hosts[i].key_id = cmd[p].key
    BY <1>2, <2>1, <2>5 DEF CarriesOn
  <2>7. \A j \in DOMAIN hosts' : hosts'[j].key_id # c.key
    BY <1>3, <1>7, <1>8, <2>1, <2>5, <2>6 DEF Identity, H!KeyIdsDistinct
  <2>8. CarriesOn(c, hosts', keys)
    BY <1>3, <2>7 DEF CarriesOn
  <2> QED
    BY <2>1, <2>2, <2>3, <2>4, <2>8
<1> QED
  BY <1>2, <1>3, <1>4, <1>6, <1>9, <1>10, <1>11, Written

-----------------------------------------------------------------------------
LEMMA HostsStart == ASSUME H!Init \/ AfterCreate PROVE HostsInv
<1>1. cmd = [p \in Procs |-> H!Idle] /\ mixed = FALSE /\ begunCommands = 0
  BY DEF H!Init, AfterCreate
<1>4. cmd \in [Procs -> HostCmds] /\ mixed \in BOOLEAN /\ begunCommands \in 0 .. MaxHostCommands
      /\ 1 <= MaxHosts /\ 0 <= MaxHosts
  <2>1. MaxHosts \in Nat \ {0} /\ MaxHostCommands \in Nat
    BY HostsAssumption DEF H!BoundsAssumption
  <2>2. cmd \in [Procs -> HostCmds]
    BY <1>1, IdleCommand
  <2>3. begunCommands \in 0 .. MaxHostCommands /\ 1 <= MaxHosts /\ 0 <= MaxHosts
    BY <1>1, <2>1
  <2>4. mixed \in BOOLEAN
    BY <1>1
  <2> QED
    BY <2>2, <2>3, <2>4
<1>2. CASE H!Init
  <2>1. hosts = <<>> /\ keys = {}
    BY <1>2 DEF H!Init
  <2>2. H!TypeOK
    <3>1. hosts \in Seq(H!HostRecords) /\ Len(hosts) = 0
      BY <2>1
    <3> QED
      BY <1>4, <2>1, <3>1 DEF H!TypeOK, HostCmds
  <2>3. CommandsTyped
    BY <1>1, IdleCommand DEF CommandsTyped
  <2>4. DOMAIN hosts = {}
    BY <2>1
  <2>5. OneRuns /\ \A p \in Procs : CarriesOn(cmd[p], hosts, keys)
    BY <1>1, IdleCommand DEF OneRuns, CarriesOn
  <2> QED
    BY <2>2, <2>3, <2>4, <2>5 DEF HostsInv, H!HostnameIsPrimary, Identity, H!SharedHostname,
       H!KeyIdsDistinct
<1>3. CASE AfterCreate
  <2>1. PICK addr \in Addrs, alias \in Aliases \cup {NoAlias} :
          hosts = <<H!NewHost(addr, alias)>> /\ keys = {addr}
    BY <1>3 DEF AfterCreate
  <2>2. H!NewHost(addr, alias) \in H!HostRecords /\ NamedPrimary(H!NewHost(addr, alias))
        /\ H!NewHost(addr, alias).key_id = addr
    BY NewHostWell
  <2>3. hosts \in Seq(H!HostRecords) /\ Len(hosts) = 1 /\ DOMAIN hosts = {1}
        /\ hosts[1] = H!NewHost(addr, alias)
    BY <2>1, <2>2
  <2>4. H!TypeOK
    BY <1>4, <2>1, <2>3 DEF H!TypeOK, HostCmds
  <2>5. CommandsTyped
    BY <1>1, IdleCommand DEF CommandsTyped
  <2>6. OneRuns /\ \A p \in Procs : CarriesOn(cmd[p], hosts, keys)
    BY <1>1, IdleCommand DEF OneRuns, CarriesOn
  <2>7. H!HostnameIsPrimary
    BY <2>2, <2>3 DEF H!HostnameIsPrimary, NamedPrimary
  <2>8. ~ H!SharedHostname(hosts) /\ H!KeyIdsDistinct
    BY <2>3 DEF H!SharedHostname, H!KeyIdsDistinct
  <2>9. \A i \in DOMAIN hosts : hosts[i].key_id \in keys
    BY <2>1, <2>2, <2>3
  <2> QED
    BY <2>4, <2>5, <2>6, <2>7, <2>8, <2>9 DEF HostsInv, Identity
<1> QED
  BY <1>2, <1>3

\* Every step of a command on hosts keeps the invariant.
LEMMA HostsStep == ASSUME HostsInv, H!Next PROVE HostsInv'
<1> PICK p \in Procs :
      \/ \E addr \in Addrs, alias \in Aliases \cup {NoAlias} :
           H!CreateNew(p, addr, alias) \/ H!ApplyDiff(p, addr, alias)
      \/ \E addr \in Addrs, alias \in Aliases : H!CreateAgain(p, addr, alias)
      \/ \E op \in {"rename", "add", "drop", "primary"}, name \in H!LookupNames, addr \in Addrs :
           H!FindHost(p, op, name, addr, NoAlias)
      \/ \E name \in H!LookupNames, alias \in Aliases : H!FindHost(p, "realias", name, Null, alias)
      \/ \E name \in H!LookupNames : H!FindHost(p, "delete", name, Null, NoAlias)
      \/ H!EnsureKeypair(p) \/ H!AddHost(p) \/ H!ApplyKeypair(p)
      \/ H!CheckRename(p) \/ H!CheckAlias(p) \/ H!CheckAddress(p)
      \/ H!UpdateHost(p) \/ H!RemoveHost(p) \/ H!DeleteKeys(p)
      \/ H!Stop(p)
  BY DEF H!Next
<1>1. CASE \E addr \in Addrs, alias \in Aliases \cup {NoAlias} :
             H!CreateNew(p, addr, alias) \/ H!ApplyDiff(p, addr, alias)
  BY <1>1, CreateNewKeeps, ApplyDiffKeeps
<1>2. CASE \E addr \in Addrs, alias \in Aliases : H!CreateAgain(p, addr, alias)
  BY <1>2, CreateAgainKeeps
<1>3. CASE \E op \in {"rename", "add", "drop", "primary"}, name \in H!LookupNames, addr \in Addrs :
             H!FindHost(p, op, name, addr, NoAlias)
  <2>1. PICK op \in {"rename", "add", "drop", "primary"}, name \in H!LookupNames, addr \in Addrs :
          H!FindHost(p, op, name, addr, NoAlias)
    BY <1>3
  <2> QED
    BY <2>1, FindHostKeeps
<1>4. CASE \E name \in H!LookupNames, alias \in Aliases :
             H!FindHost(p, "realias", name, Null, alias)
  BY <1>4, FindHostKeeps
<1>5. CASE \E name \in H!LookupNames : H!FindHost(p, "delete", name, Null, NoAlias)
  BY <1>5, FindHostKeeps
<1> QED
  BY <1>1, <1>2, <1>3, <1>4, <1>5, EnsureKeypairKeeps, AddHostKeeps, ApplyKeypairKeeps,
     CheckRenameKeeps, CheckAliasKeeps, CheckAddressKeeps, UpdateHostKeeps, RemoveHostKeeps,
     DeleteKeysKeeps, StopKeeps

LEMMA HostsStutter == ASSUME HostsInv, UNCHANGED hostVars PROVE HostsInv'
<1>1. hosts' = hosts /\ keys' = keys /\ cmd' = cmd /\ mixed' = mixed
      /\ begunCommands' = begunCommands
  BY DEF hostVars
<1> QED
  BY <1>1 DEF HostsInv, H!TypeOK, CommandsTyped, H!HostnameIsPrimary, H!Primaries, Identity,
     OneRuns, H!KeyIdsDistinct

\* The inductive invariant of the commands on hosts, in the run that composes both parts.
THEOREM HostsInvariance == MCSpec => [](focus = "hosts" => HostsInv)
<1>1. MCInit => (focus = "hosts" => HostsInv)
  BY HostsStart DEF MCInit
<1>2. (focus = "hosts" => HostsInv) /\ [MCNext]_all => (focus = "hosts" => HostsInv)'
  <2> SUFFICES ASSUME focus = "hosts" => HostsInv, [MCNext]_all, focus' = "hosts"
               PROVE  HostsInv'
    OBVIOUS
  <2>1. focus = "hosts" /\ HostsInv
    BY DEF MCNext, all
  <2>2. CASE MCNext
    BY <2>1, <2>2, HostsStep DEF MCNext
  <2>3. CASE UNCHANGED all
    BY <2>1, <2>3, HostsStutter DEF all
  <2> QED
    BY <2>2, <2>3
<1> QED
  BY <1>1, <1>2, PTL DEF MCSpec

\* However renames, re-records, additions, removals and set-primary interleave, the hostname
\* of every host is a primary address it has.
THEOREM PrimaryStays == MCSpec => []HostnameIsPrimary
<1>1. (focus = "hosts" => HostsInv) => HostnameIsPrimary
  BY DEF HostsInv, HostnameIsPrimary
<1> QED
  BY <1>1, HostsInvariance, PTL

\* Hosts that are registered, renamed, re-addressed and deleted by one command at a time never
\* share a key_id, and have their keypairs.
THEOREM IdentityStays == MCSpec => []SequentialIdentity
<1>1. (focus = "hosts" => HostsInv) => SequentialIdentity
  BY DEF HostsInv, Identity, SequentialIdentity, H!SequentialIdentity, H!SequentialKeyIds,
     H!SequentialKeys
<1> QED
  BY <1>1, HostsInvariance, PTL
=============================================================================
