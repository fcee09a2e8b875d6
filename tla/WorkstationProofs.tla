---------------------------- MODULE WorkstationProofs ----------------------------
(***************************************************************************)
(* Proofs about the parts that keep files of their own on the workstation, *)
(* in the composition of MCWorkstation: Server, Tunnel, Manifest, Skills.  *)
(***************************************************************************)
EXTENDS MCWorkstation, TLAPS

(***************************************************************************)
(* Server.  That a server is known when no command runs is not inductive:  *)
(* while one runs, it has to be said at each of its steps which processes  *)
(* can be servers (ServerAt).  A server that is known must also have the   *)
(* port: Probe takes one without it for a process that has inherited its   *)
(* number, and Clear forgets it.                                           *)
(***************************************************************************)
\* No other process than i is a server.
Only(i) == \A j \in Pids : sProc[j] \in S!Servers => j = i
AllServing == \A j \in Pids : sProc[j] \in S!Servers => sProc[j] = "serving"
Recorded == Only(sFile) /\ AllServing

ServerAt(p) ==
  /\ sPc[p] \in {"read", "probe"} => Recorded
  /\ sPc[p] = "probe" => sSeen[p] = sFile
  /\ sPc[p] \in {"clear", "port", "spawn"} => Only(0)
  /\ sPc[p] \in {"spawn", "wait"} => ~ sForeign
  /\ sPc[p] \in {"wait", "kill", "confirm", "record"} => Only(sChild[p])
  /\ sPc[p] \in {"confirm", "record"} => AllServing
  /\ sPc[p] \in {"term", "await"} =>
       /\ Only(sSeen[p])
       /\ ~ sMet => \A j \in Pids : j = sSeen[p] => sProc[j] # "other"

ServerInv ==
  /\ S!TypeOK
  /\ sForeign => sMet
  /\ S!RightTarget
  /\ sCalm =>
       /\ \A p, q \in Procs : sPc[p] # "idle" /\ sPc[q] # "idle" => p = q
       /\ \A p \in Procs : ServerAt(p)
       /\ (\A p \in Procs : sPc[p] = "idle") => Recorded

\* What has to be shown of a step of the command p: its next step is s.
LEMMA ServerMoves ==
  ASSUME ServerInv, NEW p \in Procs, NEW s \in S!Steps, S!TypeOK',
         sPc' = [sPc EXCEPT ![p] = s],
         sPc[p] # "idle" \/ (sCalm' => S!Running = {}),
         (sForeign => sMet)', S!RightTarget', sCalm' => sCalm,
         sCalm' => IF s = "idle" THEN Recorded' ELSE ServerAt(p)'
  PROVE  ServerInv'
<1> SUFFICES ASSUME sCalm'
             PROVE  /\ \A q, r \in Procs : sPc'[q] # "idle" /\ sPc'[r] # "idle" => q = r
                    /\ \A q \in Procs : ServerAt(q)'
                    /\ (\A q \in Procs : sPc'[q] = "idle") => Recorded'
  BY DEF ServerInv
<1>1. sPc \in [Procs -> S!Steps]
  BY DEF ServerInv, S!TypeOK
<1>2. sPc'[p] = s /\ \A q \in Procs \ {p} : sPc'[q] = sPc[q]
  BY <1>1
<1>3. \A q \in Procs \ {p} : sPc[q] = "idle"
  BY DEF ServerInv, S!Running
<1>4. \A q \in Procs \ {p} : ServerAt(q)'
  BY <1>2, <1>3 DEF ServerAt
<1>5. ServerAt(p)'
  BY <1>2 DEF ServerAt
<1> QED
  BY <1>2, <1>3, <1>4, <1>5

LEMMA ServerTyped ==
  ASSUME ServerInv
  PROVE  /\ sFile \in Pids \cup {0}
         /\ sProc \in [Pids -> S!Servers \cup {"free", "other"}]
         /\ \A i, j \in Pids : sProc[i] = "serving" /\ sProc[j] = "serving" => i = j /\ ~ sForeign
         /\ sPc \in [Procs -> S!Steps] /\ sOp \in [Procs -> {"start", "stop", "status"}]
         /\ sSeen \in [Procs -> Pids \cup {0}] /\ sChild \in [Procs -> Pids \cup {0}]
         /\ sForeign \in BOOLEAN /\ sCalm \in BOOLEAN /\ sMet \in BOOLEAN /\ sWrong \in BOOLEAN
         /\ sCommands \in 0 .. MaxServerCommands
         /\ 0 \notin Pids /\ MaxServerCommands \in Nat
BY WorkstationAssumption DEF ServerInv, S!TypeOK, S!ServerAssumption, S!NoPid

\* What the parts of the type invariant say of the next state.
LEMMA ServerTypes ==
  ASSUME sFile' \in Pids \cup {0}, sProc' \in [Pids -> S!Servers \cup {"free", "other"}],
         \A i, j \in Pids : sProc'[i] = "serving" /\ sProc'[j] = "serving" => i = j /\ ~ sForeign',
         sPc' \in [Procs -> S!Steps], sOp' \in [Procs -> {"start", "stop", "status"}],
         sSeen' \in [Procs -> Pids \cup {0}], sChild' \in [Procs -> Pids \cup {0}],
         sForeign' \in BOOLEAN, sCalm' \in BOOLEAN, sMet' \in BOOLEAN, sWrong' \in BOOLEAN,
         sCommands' \in 0 .. MaxServerCommands
  PROVE  S!TypeOK'
<1>1. \A i, j \in Pids : {sProc'[i], sProc'[j]} = {"serving"} => i = j /\ ~ sForeign'
  OBVIOUS
<1> QED
  BY <1>1 DEF S!TypeOK, S!NoPid

LEMMA ServerBegins ==
  ASSUME ServerInv, NEW p \in Procs, NEW o \in {"start", "stop", "status"}, S!Begin(p, o)
  PROVE  ServerInv'
<1>1. sPc' = [sPc EXCEPT ![p] = "read"] /\ "read" \in S!Steps /\ "read" # "idle"
      /\ sOp' = [sOp EXCEPT ![p] = o] /\ sSeen' = [sSeen EXCEPT ![p] = 0]
      /\ sChild' = [sChild EXCEPT ![p] = 0] /\ sCommands' = sCommands + 1
      /\ sCommands < MaxServerCommands
      /\ sFile' = sFile /\ sProc' = sProc /\ sForeign' = sForeign /\ sMet' = sMet
      /\ sWrong' = sWrong
  BY DEF S!Begin, S!Go, S!Steps, S!NoPid
<1>2. sCalm' \in BOOLEAN /\ (sCalm' => sCalm /\ S!Running = {})
  BY ServerTyped DEF S!Begin
<1>3. S!TypeOK'
  <2>1. sPc' \in [Procs -> S!Steps] /\ sOp' \in [Procs -> {"start", "stop", "status"}]
        /\ sSeen' \in [Procs -> Pids \cup {0}] /\ sChild' \in [Procs -> Pids \cup {0}]
    BY <1>1, ServerTyped
  <2>2. sCommands' \in 0 .. MaxServerCommands
    BY <1>1, ServerTyped
  <2> QED
    BY <1>1, <1>2, <2>1, <2>2, ServerTyped, ServerTypes
<1>4. (sForeign => sMet)' /\ S!RightTarget'
  BY <1>1, <1>2 DEF ServerInv, S!RightTarget
<1>5. ASSUME sCalm' PROVE ServerAt(p)'
  <2>1. Recorded
    BY <1>2, <1>5 DEF ServerInv, S!Running
  <2>2. Recorded'
    BY <1>1, <2>1 DEF Recorded, Only, AllServing
  <2>3. sPc'[p] = "read"
    BY <1>1, ServerTyped
  <2> QED
    BY <2>2, <2>3 DEF ServerAt
<1> QED
  BY <1>1, <1>2, <1>3, <1>4, <1>5, ServerMoves

\* The frame of the steps of a command: the history stays, but for `wrong`.
LEMMA ServerFrame ==
  ASSUME ServerInv, NEW p \in Procs, NEW s \in S!Steps, sPc' = [sPc EXCEPT ![p] = s],
         sPc[p] # "idle", S!History, sFile' \in Pids \cup {0},
         sProc' \in [Pids -> S!Servers \cup {"free", "other"}],
         \A i \in Pids : sProc'[i] = "serving" => sProc[i] = "serving",
         sSeen' \in [Procs -> Pids \cup {0}], sChild' \in [Procs -> Pids \cup {0}],
         sWrong' \in BOOLEAN, sCalm /\ ~ sMet => sWrong' = sWrong,
         sCalm => IF s = "idle" THEN Recorded' ELSE ServerAt(p)'
  PROVE  ServerInv'
<1>1. sForeign' = sForeign /\ sOp' = sOp /\ sCalm' = sCalm /\ sMet' = sMet
      /\ sCommands' = sCommands
  BY DEF S!History
<1>2. sPc' \in [Procs -> S!Steps]
  BY ServerTyped
<1>3. \A i, j \in Pids : sProc'[i] = "serving" /\ sProc'[j] = "serving" => i = j /\ ~ sForeign'
  BY <1>1, ServerTyped
<1>4. S!TypeOK'
  BY <1>1, <1>2, <1>3, ServerTyped, ServerTypes
<1>5. (sForeign => sMet)' /\ S!RightTarget'
  BY <1>1 DEF ServerInv, S!RightTarget
<1> QED
  BY <1>1, <1>4, <1>5, ServerMoves

LEMMA ServerReads == ASSUME ServerInv, NEW p \in Procs, S!Read(p) PROVE ServerInv'
<1>1. sPc[p] = "read" /\ sSeen' = [sSeen EXCEPT ![p] = sFile] /\ S!History
      /\ sFile' = sFile /\ sProc' = sProc /\ sChild' = sChild /\ sWrong' = sWrong
  BY DEF S!Read, S!At
<1>2. PICK s \in {"probe", "port", "idle"} :
        sPc' = [sPc EXCEPT ![p] = s] /\ (s = "probe" <=> sFile # 0)
  <2>1. CASE sFile # 0
    BY <2>1 DEF S!Read, S!Go, S!NoPid
  <2>2. CASE sFile = 0 /\ sOp[p] = "start"
    BY <2>2 DEF S!Read, S!Go, S!NoPid
  <2>3. CASE sFile = 0 /\ sOp[p] # "start"
    BY <2>3 DEF S!Read, S!Go, S!Done, S!NoPid
  <2> QED
    BY <2>1, <2>2, <2>3
<1>3. ASSUME sCalm PROVE IF s = "idle" THEN Recorded' ELSE ServerAt(p)'
  <2>1. Recorded
    BY <1>1, <1>3 DEF ServerInv, ServerAt
  <2>2. Recorded'
    BY <1>1, <2>1 DEF Recorded, Only, AllServing
  <2>3. s # "probe" => Only(0)'
    BY <1>1, <1>2, <2>1 DEF Recorded, Only
  <2>4. sPc'[p] = s /\ sSeen'[p] = sFile'
    BY <1>1, <1>2, ServerTyped
  <2> QED
    BY <1>2, <2>2, <2>3, <2>4 DEF ServerAt
<1>4. s \in S!Steps /\ sSeen' \in [Procs -> Pids \cup {0}]
  BY <1>1, <1>2, ServerTyped DEF S!Steps
<1> QED
  BY <1>1, <1>2, <1>3, <1>4, ServerTyped, ServerFrame

LEMMA ServerProbes == ASSUME ServerInv, NEW p \in Procs, S!Probe(p) PROVE ServerInv'
<1>1. sPc[p] = "probe" /\ S!History /\ sFile' = sFile /\ sProc' = sProc /\ sSeen' = sSeen
      /\ sChild' = sChild /\ sWrong' = sWrong
  BY DEF S!Probe, S!At
<1>2. PICK s \in {"clear", "term", "idle"} :
        sPc' = [sPc EXCEPT ![p] = s] /\ (s = "clear" <=> ~ S!IsServer(p))
  <2>1. CASE ~ S!IsServer(p)
    BY <2>1 DEF S!Probe, S!Go
  <2>2. CASE S!IsServer(p) /\ sOp[p] = "stop"
    BY <2>2 DEF S!Probe, S!Go
  <2>3. CASE S!IsServer(p) /\ sOp[p] # "stop"
    BY <2>3 DEF S!Probe, S!Go, S!Done
  <2> QED
    BY <2>1, <2>2, <2>3
<1>3. ASSUME sCalm PROVE IF s = "idle" THEN Recorded' ELSE ServerAt(p)'
  <2>1. Recorded /\ sSeen[p] = sFile
    BY <1>1, <1>3 DEF ServerInv, ServerAt
  <2>2. Recorded'
    BY <1>1, <2>1 DEF Recorded, Only, AllServing
  <2>3. sPc'[p] = s
    BY <1>2, ServerTyped
  <2>4. CASE s = "clear"
    <3>1. ~ S!Alive(sFile) \/ ~ S!Accepting
      BY <1>2, <2>1, <2>4 DEF S!IsServer
    <3>2. Only(0)'
      BY <1>1, <2>1, <3>1 DEF Recorded, Only, AllServing, S!Alive, S!Accepting, S!Servers
    <3> QED
      BY <2>3, <2>4, <3>2 DEF ServerAt
  <2>5. CASE s = "term"
    <3>1. S!Alive(sFile) /\ S!Accepting
      BY <1>2, <2>1, <2>5 DEF S!IsServer
    <3>2. Only(sSeen[p])'
      BY <1>1, <2>1 DEF Recorded, Only
    <3>3. ~ sMet => \A j \in Pids : j = sSeen[p] => sProc[j] # "other"
      <4>1. ~ sMet => \E i \in Pids : sProc[i] = "serving"
        BY <3>1 DEF ServerInv, S!Accepting
      <4> QED
        BY <2>1, <4>1 DEF Recorded, Only, S!Servers
    <3>4. (~ sMet => \A j \in Pids : j = sSeen[p] => sProc[j] # "other")'
      BY <1>1, <3>3 DEF S!History
    <3> QED
      BY <2>3, <2>5, <3>2, <3>4 DEF ServerAt
  <2> QED
    BY <1>2, <2>2, <2>4, <2>5
<1>4. s \in S!Steps
  BY <1>2 DEF S!Steps
<1> QED
  BY <1>1, <1>2, <1>3, <1>4, ServerTyped, ServerFrame

LEMMA ServerClears == ASSUME ServerInv, NEW p \in Procs, S!Clear(p) PROVE ServerInv'
<1>1. sPc[p] = "clear" /\ S!History /\ sFile' = 0 /\ sProc' = sProc /\ sSeen' = sSeen
      /\ sChild' = sChild /\ sWrong' = sWrong
  BY DEF S!Clear, S!At, S!NoPid
<1>2. PICK s \in {"port", "idle"} : sPc' = [sPc EXCEPT ![p] = s]
  BY DEF S!Clear, S!Go, S!Done
<1>3. ASSUME sCalm PROVE IF s = "idle" THEN Recorded' ELSE ServerAt(p)'
  <2>1. Only(0)
    BY <1>1, <1>3 DEF ServerInv, ServerAt
  <2>2. Only(0)' /\ Recorded'
    BY <1>1, <2>1, ServerTyped DEF Recorded, Only, AllServing
  <2>3. sPc'[p] = s
    BY <1>2, ServerTyped
  <2> QED
    BY <1>2, <2>2, <2>3 DEF ServerAt
<1>4. s \in S!Steps
  BY <1>2 DEF S!Steps
<1> QED
  BY <1>1, <1>2, <1>3, <1>4, ServerTyped, ServerFrame

LEMMA ServerLooks == ASSUME ServerInv, NEW p \in Procs, S!Port(p) PROVE ServerInv'
<1>1. sPc[p] = "port" /\ S!History /\ sFile' = sFile /\ sProc' = sProc /\ sSeen' = sSeen
      /\ sChild' = sChild /\ sWrong' = sWrong
  BY DEF S!Port, S!At
<1>2. PICK s \in {"spawn", "idle"} :
        sPc' = [sPc EXCEPT ![p] = s] /\ (s = "spawn" => ~ S!Accepting)
  BY DEF S!Port, S!Go, S!Done
<1>3. ASSUME sCalm PROVE IF s = "idle" THEN Recorded' ELSE ServerAt(p)'
  <2>1. Only(0)
    BY <1>1, <1>3 DEF ServerInv, ServerAt
  <2>2. Only(0)' /\ Recorded'
    BY <1>1, <2>1, ServerTyped DEF Recorded, Only, AllServing
  <2>3. sPc'[p] = s
    BY <1>2, ServerTyped
  <2>4. s = "spawn" => ~ sForeign'
    BY <1>1, <1>2 DEF S!Accepting, S!History
  <2> QED
    BY <1>2, <2>2, <2>3, <2>4 DEF ServerAt
<1>4. s \in S!Steps
  BY <1>2 DEF S!Steps
<1> QED
  BY <1>1, <1>2, <1>3, <1>4, ServerTyped, ServerFrame

LEMMA ServerSpawns == ASSUME ServerInv, NEW p \in Procs, S!Spawn(p) PROVE ServerInv'
<1>1. sPc[p] = "spawn" /\ S!History /\ sFile' = sFile /\ sSeen' = sSeen /\ sWrong' = sWrong
  BY DEF S!Spawn, S!At
<1>2. sCalm => Only(0) /\ ~ sForeign
  BY <1>1 DEF ServerInv, ServerAt
<1>3. CASE sProc' = sProc /\ sChild' = sChild /\ sPc' = [sPc EXCEPT ![p] = "idle"]
  <2>1. sCalm => Recorded'
    BY <1>1, <1>2, <1>3, ServerTyped DEF Recorded, Only, AllServing
  <2>2. "idle" \in S!Steps
    BY DEF S!Steps
  <2> QED
    BY <1>1, <1>3, <2>1, <2>2, ServerTyped, ServerFrame
<1>4. ASSUME NEW i \in Pids, sProc[i] = "free", sProc' = [sProc EXCEPT ![i] = "booting"],
             sChild' = [sChild EXCEPT ![p] = i], sPc' = [sPc EXCEPT ![p] = "wait"]
      PROVE  ServerInv'
  <2>1. sPc'[p] = "wait" /\ sChild'[p] = i /\ sChild' \in [Procs -> Pids \cup {0}]
    BY <1>4, ServerTyped
  <2>2. sProc' \in [Pids -> S!Servers \cup {"free", "other"}]
        /\ \A j \in Pids : sProc'[j] = IF j = i THEN "booting" ELSE sProc[j]
    BY <1>4, ServerTyped DEF S!Servers
  <2>3. sCalm => ServerAt(p)'
    <3>1. sCalm => Only(sChild[p])'
      BY <1>2, <2>1, <2>2, ServerTyped DEF Only
    <3>2. sForeign' = sForeign
      BY <1>1 DEF S!History
    <3> QED
      BY <1>2, <2>1, <3>1, <3>2 DEF ServerAt
  <2>4. "wait" \in S!Steps /\ "wait" # "idle" /\ "booting" # "serving"
    BY DEF S!Steps
  <2> QED
    BY <1>1, <1>4, <2>1, <2>2, <2>3, <2>4, ServerTyped, ServerFrame
<1> QED
  BY <1>3, <1>4 DEF S!Spawn, S!Go, S!Done

LEMMA ServerWaits == ASSUME ServerInv, NEW p \in Procs, S!Wait(p) PROVE ServerInv'
<1>1. sPc[p] = "wait" /\ S!History /\ sFile' = sFile /\ sProc' = sProc /\ sSeen' = sSeen
      /\ sChild' = sChild /\ sWrong' = sWrong
  BY DEF S!Wait, S!At
<1>2. PICK s \in {"confirm", "kill", "idle"} :
        /\ sPc' = [sPc EXCEPT ![p] = s]
        /\ s = "idle" => ~ S!Alive(sChild[p])
        /\ s = "confirm" => S!Accepting
  BY DEF S!Wait, S!Go, S!Done
<1>3. ASSUME sCalm PROVE IF s = "idle" THEN Recorded' ELSE ServerAt(p)'
  <2>1. Only(sChild[p]) /\ ~ sForeign
    BY <1>1, <1>3 DEF ServerInv, ServerAt
  <2>2. sPc'[p] = s
    BY <1>2, ServerTyped
  <2>3. Only(sChild[p])'
    BY <1>1, <2>1 DEF Only
  <2>4. s = "idle" => Recorded'
    BY <1>1, <1>2, <2>1 DEF Recorded, Only, AllServing, S!Alive, S!Servers
  <2>5. s = "confirm" => AllServing'
    BY <1>1, <1>2, <2>1 DEF Only, AllServing, S!Accepting, S!Servers
  <2> QED
    BY <1>2, <2>2, <2>3, <2>4, <2>5 DEF ServerAt
<1>4. s \in S!Steps
  BY <1>2 DEF S!Steps
<1> QED
  BY <1>1, <1>2, <1>3, <1>4, ServerTyped, ServerFrame

LEMMA ServerEnded ==
  ASSUME ServerInv, NEW i \in Pids \cup {0}
  PROVE  /\ S!Ended(i) \in [Pids -> S!Servers \cup {"free", "other"}]
         /\ \A j \in Pids : S!Ended(i)[j] = IF j = i THEN "free" ELSE sProc[j]
BY ServerTyped DEF S!Ended, S!Alive

LEMMA ServerKills == ASSUME ServerInv, NEW p \in Procs, S!Kill(p) PROVE ServerInv'
<1>1. sPc[p] = "kill" /\ S!History /\ sFile' = sFile /\ sSeen' = sSeen /\ sChild' = sChild
      /\ sWrong' = sWrong /\ sProc' = S!Ended(sChild[p]) /\ sPc' = [sPc EXCEPT ![p] = "idle"]
  BY DEF S!Kill, S!At, S!Go, S!Done
<1>2. sChild[p] \in Pids \cup {0}
  BY ServerTyped
<1>3. sProc' \in [Pids -> S!Servers \cup {"free", "other"}]
      /\ \A j \in Pids : sProc'[j] = IF j = sChild[p] THEN "free" ELSE sProc[j]
  BY <1>1, <1>2, ServerEnded
<1>4. sCalm => Recorded'
  <2>1. sCalm => Only(sChild[p])
    BY <1>1 DEF ServerInv, ServerAt
  <2> QED
    BY <1>3, <2>1 DEF Recorded, Only, AllServing, S!Servers
<1>5. "idle" \in S!Steps /\ "free" # "serving"
  BY DEF S!Steps
<1> QED
  BY <1>1, <1>3, <1>4, <1>5, ServerTyped, ServerFrame

LEMMA ServerConfirms == ASSUME ServerInv, NEW p \in Procs, S!Confirm(p) PROVE ServerInv'
<1>1. sPc[p] = "confirm" /\ S!History /\ sFile' = sFile /\ sProc' = sProc /\ sSeen' = sSeen
      /\ sChild' = sChild /\ sWrong' = sWrong
  BY DEF S!Confirm, S!At
<1>2. PICK s \in {"record", "idle"} :
        sPc' = [sPc EXCEPT ![p] = s] /\ (s = "idle" => ~ S!Alive(sChild[p]))
  BY DEF S!Confirm, S!Go, S!Done
<1>3. ASSUME sCalm PROVE IF s = "idle" THEN Recorded' ELSE ServerAt(p)'
  <2>1. Only(sChild[p]) /\ AllServing
    BY <1>1, <1>3 DEF ServerInv, ServerAt
  <2>2. sPc'[p] = s
    BY <1>2, ServerTyped
  <2>3. Only(sChild[p])' /\ AllServing'
    BY <1>1, <2>1 DEF Only, AllServing
  <2>4. s = "idle" => Recorded'
    BY <1>1, <1>2, <2>1 DEF Recorded, Only, AllServing, S!Alive, S!Servers
  <2> QED
    BY <1>2, <2>2, <2>3, <2>4 DEF ServerAt
<1>4. s \in S!Steps
  BY <1>2 DEF S!Steps
<1> QED
  BY <1>1, <1>2, <1>3, <1>4, ServerTyped, ServerFrame

LEMMA ServerRecords == ASSUME ServerInv, NEW p \in Procs, S!Record(p) PROVE ServerInv'
<1>1. sPc[p] = "record" /\ S!History /\ sFile' = sChild[p] /\ sProc' = sProc /\ sSeen' = sSeen
      /\ sChild' = sChild /\ sWrong' = sWrong /\ sPc' = [sPc EXCEPT ![p] = "idle"]
  BY DEF S!Record, S!At, S!Go, S!Done
<1>2. sCalm => Only(sChild[p]) /\ AllServing
  BY <1>1 DEF ServerInv, ServerAt
<1>3. sCalm => Recorded'
  BY <1>1, <1>2 DEF Recorded, Only, AllServing
<1>4. "idle" \in S!Steps /\ sFile' \in Pids \cup {0}
  BY <1>1, ServerTyped DEF S!Steps
<1> QED
  BY <1>1, <1>3, <1>4, ServerTyped, ServerFrame

LEMMA ServerTerms == ASSUME ServerInv, NEW p \in Procs, S!Term(p) PROVE ServerInv'
<1>1. sPc[p] = "term" /\ S!History /\ sFile' = sFile /\ sSeen' = sSeen /\ sChild' = sChild
  BY DEF S!Term, S!At
<1>2. sCalm => Only(sSeen[p]) /\ (~ sMet => \A j \in Pids : j = sSeen[p] => sProc[j] # "other")
  BY <1>1 DEF ServerInv, ServerAt
<1>3. CASE S!Alive(sSeen[p])
  <2> DEFINE i == sSeen[p]
  <2>1. i \in Pids
    BY <1>3 DEF S!Alive
  <2>2. PICK v \in {"stopping", "free", sProc[i]} :
          /\ sProc' = [sProc EXCEPT ![i] = v]
          /\ v = sProc[i] => sProc[i] # "serving"
    BY <1>3, <2>1, ServerTyped DEF S!Term
  <2>3. sPc' = [sPc EXCEPT ![p] = "await"] /\ sWrong' = (sWrong \/ sProc[i] = "other")
    BY <1>3 DEF S!Term, S!Go, S!Signals
  <2>4. sProc' \in [Pids -> S!Servers \cup {"free", "other"}]
        /\ sProc'[i] = v /\ \A j \in Pids \ {i} : sProc'[j] = sProc[j]
    BY <2>1, <2>2, ServerTyped DEF S!Servers
  <2>5. \A j \in Pids : sProc'[j] = "serving" => sProc[j] = "serving"
    BY <2>2, <2>4
  <2>6. sWrong' \in BOOLEAN /\ (sCalm /\ ~ sMet => sWrong' = sWrong)
    BY <1>2, <2>1, <2>3, ServerTyped
  <2>7. ASSUME sCalm PROVE ServerAt(p)'
    <3>1. sPc'[p] = "await"
      BY <2>3, ServerTyped
    <3>2. Only(sSeen[p])'
      BY <1>1, <1>2, <2>4, <2>7 DEF Only
    <3>3. sMet' = sMet
      BY <1>1 DEF S!History
    <3>4. (~ sMet => \A j \in Pids : j = sSeen[p] => sProc[j] # "other")'
      BY <1>1, <1>2, <2>2, <2>4, <2>7, <3>3
    <3> QED
      BY <3>1, <3>2, <3>4 DEF ServerAt
  <2>8. "await" \in S!Steps /\ "await" # "idle"
    BY DEF S!Steps
  <2> QED
    BY <1>1, <2>3, <2>4, <2>5, <2>6, <2>7, <2>8, ServerTyped, ServerFrame
<1>4. CASE ~ S!Alive(sSeen[p])
  <2>1. sProc' = sProc /\ sWrong' = sWrong /\ sPc' = [sPc EXCEPT ![p] = "clear"]
    BY <1>4 DEF S!Term, S!Go
  <2>2. sPc'[p] = "clear"
    BY <2>1, ServerTyped
  <2>3. sCalm => Only(0)'
    BY <1>2, <1>4, <2>1 DEF Only, S!Alive, S!Servers
  <2>4. sCalm => ServerAt(p)'
    BY <2>2, <2>3 DEF ServerAt
  <2>5. "clear" \in S!Steps /\ "clear" # "idle"
    BY DEF S!Steps
  <2> QED
    BY <1>1, <2>1, <2>4, <2>5, ServerTyped, ServerFrame
<1> QED
  BY <1>3, <1>4

LEMMA ServerAwaits == ASSUME ServerInv, NEW p \in Procs, S!Await(p) PROVE ServerInv'
<1>1. sPc[p] = "await" /\ S!History /\ sFile' = sFile /\ sSeen' = sSeen /\ sChild' = sChild
      /\ sPc' = [sPc EXCEPT ![p] = "clear"]
  BY DEF S!Await, S!At, S!Go
<1>2. sCalm => Only(sSeen[p]) /\ (~ sMet => \A j \in Pids : j = sSeen[p] => sProc[j] # "other")
  BY <1>1 DEF ServerInv, ServerAt
<1>3. sPc'[p] = "clear" /\ "clear" \in S!Steps /\ "clear" # "idle"
  BY <1>1, ServerTyped DEF S!Steps
<1>4. sSeen[p] \in Pids \cup {0}
  BY ServerTyped
<1>5. CASE S!Alive(sSeen[p])
  <2>1. sSeen[p] \in Pids /\ sProc' = S!Ended(sSeen[p])
        /\ sWrong' = (sWrong \/ sProc[sSeen[p]] = "other")
    BY <1>5 DEF S!Await, S!Alive, S!Signals
  <2>2. sProc' \in [Pids -> S!Servers \cup {"free", "other"}]
        /\ \A j \in Pids : sProc'[j] = IF j = sSeen[p] THEN "free" ELSE sProc[j]
    BY <1>4, <2>1, ServerEnded
  <2>3. sWrong' \in BOOLEAN /\ (sCalm /\ ~ sMet => sWrong' = sWrong)
    BY <1>2, <2>1, ServerTyped
  <2>4. sCalm => Only(0)'
    BY <1>2, <2>2 DEF Only, S!Servers
  <2>5. sCalm => ServerAt(p)'
    BY <1>3, <2>4 DEF ServerAt
  <2>6. \A j \in Pids : sProc'[j] = "serving" => sProc[j] = "serving"
    BY <2>2
  <2> QED
    BY <1>1, <1>3, <2>2, <2>3, <2>5, <2>6, ServerTyped, ServerFrame
<1>6. CASE ~ S!Alive(sSeen[p])
  <2>1. sProc' = sProc /\ sWrong' = sWrong
    BY <1>6 DEF S!Await
  <2>2. sCalm => Only(0)'
    BY <1>2, <1>6, <2>1 DEF Only, S!Alive, S!Servers
  <2>3. sCalm => ServerAt(p)'
    BY <1>3, <2>2 DEF ServerAt
  <2> QED
    BY <1>1, <1>3, <2>1, <2>3, ServerTyped, ServerFrame
<1> QED
  BY <1>5, <1>6

LEMMA ServerDies == ASSUME ServerInv, NEW p \in Procs, S!Killed(p) PROVE ServerInv'
<1>1. sPc[p] # "idle" /\ sPc' = [sPc EXCEPT ![p] = "idle"] /\ sCalm' = FALSE
      /\ sFile' = sFile /\ sProc' = sProc /\ sForeign' = sForeign /\ sOp' = sOp
      /\ sSeen' = sSeen /\ sChild' = sChild /\ sMet' = sMet /\ sWrong' = sWrong
      /\ sCommands' = sCommands
  BY DEF S!Killed, S!Running, S!Go, S!Done
<1>2. "idle" \in S!Steps /\ sPc' \in [Procs -> S!Steps]
  BY <1>1, ServerTyped DEF S!Steps
<1>3. sCalm' \in BOOLEAN
  BY <1>1
<1>4. S!TypeOK'
  BY <1>1, <1>2, <1>3, ServerTyped, ServerTypes
<1>5. (sForeign => sMet)' /\ S!RightTarget'
  BY <1>1 DEF ServerInv, S!RightTarget
<1> QED
  BY <1>1, <1>2, <1>4, <1>5, ServerMoves

\* What the processes do by themselves.
LEMMA ServerOutside ==
  ASSUME ServerInv, S!Still, S!TypeOK', (sForeign => sMet)', sMet => sMet', sCalm' => sCalm,
         sCalm' /\ ~ sMet' => sCalm /\ ~ sMet,
         sCalm' => \A p \in Procs : ServerAt(p) => ServerAt(p)',
         sCalm' /\ S!Running = {} /\ Recorded => Recorded'
  PROVE  ServerInv'
<1>1. sPc' = sPc /\ sWrong' = sWrong
  BY DEF S!Still
<1>2. S!RightTarget'
  BY <1>1 DEF ServerInv, S!RightTarget
<1> QED
  BY <1>1, <1>2 DEF ServerInv, S!Running

LEMMA ServerBinds == ASSUME ServerInv, NEW i \in Pids, S!Binds(i) PROVE ServerInv'
<1>1. sProc[i] = "booting" /\ S!Still /\ sForeign' = sForeign /\ sCalm' = sCalm /\ sMet' = sMet
  BY DEF S!Binds
<1>2. PICK v \in {"free", "serving"} :
        sProc' = [sProc EXCEPT ![i] = v] /\ (v = "serving" => ~ S!Accepting)
  BY DEF S!Binds
<1>3. sFile' = sFile /\ sPc' = sPc /\ sOp' = sOp /\ sSeen' = sSeen /\ sChild' = sChild
      /\ sWrong' = sWrong /\ sCommands' = sCommands
  BY <1>1 DEF S!Still
<1>4. sProc' \in [Pids -> S!Servers \cup {"free", "other"}]
      /\ sProc'[i] = v /\ \A j \in Pids \ {i} : sProc'[j] = sProc[j]
  BY <1>2, ServerTyped DEF S!Servers
<1>5. S!TypeOK'
  <2>1. \A j, l \in Pids : sProc'[j] = "serving" /\ sProc'[l] = "serving" => j = l /\ ~ sForeign'
    BY <1>1, <1>2, <1>4, ServerTyped DEF S!Accepting
  <2> QED
    BY <1>1, <1>3, <1>4, <2>1, ServerTyped, ServerTypes
<1>6. \A n : Only(n) => Only(n)'
  BY <1>1, <1>4 DEF Only, S!Servers
<1>7. ~ AllServing /\ ~ Recorded
  BY <1>1 DEF AllServing, Recorded, S!Servers
<1>8. \A j \in Pids : sProc'[j] = "other" => sProc[j] = "other"
  BY <1>2, <1>4
<1>9. \A p \in Procs : ServerAt(p) => ServerAt(p)'
  <2> SUFFICES ASSUME NEW p \in Procs, ServerAt(p) PROVE ServerAt(p)'
    OBVIOUS
  <2>1. sPc[p] \notin {"read", "probe", "confirm", "record"}
    BY <1>7 DEF ServerAt
  <2>2. Only(0) => Only(0)'
    BY <1>6
  <2>3. Only(sChild[p]) => Only(sChild[p])'
    BY <1>3, <1>6 DEF Only
  <2>4. Only(sSeen[p]) => Only(sSeen[p])'
    BY <1>3, <1>6 DEF Only
  <2> QED
    BY <1>1, <1>3, <1>8, <2>1, <2>2, <2>3, <2>4 DEF ServerAt
<1> QED
  BY <1>1, <1>5, <1>7, <1>9, ServerOutside DEF ServerInv

\* A process ends, or its number is given to another.
LEMMA ServerExits ==
  ASSUME ServerInv, NEW i \in Pids, S!Exits(i) \/ S!Reused(i)
  PROVE  ServerInv'
<1>1. S!Still /\ sForeign' = sForeign /\ sCalm' = sCalm /\ sMet' = sMet
  BY DEF S!Exits, S!Reused
<1>2. PICK v \in {"free", "other"} :
        sProc' = [sProc EXCEPT ![i] = v] /\ (v = "other" => S!Running = {})
  BY DEF S!Exits, S!Reused
<1>3. sFile' = sFile /\ sPc' = sPc /\ sOp' = sOp /\ sSeen' = sSeen /\ sChild' = sChild
      /\ sWrong' = sWrong /\ sCommands' = sCommands
  BY <1>1 DEF S!Still
<1>4. sProc' \in [Pids -> S!Servers \cup {"free", "other"}]
      /\ sProc'[i] = v /\ \A j \in Pids \ {i} : sProc'[j] = sProc[j]
  BY <1>2, ServerTyped
<1>5. S!TypeOK'
  <2>1. \A j, l \in Pids : sProc'[j] = "serving" /\ sProc'[l] = "serving" => j = l /\ ~ sForeign'
    BY <1>1, <1>2, <1>4, ServerTyped
  <2> QED
    BY <1>1, <1>3, <1>4, <2>1, ServerTyped, ServerTypes
<1>6. \A n : Only(n) => \A j \in Pids : sProc'[j] \in S!Servers => j = n
  BY <1>2, <1>4 DEF Only, S!Servers
<1>7. AllServing => AllServing'
  BY <1>2, <1>4 DEF AllServing, S!Servers
<1>8. Recorded => Recorded'
  BY <1>3, <1>6, <1>7 DEF Recorded, Only
<1>9. \A p \in Procs : ServerAt(p) => ServerAt(p)'
  <2> SUFFICES ASSUME NEW p \in Procs, ServerAt(p) PROVE ServerAt(p)'
    OBVIOUS
  <2>1. CASE sPc[p] = "idle"
    BY <1>3, <2>1 DEF ServerAt
  <2>2. CASE sPc[p] # "idle"
    <3>1. v = "free"
      BY <1>2, <2>2 DEF S!Running
    <3>2. \A j \in Pids : sProc'[j] = "other" => sProc[j] = "other"
      BY <1>4, <3>1
    <3>3. Only(0) => Only(0)'
      BY <1>6 DEF Only
    <3>4. Only(sChild[p]) => Only(sChild[p])'
      BY <1>3, <1>6 DEF Only
    <3>5. Only(sSeen[p]) => Only(sSeen[p])'
      BY <1>3, <1>6 DEF Only
    <3> QED
      BY <1>1, <1>3, <1>7, <1>8, <3>2, <3>3, <3>4, <3>5 DEF ServerAt
  <2> QED
    BY <2>1, <2>2
<1> QED
  BY <1>1, <1>5, <1>8, <1>9, ServerOutside DEF ServerInv

LEMMA ServerForeign == ASSUME ServerInv, S!Foreign PROVE ServerInv'
<1>1. S!Still /\ sProc' = sProc
  BY DEF S!Foreign
<1>2. sFile' = sFile /\ sPc' = sPc /\ sOp' = sOp /\ sSeen' = sSeen /\ sChild' = sChild
      /\ sWrong' = sWrong /\ sCommands' = sCommands
  BY <1>1 DEF S!Still
<1>3. sForeign' \in BOOLEAN /\ sMet' \in BOOLEAN /\ sCalm' \in BOOLEAN
      /\ (sForeign' => sMet') /\ (sMet => sMet') /\ (sCalm' => sCalm)
  <2>1. CASE sForeign' = TRUE /\ sMet' = TRUE /\ sCalm' = (sCalm /\ S!Running = {})
    BY <2>1
  <2>2. CASE sForeign' = FALSE /\ UNCHANGED <<sMet, sCalm>>
    BY <2>2, ServerTyped
  <2> QED
    BY <2>1, <2>2 DEF S!Foreign
<1>4. sForeign' => \A j \in Pids : sProc[j] # "serving"
  BY DEF S!Foreign, S!Accepting
<1>5. sCalm' /\ sForeign' => S!Running = {}
  BY DEF S!Foreign
<1>6. S!TypeOK'
  <2>1. \A j, l \in Pids : sProc'[j] = "serving" /\ sProc'[l] = "serving" => j = l /\ ~ sForeign'
    BY <1>1, <1>4, ServerTyped
  <2> QED
    BY <1>1, <1>2, <1>3, <2>1, ServerTyped, ServerTypes
<1>7. (Recorded => Recorded') /\ (AllServing => AllServing')
  BY <1>1, <1>2 DEF Recorded, AllServing, Only
<1>8. ASSUME sCalm', NEW p \in Procs, ServerAt(p) PROVE ServerAt(p)'
  <2>1. CASE sPc[p] = "idle"
    BY <1>2, <2>1 DEF ServerAt
  <2>2. CASE sPc[p] # "idle"
    <3>1. ~ sForeign'
      BY <1>5, <1>8, <2>2 DEF S!Running
    <3>2. (Only(0) => Only(0)') /\ (Only(sChild[p]) => Only(sChild[p])')
          /\ (Only(sSeen[p]) => Only(sSeen[p])')
      BY <1>1, <1>2 DEF Only
    <3> QED
      BY <1>1, <1>2, <1>3, <1>7, <1>8, <3>1, <3>2 DEF ServerAt
  <2> QED
    BY <2>1, <2>2
<1> QED
  BY <1>1, <1>3, <1>6, <1>7, <1>8, ServerOutside

LEMMA ServerStart == ASSUME S!Init PROVE ServerInv
<1>1. sFile = 0 /\ sProc = [i \in Pids |-> "free"] /\ sForeign = FALSE
      /\ sPc = [p \in Procs |-> "idle"] /\ sOp = [p \in Procs |-> "start"]
      /\ sSeen = [p \in Procs |-> 0] /\ sChild = [p \in Procs |-> 0]
      /\ sCalm = TRUE /\ sMet = FALSE /\ sWrong = FALSE /\ sCommands = 0
  BY DEF S!Init, S!NoPid
<1>2. MaxServerCommands \in Nat
  BY WorkstationAssumption DEF S!ServerAssumption
<1>3. S!TypeOK
  <2>1. \A i, j \in Pids : {sProc[i], sProc[j]} = {"serving"} => i = j /\ ~ sForeign
    BY <1>1
  <2>2. {sForeign, sCalm, sMet, sWrong} \subseteq BOOLEAN
    BY <1>1
  <2>3. sCommands \in 0 .. MaxServerCommands
    BY <1>1, <1>2
  <2>4. sPc \in [Procs -> S!Steps] /\ sProc \in [Pids -> S!Servers \cup {"free", "other"}]
    BY <1>1 DEF S!Steps
  <2> QED
    BY <1>1, <2>1, <2>2, <2>3, <2>4 DEF S!TypeOK, S!NoPid
<1>4. Recorded /\ \A p \in Procs : ServerAt(p)
  BY <1>1 DEF Recorded, Only, AllServing, ServerAt, S!Servers
<1> QED
  BY <1>1, <1>3, <1>4 DEF ServerInv, S!RightTarget

LEMMA ServerStep == ASSUME ServerInv, S!Next PROVE ServerInv'
<1>1. CASE \E p \in Procs :
             \/ \E o \in {"start", "stop", "status"} : S!Begin(p, o)
             \/ S!Read(p) \/ S!Probe(p) \/ S!Clear(p)
             \/ S!Port(p) \/ S!Spawn(p) \/ S!Wait(p) \/ S!Kill(p) \/ S!Confirm(p) \/ S!Record(p)
             \/ S!Term(p) \/ S!Await(p) \/ S!Killed(p)
  BY <1>1, ServerBegins, ServerReads, ServerProbes, ServerClears, ServerLooks, ServerSpawns,
     ServerWaits, ServerKills, ServerConfirms, ServerRecords, ServerTerms, ServerAwaits, ServerDies
<1>2. CASE \E i \in Pids : S!Binds(i) \/ S!Exits(i) \/ S!Reused(i)
  BY <1>2, ServerBinds, ServerExits
<1>3. CASE S!Foreign
  BY <1>3, ServerForeign
<1> QED
  BY <1>1, <1>2, <1>3 DEF S!Next

LEMMA ServerStutter == ASSUME ServerInv, UNCHANGED serverVars PROVE ServerInv'
<1>1. sFile' = sFile /\ sProc' = sProc /\ sForeign' = sForeign /\ sPc' = sPc /\ sOp' = sOp
      /\ sSeen' = sSeen /\ sChild' = sChild /\ sCalm' = sCalm /\ sMet' = sMet
      /\ sWrong' = sWrong /\ sCommands' = sCommands
  BY DEF serverVars
<1>2. S!TypeOK' /\ S!RightTarget' /\ (sForeign => sMet)'
  BY <1>1 DEF ServerInv, S!TypeOK, S!RightTarget
<1>3. (Recorded => Recorded') /\ \A p \in Procs : ServerAt(p) => ServerAt(p)'
  BY <1>1 DEF Recorded, Only, AllServing, ServerAt
<1> QED
  BY <1>1, <1>2, <1>3 DEF ServerInv


(***************************************************************************)
(* Tunnel.  Again the steps of a call have to say which processes can be   *)
(* tunnels (TunnelAt); and threads may overlap here, so it has to be shown *)
(* that the lock leaves one of them at work: whoever is past it holds it.  *)
(***************************************************************************)
\* The processes that are tunnels are the one that t describes.
LivesAs(t) == \A i \in Pids : tSsh[i].state \in T!Live => t = [pid |-> i, port |-> tSsh[i].port]
NoneLives == \A i \in Pids : tSsh[i].state \notin T!Live
AtWork(p) == tPc[p] \notin {"idle", "lock"}

TunnelAt(p) ==
  /\ tPc[p] \in {"read", "probe"} => LivesAs(tFile)
  /\ tPc[p] = "probe" => tSeen[p] = tFile
  /\ tPc[p] \in {"term", "kill"} => LivesAs(tSeen[p])
  /\ tPc[p] \in {"delete", "spawn"} => NoneLives
  /\ tPc[p] \in {"wait", "write"} => LivesAs([pid |-> tChild[p], port |-> tWanted[p]])

TunnelInv ==
  /\ T!TypeOK
  /\ T!NeverOther
  /\ \A p \in T!Callers : tPc[p] = "lock" => p \in Procs /\ tOp[p] = "ensure"
  /\ tCalm =>
       /\ \A p, q \in T!Callers : p # q /\ tPc[p] # "idle" /\ tPc[q] # "idle"
                                  => p \in Procs /\ tOp[p] = "ensure"
       /\ \A p \in Procs : AtWork(p) /\ tOp[p] = "ensure" => tLock = p
       /\ \A p \in T!Callers : TunnelAt(p)
       /\ (\A p \in T!Callers : ~ AtWork(p)) => LivesAs(tFile)

Processes == [state : T!Live \cup {"free", "other"}, port : Ports \cup {0}]
Tunnels == [pid : Pids \cup {0}, port : Ports \cup {0}]
Binding == {"up", "hung"}

LEMMA TunnelTyped ==
  ASSUME TunnelInv
  PROVE  /\ tFile \in Tunnels /\ tSsh \in [Pids -> Processes]
         /\ \A i, j \in Pids : tSsh[i].state \in Binding /\ tSsh[j].state \in Binding
                               /\ tSsh[i].port = tSsh[j].port => i = j
         /\ tPc \in [T!Callers -> T!Steps] /\ tOp \in [T!Callers -> {"ensure", "close"}]
         /\ tSeen \in [T!Callers -> Tunnels] /\ tWanted \in [T!Callers -> Ports \cup {0}]
         /\ tChild \in [T!Callers -> Pids \cup {0}]
         /\ tLock \in Procs \cup {T!Nobody} /\ tEvicting \in [T!Callers -> BOOLEAN]
         /\ tCalm \in BOOLEAN /\ tWrong = FALSE /\ tCalls \in 0 .. MaxCalls
         /\ 0 \notin Pids \cup Ports /\ MaxCalls \in Nat
         /\ Procs \subseteq T!Callers /\ T!Nobody \notin Procs
<1>1. \A i, j \in Pids : {tSsh[i].state, tSsh[j].state} \subseteq {"up", "hung"}
                         /\ tSsh[i].port = tSsh[j].port => i = j
  BY DEF TunnelInv, T!TypeOK
<1>2. {tCalm, tWrong} \subseteq BOOLEAN /\ ~ tWrong
  BY DEF TunnelInv, T!TypeOK, T!NeverOther
<1>3. tWrong = FALSE
  BY <1>2
<1> QED
  BY <1>1, <1>2, <1>3, WorkstationAssumption
  DEF TunnelInv, T!TypeOK, T!TunnelAssumption, T!Callers, Processes, Tunnels, Binding

LEMMA TunnelTypes ==
  ASSUME tFile' \in Tunnels, tSsh' \in [Pids -> Processes],
         \A i, j \in Pids : tSsh'[i].state \in Binding /\ tSsh'[j].state \in Binding
                            /\ tSsh'[i].port = tSsh'[j].port => i = j,
         tPc' \in [T!Callers -> T!Steps], tOp' \in [T!Callers -> {"ensure", "close"}],
         tSeen' \in [T!Callers -> Tunnels], tWanted' \in [T!Callers -> Ports \cup {0}],
         tChild' \in [T!Callers -> Pids \cup {0}],
         tLock' \in Procs \cup {T!Nobody}, tEvicting' \in [T!Callers -> BOOLEAN],
         tCalm' \in BOOLEAN, tWrong' = FALSE, tCalls' \in 0 .. MaxCalls
  PROVE  T!TypeOK' /\ T!NeverOther'
<1>1. \A i, j \in Pids : {tSsh'[i].state, tSsh'[j].state} \subseteq {"up", "hung"}
                         /\ tSsh'[i].port = tSsh'[j].port => i = j
  BY DEF Binding
<1>2. {tCalm', tWrong'} \subseteq BOOLEAN /\ ~ tWrong'
  OBVIOUS
<1> QED
  BY <1>1, <1>2 DEF T!TypeOK, T!NeverOther, Processes, Tunnels

\* Nobody else is at work, and when the step of p is its last, the file names what lives.
LEMMA TunnelAlone ==
  ASSUME TunnelInv, tCalm, NEW p \in T!Callers, AtWork(p), NEW q \in T!Callers, AtWork(q)
  PROVE  p = q
<1> SUFFICES ASSUME p # q PROVE FALSE
  OBVIOUS
<1>1. tPc[p] # "idle" /\ tPc[q] # "idle"
  BY DEF AtWork
<1>2. tLock = p /\ tLock = q
  BY <1>1 DEF TunnelInv
<1> QED
  BY <1>2

\* A step of a call that is at work.
LEMMA TunnelMoves ==
  ASSUME TunnelInv, NEW p \in T!Callers, AtWork(p), NEW s \in T!Steps \ {"lock"},
         tPc' = [tPc EXCEPT ![p] = s], T!Keep,
         tLock' = IF s = "idle" /\ tLock = p THEN T!Nobody ELSE tLock,
         tFile' \in Tunnels, tSsh' \in [Pids -> Processes],
         \A i \in Pids : tSsh'[i].state \in Binding => tSsh'[i] = tSsh[i],
         tSeen' \in [T!Callers -> Tunnels], tWanted' \in [T!Callers -> Ports \cup {0}],
         tChild' \in [T!Callers -> Pids \cup {0}], tEvicting' \in [T!Callers -> BOOLEAN],
         tWrong' = FALSE,
         tCalm => IF s = "idle" THEN LivesAs(tFile)' ELSE TunnelAt(p)'
  PROVE  TunnelInv'
<1>1. tOp' = tOp /\ tCalm' = tCalm /\ tCalls' = tCalls
  BY DEF T!Keep
<1>2. tPc' \in [T!Callers -> T!Steps] /\ tPc'[p] = s
      /\ \A q \in T!Callers \ {p} : tPc'[q] = tPc[q]
  BY TunnelTyped
<1>3. tLock' \in Procs \cup {T!Nobody}
  BY TunnelTyped
<1>4. \A i, j \in Pids : tSsh'[i].state \in Binding /\ tSsh'[j].state \in Binding
                         /\ tSsh'[i].port = tSsh'[j].port => i = j
  BY TunnelTyped
<1>5. T!TypeOK' /\ T!NeverOther'
  BY <1>1, <1>2, <1>3, <1>4, TunnelTyped, TunnelTypes
<1>6. \A q \in T!Callers : tPc'[q] = "lock" => q \in Procs /\ tOp'[q] = "ensure"
  BY <1>1, <1>2 DEF TunnelInv
<1> SUFFICES ASSUME tCalm
             PROVE  /\ \A q, r \in T!Callers : q # r /\ tPc'[q] # "idle" /\ tPc'[r] # "idle"
                                               => q \in Procs /\ tOp'[q] = "ensure"
                    /\ \A q \in Procs : AtWork(q)' /\ tOp'[q] = "ensure" => tLock' = q
                    /\ \A q \in T!Callers : TunnelAt(q)'
                    /\ (\A q \in T!Callers : ~ AtWork(q)') => LivesAs(tFile)'
  BY <1>1, <1>5, <1>6 DEF TunnelInv
<1>7. \A q \in T!Callers \ {p} : ~ AtWork(q) /\ ~ AtWork(q)'
  BY <1>2, TunnelAlone DEF AtWork
<1>8. \A q \in T!Callers : tPc'[q] # "idle" => tPc[q] # "idle"
  BY <1>2 DEF AtWork
<1>9. \A q \in Procs : AtWork(q)' /\ tOp'[q] = "ensure" => tLock' = q
  <2> SUFFICES ASSUME NEW q \in Procs, AtWork(q)', tOp'[q] = "ensure" PROVE tLock' = q
    OBVIOUS
  <2>1. q = p
    BY <1>7, TunnelTyped
  <2>2. s # "idle" /\ tLock = p
    BY <1>1, <1>2, <2>1 DEF AtWork, TunnelInv
  <2> QED
    BY <2>1, <2>2
<1>10. \A q \in T!Callers : TunnelAt(q)'
  <2>1. \A q \in T!Callers \ {p} : TunnelAt(q)'
    BY <1>7 DEF TunnelAt, AtWork
  <2>2. TunnelAt(p)'
    BY <1>2 DEF TunnelAt
  <2> QED
    BY <2>1, <2>2
<1>11. (\A q \in T!Callers : ~ AtWork(q)') => LivesAs(tFile)'
  BY <1>2 DEF AtWork
<1>12. \A q, r \in T!Callers : q # r /\ tPc'[q] # "idle" /\ tPc'[r] # "idle"
                               => q \in Procs /\ tOp'[q] = "ensure"
  BY <1>1, <1>8 DEF TunnelInv
<1> QED
  BY <1>9, <1>10, <1>11, <1>12

LEMMA TunnelBegins ==
  ASSUME TunnelInv, NEW p \in T!Callers, NEW o \in {"ensure", "close"}, T!Begin(p, o)
  PROVE  TunnelInv'
<1> DEFINE s == IF o = "ensure" /\ p # Cli THEN "lock" ELSE "read"
<1>1. tPc[p] = "idle" /\ tCalls < MaxCalls /\ tCalls' = tCalls + 1 /\ (p = Cli => o = "ensure")
      /\ tOp' = [tOp EXCEPT ![p] = o] /\ tPc' = [tPc EXCEPT ![p] = s]
      /\ tSeen' = [tSeen EXCEPT ![p] = T!NoTunnel] /\ tWanted' = [tWanted EXCEPT ![p] = 0]
      /\ tChild' = [tChild EXCEPT ![p] = 0] /\ tEvicting' = [tEvicting EXCEPT ![p] = o = "close"]
      /\ tFile' = tFile /\ tSsh' = tSsh /\ tLock' = tLock /\ tWrong' = tWrong
  BY DEF T!Begin, T!At, T!Go
<1>2. tCalm' \in BOOLEAN
      /\ (tCalm' => tCalm /\ \A q \in T!Running : p \in Procs /\ q \in Procs
                                                  /\ o = "ensure" /\ tOp[q] = "ensure")
  BY TunnelTyped DEF T!Begin
<1>3. s \in T!Steps /\ T!NoTunnel \in Tunnels
  BY DEF T!Steps, T!NoTunnel, Tunnels
<1>4. tPc' \in [T!Callers -> T!Steps] /\ tPc'[p] = s
      /\ \A q \in T!Callers \ {p} : tPc'[q] = tPc[q]
  BY <1>1, <1>3, TunnelTyped
<1>5. tOp' \in [T!Callers -> {"ensure", "close"}] /\ tOp'[p] = o
      /\ \A q \in T!Callers \ {p} : tOp'[q] = tOp[q]
  BY <1>1, TunnelTyped
<1>6. tSeen' \in [T!Callers -> Tunnels] /\ tWanted' \in [T!Callers -> Ports \cup {0}]
      /\ tChild' \in [T!Callers -> Pids \cup {0}]
  BY <1>1, <1>3, TunnelTyped
<1>7. tEvicting' \in [T!Callers -> BOOLEAN]
  <2>1. \A b \in BOOLEAN : [tEvicting EXCEPT ![p] = b] \in [T!Callers -> BOOLEAN]
    BY TunnelTyped
  <2> QED
    BY <1>1, <2>1
<1>8. tCalls' \in 0 .. MaxCalls
  BY <1>1, TunnelTyped
<1>9. T!TypeOK' /\ T!NeverOther'
  BY <1>1, <1>2, <1>4, <1>5, <1>6, <1>7, <1>8, TunnelTyped, TunnelTypes
<1>10. \A q \in T!Callers : tPc'[q] = "lock" => q \in Procs /\ tOp'[q] = "ensure"
  BY <1>4, <1>5 DEF TunnelInv, T!Callers
<1> SUFFICES ASSUME tCalm'
             PROVE  /\ \A q, r \in T!Callers : q # r /\ tPc'[q] # "idle" /\ tPc'[r] # "idle"
                                               => q \in Procs /\ tOp'[q] = "ensure"
                    /\ \A q \in Procs : AtWork(q)' /\ tOp'[q] = "ensure" => tLock' = q
                    /\ \A q \in T!Callers : TunnelAt(q)'
                    /\ (\A q \in T!Callers : ~ AtWork(q)') => LivesAs(tFile)'
  BY <1>9, <1>10 DEF TunnelInv
<1>11. \A t \in Tunnels : LivesAs(t) => LivesAs(t)'
  BY <1>1 DEF LivesAs
<1>12. LivesAs(tFile) => LivesAs(tFile)'
  BY <1>1 DEF LivesAs
<1>13. \A q \in T!Callers \ {p} : tPc[q] # "idle" => q \in T!Running
  BY DEF T!Running
<1>14. \A q \in T!Callers \ {p} : tPc[q] # "idle" => p \in Procs /\ q \in Procs /\ o = "ensure"
                                                     /\ tOp[q] = "ensure"
  BY <1>2, <1>13
<1>15. \A q, r \in T!Callers : q # r /\ tPc'[q] # "idle" /\ tPc'[r] # "idle"
                               => q \in Procs /\ tOp'[q] = "ensure"
  <2> SUFFICES ASSUME NEW q \in T!Callers, NEW r \in T!Callers, q # r,
                      tPc'[q] # "idle", tPc'[r] # "idle"
               PROVE  q \in Procs /\ tOp'[q] = "ensure"
    OBVIOUS
  <2>1. CASE q = p
    BY <1>4, <1>5, <1>14, <2>1
  <2>2. CASE q # p
    BY <1>4, <1>5, <1>14, <2>2
  <2> QED
    BY <2>1, <2>2
<1>16. CASE s = "lock"
  <2>1. \A q \in T!Callers : AtWork(q)' => AtWork(q) /\ q # p
    BY <1>4, <1>16 DEF AtWork
  <2>2. \A q \in Procs : AtWork(q)' /\ tOp'[q] = "ensure" => tLock' = q
    BY <1>1, <1>2, <1>5, <2>1, TunnelTyped DEF TunnelInv
  <2>3. TunnelAt(p)'
    BY <1>4, <1>16 DEF TunnelAt
  <2>4. \A q \in T!Callers \ {p} : TunnelAt(q) => TunnelAt(q)'
    <3>1. \A q \in T!Callers \ {p} : tSeen'[q] = tSeen[q] /\ tChild'[q] = tChild[q]
                                     /\ tWanted'[q] = tWanted[q]
      BY <1>1, TunnelTyped
    <3> QED
      BY <1>1, <1>4, <3>1 DEF TunnelAt, LivesAs, NoneLives
  <2>5. (\A q \in T!Callers : ~ AtWork(q)') => \A q \in T!Callers : ~ AtWork(q)
    BY <1>1, <1>4 DEF AtWork
  <2> QED
    BY <1>2, <1>12, <1>15, <2>2, <2>3, <2>4, <2>5 DEF TunnelInv
<1>17. CASE s = "read"
  <2>1. \A q \in T!Callers : tPc[q] = "idle"
    BY <1>1, <1>14, <1>17, WorkstationAssumption DEF T!TunnelAssumption, T!Callers
  <2>2. LivesAs(tFile)
    BY <1>2, <2>1 DEF TunnelInv, AtWork
  <2>3. TunnelAt(p)'
    BY <1>4, <1>12, <1>17, <2>2 DEF TunnelAt
  <2>4. \A q \in T!Callers \ {p} : TunnelAt(q)' /\ ~ AtWork(q)'
    BY <1>4, <2>1 DEF TunnelAt, AtWork
  <2>5. p \notin Procs \/ tOp'[p] # "ensure"
    BY <1>5, <1>17, WorkstationAssumption DEF T!TunnelAssumption
  <2>6. \A q \in Procs : AtWork(q)' /\ tOp'[q] = "ensure" => tLock' = q
    BY <2>4, <2>5, TunnelTyped
  <2> QED
    BY <1>12, <1>15, <2>2, <2>3, <2>4, <2>6
<1> QED
  BY <1>16, <1>17

LEMMA TunnelLocks == ASSUME TunnelInv, NEW p \in T!Callers, T!Lock(p) PROVE TunnelInv'
<1>1. tPc[p] = "lock" /\ tLock = T!Nobody /\ tLock' = p /\ tPc' = [tPc EXCEPT ![p] = "read"]
      /\ tFile' = tFile /\ tSsh' = tSsh /\ tSeen' = tSeen /\ tWanted' = tWanted
      /\ tChild' = tChild /\ tEvicting' = tEvicting /\ tWrong' = tWrong
      /\ tOp' = tOp /\ tCalm' = tCalm /\ tCalls' = tCalls
  BY DEF T!Lock, T!LockTaken, T!At, T!Go, T!Keep
<1>2. "read" \in T!Steps
  BY DEF T!Steps
<1>3. tPc' \in [T!Callers -> T!Steps] /\ tPc'[p] = "read"
      /\ \A q \in T!Callers \ {p} : tPc'[q] = tPc[q]
  BY <1>1, <1>2, TunnelTyped
<1>4. p \in Procs /\ tOp[p] = "ensure"
  BY <1>1 DEF TunnelInv
<1>5. T!TypeOK' /\ T!NeverOther'
  <2>1. tLock' \in Procs \cup {T!Nobody}
    BY <1>1, <1>4
  <2> QED
    BY <1>1, <1>3, <2>1, TunnelTyped, TunnelTypes
<1>6. \A q \in T!Callers : tPc'[q] = "lock" => q \in Procs /\ tOp'[q] = "ensure"
  BY <1>1, <1>3 DEF TunnelInv
<1> SUFFICES ASSUME tCalm
             PROVE  /\ \A q, r \in T!Callers : q # r /\ tPc'[q] # "idle" /\ tPc'[r] # "idle"
                                               => q \in Procs /\ tOp'[q] = "ensure"
                    /\ \A q \in Procs : AtWork(q)' /\ tOp'[q] = "ensure" => tLock' = q
                    /\ \A q \in T!Callers : TunnelAt(q)'
                    /\ (\A q \in T!Callers : ~ AtWork(q)') => LivesAs(tFile)'
  BY <1>1, <1>5, <1>6 DEF TunnelInv
\* Who is at work has the lock, and nobody has it.
<1>7. \A q \in T!Callers : ~ AtWork(q)
  <2>1. \A q \in T!Callers \ {p} : tPc[q] # "idle" => q \in Procs /\ tOp[q] = "ensure"
    BY <1>1 DEF TunnelInv
  <2>2. \A q \in T!Callers \ {p} : AtWork(q) => tLock = q /\ q \in Procs
    BY <2>1 DEF TunnelInv, AtWork
  <2> QED
    BY <1>1, <2>2, TunnelTyped DEF AtWork
<1>8. LivesAs(tFile)'
  BY <1>1, <1>7 DEF TunnelInv, LivesAs
<1>9. \A q \in T!Callers \ {p} : ~ AtWork(q)' /\ TunnelAt(q)'
  BY <1>3, <1>7 DEF AtWork, TunnelAt
<1>10. TunnelAt(p)'
  BY <1>3, <1>8 DEF TunnelAt
<1>11. \A q, r \in T!Callers : q # r /\ tPc'[q] # "idle" /\ tPc'[r] # "idle"
                               => q \in Procs /\ tOp'[q] = "ensure"
  BY <1>1, <1>3 DEF TunnelInv
<1>12. \A q \in Procs : AtWork(q)' /\ tOp'[q] = "ensure" => tLock' = q
  BY <1>1, <1>9, TunnelTyped
<1> QED
  BY <1>8, <1>9, <1>10, <1>11, <1>12

LEMMA TunnelReads == ASSUME TunnelInv, NEW p \in T!Callers, T!Read(p) PROVE TunnelInv'
<1>1. tPc[p] = "read" /\ tSeen' = [tSeen EXCEPT ![p] = tFile] /\ T!Keep
      /\ tFile' = tFile /\ tSsh' = tSsh /\ tChild' = tChild /\ tEvicting' = tEvicting
      /\ tWrong' = tWrong
  BY DEF T!Read, T!At
<1>2. PICK s \in {"term", "probe", "spawn", "idle"} :
        /\ tPc' = [tPc EXCEPT ![p] = s]
        /\ tLock' = IF s = "idle" /\ tLock = p THEN T!Nobody ELSE tLock
        /\ s = "spawn" => tFile = T!NoTunnel
  <2>1. CASE tFile # T!NoTunnel
    BY <2>1 DEF T!Read, T!Go
  <2>2. CASE tFile = T!NoTunnel /\ tOp[p] = "ensure"
    BY <2>2 DEF T!Read, T!Go
  <2>3. CASE tFile = T!NoTunnel /\ tOp[p] # "ensure"
    BY <2>3 DEF T!Read, T!Go, T!Done
  <2> QED
    BY <2>1, <2>2, <2>3
<1>3. tSeen' \in [T!Callers -> Tunnels] /\ tWanted' \in [T!Callers -> Ports \cup {0}]
  <2>1. tFile.port \in Ports \cup {0}
    BY TunnelTyped DEF Tunnels
  <2>2. tWanted' = tWanted \/ tWanted' = [tWanted EXCEPT ![p] = tFile.port]
    BY DEF T!Read
  <2> QED
    BY <1>1, <2>1, <2>2, TunnelTyped
<1>4. ASSUME tCalm PROVE IF s = "idle" THEN LivesAs(tFile)' ELSE TunnelAt(p)'
  <2>1. LivesAs(tFile)
    BY <1>1, <1>4 DEF TunnelInv, TunnelAt
  <2>2. LivesAs(tFile)'
    BY <1>1, <2>1 DEF LivesAs
  <2>3. tPc'[p] = s /\ tSeen'[p] = tFile'
    BY <1>1, <1>2, TunnelTyped
  <2>4. s = "spawn" => NoneLives'
    BY <1>1, <1>2, <2>1, TunnelTyped DEF LivesAs, NoneLives, T!NoTunnel
  <2> QED
    BY <1>2, <2>2, <2>3, <2>4 DEF TunnelAt
<1>5. s \in T!Steps \ {"lock"} /\ AtWork(p)
  BY <1>1, <1>2 DEF T!Steps, AtWork
<1> QED
  BY <1>1, <1>2, <1>3, <1>4, <1>5, TunnelTyped, TunnelMoves

\* What has the command line that t describes lives, and nothing else does.
LEMMA TunnelOurs ==
  ASSUME NEW t \in Tunnels, LivesAs(t), ~ T!Ours(t), 0 \notin Pids
  PROVE  NoneLives
BY DEF LivesAs, NoneLives, T!Ours

LEMMA TunnelProbes == ASSUME TunnelInv, NEW p \in T!Callers, T!Probe(p) PROVE TunnelInv'
<1>1. tPc[p] = "probe" /\ tSeen' = tSeen /\ T!Keep /\ tFile' = tFile /\ tSsh' = tSsh
      /\ tWanted' = tWanted /\ tChild' = tChild /\ tEvicting' = tEvicting /\ tWrong' = tWrong
  BY DEF T!Probe, T!At
<1>2. PICK s \in {"delete", "term", "idle"} :
        /\ tPc' = [tPc EXCEPT ![p] = s]
        /\ tLock' = IF s = "idle" /\ tLock = p THEN T!Nobody ELSE tLock
        /\ s = "delete" => ~ T!Ours(tSeen[p])
  <2>1. CASE ~ T!Ours(tSeen[p])
    BY <2>1 DEF T!Probe, T!Go
  <2>2. CASE T!Ours(tSeen[p]) /\ T!Healthy(tSeen[p].port)
    BY <2>2 DEF T!Probe, T!Go, T!Done
  <2>3. CASE T!Ours(tSeen[p]) /\ ~ T!Healthy(tSeen[p].port)
    BY <2>3 DEF T!Probe, T!Go
  <2> QED
    BY <2>1, <2>2, <2>3
<1>3. ASSUME tCalm PROVE IF s = "idle" THEN LivesAs(tFile)' ELSE TunnelAt(p)'
  <2>1. LivesAs(tFile) /\ tSeen[p] = tFile /\ tFile \in Tunnels
    BY <1>1, <1>3, TunnelTyped DEF TunnelInv, TunnelAt
  <2>2. LivesAs(tFile)' /\ LivesAs(tSeen[p])'
    BY <1>1, <2>1 DEF LivesAs
  <2>3. tPc'[p] = s
    BY <1>2, TunnelTyped
  <2>4. s = "delete" => NoneLives
    BY <1>2, <2>1, TunnelTyped, TunnelOurs
  <2>5. s = "delete" => NoneLives'
    BY <1>1, <2>4 DEF NoneLives
  <2> QED
    BY <1>2, <2>2, <2>3, <2>5 DEF TunnelAt
<1>4. s \in T!Steps \ {"lock"} /\ AtWork(p)
  BY <1>1, <1>2 DEF T!Steps, AtWork
<1> QED
  BY <1>1, <1>2, <1>3, <1>4, TunnelTyped, TunnelMoves

LEMMA TunnelDead ==
  ASSUME TunnelInv, NEW i \in Pids
  PROVE  /\ T!Dead(i) \in [Pids -> Processes]
         /\ T!Dead(i)[i].state \notin T!Live
         /\ \A j \in Pids \ {i} : T!Dead(i)[j] = tSsh[j]
         /\ \A j \in Pids : T!Dead(i)[j].state \in Binding => T!Dead(i)[j] = tSsh[j]
<1>1. T!Nothing \in Processes /\ T!Nothing.state \notin T!Live /\ T!Nothing.state \notin Binding
  BY DEF T!Nothing, Processes, T!Live, Binding
<1> QED
  BY <1>1, TunnelTyped DEF T!Dead

LEMMA TunnelEnded ==
  ASSUME TunnelInv, NEW t, LivesAs(t), t.pid \in Pids, tSsh' = T!Dead(t.pid)
  PROVE  NoneLives'
<1>1. \A j \in Pids : tSsh[j].state \in T!Live => j = t.pid
  BY DEF LivesAs
<1>2. \A j \in Pids : T!Dead(t.pid)[j].state \notin T!Live
  BY <1>1, TunnelDead
<1> QED
  BY <1>2 DEF NoneLives

LEMMA TunnelTerms ==
  ASSUME TunnelInv, NEW p \in T!Callers, T!Term(p) \/ T!Kill(p)
  PROVE  TunnelInv'
<1>1. tPc[p] \in {"term", "kill"} /\ tSeen' = tSeen /\ T!Keep /\ tFile' = tFile /\ tLock' = tLock
      /\ tWanted' = tWanted /\ tChild' = tChild /\ tEvicting' = tEvicting
  BY DEF T!Term, T!Kill, T!At
<1>2. tSeen[p] \in Tunnels /\ tSeen[p].pid \in Pids \cup {0}
  BY TunnelTyped DEF Tunnels
<1>3. tCalm => LivesAs(tSeen[p])
  BY <1>1 DEF TunnelInv, TunnelAt
<1>4. AtWork(p) /\ {"delete", "kill"} \subseteq T!Steps \ {"lock", "idle"}
  BY <1>1 DEF T!Steps, AtWork
<1>5. CASE /\ T!Ours(tSeen[p]) /\ tSsh' = T!Dead(tSeen[p].pid)
           /\ tPc' = [tPc EXCEPT ![p] = "delete"] /\ tWrong' = FALSE
  <2> DEFINE i == tSeen[p].pid
  <2>1. i \in Pids
    BY <1>2, <1>5 DEF T!Ours
  <2>2. tCalm => NoneLives'
    BY <1>3, <1>5, <2>1, TunnelEnded
  <2>3. tPc'[p] = "delete"
    BY <1>5, TunnelTyped
  <2>4. tCalm => TunnelAt(p)'
    BY <2>2, <2>3 DEF TunnelAt
  <2>5. tSsh' \in [Pids -> Processes]
        /\ \A j \in Pids : tSsh'[j].state \in Binding => tSsh'[j] = tSsh[j]
    BY <1>5, <2>1, TunnelDead
  <2> QED
    BY <1>1, <1>4, <1>5, <2>4, <2>5, TunnelTyped, TunnelMoves
<1>6. CASE tSsh' = tSsh /\ tPc' = [tPc EXCEPT ![p] = "kill"] /\ tWrong' = FALSE
  <2>1. tPc'[p] = "kill"
    BY <1>6, TunnelTyped
  <2>2. tCalm => LivesAs(tSeen[p])'
    BY <1>1, <1>3, <1>6 DEF LivesAs
  <2>3. tCalm => TunnelAt(p)'
    BY <2>1, <2>2 DEF TunnelAt
  <2> QED
    BY <1>1, <1>4, <1>6, <2>3, TunnelTyped, TunnelMoves
<1>7. CASE ~ T!Ours(tSeen[p]) /\ tSsh' = tSsh /\ tPc' = [tPc EXCEPT ![p] = "delete"]
           /\ tWrong' = FALSE
  <2>1. tPc'[p] = "delete"
    BY <1>7, TunnelTyped
  <2>2. tCalm => NoneLives
    BY <1>2, <1>3, <1>7, TunnelTyped, TunnelOurs
  <2>3. tCalm => TunnelAt(p)'
    BY <1>7, <2>1, <2>2 DEF TunnelAt, NoneLives
  <2> QED
    BY <1>1, <1>4, <1>7, <2>3, TunnelTyped, TunnelMoves
<1>8. CASE T!Term(p)
  <2>1. tWrong' = FALSE
    BY <1>8, TunnelTyped DEF T!Term
  <2> QED
    BY <1>5, <1>6, <1>7, <1>8, <2>1 DEF T!Term, T!Go
<1>9. CASE T!Kill(p)
  <2>1. CASE T!Ours(tSeen[p])
    <3>1. tSsh[tSeen[p].pid].state # "other"
      BY <2>1 DEF T!Ours, T!Live
    <3>2. tWrong' = (tWrong \/ tSsh[tSeen[p].pid].state = "other")
      BY <1>9, <2>1 DEF T!Kill, T!Hits
    <3>3. tWrong' = FALSE
      BY <3>1, <3>2, TunnelTyped
    <3> QED
      BY <1>5, <1>9, <2>1, <3>3 DEF T!Kill, T!Go
  <2>2. CASE ~ T!Ours(tSeen[p])
    BY <1>7, <1>9, <2>2, TunnelTyped DEF T!Kill, T!Go
  <2> QED
    BY <2>1, <2>2
<1> QED
  BY <1>8, <1>9

LEMMA TunnelDeletes == ASSUME TunnelInv, NEW p \in T!Callers, T!Delete(p) PROVE TunnelInv'
<1>1. tPc[p] = "delete" /\ tFile' = T!NoTunnel /\ tSeen' = tSeen /\ T!Keep /\ tSsh' = tSsh
      /\ tWanted' = tWanted /\ tChild' = tChild /\ tWrong' = tWrong
  BY DEF T!Delete, T!At
<1>2. PICK s \in {"read", "spawn", "idle"} :
        /\ tPc' = [tPc EXCEPT ![p] = s]
        /\ tLock' = IF s = "idle" /\ tLock = p THEN T!Nobody ELSE tLock
  <2>1. CASE ~ tEvicting[p]
    BY <2>1 DEF T!Delete, T!Go
  <2>2. CASE tEvicting[p] /\ tOp[p] = "ensure"
    BY <2>2 DEF T!Delete, T!Go
  <2>3. CASE tEvicting[p] /\ tOp[p] # "ensure"
    BY <2>3 DEF T!Delete, T!Go, T!Done
  <2> QED
    BY <2>1, <2>2, <2>3
<1>3. tEvicting' \in [T!Callers -> BOOLEAN]
  <2>1. \A b \in BOOLEAN : [tEvicting EXCEPT ![p] = b] \in [T!Callers -> BOOLEAN]
    BY TunnelTyped
  <2>2. tEvicting' = tEvicting \/ tEvicting' = [tEvicting EXCEPT ![p] = TRUE]
    <3>1. CASE ~ tEvicting[p]
      BY <3>1 DEF T!Delete
    <3>2. CASE tEvicting[p]
      BY <3>2 DEF T!Delete
    <3> QED
      BY <3>1, <3>2
  <2> QED
    BY <2>1, <2>2, TunnelTyped
<1>4. tCalm => LivesAs(tFile)' /\ NoneLives'
  BY <1>1 DEF TunnelInv, TunnelAt, NoneLives, LivesAs
<1>5. tCalm => IF s = "idle" THEN LivesAs(tFile)' ELSE TunnelAt(p)'
  <2>1. tPc'[p] = s
    BY <1>2, TunnelTyped
  <2> QED
    BY <1>2, <1>4, <2>1 DEF TunnelAt
<1>6. s \in T!Steps \ {"lock"} /\ AtWork(p) /\ T!NoTunnel \in Tunnels
  BY <1>1, <1>2 DEF T!Steps, AtWork, T!NoTunnel, Tunnels
<1> QED
  BY <1>1, <1>2, <1>3, <1>5, <1>6, TunnelTyped, TunnelMoves

LEMMA TunnelSpawns == ASSUME TunnelInv, NEW p \in T!Callers, T!Spawn(p) PROVE TunnelInv'
<1>1. tPc[p] = "spawn" /\ tFile' = tFile /\ tSeen' = tSeen /\ T!Keep /\ tLock' = tLock
      /\ tEvicting' = tEvicting /\ tWrong' = tWrong /\ tPc' = [tPc EXCEPT ![p] = "wait"]
  BY DEF T!Spawn, T!At, T!Go
<1>2. PICK port \in Ports, i \in Pids :
        /\ tSsh[i].state = "free"
        /\ tSsh' = [tSsh EXCEPT ![i] = [state |-> "connecting", port |-> port]]
        /\ tWanted' = [tWanted EXCEPT ![p] = port] /\ tChild' = [tChild EXCEPT ![p] = i]
  BY DEF T!Spawn
<1> DEFINE new == [state |-> "connecting", port |-> port]
<1>3. new \in Processes /\ new.state \notin Binding /\ new.port = port
  BY DEF Processes, T!Live, Binding
<1>4. tSsh' \in [Pids -> Processes] /\ tSsh'[i] = new
      /\ \A j \in Pids \ {i} : tSsh'[j] = tSsh[j]
  BY <1>2, <1>3, TunnelTyped
<1>5. \A j \in Pids : tSsh'[j].state \in Binding => tSsh'[j] = tSsh[j]
  BY <1>3, <1>4
<1>6. tPc'[p] = "wait" /\ tChild'[p] = i /\ tWanted'[p] = port
  BY <1>1, <1>2, TunnelTyped
<1>7. tWanted' \in [T!Callers -> Ports \cup {0}] /\ tChild' \in [T!Callers -> Pids \cup {0}]
  BY <1>2, TunnelTyped
<1>8. tCalm => TunnelAt(p)'
  <2>1. tCalm => NoneLives
    BY <1>1 DEF TunnelInv, TunnelAt
  <2>2. tCalm => LivesAs([pid |-> tChild[p], port |-> tWanted[p]])'
    BY <1>3, <1>4, <1>6, <2>1 DEF LivesAs, NoneLives
  <2> QED
    BY <1>6, <2>2 DEF TunnelAt
<1>9. "wait" \in T!Steps \ {"lock", "idle"} /\ AtWork(p)
  BY <1>1 DEF T!Steps, AtWork
<1> HIDE DEF new
<1> QED
  BY <1>1, <1>4, <1>5, <1>7, <1>8, <1>9, TunnelTyped, TunnelMoves

LEMMA TunnelWaits == ASSUME TunnelInv, NEW p \in T!Callers, T!Wait(p) PROVE TunnelInv'
<1>1. tPc[p] = "wait" /\ tFile' = tFile /\ tSeen' = tSeen /\ T!Keep /\ tWanted' = tWanted
      /\ tChild' = tChild /\ tEvicting' = tEvicting /\ tWrong' = tWrong
  BY DEF T!Wait, T!At
<1> DEFINE t == [pid |-> tChild[p], port |-> tWanted[p]]
<1>2. tCalm => LivesAs(t)
  BY <1>1 DEF TunnelInv, TunnelAt
<1>3. t \in Tunnels /\ tChild[p] \in Pids \cup {0}
  BY TunnelTyped DEF Tunnels
<1>4. {"write", "idle"} \subseteq T!Steps \ {"lock"} /\ AtWork(p)
  BY <1>1 DEF T!Steps, AtWork
<1>5. CASE tSsh' = tSsh /\ tLock' = tLock /\ tPc' = [tPc EXCEPT ![p] = "write"]
  <2>1. tPc'[p] = "write"
    BY <1>5, TunnelTyped
  <2>2. tCalm => LivesAs([pid |-> tChild[p], port |-> tWanted[p]])'
    BY <1>1, <1>2, <1>5 DEF LivesAs
  <2>3. tCalm => TunnelAt(p)'
    BY <2>1, <2>2 DEF TunnelAt
  <2> QED
    BY <1>1, <1>4, <1>5, <2>3, TunnelTyped, TunnelMoves
<1>6. CASE /\ tPc' = [tPc EXCEPT ![p] = "idle"]
           /\ tLock' = IF tLock = p THEN T!Nobody ELSE tLock
           /\ tSsh' = IF T!IsChild(tChild[p], tWanted[p]) THEN T!Dead(tChild[p]) ELSE tSsh
  <2>1. CASE T!IsChild(tChild[p], tWanted[p])
    <3>1. tChild[p] \in Pids
      BY <1>3, <2>1 DEF T!IsChild
    <3>2. tSsh' = T!Dead(tChild[p])
      BY <1>6, <2>1
    <3>3. tCalm => NoneLives'
      BY <1>2, <3>1, <3>2, TunnelEnded
    <3>4. tCalm => LivesAs(tFile)'
      BY <3>3 DEF LivesAs, NoneLives
    <3>5. tSsh' \in [Pids -> Processes]
          /\ \A j \in Pids : tSsh'[j].state \in Binding => tSsh'[j] = tSsh[j]
      BY <3>1, <3>2, TunnelDead
    <3> QED
      BY <1>1, <1>4, <1>6, <3>4, <3>5, TunnelTyped, TunnelMoves
  <2>2. CASE ~ T!IsChild(tChild[p], tWanted[p])
    <3>1. tSsh' = tSsh
      BY <1>6, <2>2
    <3>2. ~ T!Ours(t)
      BY <2>2 DEF T!Ours, T!IsChild
    <3>3. tCalm => NoneLives
      BY <1>2, <1>3, <3>2, TunnelTyped, TunnelOurs
    <3>4. tCalm => LivesAs(tFile)'
      BY <3>1, <3>3 DEF LivesAs, NoneLives
    <3> QED
      BY <1>1, <1>4, <1>6, <3>1, <3>4, TunnelTyped, TunnelMoves
  <2> QED
    BY <2>1, <2>2
<1> QED
  BY <1>5, <1>6 DEF T!Wait, T!Go, T!Done

LEMMA TunnelWrites == ASSUME TunnelInv, NEW p \in T!Callers, T!Write(p) PROVE TunnelInv'
<1>1. tPc[p] = "write" /\ tFile' = [pid |-> tChild[p], port |-> tWanted[p]]
      /\ tSeen' = tSeen /\ T!Keep /\ tWanted' = tWanted /\ tSsh' = tSsh
      /\ tChild' = tChild /\ tEvicting' = tEvicting /\ tWrong' = tWrong
      /\ tPc' = [tPc EXCEPT ![p] = "idle"] /\ tLock' = IF tLock = p THEN T!Nobody ELSE tLock
  BY DEF T!Write, T!At, T!Go, T!Done
<1>2. tFile' \in Tunnels
  BY <1>1, TunnelTyped DEF Tunnels
<1>3. tCalm => LivesAs(tFile)'
  BY <1>1 DEF TunnelInv, TunnelAt, LivesAs
<1>4. "idle" \in T!Steps \ {"lock"} /\ AtWork(p)
  BY <1>1 DEF T!Steps, AtWork
<1> QED
  BY <1>1, <1>2, <1>3, <1>4, TunnelTyped, TunnelMoves

LEMMA TunnelDies == ASSUME TunnelInv, NEW p \in T!Callers, T!Killed(p) PROVE TunnelInv'
<1>1. tCalm' = FALSE /\ tFile' = tFile /\ tSsh' = tSsh /\ tOp' = tOp /\ tSeen' = tSeen
      /\ tWanted' = tWanted /\ tChild' = tChild /\ tEvicting' = tEvicting /\ tWrong' = tWrong
      /\ tCalls' = tCalls
      /\ tPc' = [q \in T!Callers |-> IF (q = Cli) = (p = Cli) THEN "idle" ELSE tPc[q]]
      /\ tLock' = IF p = Cli THEN tLock ELSE T!Nobody
  BY DEF T!Killed
<1>2. "idle" \in T!Steps
  BY DEF T!Steps
<1>3. tPc' \in [T!Callers -> T!Steps]
      /\ \A q \in T!Callers : tPc'[q] = "lock" => tPc[q] = "lock"
  BY <1>1, <1>2, TunnelTyped
<1>4. tLock' \in Procs \cup {T!Nobody} /\ tCalm' \in BOOLEAN
  BY <1>1, TunnelTyped
<1>5. T!TypeOK' /\ T!NeverOther'
  BY <1>1, <1>3, <1>4, TunnelTyped, TunnelTypes
<1> QED
  BY <1>1, <1>3, <1>5 DEF TunnelInv

\* What the processes and the dashboard do by themselves makes no tunnel.
LEMMA TunnelOutside ==
  ASSUME TunnelInv, T!Outside, tSsh' \in [Pids -> Processes],
         \A i \in Pids : tSsh'[i].state \in T!Live
                         => tSsh[i].state \in T!Live /\ tSsh'[i].port = tSsh[i].port,
         \A i, j \in Pids : tSsh'[i].state \in Binding /\ tSsh'[j].state \in Binding
                            /\ tSsh'[i].port = tSsh'[j].port => i = j
  PROVE  TunnelInv'
<1>1. tFile' = tFile /\ tPc' = tPc /\ tOp' = tOp /\ tSeen' = tSeen /\ tWanted' = tWanted
      /\ tChild' = tChild /\ tEvicting' = tEvicting /\ tLock' = tLock /\ tCalm' = tCalm
      /\ tWrong' = tWrong /\ tCalls' = tCalls
  BY DEF T!Outside
<1>2. T!TypeOK' /\ T!NeverOther'
  BY <1>1, TunnelTyped, TunnelTypes
<1>3. \A t : LivesAs(t) => \A i \in Pids : tSsh'[i].state \in T!Live
                                           => t = [pid |-> i, port |-> tSsh'[i].port]
  BY DEF LivesAs
<1>4. (NoneLives => NoneLives') /\ (LivesAs(tFile) => LivesAs(tFile)')
  BY <1>1, <1>3 DEF NoneLives, LivesAs
<1>5. \A p \in T!Callers : TunnelAt(p) => TunnelAt(p)'
  <2> SUFFICES ASSUME NEW p \in T!Callers, TunnelAt(p) PROVE TunnelAt(p)'
    OBVIOUS
  <2>1. LivesAs(tSeen[p]) => LivesAs(tSeen[p])'
    BY <1>1, <1>3 DEF LivesAs
  <2>2. LivesAs([pid |-> tChild[p], port |-> tWanted[p]])
        => LivesAs([pid |-> tChild[p], port |-> tWanted[p]])'
    BY <1>1, <1>3 DEF LivesAs
  <2> QED
    BY <1>1, <1>4, <2>1, <2>2 DEF TunnelAt
<1> QED
  BY <1>1, <1>2, <1>4, <1>5 DEF TunnelInv, AtWork

LEMMA TunnelOthers ==
  ASSUME TunnelInv, NEW i \in Pids,
         T!Connects(i) \/ T!Dashboard(i) \/ T!Exits(i) \/ T!Reused(i)
  PROVE  TunnelInv'
<1>1. T!Outside
  BY DEF T!Connects, T!Dashboard, T!Exits, T!Reused
<1>2. CASE tSsh' = T!Dead(i)
  BY <1>1, <1>2, TunnelTyped, TunnelDead, TunnelOutside
<1>3. CASE T!Reused(i)
  <2> DEFINE new == [state |-> "other", port |-> 0]
  <2>1. new \in Processes /\ new.state \notin T!Live /\ new.state \notin Binding
    BY DEF Processes, T!Live, Binding
  <2>2. tSsh' \in [Pids -> Processes] /\ tSsh'[i] = new
        /\ \A j \in Pids \ {i} : tSsh'[j] = tSsh[j]
    BY <1>3, <2>1, TunnelTyped DEF T!Reused
  <2> HIDE DEF new
  <2> QED
    BY <1>1, <2>1, <2>2, TunnelTyped, TunnelOutside
<1>4. ASSUME NEW v \in Binding, tSsh' = [tSsh EXCEPT ![i].state = v], tSsh[i].state \in T!Live,
             tSsh[i].state \notin Binding => ~ T!Bound(tSsh[i].port)
      PROVE  TunnelInv'
  <2>1. tSsh[i] \in Processes
    BY TunnelTyped
  <2>2. tSsh' \in [Pids -> Processes] /\ tSsh'[i].state = v /\ tSsh'[i].port = tSsh[i].port
        /\ \A j \in Pids \ {i} : tSsh'[j] = tSsh[j]
    BY <1>4, <2>1, TunnelTyped DEF Processes, T!Live, Binding
  <2>3. \A j \in Pids : tSsh'[j].state \in Binding /\ j # i => tSsh'[j].port # tSsh'[i].port
    <3> SUFFICES ASSUME NEW j \in Pids \ {i}, tSsh[j].state \in Binding,
                        tSsh[j].port = tSsh[i].port
                 PROVE  FALSE
      BY <2>2
    <3>1. CASE tSsh[i].state \in Binding
      BY <3>1, TunnelTyped
    <3>2. CASE tSsh[i].state \notin Binding
      BY <1>4, <3>2 DEF T!Bound, Binding
    <3> QED
      BY <3>1, <3>2
  <2>4. \A j, l \in Pids : tSsh'[j].state \in Binding /\ tSsh'[l].state \in Binding
                           /\ tSsh'[j].port = tSsh'[l].port => j = l
    <3> SUFFICES ASSUME NEW j \in Pids, NEW l \in Pids, tSsh'[j].state \in Binding,
                        tSsh'[l].state \in Binding, tSsh'[j].port = tSsh'[l].port, j # l
                 PROVE  FALSE
      OBVIOUS
    <3>1. j # i /\ l # i
      BY <2>3
    <3> QED
      BY <2>2, <3>1, TunnelTyped
  <2> QED
    BY <1>1, <1>4, <2>2, <2>4, TunnelOutside
<1>5. CASE T!Connects(i)
  BY <1>2, <1>4, <1>5 DEF T!Connects, Binding, T!Live
<1>6. CASE T!Dashboard(i)
  <2>1. tSsh[i].state \in Binding /\ tSsh[i].state \in T!Live
    BY <1>6 DEF T!Dashboard, Binding, T!Live
  <2>2. \E v \in Binding : tSsh' = [tSsh EXCEPT ![i].state = v]
    BY <1>6 DEF T!Dashboard, Binding
  <2> QED
    BY <1>4, <2>1, <2>2
<1>7. CASE T!Exits(i)
  BY <1>2, <1>7 DEF T!Exits
<1> QED
  BY <1>3, <1>5, <1>6, <1>7

LEMMA TunnelStart == ASSUME T!Init PROVE TunnelInv
<1>1. tFile = T!NoTunnel /\ tSsh = [i \in Pids |-> T!Nothing]
      /\ tPc = [p \in T!Callers |-> "idle"] /\ tOp = [p \in T!Callers |-> "ensure"]
      /\ tSeen = [p \in T!Callers |-> T!NoTunnel]
      /\ tWanted = [p \in T!Callers |-> 0] /\ tChild = [p \in T!Callers |-> 0]
      /\ tEvicting = [p \in T!Callers |-> FALSE]
      /\ tLock = T!Nobody /\ tCalm = TRUE /\ tWrong = FALSE /\ tCalls = 0
  BY DEF T!Init
<1>2. MaxCalls \in Nat
  BY WorkstationAssumption DEF T!TunnelAssumption
<1>3. \A i \in Pids : tSsh[i].state = "free"
  BY <1>1 DEF T!Nothing
<1>4. T!TypeOK
  <2>1. \A i, j \in Pids : {tSsh[i].state, tSsh[j].state} \subseteq {"up", "hung"}
                           /\ tSsh[i].port = tSsh[j].port => i = j
    BY <1>3
  <2>2. {tCalm, tWrong} \subseteq BOOLEAN /\ tEvicting \in [T!Callers -> BOOLEAN]
    BY <1>1
  <2>3. tCalls \in 0 .. MaxCalls
    BY <1>1, <1>2
  <2>4. tFile \in [pid : Pids \cup {0}, port : Ports \cup {0}]
        /\ tSsh \in [Pids -> [state : T!Live \cup {"free", "other"}, port : Ports \cup {0}]]
        /\ tSeen \in [T!Callers -> [pid : Pids \cup {0}, port : Ports \cup {0}]]
    BY <1>1 DEF T!NoTunnel, T!Nothing
  <2>5. tPc \in [T!Callers -> T!Steps] /\ tOp \in [T!Callers -> {"ensure", "close"}]
        /\ tWanted \in [T!Callers -> Ports \cup {0}] /\ tChild \in [T!Callers -> Pids \cup {0}]
        /\ tLock \in Procs \cup {T!Nobody}
    BY <1>1 DEF T!Steps
  <2> QED
    BY <2>1, <2>2, <2>3, <2>4, <2>5 DEF T!TypeOK
<1>5. T!NeverOther
  BY <1>1 DEF T!NeverOther
<1>6. LivesAs(tFile) /\ \A p \in T!Callers : TunnelAt(p)
  BY <1>1, <1>3 DEF LivesAs, TunnelAt, T!Live
<1>7. \A p \in T!Callers : tPc[p] = "idle"
  BY <1>1
<1> QED
  BY <1>1, <1>4, <1>5, <1>6, <1>7 DEF TunnelInv, AtWork, T!Callers

LEMMA TunnelStep == ASSUME TunnelInv, T!Next PROVE TunnelInv'
<1>1. CASE \E p \in T!Callers :
             \/ T!Begin(p, "ensure") \/ T!Begin(p, "close")
             \/ T!Lock(p) \/ T!Read(p) \/ T!Probe(p) \/ T!Term(p) \/ T!Kill(p) \/ T!Delete(p)
             \/ T!Spawn(p) \/ T!Wait(p) \/ T!Write(p) \/ T!Killed(p)
  <2> PICK p \in T!Callers :
             \/ T!Begin(p, "ensure") \/ T!Begin(p, "close")
             \/ T!Lock(p) \/ T!Read(p) \/ T!Probe(p) \/ T!Term(p) \/ T!Kill(p) \/ T!Delete(p)
             \/ T!Spawn(p) \/ T!Wait(p) \/ T!Write(p) \/ T!Killed(p)
    BY <1>1
  <2> QED
    BY TunnelBegins, TunnelLocks, TunnelReads, TunnelProbes, TunnelTerms, TunnelDeletes,
       TunnelSpawns, TunnelWaits, TunnelWrites, TunnelDies
<1>2. CASE \E i \in Pids : T!Connects(i) \/ T!Dashboard(i) \/ T!Exits(i) \/ T!Reused(i)
  BY <1>2, TunnelOthers
<1> QED
  BY <1>1, <1>2 DEF T!Next

LEMMA TunnelStutter == ASSUME TunnelInv, UNCHANGED tunnelVars PROVE TunnelInv'
<1>1. tFile' = tFile /\ tPc' = tPc /\ tOp' = tOp /\ tSeen' = tSeen /\ tWanted' = tWanted
      /\ tChild' = tChild /\ tEvicting' = tEvicting /\ tLock' = tLock /\ tCalm' = tCalm
      /\ tWrong' = tWrong /\ tCalls' = tCalls /\ tSsh' = tSsh
  BY DEF tunnelVars
<1> QED
  BY <1>1, TunnelTyped, TunnelOutside DEF T!Outside

(***************************************************************************)
(* Manifest.  What a command has done is not yet what it planned while it  *)
(* runs: of each entry of the plan, either it is still to do, or it is     *)
(* done and the steps that follow leave it so (ApplyPlan, DeletePlan).     *)
(***************************************************************************)
\* Of agent g: it is there, installed unless it was found there, in the version declared.
AgentPlan(g) ==
  /\ g \in todo["install"] \/ (fleet[g].there /\ (g \in actual \/ fleet[g].installed))
  /\ fleet[g].there /\ doc[g].version # "any" /\ doc[g].version # fleet[g].version
       => g \in todo["upgrade"]
ApplyPlan ==
  /\ "it" \in todo["host"] \/ hosts
  /\ "it" \in todo["provider"] \/ providers
  /\ \A g \in Agents : AgentPlan(g)
DeletePlan == \A g \in Agents : fleet[g].there => g \in todo["stop"]

ManifestInv ==
  /\ M!TypeOK
  /\ command # "none" => last = "none"
  /\ command = "apply" => todo["stop"] = {} /\ todo["cascade"] = {}
  /\ command = "delete" => \A ph \in M!Phases \ {"stop", "cascade"} : todo[ph] = {}
  /\ ~ disturbed /\ ~ errors /\ command = "apply" => ApplyPlan
  /\ ~ disturbed /\ ~ errors /\ command = "delete" => DeletePlan
  /\ M!Settles

LEMMA ManifestPhases ==
  M!Phases = {"host", "provider", "install", "upgrade", "attach", "start", "restart",
              "stop", "cascade"}
<1>1. DOMAIN M!Apply = 1 .. 7 /\ DOMAIN M!Delete = 1 .. 2
  BY DEF M!Apply, M!Delete
<1>2. {M!Apply[i] : i \in 1 .. 7}
        = {"host", "provider", "install", "upgrade", "attach", "start", "restart"}
  BY DEF M!Apply
<1>3. {M!Delete[i] : i \in 1 .. 2} = {"stop", "cascade"}
  BY DEF M!Delete
<1> QED
  BY <1>1, <1>2, <1>3 DEF M!Phases

Docs == [type : M!Types, provider : BOOLEAN, version : M!Versions \cup {"any"}, autoStart : BOOLEAN]

LEMMA ManifestTyped ==
  ASSUME ManifestInv
  PROVE  /\ doc \in [Agents -> Docs] /\ hosts \in BOOLEAN /\ providers \in BOOLEAN
         /\ fleet \in [Agents -> M!Records]
         /\ \A g \in Agents : ~ fleet[g].there => fleet[g] = M!Absent
         /\ actual \subseteq Agents /\ todo \in [M!Phases -> SUBSET M!Things]
         /\ errors \in BOOLEAN /\ command \in {"none", "apply", "delete"}
         /\ last \in {"none", "apply", "delete"} /\ disturbed \in BOOLEAN
         /\ command = "none" => \A ph \in M!Phases : todo[ph] = {}
         /\ runs \in 0 .. MaxRuns /\ MaxRuns \in Nat
BY WorkstationAssumption DEF ManifestInv, M!TypeOK, M!ManifestAssumption, M!Nothing, Docs

LEMMA ManifestTypes ==
  ASSUME doc' \in [Agents -> Docs], hosts' \in BOOLEAN, providers' \in BOOLEAN,
         fleet' \in [Agents -> M!Records],
         \A g \in Agents : ~ fleet'[g].there => fleet'[g] = M!Absent,
         actual' \subseteq Agents, todo' \in [M!Phases -> SUBSET M!Things],
         errors' \in BOOLEAN, command' \in {"none", "apply", "delete"},
         last' \in {"none", "apply", "delete"}, disturbed' \in BOOLEAN,
         command' = "none" => todo' = M!Nothing, runs' \in 0 .. MaxRuns
  PROVE  M!TypeOK'
BY DEF M!TypeOK, Docs

\* Nothing has settled while a command runs.
LEMMA NotSettled == ASSUME last' = "none" PROVE M!Settles'
BY DEF M!Settles

LEMMA ManifestChanges ==
  ASSUME ManifestInv
  PROVE  /\ M!Changes \in [M!Phases -> SUBSET M!Things]
         /\ M!Changes["host"] = IF hosts THEN {} ELSE {"it"}
         /\ M!Changes["provider"] = IF providers THEN {} ELSE {"it"}
         /\ M!Changes["install"] = Agents \ M!There
         /\ M!Changes["upgrade"] = M!ToUpgrade
         /\ M!Changes["stop"] = {} /\ M!Changes["cascade"] = {}
<1> DEFINE h == IF hosts THEN {} ELSE {"it"}
           pr == IF providers THEN {} ELSE {"it"}
           at == {g \in Agents : doc[g].provider /\ ~ fleet[g].provider}
           st == {g \in Agents \ M!There : doc[g].autoStart}
           in == Agents \ M!There
           up == M!ToUpgrade
<1>1. M!Changes = [M!Nothing EXCEPT !["host"] = h, !["provider"] = pr, !["install"] = in,
                     !["upgrade"] = up, !["attach"] = at, !["start"] = st, !["restart"] = up]
  BY DEF M!Changes
<1>2. {h, pr, at, st, in, up} \subseteq SUBSET M!Things
  BY DEF M!Things, M!ToUpgrade, M!There
<1>3. h = (IF hosts THEN {} ELSE {"it"}) /\ pr = (IF providers THEN {} ELSE {"it"})
      /\ in = Agents \ M!There /\ up = M!ToUpgrade
  OBVIOUS
<1>4. M!Nothing \in [M!Phases -> SUBSET M!Things] /\ \A ph \in M!Phases : M!Nothing[ph] = {}
  BY DEF M!Nothing
<1> HIDE DEF h, pr, at, st, in, up
<1> QED
  BY <1>1, <1>2, <1>3, <1>4, ManifestPhases

\* A command begins with the plan `changes`.
LEMMA ManifestBegins ==
  ASSUME ManifestInv, NEW what \in {"apply", "delete"},
         NEW changes \in [M!Phases -> SUBSET M!Things], M!Begin(what, changes),
         what = "apply" => changes["stop"] = {} /\ changes["cascade"] = {},
         what = "delete" => \A ph \in M!Phases \ {"stop", "cascade"} : changes[ph] = {},
         what = "apply" => ApplyPlan', what = "delete" => DeletePlan'
  PROVE  ManifestInv'
<1>1. command = "none" /\ runs < MaxRuns /\ runs' = runs + 1 /\ actual' = M!There
      /\ todo' = changes /\ errors' = FALSE /\ command' = what /\ disturbed' = FALSE
      /\ last' = "none" /\ doc' = doc /\ hosts' = hosts /\ providers' = providers
      /\ fleet' = fleet
  BY DEF M!Begin, M!registered
<1>2. actual' \subseteq Agents
  BY <1>1 DEF M!There
<1>3. errors' \in BOOLEAN /\ disturbed' \in BOOLEAN
  BY <1>1
<1>4. runs' \in 0 .. MaxRuns
  BY <1>1, ManifestTyped
<1>5. M!TypeOK'
  BY <1>1, <1>2, <1>3, <1>4, ManifestTyped, ManifestTypes
<1> QED
  BY <1>1, <1>5, NotSettled DEF ManifestInv

LEMMA ManifestApplies == ASSUME ManifestInv, M!BeginApply PROVE ManifestInv'
<1>1. M!Begin("apply", M!Changes)
  BY DEF M!BeginApply
<1>2. todo' = M!Changes /\ actual' = M!There /\ doc' = doc /\ hosts' = hosts
      /\ providers' = providers /\ fleet' = fleet
  BY <1>1 DEF M!Begin, M!registered
<1>3. "it" \in todo'["host"] \/ hosts'
  BY <1>2, ManifestChanges
<1>4. "it" \in todo'["provider"] \/ providers'
  BY <1>2, ManifestChanges
<1>5. \A g \in Agents : AgentPlan(g)'
  <2> SUFFICES ASSUME NEW g \in Agents PROVE AgentPlan(g)'
    OBVIOUS
  <2>1. g \in todo'["install"] \/ (fleet'[g].there /\ g \in actual')
    BY <1>2, ManifestChanges DEF M!There
  <2>2. fleet'[g].there /\ doc'[g].version # "any" /\ doc'[g].version # fleet'[g].version
        => g \in todo'["upgrade"]
    BY <1>2, ManifestChanges DEF M!There, M!ToUpgrade
  <2> QED
    BY <2>1, <2>2 DEF AgentPlan
<1>6. ApplyPlan'
  BY <1>3, <1>4, <1>5 DEF ApplyPlan
<1> QED
  BY <1>1, <1>6, ManifestChanges, ManifestBegins

LEMMA ManifestDeletes == ASSUME ManifestInv, M!BeginDelete PROVE ManifestInv'
<1>1. PICK cascade \in BOOLEAN :
        M!Begin("delete", [M!Nothing EXCEPT !["stop"] = M!There,
                             !["cascade"] = IF cascade THEN {"it"} ELSE {}])
  BY DEF M!BeginDelete
<1> DEFINE it == IF cascade THEN {"it"} ELSE {}
           changes == [M!Nothing EXCEPT !["stop"] = M!There, !["cascade"] = it]
<1>2. it \in SUBSET M!Things /\ M!There \in SUBSET M!Things
  BY DEF M!Things, M!There
<1>3. M!Nothing \in [M!Phases -> SUBSET M!Things] /\ \A ph \in M!Phases : M!Nothing[ph] = {}
  BY DEF M!Nothing
<1>4. M!Begin("delete", changes)
  BY <1>1
<1> HIDE DEF it
<1>5. changes \in [M!Phases -> SUBSET M!Things] /\ changes["stop"] = M!There
      /\ \A ph \in M!Phases \ {"stop", "cascade"} : changes[ph] = {}
  BY <1>2, <1>3, ManifestPhases
<1> HIDE DEF changes
<1>6. todo' = changes /\ fleet' = fleet
  BY <1>4 DEF M!Begin
<1>7. DeletePlan'
  BY <1>5, <1>6 DEF DeletePlan, M!There
<1> QED
  BY <1>4, <1>5, <1>7, ManifestBegins

\* A step of a command that works off an entry of phase ph.
LEMMA ManifestWorks ==
  ASSUME ManifestInv, NEW ph \in M!Phases, NEW x, x \in todo[ph], M!Tick(ph, x),
         UNCHANGED <<doc, actual, command, disturbed, last, runs>>,
         hosts' \in BOOLEAN, providers' \in BOOLEAN, fleet' \in [Agents -> M!Records],
         \A g \in Agents : ~ fleet'[g].there => fleet'[g] = M!Absent,
         errors' \in BOOLEAN,
         ~ errors' /\ ApplyPlan /\ ph \notin {"stop", "cascade"} => ApplyPlan',
         ~ errors' /\ DeletePlan /\ ph \in {"stop", "cascade"} => DeletePlan',
         errors => errors'
  PROVE  ManifestInv'
<1>1. doc' = doc /\ actual' = actual /\ command' = command /\ disturbed' = disturbed
      /\ last' = last /\ runs' = runs
  OBVIOUS
<1>2. todo' \in [M!Phases -> SUBSET M!Things]
      /\ \A q \in M!Phases : todo'[q] = IF q = ph THEN todo[q] \ {x} ELSE todo[q]
  BY ManifestTyped DEF M!Tick
<1>3. command # "none" /\ last = "none"
  BY ManifestTyped DEF ManifestInv
<1>4. M!TypeOK'
  BY <1>1, <1>2, <1>3, ManifestTyped, ManifestTypes
<1>5. M!Settles'
  BY <1>1, <1>3, NotSettled
<1>6. command = "apply" => ph \notin {"stop", "cascade"}
  BY DEF ManifestInv
<1>7. command = "delete" => ph \in {"stop", "cascade"}
  BY DEF ManifestInv
<1>8. command = "apply" => todo'["stop"] = {} /\ todo'["cascade"] = {}
  BY <1>2, <1>6, ManifestPhases DEF ManifestInv
<1>9. command = "delete" => \A q \in M!Phases \ {"stop", "cascade"} : todo'[q] = {}
  BY <1>2, <1>7 DEF ManifestInv
<1>10. ~ disturbed /\ ~ errors' /\ command = "apply" => ApplyPlan'
  BY <1>6 DEF ManifestInv
<1>11. ~ disturbed /\ ~ errors' /\ command = "delete" => DeletePlan'
  BY <1>7 DEF ManifestInv
<1> QED
  BY <1>1, <1>3, <1>4, <1>5, <1>8, <1>9, <1>10, <1>11 DEF ManifestInv

\* What has been worked off is done: of the host and the provider.
LEMMA ManifestWorksIt ==
  ASSUME ManifestInv, NEW ph \in {"host", "provider", "cascade"}, M!Due(ph, "it"),
         M!Tick(ph, "it"),
         UNCHANGED <<doc, fleet, actual, command, disturbed, last, runs>>,
         hosts' \in BOOLEAN, providers' \in BOOLEAN, errors' \in BOOLEAN, errors => errors',
         ph # "cascade" /\ ~ errors' => hosts' = (hosts \/ ph = "host")
                                       /\ providers' = (providers \/ ph = "provider")
  PROVE  ManifestInv'
<1>1. ph \in M!Phases /\ "it" \in todo[ph]
  BY ManifestPhases DEF M!Due
<1>2. \A q \in M!Phases : q # ph => todo'[q] = todo[q]
  BY ManifestTyped DEF M!Tick
<1>3. doc' = doc /\ fleet' = fleet /\ actual' = actual
  OBVIOUS
<1>4. todo'["install"] = todo["install"] /\ todo'["upgrade"] = todo["upgrade"]
      /\ todo'["stop"] = todo["stop"]
  BY <1>2, ManifestPhases
<1>5. ~ errors' /\ ApplyPlan /\ ph # "cascade" => ApplyPlan'
  <2> SUFFICES ASSUME ~ errors', ApplyPlan, ph # "cascade" PROVE ApplyPlan'
    OBVIOUS
  <2>1. \A g \in Agents : AgentPlan(g)'
    BY <1>3, <1>4 DEF ApplyPlan, AgentPlan
  <2>2. "it" \in todo'["host"] \/ hosts'
    BY <1>2, ManifestPhases DEF ApplyPlan
  <2>3. "it" \in todo'["provider"] \/ providers'
    BY <1>2, ManifestPhases DEF ApplyPlan
  <2> QED
    BY <2>1, <2>2, <2>3 DEF ApplyPlan
<1>6. DeletePlan => DeletePlan'
  BY <1>3, <1>4 DEF DeletePlan
<1> QED
  BY <1>1, <1>3, <1>5, <1>6, ManifestTyped, ManifestWorks

LEMMA ErrorsStay ==
  ASSUME errors \in BOOLEAN, errors' \in {errors, TRUE}
  PROVE  errors' \in BOOLEAN /\ (errors => errors')
<1>1. errors' = errors \/ errors' = TRUE
  BY Zenon
<1> QED
  BY <1>1

LEMMA ManifestHost == ASSUME ManifestInv, M!CreateHost PROVE ManifestInv'
<1>1. M!Due("host", "it") /\ M!Tick("host", "it") /\ providers' = providers
      /\ UNCHANGED <<doc, fleet, actual, command, disturbed, last, runs>>
  BY DEF M!CreateHost
<1>2. hosts' \in BOOLEAN /\ errors' \in BOOLEAN /\ (errors => errors')
      /\ (~ errors' => hosts' = TRUE)
  <2>1. CASE hosts' = TRUE /\ errors' \in {errors, TRUE}
    BY <2>1, ErrorsStay, ManifestTyped
  <2>2. CASE hosts' = hosts /\ errors' = TRUE
    BY <2>2, ManifestTyped
  <2> QED
    BY <2>1, <2>2 DEF M!CreateHost, M!Failed
<1> QED
  BY <1>1, <1>2, ManifestTyped, ManifestWorksIt

LEMMA ManifestProvider == ASSUME ManifestInv, M!CreateProvider PROVE ManifestInv'
<1>1. M!Due("provider", "it") /\ M!Tick("provider", "it") /\ hosts' = hosts
      /\ UNCHANGED <<doc, fleet, actual, command, disturbed, last, runs>>
  BY DEF M!CreateProvider
<1>2. providers' \in BOOLEAN /\ errors' \in BOOLEAN /\ (errors => errors')
      /\ (~ errors' => providers' = TRUE)
  <2>1. CASE providers' = TRUE /\ errors' = errors
    BY <2>1, ManifestTyped
  <2>2. CASE providers' = providers /\ errors' = TRUE
    BY <2>2, ManifestTyped
  <2> QED
    BY <2>1, <2>2 DEF M!CreateProvider, M!Failed, M!Ok
<1> QED
  BY <1>1, <1>2, ManifestTyped, ManifestWorksIt

LEMMA ManifestCascade == ASSUME ManifestInv, M!Cascade PROVE ManifestInv'
<1>1. M!Due("cascade", "it") /\ M!Tick("cascade", "it") /\ hosts' = hosts
      /\ UNCHANGED <<doc, fleet, actual, command, disturbed, last, runs>>
  BY DEF M!Cascade
<1>2. providers' \in BOOLEAN /\ errors' \in BOOLEAN /\ (errors => errors')
  <2>1. CASE providers' = FALSE /\ errors' = errors
    BY <2>1, ManifestTyped
  <2>2. CASE providers' = providers /\ errors' \in {errors, TRUE}
    BY <2>2, ErrorsStay, ManifestTyped
  <2> QED
    BY <2>1, <2>2 DEF M!Cascade, M!Ok
<1> QED
  BY <1>1, <1>2, ManifestTyped, ManifestWorksIt

\* A step on the record of agent g.  Unless it reports an error, an installation leaves the
\* agent installed in the version declared, and no other step touches that.
LEMMA ManifestWorksAgent ==
  ASSUME ManifestInv, NEW g \in Agents,
         NEW ph \in {"install", "upgrade", "attach", "start", "restart", "stop"},
         M!Due(ph, g), M!Tick(ph, g),
         UNCHANGED <<doc, hosts, providers, actual, command, disturbed, last, runs>>,
         NEW r \in M!Records, fleet' = [fleet EXCEPT ![g] = r], ~ r.there => r = M!Absent,
         errors' \in BOOLEAN, errors => errors',
         ~ errors' /\ ph \in {"install", "upgrade"}
           => r.there /\ r.installed /\ (doc[g].version # "any" => r.version = doc[g].version),
         ~ errors' /\ ph \in {"attach", "start", "restart"}
           => (r.there <=> fleet[g].there) /\ (r.installed <=> fleet[g].installed)
              /\ r.version = fleet[g].version,
         ~ errors' /\ ph = "stop" => ~ r.there
  PROVE  ManifestInv'
<1>1. ph \in M!Phases /\ g \in todo[ph]
  BY ManifestPhases DEF M!Due
<1>2. \A q \in M!Phases : todo'[q] = IF q = ph THEN todo[q] \ {g} ELSE todo[q]
  BY ManifestTyped DEF M!Tick
<1>3. doc' = doc /\ hosts' = hosts /\ providers' = providers /\ actual' = actual
  OBVIOUS
<1>4. fleet' \in [Agents -> M!Records] /\ fleet'[g] = r
      /\ \A q \in Agents \ {g} : fleet'[q] = fleet[q]
  BY ManifestTyped
<1>5. \A q \in Agents : ~ fleet'[q].there => fleet'[q] = M!Absent
  BY <1>4, ManifestTyped
<1>6. ASSUME ~ errors', ApplyPlan, ph # "stop" PROVE ApplyPlan'
  <2>1. todo'["host"] = todo["host"] /\ todo'["provider"] = todo["provider"]
    BY <1>2, ManifestPhases
  <2>2. \A q \in Agents \ {g} : (q \in todo'["install"] <=> q \in todo["install"])
                               /\ (q \in todo'["upgrade"] <=> q \in todo["upgrade"])
    BY <1>2, ManifestPhases
  <2>3. \A q \in Agents \ {g} : AgentPlan(q)'
    <3> SUFFICES ASSUME NEW q \in Agents \ {g} PROVE AgentPlan(q)'
      OBVIOUS
    <3>1. AgentPlan(q)
      BY <1>6 DEF ApplyPlan
    <3> QED
      BY <1>3, <1>4, <2>2, <3>1 DEF AgentPlan
  <2>4. CASE ph \in {"install", "upgrade"}
    <3>1. AgentPlan(g)'
      BY <1>3, <1>4, <1>6, <2>4 DEF AgentPlan
    <3> QED
      BY <1>3, <1>6, <2>1, <2>3, <3>1 DEF ApplyPlan
  <2>5. CASE ph \notin {"install", "upgrade"}
    <3>1. AgentPlan(g)
      BY <1>6 DEF ApplyPlan
    <3>2. todo'["install"] = todo["install"] /\ todo'["upgrade"] = todo["upgrade"]
      BY <1>2, <2>5, ManifestPhases
    <3>3. AgentPlan(g)'
      BY <1>3, <1>4, <1>6, <2>5, <3>1, <3>2 DEF AgentPlan
    <3> QED
      BY <1>3, <1>6, <2>1, <2>3, <3>3 DEF ApplyPlan
  <2> QED
    BY <2>4, <2>5
<1>7. ASSUME ~ errors', DeletePlan, ph = "stop" PROVE DeletePlan'
  <2>1. \A q \in Agents \ {g} : q \in todo'["stop"] <=> q \in todo["stop"]
    BY <1>2, ManifestPhases
  <2> QED
    BY <1>4, <1>7, <2>1 DEF DeletePlan
<1>8. ph # "cascade"
  OBVIOUS
<1> QED
  BY <1>1, <1>3, <1>4, <1>5, <1>6, <1>7, <1>8, ManifestTyped, ManifestWorks

\* The record of an agent after a step of an installation.
LEMMA ManifestInstalls ==
  ASSUME ManifestInv, NEW g \in Agents, M!InstallAgent(g) \/ M!UpgradeAgent(g)
  PROVE  ManifestInv'
<1>1. PICK ph \in {"install", "upgrade"} : M!Due(ph, g) /\ M!Tick(ph, g)
  BY DEF M!InstallAgent, M!UpgradeAgent
<1>2. M!Installs(g)
      /\ UNCHANGED <<doc, hosts, providers, actual, command, disturbed, last, runs>>
  BY DEF M!InstallAgent, M!UpgradeAgent, M!registered
<1>3. fleet \in [Agents -> M!Records] /\ fleet[g] \in M!Records /\ doc[g] \in Docs
  BY ManifestTyped
<1> DEFINE v == M!Wanted(g)
<1>4. v \in M!Versions /\ (doc[g].version # "any" => v = doc[g].version)
  BY <1>3 DEF M!Wanted, Docs, M!Versions
<1> HIDE DEF v
<1>5. \A done \in BOOLEAN :
        \E r \in M!Records : /\ [fleet EXCEPT ![g].there = TRUE, ![g].installed = done,
                                               ![g].version = v]
                                 = [fleet EXCEPT ![g] = r]
                             /\ r.there = TRUE /\ r.installed = done /\ r.version = v
  <2> SUFFICES ASSUME NEW done \in BOOLEAN
               PROVE  \E r \in M!Records :
                        /\ [fleet EXCEPT ![g].there = TRUE, ![g].installed = done,
                                         ![g].version = v]
                             = [fleet EXCEPT ![g] = r]
                        /\ r.there = TRUE /\ r.installed = done /\ r.version = v
    OBVIOUS
  <2> DEFINE r == [fleet[g] EXCEPT !.there = TRUE, !.installed = done, !.version = v]
  <2>1. r \in M!Records /\ r.there = TRUE /\ r.installed = done /\ r.version = v
    BY <1>3, <1>4 DEF M!Records
  <2>2. [fleet EXCEPT ![g].there = TRUE, ![g].installed = done, ![g].version = v]
        = [fleet EXCEPT ![g] = r]
    BY <1>3
  <2> QED
    BY <2>1, <2>2
<1>6. ASSUME NEW done \in BOOLEAN, fleet' = M!Recorded(g, done), errors' \in BOOLEAN,
             errors => errors', ~ errors' => done
      PROVE  ManifestInv'
  <2>1. PICK r \in M!Records : fleet' = [fleet EXCEPT ![g] = r] /\ r.there = TRUE
                               /\ r.installed = done /\ r.version = v
    BY <1>5, <1>6 DEF M!Recorded, v
  <2> QED
    BY ZenonT(60), <1>1, <1>2, <1>4, <1>6, <2>1, ManifestWorksAgent
<1>7. CASE fleet' = M!Recorded(g, TRUE) /\ errors' = errors
  BY <1>6, <1>7, ManifestTyped
<1>8. CASE fleet' = M!Recorded(g, FALSE) /\ errors' = TRUE
  BY <1>6, <1>8
<1>9. CASE fleet' = fleet /\ errors' = TRUE
  <2>1. fleet' = [fleet EXCEPT ![g] = fleet[g]] /\ errors' \in BOOLEAN /\ errors'
    BY <1>3, <1>9
  <2> QED
    BY <1>1, <1>2, <1>3, <2>1, ManifestTyped, ManifestWorksAgent
<1> QED
  BY <1>2, <1>7, <1>8, <1>9 DEF M!Installs, M!Ok, M!Failed

\* What is absent does not run.
LEMMA AbsentStopped == [M!Absent EXCEPT !.running = FALSE] = M!Absent
<1>1. M!Absent \in M!Records /\ M!Absent.running = FALSE
  BY DEF M!Absent, M!Records, M!Versions
<1>2. \A f \in M!Records, b \in BOOLEAN : f.running = b => [f EXCEPT !.running = b] = f
  BY DEF M!Records
<1> QED
  BY <1>1, <1>2, Zenon

LEMMA ManifestLaunches ==
  ASSUME ManifestInv, NEW g \in Agents,
         M!ConfigureProvider(g) \/ M!StartAgent(g) \/ M!RestartAgent(g)
  PROVE  ManifestInv'
<1>1. PICK ph \in {"attach", "start", "restart"} : M!Due(ph, g) /\ M!Tick(ph, g)
  BY DEF M!ConfigureProvider, M!StartAgent, M!RestartAgent, M!Launch
<1>2. UNCHANGED <<doc, hosts, providers, actual, command, disturbed, last, runs>>
  BY DEF M!ConfigureProvider, M!StartAgent, M!RestartAgent, M!Launch, M!registered
<1>3. fleet \in [Agents -> M!Records] /\ fleet[g] \in M!Records
  BY ManifestTyped
<1>4. CASE fleet' = fleet /\ errors' = TRUE
  <2>1. fleet' = [fleet EXCEPT ![g] = fleet[g]] /\ errors' \in BOOLEAN /\ errors'
    BY <1>3, <1>4
  <2> QED
    BY <1>1, <1>2, <1>3, <2>1, ManifestTyped, ManifestWorksAgent
<1>5. ASSUME NEW b \in BOOLEAN, NEW r \in M!Records, fleet' = [fleet EXCEPT ![g] = r],
             r = fleet[g] \/ r = [fleet[g] EXCEPT !.running = b],
             fleet[g].installed, errors' = errors
      PROVE  ManifestInv'
  <2>1. fleet[g].there
    BY <1>5, ManifestTyped DEF M!Absent
  <2>2. (r.there <=> fleet[g].there) /\ (r.installed <=> fleet[g].installed)
        /\ r.version = fleet[g].version
    BY <1>3, <1>5 DEF M!Records
  <2> QED
    BY <1>1, <1>2, <1>5, <2>1, <2>2, ManifestTyped, ManifestWorksAgent
<1>6. ASSUME fleet' = [fleet EXCEPT ![g].running = FALSE], errors' = TRUE
      PROVE  ManifestInv'
  <2> DEFINE r == [fleet[g] EXCEPT !.running = FALSE]
  <2>1. fleet' = [fleet EXCEPT ![g] = r] /\ r \in M!Records
    BY <1>3, <1>6 DEF M!Records
  <2>2. ~ r.there => r = M!Absent
    <3>1. ~ fleet[g].there => fleet[g] = M!Absent
      BY ManifestTyped
    <3>2. r.there = fleet[g].there
      BY <1>3 DEF M!Records
    <3>3. [M!Absent EXCEPT !.running = FALSE] = M!Absent
      BY AbsentStopped
    <3> QED
      BY <3>1, <3>2, <3>3
  <2>3. errors' \in BOOLEAN /\ errors'
    BY <1>6
  <2> HIDE DEF r
  <2> QED
    BY <1>1, <1>2, <2>1, <2>2, <2>3, ManifestWorksAgent
<1>7. CASE M!ConfigureProvider(g)
  <2>1. CASE fleet[g].installed /\ errors' = errors /\ fleet' = fleet
    <3>1. fleet' = [fleet EXCEPT ![g] = fleet[g]]
      BY <1>3, <2>1
    <3> QED
      BY <1>3, <1>5, <2>1, <3>1
  <2> QED
    BY <1>4, <1>7, <2>1 DEF M!ConfigureProvider, M!Ok, M!Failed
<1>8. CASE M!Launch("start", g) \/ M!Launch("restart", g)
  <2>1. CASE fleet[g].installed /\ errors' = errors
             /\ fleet' = [fleet EXCEPT ![g].running = TRUE]
    <3> DEFINE r == [fleet[g] EXCEPT !.running = TRUE]
    <3>1. fleet' = [fleet EXCEPT ![g] = r] /\ r \in M!Records
      BY <1>3, <2>1 DEF M!Records
    <3> QED
      BY <1>5, <2>1, <3>1
  <2> QED
    BY <1>4, <1>6, <1>8, <2>1 DEF M!Launch, M!Ok, M!Failed
<1> QED
  BY <1>7, <1>8 DEF M!StartAgent, M!RestartAgent

LEMMA ManifestRemoves == ASSUME ManifestInv, NEW g \in Agents, M!StopAndRemove(g) PROVE ManifestInv'
<1>1. M!Due("stop", g) /\ M!Tick("stop", g)
      /\ UNCHANGED <<doc, hosts, providers, actual, command, disturbed, last, runs>>
  BY DEF M!StopAndRemove, M!registered
<1>2. fleet \in [Agents -> M!Records] /\ fleet[g] \in M!Records
  BY ManifestTyped
<1>3. M!Absent \in M!Records /\ ~ M!Absent.there /\ M!Absent.running = FALSE
  BY DEF M!Absent, M!Records, M!Versions
<1>4. CASE fleet' = [fleet EXCEPT ![g] = M!Absent] /\ errors' \in {errors, TRUE}
  <2>1. errors' \in BOOLEAN /\ (errors => errors')
    BY <1>4, ErrorsStay, ManifestTyped
  <2> QED
    BY <1>1, <1>3, <1>4, <2>1, ManifestWorksAgent
<1>5. CASE fleet' \in {fleet, [fleet EXCEPT ![g].running = FALSE]} /\ errors' = TRUE
  <2>1. errors' \in BOOLEAN /\ errors'
    BY <1>5
  <2>2. CASE fleet' = fleet
    <3>1. fleet' = [fleet EXCEPT ![g] = fleet[g]]
      BY <1>2, <2>2
    <3> QED
      BY <1>1, <1>2, <2>1, <3>1, ManifestTyped, ManifestWorksAgent
  <2>3. CASE fleet' = [fleet EXCEPT ![g].running = FALSE]
    <3> DEFINE r == [fleet[g] EXCEPT !.running = FALSE]
    <3>1. fleet' = [fleet EXCEPT ![g] = r] /\ r \in M!Records
      BY <1>2, <2>3 DEF M!Records
    <3>2. ~ r.there => r = M!Absent
      <4>1. ~ fleet[g].there => fleet[g] = M!Absent
        BY ManifestTyped
      <4>2. r.there = fleet[g].there
        BY <1>2 DEF M!Records
      <4>3. [M!Absent EXCEPT !.running = FALSE] = M!Absent
        BY AbsentStopped
      <4> QED
        BY <4>1, <4>2, <4>3
    <3> HIDE DEF r
    <3> QED
      BY <1>1, <2>1, <3>1, <3>2, ManifestWorksAgent
  <2> QED
    BY <1>5, <2>2, <2>3
<1> QED
  BY <1>4, <1>5 DEF M!StopAndRemove, M!Failed

LEMMA ManifestEnds == ASSUME ManifestInv, M!End PROVE ManifestInv'
<1>1. command # "none" /\ todo = M!Nothing /\ command' = "none"
      /\ last' = (IF disturbed THEN "none" ELSE command) /\ doc' = doc /\ hosts' = hosts
      /\ providers' = providers /\ fleet' = fleet /\ actual' = actual /\ todo' = todo
      /\ errors' = errors /\ disturbed' = disturbed /\ runs' = runs
  BY DEF M!End, M!registered
<1>2. M!TypeOK'
  BY <1>1, ManifestTyped, ManifestTypes
<1>3. \A ph \in M!Phases : todo[ph] = {}
  BY <1>1 DEF M!Nothing
<1>4. M!Settles'
  <2>1. ASSUME last' = "apply", ~ errors
        PROVE  (hosts /\ providers /\ M!There = Agents /\ M!ToUpgrade = {}
                /\ \A g \in Agents \ actual : fleet[g].installed)'
    <3>1. ApplyPlan
      BY <1>1, <2>1, ManifestTyped DEF ManifestInv
    <3>2. hosts /\ providers
      BY <1>3, <3>1, ManifestPhases DEF ApplyPlan
    <3>3. \A g \in Agents : fleet[g].there /\ (g \in actual \/ fleet[g].installed)
                            /\ (doc[g].version = "any" \/ doc[g].version = fleet[g].version)
      BY <1>3, <3>1, ManifestPhases DEF ApplyPlan, AgentPlan
    <3>4. M!There' = Agents /\ M!ToUpgrade' = {}
      BY <1>1, <3>3 DEF M!There, M!ToUpgrade
    <3> QED
      BY <1>1, <3>2, <3>3, <3>4
  <2>2. ASSUME last' = "delete", ~ errors PROVE M!There' = {}
    <3>1. DeletePlan
      BY <1>1, <2>2, ManifestTyped DEF ManifestInv
    <3> QED
      BY <1>1, <1>3, <3>1, ManifestPhases DEF DeletePlan, M!There
  <2> QED
    BY <1>1, <2>1, <2>2 DEF M!Settles
<1> QED
  BY <1>1, <1>2, <1>4 DEF ManifestInv

LEMMA ManifestDies == ASSUME ManifestInv, M!Killed PROVE ManifestInv'
<1>1. command # "none" /\ command' = "none" /\ todo' = M!Nothing /\ doc' = doc
      /\ hosts' = hosts /\ providers' = providers /\ fleet' = fleet /\ actual' = actual
      /\ errors' = errors /\ disturbed' = disturbed /\ last' = last /\ runs' = runs
  BY DEF M!Killed, M!registered
<1>2. todo' \in [M!Phases -> SUBSET M!Things]
  BY <1>1 DEF M!Nothing
<1>3. M!TypeOK'
  BY <1>1, <1>2, ManifestTyped, ManifestTypes
<1>4. last' = "none"
  BY <1>1 DEF ManifestInv
<1> QED
  BY <1>1, <1>3, <1>4, NotSettled DEF ManifestInv

LEMMA ManifestOthers == ASSUME ManifestInv, M!OtherCommand PROVE ManifestInv'
<1>1. disturbed' = TRUE /\ last' = "none" /\ doc' = doc /\ actual' = actual /\ todo' = todo
      /\ errors' = errors /\ command' = command /\ runs' = runs
  BY DEF M!OtherCommand
<1>2. hosts' \in BOOLEAN /\ providers' \in BOOLEAN
  BY ManifestTyped DEF M!OtherCommand, M!registered
<1>3. fleet' \in [Agents -> M!Records] /\ \A g \in Agents : ~ fleet'[g].there => fleet'[g] = M!Absent
  <2>1. CASE fleet' = fleet
    BY <2>1, ManifestTyped
  <2>2. ASSUME NEW g \in Agents, NEW r \in M!Fleets, fleet' = [fleet EXCEPT ![g] = r]
        PROVE  fleet' \in [Agents -> M!Records]
               /\ \A q \in Agents : ~ fleet'[q].there => fleet'[q] = M!Absent
    <3>1. r \in M!Records /\ (~ r.there => r = M!Absent)
      BY DEF M!Fleets
    <3>2. fleet' \in [Agents -> M!Records] /\ fleet'[g] = r
          /\ \A q \in Agents \ {g} : fleet'[q] = fleet[q]
      BY <2>2, <3>1, ManifestTyped
    <3> QED
      BY <3>1, <3>2, ManifestTyped
  <2> QED
    BY <2>1, <2>2 DEF M!OtherCommand
<1>4. disturbed' \in BOOLEAN
  BY <1>1
<1>5. command' = "none" => todo' = M!Nothing
  BY <1>1 DEF ManifestInv, M!TypeOK
<1>6. M!TypeOK'
  BY <1>1, <1>2, <1>3, <1>4, <1>5, ManifestTyped, ManifestTypes
<1> QED
  BY <1>1, <1>6, NotSettled DEF ManifestInv

LEMMA ManifestStart == ASSUME M!Init PROVE ManifestInv
<1>1. hosts = FALSE /\ providers = FALSE /\ fleet = [g \in Agents |-> M!Absent] /\ actual = {}
      /\ todo = M!Nothing /\ errors = FALSE /\ command = "none" /\ disturbed = FALSE
      /\ last = "none" /\ runs = 0
  BY DEF M!Init
<1>2. MaxRuns \in Nat
  BY WorkstationAssumption DEF M!ManifestAssumption
<1>3. M!TypeOK
  <2>1. doc \in [Agents -> [type : M!Types, provider : BOOLEAN, version : M!Versions \cup {"any"},
                            autoStart : BOOLEAN]]
    BY DEF M!Init, M!Versions
  <2>2. fleet \in [Agents -> M!Records] /\ \A g \in Agents : fleet[g] = M!Absent
    BY <1>1 DEF M!Absent, M!Records, M!Versions
  <2>3. todo \in [M!Phases -> SUBSET M!Things]
    BY <1>1 DEF M!Nothing
  <2>4. hosts \in BOOLEAN /\ providers \in BOOLEAN /\ errors \in BOOLEAN /\ disturbed \in BOOLEAN
    BY <1>1
  <2>5. runs \in 0 .. MaxRuns
    BY <1>1, <1>2
  <2> QED
    BY <1>1, <2>1, <2>2, <2>3, <2>4, <2>5 DEF M!TypeOK
<1>4. M!Settles
  BY <1>1 DEF M!Settles
<1> QED
  BY <1>1, <1>3, <1>4 DEF ManifestInv

LEMMA ManifestStep == ASSUME ManifestInv, M!Next PROVE ManifestInv'
BY ManifestApplies, ManifestDeletes, ManifestHost, ManifestProvider, ManifestCascade,
   ManifestInstalls, ManifestLaunches, ManifestRemoves, ManifestEnds, ManifestDies,
   ManifestOthers
DEF M!Next

LEMMA ManifestStutter == ASSUME ManifestInv, UNCHANGED manifestVars PROVE ManifestInv'
<1>1. doc' = doc /\ hosts' = hosts /\ providers' = providers /\ fleet' = fleet
      /\ actual' = actual /\ todo' = todo /\ errors' = errors /\ command' = command
      /\ disturbed' = disturbed /\ last' = last /\ runs' = runs
  BY DEF manifestVars
<1>2. M!TypeOK'
  BY <1>1 DEF ManifestInv, M!TypeOK
<1>3. M!Settles'
  BY <1>1 DEF ManifestInv, M!Settles, M!There, M!ToUpgrade
<1>4. (ApplyPlan => ApplyPlan') /\ (DeletePlan => DeletePlan')
  BY <1>1 DEF ApplyPlan, AgentPlan, DeletePlan
<1> QED
  BY <1>1, <1>2, <1>3, <1>4 DEF ManifestInv

(***************************************************************************)
(* Skills.  Two things are shown by one induction.  What an addition has   *)
(* reported stays, because its author, if nobody rivals it, is alone with  *)
(* the directory from its mkdir or rename on (Owned), because rivals are   *)
(* always both marked (Apart), and because who comes later does no harm    *)
(* (Kept).  And if commands do not overlap, each step knows which name on  *)
(* the list may lack its directory (SkillsAt).                             *)
(***************************************************************************)
Removals == {"remove", "gui_remove", "uninstall"}
Full == {"bad", "ok"}
Additive == {"add"} \cup Edits

\* The steps that a command takes.
FlowOf(s, o) ==
  /\ s = "check" => o \in Adds \cup {"catalog"}
  /\ s \in {"mkdir", "write"} => o = "add"
  /\ s \in {"read", "store"} => o \in Adds \cup Removals
  /\ s = "rmtree" => o \in Removals
  /\ s \in {"tmp_clear", "tmp_mkdir", "tmp_write", "rename"} => o \in {"gui_add", "install", "catalog"}
  /\ s \in {"apply", "load", "play"} => o \in {"install", "uninstall"}
  /\ s = "undo" => o \in Adds
  /\ s \in {"undo_read", "undo_store"} => o \in {"gui_add", "install"}
  /\ s = "editor" => o \in Edits
  /\ s = "restore" => o = "edit"
Flows == \A p \in Procs : FlowOf(pc[p], op[p])

Apart ==
  \A p, q \in Procs :
    p # q /\ pc[p] # "idle" /\ pc[q] # "idle" /\ name[p] = name[q] =>
      /\ p \in rivalled <=> q \in rivalled
      /\ p \notin rivalled => op[p] \in Additive

\* A clawctl addition that has made the directory.
Past(s, o) == o = "add" /\ s \in {"write", "read", "store", "undo"}
\* What p knows of its directory at step s.
OwnedAt(p, s) ==
  /\ Past(s, op[p]) => dir[name[p]] # "absent"
  /\ Past(s, op[p]) /\ s \in {"read", "store"} => dir[name[p]] \in Full
  /\ s = "rename" => tmp[name[p]] = "ok"
  /\ s \in {"apply", "load", "play"} /\ op[p] = "install" => dir[name[p]] \in Full
Owned ==
  /\ \A p \in Procs : p \notin rivalled => OwnedAt(p, pc[p])
  /\ \A p, q \in Procs : p # q /\ name[p] = name[q] /\ p \notin rivalled
                         => ~ (Past(pc[p], op[p]) /\ Past(pc[q], op[q]))

Harmless(s, o) == s = "idle" \/ o \in Edits \/ s \in {"check", "mkdir"}
Kept ==
  /\ AddedStays
  /\ \A p \in Procs : name[p] \in added => Harmless(pc[p], op[p])

\* Every skill on the list loads, but for x.
AllLoad(x) == \A m \in list : m # x => dir[m] = "ok"
SkillsAt(p) ==
  /\ pc[p] \in {"check", "mkdir", "write", "read", "store", "rmtree", "apply", "load", "play", "editor"}
       => \A m \in list : dir[m] = "ok"
  /\ AllLoad(name[p]) \/ pc[p] = "idle"
  /\ pc[p] \in {"mkdir", "write", "rmtree"} \/ (pc[p] \in {"read", "store"} /\ op[p] \in Adds)
     \/ (pc[p] = "undo" /\ op[p] = "add") => name[p] \notin list
  /\ pc[p] \in {"read", "store"} /\ op[p] = "add" => dir[name[p]] = "ok"
  /\ pc[p] \in {"read", "store"} /\ op[p] \in {"gui_add", "install"} => dir[name[p]] = "absent"
  /\ pc[p] \in {"tmp_clear", "tmp_mkdir", "tmp_write", "rename"} /\ op[p] # "catalog"
       => dir[name[p]] = "absent"
  /\ pc[p] = "tmp_mkdir" => tmp[name[p]] = "absent"
  /\ pc[p] = "tmp_write" => tmp[name[p]] # "absent"
  /\ pc[p] = "rename" => tmp[name[p]] = "ok"
  /\ pc[p] \in {"store", "load", "play", "undo_store"} => seen[p] = list
  /\ pc[p] \in {"undo", "undo_read", "undo_store"} /\ op[p] # "add" => failures >= 1
  /\ pc[p] = "restore" => dir[name[p]] # "absent"

SkillsInv ==
  /\ TypeOK /\ Flows /\ Apart /\ Owned /\ Kept
  /\ applied => Running = {}
  /\ calm => \A p, q \in Running : p = q
  /\ calm /\ failures <= 1 =>
       /\ \A p \in Procs : SkillsAt(p)
       /\ Running = {} => \A m \in list : dir[m] = "ok"
       /\ applied => host = list

LEMMA SkillsTyped ==
  ASSUME SkillsInv
  PROVE  /\ list \subseteq Names /\ host \subseteq Names
         /\ dir \in [All -> Directories] /\ tmp \in [All -> {"absent", "empty", "ok"}]
         /\ pc \in [Procs -> Steps] /\ op \in [Procs -> Ops] /\ name \in [Procs -> All]
         /\ seen \in [Procs -> SUBSET Names]
         /\ calm \in BOOLEAN /\ applied \in BOOLEAN /\ added \subseteq All
         /\ \A p \in Procs : pc[p] # "idle" => (op[p] = "catalog" <=> name[p] = Catalog)
         /\ rivalled \subseteq Procs
         /\ commands \in 0 .. MaxCommands /\ failures \in 0 .. MaxFailures
         /\ MaxCommands \in Nat /\ MaxFailures \in Nat /\ Catalog \notin Names
BY SkillsAssumption DEF SkillsInv, TypeOK, Running

LEMMA SkillsTypes ==
  ASSUME list' \subseteq Names, host' \subseteq Names,
         dir' \in [All -> Directories], tmp' \in [All -> {"absent", "empty", "ok"}],
         pc' \in [Procs -> Steps], op' \in [Procs -> Ops], name' \in [Procs -> All],
         seen' \in [Procs -> SUBSET Names],
         calm' \in BOOLEAN, applied' \in BOOLEAN, added' \subseteq All,
         \A p \in Procs : pc'[p] # "idle" => (op'[p] = "catalog" <=> name'[p] = Catalog),
         rivalled' \subseteq Procs,
         commands' \in 0 .. MaxCommands, failures' \in 0 .. MaxFailures
  PROVE  TypeOK'
<1>1. \A p \in Running' : (op'[p] = "catalog") = (name'[p] = Catalog)
  BY DEF Running
<1>2. {calm', applied'} \subseteq BOOLEAN
  OBVIOUS
<1> QED
  BY <1>1, <1>2 DEF TypeOK

\* A step of a running command: what has to be shown of it.
LEMMA SkillsMoves ==
  ASSUME SkillsInv, NEW p \in Procs, pc[p] # "idle", NEW s \in Steps,
         pc' = [pc EXCEPT ![p] = s], FlowOf(s, op[p]),
         op' = op, name' = name, rivalled' = rivalled, commands' = commands,
         list' \subseteq Names, host' \subseteq Names, seen' \in [Procs -> SUBSET Names],
         dir' \in [All -> Directories], tmp' \in [All -> {"absent", "empty", "ok"}],
         \A m \in All : m # name[p] => dir'[m] = dir[m] /\ tmp'[m] = tmp[m],
         failures' = failures \/ (failures < MaxFailures /\ failures' = failures + 1),
         calm' \in BOOLEAN, calm' => calm, applied' \in BOOLEAN,
         applied' => s = "idle" /\ Running = {p},
         \/ added' = added
         \/ /\ added' = added \cup {name[p]} /\ s = "idle" /\ p \notin rivalled
            /\ dir'[name[p]] \in Full /\ op[p] \in Adds \cup {"catalog"}
            /\ op[p] = "add" => Past(pc[p], op[p]),
         p \notin rivalled => OwnedAt(p, s)',
         p \notin rivalled /\ Past(s, op[p]) => Past(pc[p], op[p]) \/ dir[name[p]] = "absent",
         name[p] \in added => dir'[name[p]] \in Full /\ Harmless(s, op[p]),
         p \notin rivalled /\ op[p] \in Additive /\ ~ Past(pc[p], op[p]) =>
           /\ dir[name[p]] # "absent" => dir'[name[p]] # "absent"
           /\ dir[name[p]] \in Full => dir'[name[p]] \in Full,
         calm' /\ failures' <= 1 =>
           IF s = "idle" THEN (\A m \in list' : dir'[m] = "ok") /\ (applied' => host' = list')
                         ELSE SkillsAt(p)'
  PROVE  SkillsInv'
<1>1. pc' \in [Procs -> Steps] /\ pc'[p] = s /\ \A q \in Procs \ {p} : pc'[q] = pc[q]
  BY SkillsTyped
<1>2. name[p] \in All
  BY SkillsTyped
<1>3. failures' \in 0 .. MaxFailures /\ failures <= failures'
  BY SkillsTyped
<1>4. TypeOK'
  <2>1. added' \subseteq All
    BY <1>2, SkillsTyped
  <2>2. \A q \in Procs : pc'[q] # "idle" => (op'[q] = "catalog" <=> name'[q] = Catalog)
    BY <1>1, SkillsTyped
  <2> QED
    BY <1>1, <1>3, <2>1, <2>2, SkillsTyped, SkillsTypes
<1>5. Flows'
  BY <1>1 DEF SkillsInv, Flows
<1>6. \A q \in Procs : pc'[q] # "idle" => pc[q] # "idle"
  BY <1>1
<1>7. Apart'
  BY <1>6 DEF SkillsInv, Apart
\* Another on the same skill is rivalled if p is; if not, both add or edit.
<1>8. \A q \in Procs \ {p} : pc[q] # "idle" /\ name[q] = name[p] /\ q \notin rivalled
                             => p \notin rivalled /\ op[p] \in Additive /\ op[q] \in Additive
  BY DEF SkillsInv, Apart
<1>9. \A q \in Procs \ {p} : q \notin rivalled => OwnedAt(q, pc[q])'
  <2> SUFFICES ASSUME NEW q \in Procs \ {p}, q \notin rivalled, pc[q] # "idle"
               PROVE  OwnedAt(q, pc[q])'
    BY <1>1 DEF OwnedAt, Past
  <2>1. OwnedAt(q, pc[q]) /\ name[q] \in All
    BY SkillsTyped DEF SkillsInv, Owned
  <2>2. CASE name[q] # name[p]
    BY <1>1, <2>1, <2>2 DEF OwnedAt
  <2>3. CASE name[q] = name[p]
    <3>1. p \notin rivalled /\ op[p] \in Additive /\ op[q] \in Additive
      BY <1>8, <2>3
    <3>2. pc[q] \notin {"rename", "apply", "load", "play"}
      BY <3>1 DEF SkillsInv, Flows, FlowOf, Additive, Edits
    <3>3. Past(pc[q], op[q]) => ~ Past(pc[p], op[p])
      BY <2>3, <3>1 DEF SkillsInv, Owned
    <3> QED
      BY <1>1, <2>1, <2>3, <3>1, <3>2, <3>3 DEF OwnedAt
  <2> QED
    BY <2>2, <2>3
<1>10. \A q \in Procs \ {p} : name[q] = name[p] /\ (p \notin rivalled \/ q \notin rivalled)
                              => ~ (Past(s, op[p]) /\ Past(pc[q], op[q]))
  <2> SUFFICES ASSUME NEW q \in Procs \ {p}, name[q] = name[p],
                      p \notin rivalled \/ q \notin rivalled,
                      Past(s, op[p]), Past(pc[q], op[q])
               PROVE  FALSE
    OBVIOUS
  <2>1. pc[q] # "idle"
    BY DEF Past
  <2>2. p \notin rivalled /\ q \notin rivalled
    BY <2>1 DEF SkillsInv, Apart
  <2>3. dir[name[q]] # "absent" /\ ~ Past(pc[p], op[p])
    BY <2>2 DEF SkillsInv, Owned, OwnedAt
  <2> QED
    BY <2>2, <2>3
<1>11. Owned'
  <2>2. \A q \in Procs : q \notin rivalled' => OwnedAt(q, pc[q])'
    <3> SUFFICES ASSUME NEW q \in Procs, q \notin rivalled PROVE OwnedAt(q, pc[q])'
      OBVIOUS
    <3>1. CASE q = p
      BY <1>1, <3>1 DEF OwnedAt
    <3>2. CASE q # p
      BY <1>9, <3>2
    <3> QED
      BY <3>1, <3>2
  <2>3. \A q, r \in Procs : q # r /\ name'[q] = name'[r] /\ q \notin rivalled'
                            => ~ (Past(pc'[q], op'[q]) /\ Past(pc'[r], op'[r]))
    <3> SUFFICES ASSUME NEW q \in Procs, NEW r \in Procs, q # r, name[q] = name[r],
                        q \notin rivalled
                 PROVE  ~ (Past(pc'[q], op[q]) /\ Past(pc'[r], op[r]))
      OBVIOUS
    <3>1. CASE q = p
      BY <1>1, <1>10, <3>1
    <3>2. CASE r = p
      BY <1>1, <1>10, <3>2
    <3>3. CASE q # p /\ r # p
      BY <1>1, <3>3 DEF SkillsInv, Owned
    <3> QED
      BY <3>1, <3>2, <3>3
  <2> QED
    BY <2>2, <2>3 DEF Owned
<1>12. AddedStays'
  <2> SUFFICES ASSUME NEW m \in added' PROVE dir'[m] \in Full
    BY DEF AddedStays, Full
  <2>1. CASE m = name[p]
    BY <2>1
  <2>2. CASE m # name[p]
    BY <2>2, SkillsTyped DEF SkillsInv, Kept, AddedStays, Full
  <2> QED
    BY <2>1, <2>2
<1>13. \A q \in Procs : name'[q] \in added' => Harmless(pc'[q], op'[q])
  <2> SUFFICES ASSUME NEW q \in Procs, name[q] \in added' PROVE Harmless(pc'[q], op[q])
    OBVIOUS
  <2>1. CASE q = p
    BY <1>1, <2>1 DEF Harmless
  <2>2. CASE q # p /\ name[q] \in added
    BY <1>1, <2>2 DEF SkillsInv, Kept
  <2>3. CASE q # p /\ name[q] \notin added
    <3>1. name[q] = name[p] /\ p \notin rivalled /\ op[p] \in Adds \cup {"catalog"}
          /\ (op[p] = "add" => Past(pc[p], op[p]))
      BY <2>3
    <3>2. CASE pc[q] = "idle"
      BY <1>1, <2>3, <3>2 DEF Harmless
    <3>3. CASE pc[q] # "idle"
      <4>1. op[p] \in Additive /\ op[q] \in Additive
        BY <2>3, <3>1, <3>3 DEF SkillsInv, Apart
      <4>2. op[p] = "add"
        BY <3>1, <4>1 DEF Additive, Edits, Adds
      <4>3. ~ Past(pc[q], op[q])
        BY <2>3, <3>1, <4>2 DEF SkillsInv, Owned
      <4>4. FlowOf(pc[q], op[q]) /\ pc[q] \in Steps
        BY SkillsTyped DEF SkillsInv, Flows
      <4>5. Harmless(pc[q], op[q])
        BY <3>3, <4>1, <4>3, <4>4 DEF Harmless, Additive, Edits, Past, FlowOf, Steps, Removals
      <4> QED
        BY <1>1, <2>3, <4>5
    <3> QED
      BY <3>2, <3>3
  <2> QED
    BY <2>1, <2>2, <2>3
<1>14. applied' => Running' = {}
  <2> SUFFICES ASSUME applied' PROVE \A q \in Procs : pc'[q] = "idle"
    BY DEF Running
  <2>1. \A q \in Procs \ {p} : pc[q] = "idle"
    BY DEF Running
  <2> QED
    BY <1>1, <2>1
<1>15. calm' => \A q, r \in Running' : q = r
  BY <1>6 DEF SkillsInv, Running
<1>16. ASSUME calm', failures' <= 1
       PROVE  /\ \A q \in Procs : SkillsAt(q)'
              /\ Running' = {} => \A m \in list' : dir'[m] = "ok"
              /\ applied' => host' = list'
  <2>1. \A q \in Procs \ {p} : pc'[q] = "idle"
    BY <1>1, <1>16 DEF SkillsInv, Running
  <2>2. \A q \in Procs \ {p} : SkillsAt(q)'
    BY <2>1 DEF SkillsAt
  <2>3. s = "idle" => SkillsAt(p)'
    BY <1>1 DEF SkillsAt
  <2>4. Running' = {} => s = "idle"
    BY <1>1 DEF Running
  <2> QED
    BY <1>16, <2>2, <2>3, <2>4
<1> QED
  BY <1>4, <1>5, <1>7, <1>11, <1>12, <1>13, <1>14, <1>15, <1>16 DEF SkillsInv, Kept

\* A command that runs: nothing has been applied since, and what it knows.
LEMMA SkillsRuns ==
  ASSUME SkillsInv, NEW p \in Procs, pc[p] # "idle"
  PROVE  /\ ~ applied /\ name[p] \in All /\ op[p] \in Ops /\ FlowOf(pc[p], op[p])
         /\ p \notin rivalled => OwnedAt(p, pc[p])
         /\ name[p] \in added => dir[name[p]] \in Full /\ Harmless(pc[p], op[p])
         /\ calm /\ failures <= 1 => SkillsAt(p)
         /\ op[p] # "catalog" => name[p] \in Names
         /\ op[p] = "catalog" => name[p] \notin list
BY SkillsTyped DEF SkillsInv, Running, Flows, Owned, Kept, AddedStays, Full, All

\* A step that leaves the history alone.
LEMMA SkillsGoes ==
  ASSUME SkillsInv, NEW p \in Procs, pc[p] # "idle", NEW s \in Steps,
         pc' = [pc EXCEPT ![p] = s], FlowOf(s, op[p]), Stays,
         list' \subseteq Names, host' = host, seen' \in [Procs -> SUBSET Names],
         dir' \in [All -> Directories], tmp' \in [All -> {"absent", "empty", "ok"}],
         \A m \in All : m # name[p] => dir'[m] = dir[m] /\ tmp'[m] = tmp[m],
         failures' = failures \/ (failures < MaxFailures /\ failures' = failures + 1),
         p \notin rivalled => OwnedAt(p, s)',
         p \notin rivalled /\ Past(s, op[p]) => Past(pc[p], op[p]) \/ dir[name[p]] = "absent",
         name[p] \in added => dir'[name[p]] \in Full /\ Harmless(s, op[p]),
         p \notin rivalled /\ op[p] \in Additive /\ ~ Past(pc[p], op[p]) =>
           /\ dir[name[p]] # "absent" => dir'[name[p]] # "absent"
           /\ dir[name[p]] \in Full => dir'[name[p]] \in Full,
         calm /\ failures' <= 1 =>
           IF s = "idle" THEN \A m \in list' : dir'[m] = "ok" ELSE SkillsAt(p)'
  PROVE  SkillsInv'
<1>1. op' = op /\ name' = name /\ calm' = calm /\ rivalled' = rivalled /\ added' = added
      /\ applied' = applied /\ commands' = commands
  BY DEF Stays
<1>2. ~ applied'
  BY <1>1, SkillsRuns
<1>3. host' \subseteq Names /\ calm' \in BOOLEAN /\ applied' \in BOOLEAN
  BY <1>1, SkillsTyped
<1>4. calm' /\ failures' <= 1 =>
        IF s = "idle" THEN (\A m \in list' : dir'[m] = "ok") /\ (applied' => host' = list')
                      ELSE SkillsAt(p)'
  BY <1>1, <1>2
<1> QED
  BY <1>1, <1>2, <1>3, <1>4, SkillsMoves

\* A step that leaves the directories alone, too.
LEMMA SkillsLooks ==
  ASSUME SkillsInv, NEW p \in Procs, pc[p] # "idle", NEW s \in Steps,
         pc' = [pc EXCEPT ![p] = s], FlowOf(s, op[p]), Stays, dir' = dir,
         list' \subseteq Names, host' = host, seen' \in [Procs -> SUBSET Names],
         tmp' \in [All -> {"absent", "empty", "ok"}],
         \A m \in All : m # name[p] => tmp'[m] = tmp[m],
         failures' = failures \/ (failures < MaxFailures /\ failures' = failures + 1),
         p \notin rivalled => OwnedAt(p, s)',
         p \notin rivalled /\ Past(s, op[p]) => Past(pc[p], op[p]) \/ dir[name[p]] = "absent",
         name[p] \in added => Harmless(s, op[p]),
         calm /\ failures' <= 1 =>
           IF s = "idle" THEN \A m \in list' : dir[m] = "ok" ELSE SkillsAt(p)'
  PROVE  SkillsInv'
<1>1. dir' \in [All -> Directories]
  BY SkillsTyped
<1>2. name[p] \in added => dir'[name[p]] \in Full
  BY SkillsRuns
<1> QED
  BY <1>1, <1>2, SkillsGoes

LEMMA SkillsCheck == ASSUME SkillsInv, NEW p \in Procs, Check(p) PROVE SkillsInv'
<1>1. pc[p] = "check" /\ Stays /\ list' = list /\ dir' = dir /\ tmp' = tmp /\ host' = host
      /\ failures' = failures
  BY DEF Check, At, files, NoFailure
<1>2. op[p] \in Adds \cup {"catalog"}
  BY <1>1, SkillsRuns DEF FlowOf
<1>3. PICK s \in {"idle", "mkdir", "tmp_clear", "read"} :
        /\ pc' = [pc EXCEPT ![p] = s]
        /\ s # "idle" => dir[name[p]] = "absent" /\ name[p] \notin list
        /\ s = "mkdir" => op[p] = "add"
        /\ s = "tmp_clear" => op[p] = "catalog"
        /\ s = "read" => op[p] \in {"gui_add", "install"}
  <2>1. CASE dir[name[p]] # "absent" \/ name[p] \in list
    BY <2>1 DEF Check, Done, Go
  <2>2. CASE ~ (dir[name[p]] # "absent" \/ name[p] \in list)
    <3>1. CASE op[p] = "add"
      BY <2>2, <3>1 DEF Check, Go
    <3>2. CASE op[p] = "catalog"
      BY <2>2, <3>2 DEF Check, Go
    <3>3. CASE op[p] \in {"gui_add", "install"}
      BY <2>2, <3>3 DEF Check, Go
    <3> QED
      BY <1>2, <3>1, <3>2, <3>3 DEF Adds
  <2> QED
    BY <2>1, <2>2
<1>4. seen' \in [Procs -> SUBSET Names]
  <2>1. seen' = seen \/ seen' = [seen EXCEPT ![p] = {}]
    BY DEF Check, Done
  <2> QED
    BY <2>1, SkillsTyped
<1>5. s \in Steps /\ FlowOf(s, op[p])
  BY <1>3 DEF Steps, FlowOf, Adds
<1>6. OwnedAt(p, s)' /\ ~ Past(s, op[p])
  BY <1>1, <1>3 DEF OwnedAt, Past, Stays
<1>7. name[p] \in added => Harmless(s, op[p])
  BY <1>1, <1>3, SkillsRuns DEF Harmless, Full
<1>8. ASSUME calm, failures <= 1
      PROVE  IF s = "idle" THEN \A m \in list : dir[m] = "ok" ELSE SkillsAt(p)'
  <2>1. \A m \in list : dir[m] = "ok"
    BY <1>1, <1>8, SkillsRuns DEF SkillsAt
  <2>2. pc'[p] = s /\ name' = name /\ op' = op
    BY <1>1, <1>3, SkillsTyped DEF Stays
  <2> QED
    BY <1>1, <1>3, <2>1, <2>2 DEF SkillsAt, AllLoad, Adds
<1> QED
  BY <1>1, <1>3, <1>4, <1>5, <1>6, <1>7, <1>8, SkillsTyped, SkillsLooks

LEMMA SkillsMkdir == ASSUME SkillsInv, NEW p \in Procs, Mkdir(p) PROVE SkillsInv'
<1>1. pc[p] = "mkdir" /\ Stays /\ list' = list /\ tmp' = tmp /\ host' = host
      /\ failures' = failures
  BY DEF Mkdir, At, NoFailure
<1>2. op[p] = "add" /\ name[p] \in All
  BY <1>1, SkillsRuns DEF FlowOf
<1>3. op' = op /\ name' = name
  BY <1>1 DEF Stays
<1>4. CASE dir[name[p]] = "absent"
  <2>1. dir' = [dir EXCEPT ![name[p]] = "empty"] /\ pc' = [pc EXCEPT ![p] = "write"] /\ seen' = seen
    BY <1>4 DEF Mkdir, Go
  <2>2. dir' \in [All -> Directories] /\ dir'[name[p]] = "empty"
        /\ \A m \in All : m # name[p] => dir'[m] = dir[m]
    BY <1>2, <2>1, SkillsTyped DEF Directories
  <2>3. "write" \in Steps /\ FlowOf("write", op[p])
    BY <1>2 DEF Steps, FlowOf
  <2>4. OwnedAt(p, "write")'
    BY <1>3, <2>2 DEF OwnedAt
  <2>5. name[p] \notin added /\ dir[name[p]] \notin Full /\ "write" # "idle"
    BY <1>1, <1>4, SkillsRuns DEF Full
  <2>6. ASSUME calm, failures <= 1 PROVE SkillsAt(p)'
    <3>1. (\A m \in list : dir[m] = "ok") /\ name[p] \notin list
      BY <1>1, <2>6, SkillsRuns DEF SkillsAt
    <3>2. \A m \in list : dir'[m] = "ok"
      BY <2>2, <3>1, SkillsTyped DEF All
    <3>3. pc'[p] = "write"
      BY <2>1, SkillsTyped
    <3> QED
      BY <1>1, <1>3, <3>1, <3>2, <3>3 DEF SkillsAt, AllLoad
  <2> QED
    BY <1>1, <1>4, <2>1, <2>2, <2>3, <2>4, <2>5, <2>6, SkillsTyped, SkillsGoes
<1>5. CASE dir[name[p]] # "absent"
  <2>1. dir' = dir /\ pc' = [pc EXCEPT ![p] = "idle"] /\ seen' = [seen EXCEPT ![p] = {}]
    BY <1>5 DEF Mkdir, Go, Done
  <2>2. "idle" \in Steps /\ FlowOf("idle", op[p]) /\ Harmless("idle", op[p])
        /\ OwnedAt(p, "idle")' /\ ~ Past("idle", op[p])
    BY DEF Steps, FlowOf, Harmless, OwnedAt, Past
  <2>3. calm /\ failures <= 1 => \A m \in list : dir[m] = "ok"
    BY <1>1, SkillsRuns DEF SkillsAt
  <2>4. seen' \in [Procs -> SUBSET Names]
    BY <2>1, SkillsTyped
  <2> QED
    BY <1>1, <2>1, <2>2, <2>3, <2>4, SkillsTyped, SkillsLooks
<1> QED
  BY <1>4, <1>5

LEMMA SkillsWrite == ASSUME SkillsInv, NEW p \in Procs, Write(p) PROVE SkillsInv'
<1>1. pc[p] = "write" /\ Stays /\ list' = list /\ tmp' = tmp /\ host' = host /\ seen' = seen
  BY DEF Write, At
<1>2. op[p] = "add" /\ name[p] \in All /\ name[p] \notin added /\ Past(pc[p], op[p])
  BY <1>1, SkillsRuns DEF FlowOf, Harmless, Edits, Past
<1>3. op' = op /\ name' = name
  BY <1>1 DEF Stays
<1>4. failures' = failures \/ (failures < MaxFailures /\ failures' = failures + 1)
  BY DEF Write, Fails, NoFailure
<1>5. failures' <= 1 => failures <= 1
  BY <1>4, SkillsTyped
<1>6. calm /\ failures' <= 1 => (\A m \in list : dir[m] = "ok") /\ name[p] \notin list
  BY <1>1, <1>5, SkillsRuns, SkillsTyped DEF SkillsAt
<1>7. CASE dir[name[p]] # "absent" /\ dir' = [dir EXCEPT ![name[p]] = "ok"]
           /\ pc' = [pc EXCEPT ![p] = "read"]
  <2>1. dir' \in [All -> Directories] /\ dir'[name[p]] = "ok"
        /\ \A m \in All : m # name[p] => dir'[m] = dir[m]
    BY <1>2, <1>7, SkillsTyped DEF Directories
  <2>2. "read" \in Steps /\ FlowOf("read", op[p]) /\ "read" # "idle"
    BY <1>2 DEF Steps, FlowOf, Adds
  <2>3. OwnedAt(p, "read")'
    BY <1>3, <2>1 DEF OwnedAt, Full
  <2>5. pc' = [pc EXCEPT ![p] = "read"] /\ list' \subseteq Names
        /\ tmp' \in [All -> {"absent", "empty", "ok"}] /\ seen' \in [Procs -> SUBSET Names]
    BY <1>1, <1>7, SkillsTyped
  <2>4. ASSUME calm, failures' <= 1 PROVE SkillsAt(p)'
    <3>1. \A m \in list : dir'[m] = "ok"
      BY <1>6, <2>1, <2>4, SkillsTyped DEF All
    <3>2. pc'[p] = "read"
      BY <1>7, SkillsTyped
    <3> QED
      BY <1>1, <1>2, <1>3, <1>6, <2>1, <2>4, <3>1, <3>2 DEF SkillsAt, AllLoad
  <2> QED
    BY <1>1, <1>2, <1>4, <2>1, <2>2, <2>3, <2>4, <2>5, SkillsGoes
<1>8. CASE dir' = dir /\ pc' = [pc EXCEPT ![p] = "undo"]
  <2>1. "undo" \in Steps /\ FlowOf("undo", op[p]) /\ "undo" # "idle"
    BY <1>2 DEF Steps, FlowOf, Adds
  <2>2. p \notin rivalled => OwnedAt(p, "undo")'
    BY <1>1, <1>2, <1>3, <1>8, SkillsRuns DEF OwnedAt, Past
  <2>3. calm /\ failures' <= 1 => SkillsAt(p)'
    <3>1. pc'[p] = "undo"
      BY <1>8, SkillsTyped
    <3> QED
      BY <1>1, <1>2, <1>3, <1>6, <1>8, <3>1 DEF SkillsAt, AllLoad
  <2> QED
    BY <1>1, <1>2, <1>4, <1>8, <2>1, <2>2, <2>3, SkillsTyped, SkillsLooks
<1> QED
  BY <1>7, <1>8 DEF Write, Go

\* A step that may fail counts what fails.
LEMMA SkillsFailures ==
  ASSUME SkillsInv, NoFailure \/ Fails
  PROVE  /\ failures' = failures \/ (failures < MaxFailures /\ failures' = failures + 1)
         /\ failures' <= 1 => failures <= 1
         /\ Fails => failures' >= 1 /\ ~ (failures >= 1 /\ failures' <= 1)
         /\ failures >= 1 => failures' >= 1
BY SkillsTyped DEF NoFailure, Fails

\* Some of what SkillsTyped says, of files that a step leaves alone.
LEMMA SkillsSame ==
  ASSUME SkillsInv, NEW p \in Procs
  PROVE  /\ list' = list => list' \subseteq Names
         /\ dir' = dir => dir' \in [All -> Directories]
         /\ tmp' = tmp => tmp' \in [All -> {"absent", "empty", "ok"}]
         /\ seen' = seen \/ seen' = [seen EXCEPT ![p] = {}] \/ seen' = [seen EXCEPT ![p] = list]
              => seen' \in [Procs -> SUBSET Names]
BY SkillsTyped

LEMMA SkillsRead == ASSUME SkillsInv, NEW p \in Procs, Read(p) PROVE SkillsInv'
<1>1. pc[p] = "read" /\ list' = list /\ dir' = dir /\ tmp' = tmp /\ host' = host
      /\ op' = op /\ name' = name /\ calm' = calm /\ rivalled' = rivalled /\ applied' = applied
      /\ commands' = commands /\ failures' = failures
  BY DEF Read, At, files, NoFailure
<1>2. op[p] \in Adds \cup Removals /\ name[p] \in All /\ ~ applied
      /\ (p \notin rivalled => OwnedAt(p, "read"))
      /\ (name[p] \in added => Harmless("read", op[p]))
      /\ (calm /\ failures <= 1 => SkillsAt(p))
  BY <1>1, SkillsRuns DEF FlowOf
<1>3. name[p] \notin added
  BY <1>2 DEF Harmless, Adds, Removals, Edits
<1>4. calm /\ failures <= 1 => /\ \A m \in list : dir[m] = "ok"
                               /\ op[p] \in Adds => name[p] \notin list
                               /\ op[p] = "add" => dir[name[p]] = "ok"
                               /\ op[p] \in {"gui_add", "install"} => dir[name[p]] = "absent"
  BY <1>1, <1>2 DEF SkillsAt
<1>5. PICK s \in {"idle", "tmp_clear", "rmtree", "store"} :
        /\ pc' = [pc EXCEPT ![p] = s]
        /\ s = "idle" => op[p] = "add" /\ Succeeded(p)
        /\ s # "idle" => added' = added
        /\ s = "tmp_clear" => op[p] \in {"gui_add", "install"} /\ name[p] \in list
        /\ s = "rmtree" => op[p] \in Removals /\ name[p] \notin list
        /\ s = "store" => seen' = [seen EXCEPT ![p] = list]
        /\ s # "store" => seen' \in {seen, [seen EXCEPT ![p] = {}]}
  <2>1. CASE ~ (name[p] \in list <=> op[p] \in Adds)
    BY <2>1 DEF Read, Go
  <2>2. CASE (name[p] \in list <=> op[p] \in Adds) /\ op[p] = "add"
    BY <2>2 DEF Read, Go, Follows, Done
  <2>3. CASE (name[p] \in list <=> op[p] \in Adds) /\ op[p] \in {"gui_add", "install"}
    BY <2>3 DEF Read, Go, Follows, Adds
  <2>4. CASE (name[p] \in list <=> op[p] \in Adds) /\ op[p] \in Removals
    BY <2>4 DEF Read, Go, Follows, Adds, Removals
  <2> QED
    BY <1>2, <2>1, <2>2, <2>3, <2>4 DEF Adds
<1>6. s \in Steps /\ FlowOf(s, op[p])
  BY <1>2, <1>5 DEF Steps, FlowOf, Adds
<1>7. p \notin rivalled => OwnedAt(p, s)' /\ (Past(s, op[p]) => Past(pc[p], op[p]))
  BY <1>1, <1>2, <1>5 DEF OwnedAt, Past
<1>8. \/ added' = added
      \/ /\ added' = added \cup {name[p]} /\ s = "idle" /\ p \notin rivalled
         /\ dir'[name[p]] \in Full /\ op[p] \in Adds \cup {"catalog"}
         /\ op[p] = "add" => Past(pc[p], op[p])
  BY <1>1, <1>2, <1>5 DEF Succeeded, OwnedAt, Past
<1>9. ASSUME calm, failures <= 1
      PROVE  IF s = "idle" THEN \A m \in list : dir[m] = "ok" ELSE SkillsAt(p)'
  <2>1. pc'[p] = s
    BY <1>5, SkillsTyped
  <2>2. s = "store" => seen'[p] = list
    BY <1>5, SkillsTyped
  <2> QED
    BY <1>1, <1>2, <1>4, <1>5, <1>9, <2>1, <2>2 DEF SkillsAt, AllLoad, Adds, Removals
<1>10. seen' \in [Procs -> SUBSET Names] /\ list' \subseteq Names /\ host' \subseteq Names
       /\ dir' \in [All -> Directories] /\ tmp' \in [All -> {"absent", "empty", "ok"}]
       /\ calm' \in BOOLEAN /\ applied' \in BOOLEAN
  BY <1>1, <1>5, SkillsSame, SkillsTyped
<1>11. pc' = [pc EXCEPT ![p] = s]
  BY <1>5
<1> QED
  BY <1>1, <1>2, <1>3, <1>6, <1>7, <1>8, <1>9, <1>10, <1>11, SkillsMoves

LEMMA SkillsStore == ASSUME SkillsInv, NEW p \in Procs, Store(p) PROVE SkillsInv'
<1>1. pc[p] = "store" /\ dir' = dir /\ tmp' = tmp /\ host' = host
      /\ op' = op /\ name' = name /\ calm' = calm /\ rivalled' = rivalled /\ applied' = applied
      /\ commands' = commands
  BY DEF Store, At
<1>2. op[p] \in Adds \cup Removals /\ name[p] \in All /\ ~ applied
      /\ (p \notin rivalled => OwnedAt(p, "store"))
      /\ (name[p] \in added => Harmless("store", op[p]))
      /\ (calm /\ failures <= 1 => SkillsAt(p))
  BY <1>1, SkillsRuns DEF FlowOf
<1>3. name[p] \notin added /\ name[p] \in Names
  BY <1>1, <1>2, SkillsRuns DEF Harmless, Adds, Removals, Edits
<1>4. /\ failures' = failures \/ (failures < MaxFailures /\ failures' = failures + 1)
      /\ failures' <= 1 => failures <= 1
  BY SkillsFailures DEF Store
<1>5. calm /\ failures <= 1 => /\ \A m \in list : dir[m] = "ok"
                               /\ seen[p] = list
                               /\ op[p] \in Adds => name[p] \notin list
                               /\ op[p] = "add" => dir[name[p]] = "ok"
                               /\ op[p] \in {"gui_add", "install"} => dir[name[p]] = "absent"
  BY <1>1, <1>2 DEF SkillsAt
<1>6. PICK s \in {"idle", "tmp_clear", "rmtree", "undo"} :
        /\ pc' = [pc EXCEPT ![p] = s]
        /\ \/ op[p] = "add" /\ s = "idle" /\ list' = Changed(p) /\ Succeeded(p)
           \/ op[p] \in {"gui_add", "install"} /\ s = "tmp_clear" /\ list' = Changed(p)
              /\ added' = added
           \/ op[p] \in Removals /\ s = "rmtree" /\ list' = Changed(p) /\ added' = added
           \/ op[p] = "add" /\ s = "undo" /\ list' = list /\ added' = added
           \/ s = "idle" /\ list' = list /\ added' = added
        /\ seen' \in {seen, [seen EXCEPT ![p] = {}]}
  <2>1. CASE list' = Changed(p) /\ Follows(p) /\ op[p] = "add"
    BY <2>1 DEF Go, Follows, Done
  <2>2. CASE list' = Changed(p) /\ Follows(p) /\ op[p] \in {"gui_add", "install"}
    BY <2>2 DEF Go, Follows
  <2>3. CASE list' = Changed(p) /\ Follows(p) /\ op[p] \in Removals
    BY <2>3 DEF Go, Follows, Removals
  <2>4. CASE /\ list' = list /\ added' = added
             /\ IF op[p] = "add" THEN Go(p, "undo") /\ UNCHANGED seen ELSE Done(p)
    BY <2>4 DEF Go, Done
  <2> QED
    BY <1>2, <2>1, <2>2, <2>3, <2>4 DEF Adds, Store
<1>7. s \in Steps /\ FlowOf(s, op[p])
  BY <1>2, <1>6 DEF Steps, FlowOf, Adds
<1>8. p \notin rivalled => OwnedAt(p, s)' /\ (Past(s, op[p]) => Past(pc[p], op[p]))
  BY <1>1, <1>2, <1>6 DEF OwnedAt, Past, Removals
<1>9. \/ added' = added
      \/ /\ added' = added \cup {name[p]} /\ s = "idle" /\ p \notin rivalled
         /\ dir'[name[p]] \in Full /\ op[p] \in Adds \cup {"catalog"}
         /\ op[p] = "add" => Past(pc[p], op[p])
  BY <1>1, <1>2, <1>6 DEF Succeeded, OwnedAt, Past
<1>10. ASSUME calm, failures' <= 1
       PROVE  IF s = "idle" THEN \A m \in list' : dir[m] = "ok" ELSE SkillsAt(p)'
  <2>1. pc'[p] = s /\ failures <= 1
    BY <1>4, <1>6, <1>10, SkillsTyped
  <2>2. Changed(p) = IF op[p] \in Adds THEN list \cup {name[p]} ELSE list \ {name[p]}
    BY <1>5, <1>10, <2>1 DEF Changed
  <2>3. CASE op[p] = "add" /\ s = "idle" /\ list' = Changed(p)
    BY <1>5, <1>10, <2>1, <2>2, <2>3 DEF Adds
  <2>4. CASE op[p] \in {"gui_add", "install"} /\ s = "tmp_clear" /\ list' = Changed(p)
    BY <1>1, <1>5, <1>10, <2>1, <2>2, <2>4 DEF Adds, SkillsAt, AllLoad
  <2>5. CASE op[p] \in Removals /\ s = "rmtree" /\ list' = Changed(p)
    BY <1>1, <1>5, <1>10, <2>1, <2>2, <2>5 DEF Adds, Removals, SkillsAt, AllLoad
  <2>6. CASE op[p] = "add" /\ s = "undo" /\ list' = list
    BY <1>1, <1>5, <1>10, <2>1, <2>6 DEF Adds, SkillsAt, AllLoad
  <2>7. CASE s = "idle" /\ list' = list
    BY <1>5, <1>10, <2>1, <2>7
  <2> QED
    BY <1>6, <2>3, <2>4, <2>5, <2>6, <2>7
<1>11. list' \subseteq Names
  BY <1>3, <1>6, SkillsTyped DEF Changed
<1>12. seen' \in [Procs -> SUBSET Names] /\ host' \subseteq Names
       /\ dir' \in [All -> Directories] /\ tmp' \in [All -> {"absent", "empty", "ok"}]
       /\ calm' \in BOOLEAN /\ applied' \in BOOLEAN
  BY <1>1, <1>6, SkillsSame, SkillsTyped
<1>13. pc' = [pc EXCEPT ![p] = s]
  BY <1>6
<1> QED
  BY <1>1, <1>2, <1>3, <1>4, <1>7, <1>8, <1>9, <1>10, <1>11, <1>12, <1>13, SkillsMoves

LEMMA SkillsRmtree == ASSUME SkillsInv, NEW p \in Procs, Rmtree(p) PROVE SkillsInv'
<1>1. pc[p] = "rmtree" /\ Stays /\ list' = list /\ tmp' = tmp /\ host' = host
  BY DEF Rmtree, At
<1>2. op[p] \in Removals /\ name[p] \in All
      /\ (name[p] \in added => Harmless("rmtree", op[p]))
      /\ (calm /\ failures <= 1 => SkillsAt(p))
  BY <1>1, SkillsRuns DEF FlowOf
<1>3. name[p] \notin added /\ op[p] \notin Additive
  BY <1>2 DEF Harmless, Removals, Edits, Additive
<1>4. /\ failures' = failures \/ (failures < MaxFailures /\ failures' = failures + 1)
      /\ failures' <= 1 => failures <= 1
  BY SkillsFailures DEF Rmtree
<1>5. dir' \in [All -> Directories] /\ \A m \in All : m # name[p] => dir'[m] = dir[m]
  <2>1. dir' = dir \/ dir' = [dir EXCEPT ![name[p]] = "absent"]
    BY DEF Rmtree
  <2> QED
    BY <1>2, <2>1, SkillsTyped DEF Directories
<1>6. PICK s \in {"idle", "apply"} :
        /\ pc' = [pc EXCEPT ![p] = s] /\ (s = "apply" => op[p] = "uninstall")
        /\ seen' \in {seen, [seen EXCEPT ![p] = {}]}
  BY DEF Rmtree, Go, Done
<1>7. s \in Steps /\ FlowOf(s, op[p])
  BY <1>6 DEF Steps, FlowOf
<1>8. OwnedAt(p, s)' /\ ~ Past(s, op[p])
  BY <1>1, <1>6 DEF OwnedAt, Past, Stays
<1>9. ASSUME calm, failures' <= 1
      PROVE  IF s = "idle" THEN \A m \in list' : dir'[m] = "ok" ELSE SkillsAt(p)'
  <2>1. (\A m \in list : dir[m] = "ok") /\ name[p] \notin list
    BY <1>1, <1>2, <1>4, <1>9 DEF SkillsAt
  <2>2. \A m \in list : dir'[m] = "ok"
    BY <1>5, <2>1, SkillsTyped DEF All
  <2>3. pc'[p] = s /\ op' = op /\ name' = name
    BY <1>1, <1>6, SkillsTyped DEF Stays
  <2> QED
    BY <1>1, <1>6, <2>2, <2>3 DEF SkillsAt, AllLoad, Adds
<1>10. list' \subseteq Names /\ tmp' \in [All -> {"absent", "empty", "ok"}]
       /\ seen' \in [Procs -> SUBSET Names] /\ pc' = [pc EXCEPT ![p] = s]
  BY <1>1, <1>6, SkillsSame
<1> QED
  BY <1>1, <1>3, <1>4, <1>5, <1>7, <1>8, <1>9, <1>10, SkillsGoes

LEMMA SkillsTmp ==
  ASSUME SkillsInv, NEW p \in Procs, NEW t \in {"absent", "empty", "ok"},
         tmp' = [tmp EXCEPT ![name[p]] = t]
  PROVE  tmp' \in [All -> {"absent", "empty", "ok"}] /\ tmp'[name[p]] = t
         /\ \A m \in All : m # name[p] => tmp'[m] = tmp[m]
BY SkillsTyped

\* The writers of the GUI on their way to the rename.
LEMMA SkillsPrepares ==
  ASSUME SkillsInv, NEW p \in Procs, TmpClear(p) \/ TmpMkdir(p) \/ TmpWrite(p)
  PROVE  SkillsInv'
<1>1. pc[p] \in {"tmp_clear", "tmp_mkdir", "tmp_write"} /\ Stays /\ list' = list /\ dir' = dir
      /\ host' = host
  BY DEF TmpClear, TmpMkdir, TmpWrite, At
<1>2. op[p] \in {"gui_add", "install", "catalog"} /\ name[p] \in All
      /\ (name[p] \in added => Harmless(pc[p], op[p]))
      /\ (calm /\ failures <= 1 => SkillsAt(p))
      /\ (op[p] = "catalog" => name[p] \notin list)
  BY <1>1, SkillsRuns DEF FlowOf
<1>3. name[p] \notin added /\ ~ \E s \in Steps : Past(s, op[p])
  BY <1>1, <1>2 DEF Harmless, Edits, Past
<1>4. /\ failures' = failures \/ (failures < MaxFailures /\ failures' = failures + 1)
      /\ failures' <= 1 => failures <= 1
  <2>1. NoFailure \/ Fails
    BY DEF TmpClear, TmpMkdir, TmpWrite
  <2> QED
    BY <2>1, SkillsFailures
<1>5. calm /\ failures <= 1 => /\ AllLoad(name[p])
                               /\ op[p] # "catalog" => dir[name[p]] = "absent"
                               /\ pc[p] = "tmp_mkdir" => tmp[name[p]] = "absent"
                               /\ pc[p] = "tmp_write" => tmp[name[p]] # "absent"
  BY <1>1, <1>2 DEF SkillsAt
\* What is next, and what .n.tmp is by then.
<1>6. PICK s \in {"tmp_mkdir", "tmp_write", "rename", "undo", "idle"} :
        /\ pc' = [pc EXCEPT ![p] = s]
        /\ seen' \in {seen, [seen EXCEPT ![p] = {}]}
        /\ s = "idle" => op[p] = "catalog"
        /\ s = "undo" => op[p] # "catalog"
        /\ s = "tmp_mkdir" => tmp' = [tmp EXCEPT ![name[p]] = "absent"]
        /\ s = "tmp_write" => tmp' = [tmp EXCEPT ![name[p]] = "empty"]
        /\ s = "rename" => tmp' = [tmp EXCEPT ![name[p]] = "ok"]
        /\ s = "undo" /\ calm /\ failures <= 1 => Fails
        /\ tmp' = tmp \/ \E t \in {"absent", "empty", "ok"} : tmp' = [tmp EXCEPT ![name[p]] = t]
  <2>1. ASSUME Refused(p) PROVE \E s \in {"undo", "idle"} :
                                  /\ pc' = [pc EXCEPT ![p] = s]
                                  /\ seen' \in {seen, [seen EXCEPT ![p] = {}]}
                                  /\ s = "idle" => op[p] = "catalog"
                                  /\ s = "undo" => op[p] # "catalog"
    BY <2>1 DEF Refused, Done, Go
  <2>2. CASE TmpClear(p)
    <3>1. pc[p] = "tmp_clear"
      BY <2>2 DEF TmpClear, At
    <3>2. CASE op[p] # "catalog" /\ dir[name[p]] # "absent"
      BY <1>5, <2>1, <2>2, <3>2 DEF TmpClear
    <3>3. CASE ~ (op[p] # "catalog" /\ dir[name[p]] # "absent")
      BY <2>2, <3>3 DEF TmpClear, Go
    <3> QED
      BY <3>2, <3>3
  <2>3. CASE TmpMkdir(p)
    <3>1. pc[p] = "tmp_mkdir"
      BY <2>3 DEF TmpMkdir, At
    <3>2. CASE tmp' = [tmp EXCEPT ![name[p]] = "empty"] /\ Go(p, "tmp_write") /\ seen' = seen
      BY <3>2 DEF Go
    <3>3. CASE tmp[name[p]] # "absent" /\ Leftover(p) /\ Refused(p)
      <4>1. ~ (calm /\ failures <= 1)
        BY <1>5, <3>1, <3>3
      <4> QED
        BY <2>1, <3>3, <4>1 DEF Leftover
    <3>4. CASE Leftover(p) /\ Refused(p) /\ Fails
      BY <2>1, <3>4 DEF Leftover
    <3> QED
      BY <2>3, <3>2, <3>3, <3>4 DEF TmpMkdir
  <2>4. CASE TmpWrite(p)
    <3>1. pc[p] = "tmp_write"
      BY <2>4 DEF TmpWrite, At
    <3>2. CASE tmp' = [tmp EXCEPT ![name[p]] = "ok"] /\ Go(p, "rename") /\ seen' = seen
      BY <3>2 DEF Go
    <3>3. CASE /\ tmp' = [tmp EXCEPT ![name[p]] = "absent"] /\ Refused(p)
               /\ IF tmp[name[p]] = "absent" THEN NoFailure ELSE Fails
      <4>1. calm /\ failures <= 1 => Fails
        BY <1>5, <3>1, <3>3
      <4> QED
        BY <2>1, <3>3, <4>1
    <3> QED
      BY <2>4, <3>2, <3>3 DEF TmpWrite
  <2> QED
    BY <2>2, <2>3, <2>4
<1>7. tmp' \in [All -> {"absent", "empty", "ok"}] /\ \A m \in All : m # name[p] => tmp'[m] = tmp[m]
  BY <1>6, SkillsTyped, SkillsTmp
<1>8. (s = "tmp_mkdir" => tmp'[name[p]] = "absent") /\ (s = "tmp_write" => tmp'[name[p]] = "empty")
      /\ (s = "rename" => tmp'[name[p]] = "ok")
  BY <1>6, SkillsTmp
<1>9. s \in Steps /\ FlowOf(s, op[p])
  BY <1>2, <1>6 DEF Steps, FlowOf, Adds
<1>10. op' = op /\ name' = name
  BY <1>1 DEF Stays
<1>11. OwnedAt(p, s)' /\ ~ Past(s, op[p])
  BY <1>3, <1>6, <1>8, <1>9, <1>10 DEF OwnedAt
<1>12. ASSUME calm, failures' <= 1
       PROVE  IF s = "idle" THEN \A m \in list' : dir[m] = "ok" ELSE SkillsAt(p)'
  <2>1. AllLoad(name[p]) /\ (op[p] # "catalog" => dir[name[p]] = "absent")
    BY <1>4, <1>5, <1>12
  <2>2. pc'[p] = s
    BY <1>6, SkillsTyped
  <2>3. s = "undo" => failures' >= 1
    BY <1>4, <1>6, <1>12, SkillsFailures
  <2>4. s = "idle" => \A m \in list' : dir[m] = "ok"
    BY <1>1, <1>2, <1>6, <2>1 DEF AllLoad
  <2>5. AllLoad(name[p])'
    BY <1>1, <1>10, <2>1 DEF AllLoad
  <2>6. s # "idle" => SkillsAt(p)'
    BY <1>1, <1>2, <1>6, <1>8, <1>10, <2>1, <2>2, <2>3, <2>5 DEF SkillsAt
  <2> QED
    BY <2>4, <2>6
<1>13. list' \subseteq Names /\ seen' \in [Procs -> SUBSET Names] /\ pc' = [pc EXCEPT ![p] = s]
  BY <1>1, <1>6, SkillsSame
<1>14. pc[p] # "idle" /\ host' = host
  BY <1>1
<1> QED
  BY <1>1, <1>3, <1>4, <1>7, <1>9, <1>11, <1>12, <1>13, <1>14, SkillsLooks

LEMMA SkillsRename == ASSUME SkillsInv, NEW p \in Procs, Rename(p) PROVE SkillsInv'
<1>1. pc[p] = "rename" /\ tmp' = [tmp EXCEPT ![name[p]] = "absent"] /\ list' = list
      /\ host' = host /\ op' = op /\ name' = name /\ calm' = calm /\ rivalled' = rivalled
      /\ applied' = applied /\ commands' = commands /\ failures' = failures
  BY DEF Rename, At, NoFailure
<1>2. op[p] \in {"gui_add", "install", "catalog"} /\ name[p] \in All /\ ~ applied
      /\ (p \notin rivalled => OwnedAt(p, "rename"))
      /\ (name[p] \in added => Harmless("rename", op[p]))
      /\ (calm /\ failures <= 1 => SkillsAt(p))
      /\ (op[p] = "catalog" => name[p] \notin list)
  BY <1>1, SkillsRuns DEF FlowOf
<1>3. name[p] \notin added /\ op[p] \notin Additive /\ ~ \E s \in Steps : Past(s, op[p])
  BY <1>2 DEF Harmless, Edits, Past, Additive
<1>4. calm /\ failures <= 1 => /\ AllLoad(name[p])
                               /\ op[p] # "catalog" => dir[name[p]] = "absent"
                               /\ tmp[name[p]] = "ok"
  BY <1>1, <1>2 DEF SkillsAt
<1>5. tmp' \in [All -> {"absent", "empty", "ok"}] /\ \A m \in All : m # name[p] => tmp'[m] = tmp[m]
  BY <1>1, SkillsTmp
<1>6. list' \subseteq Names /\ host' \subseteq Names /\ calm' \in BOOLEAN /\ applied' \in BOOLEAN
  BY <1>1, SkillsTyped
<1>7. CASE tmp[name[p]] # "absent" /\ dir[name[p]] \in {"absent", "empty"}
  <2>1. tmp[name[p]] \in Directories /\ (p \notin rivalled => tmp[name[p]] = "ok")
    BY <1>2, SkillsTyped DEF Directories, OwnedAt
  <2>2. dir' = [dir EXCEPT ![name[p]] = tmp[name[p]]]
    BY <1>7 DEF Rename
  <2>3. dir' \in [All -> Directories] /\ dir'[name[p]] = tmp[name[p]]
        /\ \A m \in All : m # name[p] => dir'[m] = dir[m]
    BY <1>2, <2>1, <2>2, SkillsTyped
  <2>4. PICK s \in {"apply", "idle"} :
          /\ pc' = [pc EXCEPT ![p] = s]
          /\ seen' \in {seen, [seen EXCEPT ![p] = {}]}
          /\ \/ s = "apply" /\ op[p] = "install" /\ added' = added
             \/ s = "idle" /\ Succeeded(p)
    <3>1. CASE op[p] = "install"
      BY <1>7, <3>1 DEF Rename, Go
    <3>2. CASE op[p] # "install"
      BY <1>7, <3>2 DEF Rename, Go, Done
    <3> QED
      BY <3>1, <3>2
  <2>5. s \in Steps /\ FlowOf(s, op[p])
    BY <2>4 DEF Steps, FlowOf
  <2>6. p \notin rivalled => OwnedAt(p, s)' /\ ~ Past(s, op[p])
    BY <1>1, <1>3, <2>1, <2>3, <2>4, <2>5 DEF OwnedAt, Full
  <2>7. \/ added' = added
        \/ /\ added' = added \cup {name[p]} /\ s = "idle" /\ p \notin rivalled
           /\ dir'[name[p]] \in Full /\ op[p] \in Adds \cup {"catalog"}
           /\ op[p] = "add" => Past(pc[p], op[p])
    BY <1>2, <2>1, <2>3, <2>4 DEF Succeeded, Full
  <2>8. ASSUME calm, failures <= 1
        PROVE  IF s = "idle" THEN \A m \in list : dir'[m] = "ok" ELSE SkillsAt(p)'
    <3>1. \A m \in list : dir'[m] = "ok"
      BY <1>4, <2>3, <2>8, SkillsTyped DEF AllLoad, All
    <3>2. pc'[p] = s
      BY <2>4, SkillsTyped
    <3> QED
      BY <1>1, <2>4, <3>1, <3>2 DEF SkillsAt, AllLoad
  <2>9. seen' \in [Procs -> SUBSET Names] /\ pc' = [pc EXCEPT ![p] = s]
    BY <2>4, SkillsSame
  <2>10. pc[p] # "idle" /\ op' = op /\ name' = name /\ rivalled' = rivalled
         /\ commands' = commands /\ failures' = failures /\ calm' = calm /\ ~ applied'
    BY <1>1, <1>2
  <2>11. \A m \in All : m # name[p] => dir'[m] = dir[m] /\ tmp'[m] = tmp[m]
    BY <1>5, <2>3
  <2>12. /\ p \notin rivalled => OwnedAt(p, s)'
         /\ ~ (p \notin rivalled /\ Past(s, op[p]))
         /\ name[p] \notin added /\ op[p] \notin Additive
    BY <1>3, <2>5, <2>6
  <2>13. calm' /\ failures' <= 1 =>
           IF s = "idle" THEN (\A m \in list' : dir'[m] = "ok") /\ (applied' => host' = list')
                         ELSE SkillsAt(p)'
    BY <1>1, <2>8, <2>10
  <2>14. dir' \in [All -> Directories] /\ tmp' \in [All -> {"absent", "empty", "ok"}]
    BY <1>5, <2>3
  <2> QED
    BY <1>6, <2>5, <2>7, <2>9, <2>10, <2>11, <2>12, <2>13, <2>14, SkillsMoves
<1>8. CASE ~ (tmp[name[p]] # "absent" /\ dir[name[p]] \in {"absent", "empty"})
  <2>1. dir' = dir /\ added' = added /\ Refused(p)
    BY <1>8 DEF Rename
  <2>2. PICK s \in {"undo", "idle"} :
          /\ pc' = [pc EXCEPT ![p] = s]
          /\ seen' \in {seen, [seen EXCEPT ![p] = {}]}
          /\ s = "idle" <=> op[p] = "catalog"
    BY <2>1 DEF Refused, Done, Go
  <2>3. s \in Steps /\ FlowOf(s, op[p])
    BY <1>2, <2>2 DEF Steps, FlowOf, Adds
  <2>4. OwnedAt(p, s)' /\ ~ Past(s, op[p])
    BY <1>1, <1>3, <2>2, <2>3 DEF OwnedAt
  <2>5. ASSUME calm, failures <= 1
        PROVE  s = "idle" /\ \A m \in list : dir[m] = "ok"
    BY <1>2, <1>4, <1>8, <2>2, <2>5 DEF AllLoad
  <2>6. Stays
    BY <1>1, <2>1 DEF Stays
  <2>7. seen' \in [Procs -> SUBSET Names] /\ pc' = [pc EXCEPT ![p] = s]
    BY <2>2, SkillsSame
  <2> QED
    BY <1>1, <1>3, <1>5, <1>6, <2>1, <2>3, <2>4, <2>5, <2>6, <2>7, SkillsLooks
<1> QED
  BY <1>7, <1>8

LEMMA SkillsUndo == ASSUME SkillsInv, NEW p \in Procs, Undo(p) PROVE SkillsInv'
<1>1. pc[p] = "undo" /\ Stays /\ list' = list /\ tmp' = tmp /\ host' = host
      /\ failures' = failures /\ dir' = [dir EXCEPT ![name[p]] = "absent"]
  BY DEF Undo, At, NoFailure
<1>2. op[p] \in Adds /\ name[p] \in All
      /\ (name[p] \in added => Harmless("undo", op[p]))
      /\ (calm /\ failures <= 1 => SkillsAt(p))
  BY <1>1, SkillsRuns DEF FlowOf
<1>3. name[p] \notin added /\ (op[p] \in Additive => Past(pc[p], op[p]))
  BY <1>1, <1>2 DEF Harmless, Edits, Adds, Additive, Past
<1>4. dir' \in [All -> Directories] /\ dir'[name[p]] = "absent"
      /\ \A m \in All : m # name[p] => dir'[m] = dir[m]
  BY <1>1, <1>2, SkillsTyped DEF Directories
<1>5. PICK s \in {"idle", "undo_read"} :
        /\ pc' = [pc EXCEPT ![p] = s] /\ (s = "idle" <=> op[p] = "add")
        /\ seen' \in {seen, [seen EXCEPT ![p] = {}]}
  BY DEF Undo, Go, Done
<1>6. s \in Steps /\ FlowOf(s, op[p])
  BY <1>2, <1>5 DEF Steps, FlowOf, Adds
<1>7. op' = op /\ name' = name
  BY <1>1 DEF Stays
<1>8. OwnedAt(p, s)' /\ ~ Past(s, op[p])
  BY <1>5 DEF OwnedAt, Past
<1>9. ASSUME calm, failures <= 1
      PROVE  IF s = "idle" THEN \A m \in list' : dir'[m] = "ok" ELSE SkillsAt(p)'
  <2>1. AllLoad(name[p]) /\ (op[p] = "add" => name[p] \notin list)
        /\ (op[p] # "add" => failures >= 1)
    BY <1>1, <1>2, <1>9 DEF SkillsAt
  <2>2. \A m \in list : m # name[p] => dir'[m] = "ok"
    BY <1>4, <2>1, SkillsTyped DEF AllLoad, All
  <2>3. pc'[p] = s
    BY <1>5, SkillsTyped
  <2> QED
    BY <1>1, <1>5, <1>7, <2>1, <2>2, <2>3 DEF SkillsAt, AllLoad
<1>10. list' \subseteq Names /\ tmp' \in [All -> {"absent", "empty", "ok"}]
       /\ seen' \in [Procs -> SUBSET Names] /\ pc' = [pc EXCEPT ![p] = s]
  BY <1>1, <1>5, SkillsSame
<1>11. pc[p] # "idle" /\ tmp' = tmp /\ host' = host /\ failures' = failures /\ Stays
  BY <1>1
<1> QED
  BY <1>3, <1>4, <1>6, <1>8, <1>9, <1>10, <1>11, SkillsGoes

LEMMA SkillsUndoRead == ASSUME SkillsInv, NEW p \in Procs, UndoRead(p) PROVE SkillsInv'
<1>1. pc[p] = "undo_read" /\ Stays /\ list' = list /\ dir' = dir /\ tmp' = tmp /\ host' = host
      /\ failures' = failures
  BY DEF UndoRead, At, files, NoFailure
<1>2. op[p] \in {"gui_add", "install"}
      /\ (name[p] \in added => Harmless("undo_read", op[p]))
      /\ (calm /\ failures <= 1 => SkillsAt(p))
  BY <1>1, SkillsRuns DEF FlowOf
<1>3. name[p] \notin added
  BY <1>2 DEF Harmless, Edits
<1>4. PICK s \in {"idle", "undo_store"} :
        /\ pc' = [pc EXCEPT ![p] = s]
        /\ s = "idle" => name[p] \notin list
        /\ s = "undo_store" => seen' = [seen EXCEPT ![p] = list]
        /\ seen' \in {seen, [seen EXCEPT ![p] = {}], [seen EXCEPT ![p] = list]}
  BY DEF UndoRead, Go, Done
<1>5. s \in Steps /\ FlowOf(s, op[p]) /\ op' = op /\ name' = name
  BY <1>1, <1>2, <1>4 DEF Steps, FlowOf, Stays
<1>6. OwnedAt(p, s)' /\ ~ Past(s, op[p])
  BY <1>4 DEF OwnedAt, Past
<1>7. ASSUME calm, failures <= 1
      PROVE  IF s = "idle" THEN \A m \in list' : dir[m] = "ok" ELSE SkillsAt(p)'
  <2>1. AllLoad(name[p]) /\ failures >= 1
    BY <1>1, <1>2, <1>7 DEF SkillsAt
  <2>2. pc'[p] = s /\ (s = "undo_store" => seen'[p] = list)
    BY <1>4, SkillsTyped
  <2> QED
    BY <1>1, <1>4, <1>5, <2>1, <2>2 DEF SkillsAt, AllLoad
<1>8. list' \subseteq Names /\ tmp' \in [All -> {"absent", "empty", "ok"}]
      /\ seen' \in [Procs -> SUBSET Names] /\ pc' = [pc EXCEPT ![p] = s]
  BY <1>1, <1>4, SkillsSame
<1> QED
  BY <1>1, <1>3, <1>5, <1>6, <1>7, <1>8, SkillsLooks

LEMMA SkillsUndoStore == ASSUME SkillsInv, NEW p \in Procs, UndoStore(p) PROVE SkillsInv'
<1>1. pc[p] = "undo_store" /\ Stays /\ dir' = dir /\ tmp' = tmp /\ host' = host
      /\ pc' = [pc EXCEPT ![p] = "idle"] /\ seen' = [seen EXCEPT ![p] = {}]
  BY DEF UndoStore, At, Go, Done
<1>2. (calm /\ failures <= 1 => SkillsAt(p)) /\ op[p] # "add"
  BY <1>1, SkillsRuns DEF FlowOf
<1>3. /\ failures' = failures \/ (failures < MaxFailures /\ failures' = failures + 1)
      /\ failures' <= 1 => failures <= 1
  BY SkillsFailures DEF UndoStore
<1>4. list' = seen[p] \ {name[p]} \/ (list' = list /\ Fails)
  BY DEF UndoStore
<1>5. ASSUME calm, failures' <= 1 PROVE \A m \in list' : dir[m] = "ok"
  <2>1. AllLoad(name[p]) /\ seen[p] = list /\ failures >= 1
    BY <1>1, <1>2, <1>3, <1>5 DEF SkillsAt
  <2>2. ~ Fails
    BY <1>5, <2>1, SkillsFailures
  <2> QED
    BY <1>4, <2>1, <2>2 DEF AllLoad
<1>6. list' \subseteq Names /\ tmp' \in [All -> {"absent", "empty", "ok"}]
      /\ seen' \in [Procs -> SUBSET Names]
  BY <1>1, <1>4, SkillsTyped, SkillsSame
<1>7. "idle" \in Steps /\ FlowOf("idle", op[p]) /\ OwnedAt(p, "idle")' /\ ~ Past("idle", op[p])
      /\ Harmless("idle", op[p])
  BY DEF Steps, FlowOf, OwnedAt, Past, Harmless
<1> QED
  BY <1>1, <1>3, <1>5, <1>6, <1>7, SkillsLooks

LEMMA SkillsEditor == ASSUME SkillsInv, NEW p \in Procs, Editor(p) PROVE SkillsInv'
<1>1. pc[p] = "editor" /\ list' = list /\ tmp' = tmp /\ host' = host /\ op' = op /\ name' = name
      /\ rivalled' = rivalled /\ added' = added /\ applied' = applied
      /\ commands' = commands /\ failures' = failures
  BY DEF Editor, At, NoFailure
<1>2. op[p] \in Edits /\ name[p] \in All /\ ~ applied
      /\ (name[p] \in added => dir[name[p]] \in Full)
      /\ (calm /\ failures <= 1 => SkillsAt(p))
  BY <1>1, SkillsRuns DEF FlowOf
<1>3. calm /\ failures <= 1 => \A m \in list : dir[m] = "ok"
  BY <1>1, <1>2 DEF SkillsAt
<1>4. PICK s \in {"idle", "restore"}, d \in {"ok", "bad", dir[name[p]]} :
        /\ pc' = [pc EXCEPT ![p] = s] /\ dir' = [dir EXCEPT ![name[p]] = d]
        /\ seen' \in {seen, [seen EXCEPT ![p] = {}]}
        /\ s = "restore" => op[p] = "edit" /\ d = "bad"
        /\ d = "bad" /\ s = "idle" /\ dir[name[p]] # "bad" => calm' = FALSE
        /\ calm' = calm \/ calm' = FALSE
  <2>1. CASE dir' = [dir EXCEPT ![name[p]] = "ok"] /\ Done(p) /\ calm' = calm
    BY <2>1 DEF Done, Go
  <2>2. CASE /\ op[p] = "edit" /\ dir' = [dir EXCEPT ![name[p]] = "bad"]
             /\ Go(p, "restore") /\ seen' = seen /\ calm' = calm
    BY <2>2 DEF Go
  <2>3. CASE dir' = [dir EXCEPT ![name[p]] = "bad"] /\ Done(p) /\ calm' = FALSE
    BY <2>3 DEF Done, Go
  <2>4. CASE dir' = dir /\ calm' = calm /\ Done(p)
    <3>1. dir' = [dir EXCEPT ![name[p]] = dir[name[p]]]
      BY <1>2, <2>4, SkillsTyped
    <3>2. pc' = [pc EXCEPT ![p] = "idle"] /\ seen' = [seen EXCEPT ![p] = {}]
      BY <2>4 DEF Done, Go
    <3> QED
      BY <2>4, <3>1, <3>2
  <2> QED
    BY <2>1, <2>2, <2>3, <2>4 DEF Editor
<1>5. d \in Directories
  BY <1>2, SkillsTyped DEF Directories
<1>6. dir' \in [All -> Directories] /\ dir'[name[p]] = d
      /\ \A m \in All : m # name[p] => dir'[m] = dir[m]
  BY <1>2, <1>4, <1>5, SkillsTyped
<1>7. s \in Steps /\ FlowOf(s, op[p]) /\ Harmless(s, op[p])
  BY <1>2, <1>4 DEF Steps, FlowOf, Harmless
<1>8. OwnedAt(p, s)' /\ ~ Past(s, op[p])
  BY <1>4 DEF OwnedAt, Past
<1>9. (dir[name[p]] # "absent" => d # "absent") /\ (dir[name[p]] \in Full => d \in Full)
  BY DEF Full
<1>10. ASSUME calm', failures <= 1
       PROVE  IF s = "idle" THEN \A m \in list : dir'[m] = "ok" ELSE SkillsAt(p)'
  <2>1. \A m \in list : dir[m] = "ok"
    BY <1>3, <1>4, <1>10
  <2>2. \A m \in list : m # name[p] => dir'[m] = "ok"
    BY <1>6, <2>1, SkillsTyped DEF All
  <2>3. CASE s = "idle"
    <3>1. name[p] \in list => d = "ok"
      BY <1>4, <1>10, <2>1, <2>3
    <3> QED
      BY <1>6, <2>2, <2>3, <3>1
  <2>4. CASE s = "restore"
    <3>1. pc'[p] = "restore" /\ dir'[name[p]] = "bad"
      BY <1>4, <1>6, <2>4, SkillsTyped
    <3> QED
      BY <1>1, <2>2, <2>4, <3>1 DEF SkillsAt, AllLoad
  <2> QED
    BY <1>4, <2>3, <2>4
<1>11. list' \subseteq Names /\ host' \subseteq Names /\ applied' \in BOOLEAN
       /\ tmp' \in [All -> {"absent", "empty", "ok"}] /\ seen' \in [Procs -> SUBSET Names]
       /\ pc' = [pc EXCEPT ![p] = s]
  BY <1>1, <1>4, SkillsTyped, SkillsSame
<1>12. calm' \in BOOLEAN /\ (calm' => calm)
  <2>1. CASE calm' = calm
    BY <2>1, SkillsTyped
  <2>2. CASE calm' = FALSE
    BY <2>2, Zenon
  <2> QED
    BY <1>4, <2>1, <2>2
<1>13. name[p] \in added => dir'[name[p]] \in Full
  BY <1>2, <1>6, <1>9
<1> HIDE DEF Edits
<1> QED
  BY <1>1, <1>2, <1>6, <1>7, <1>8, <1>9, <1>10, <1>11, <1>12, <1>13, SkillsMoves

LEMMA SkillsRestore == ASSUME SkillsInv, NEW p \in Procs, Restore(p) PROVE SkillsInv'
<1>1. pc[p] = "restore" /\ Stays /\ list' = list /\ tmp' = tmp /\ host' = host
      /\ failures' = failures /\ pc' = [pc EXCEPT ![p] = "idle"] /\ seen' = [seen EXCEPT ![p] = {}]
  BY DEF Restore, At, NoFailure, Done, Go
<1>2. name[p] \in All /\ (name[p] \in added => dir[name[p]] \in Full)
      /\ (calm /\ failures <= 1 => SkillsAt(p))
  BY <1>1, SkillsRuns
<1>3. dir' \in [All -> Directories]
      /\ dir'[name[p]] = (IF dir[name[p]] = "absent" THEN "absent" ELSE "ok")
      /\ \A m \in All : m # name[p] => dir'[m] = dir[m]
  <2>1. CASE dir[name[p]] = "absent"
    BY <1>2, <2>1, SkillsTyped DEF Restore
  <2>2. CASE dir[name[p]] # "absent"
    BY <1>2, <2>2, SkillsTyped DEF Restore, Directories
  <2> QED
    BY <2>1, <2>2
<1>4. ASSUME calm, failures <= 1 PROVE \A m \in list : dir'[m] = "ok"
  <2>1. AllLoad(name[p]) /\ dir[name[p]] # "absent"
    BY <1>1, <1>2, <1>4 DEF SkillsAt
  <2> QED
    BY <1>3, <2>1, SkillsTyped DEF AllLoad, All
<1>5. "idle" \in Steps /\ FlowOf("idle", op[p]) /\ OwnedAt(p, "idle")' /\ ~ Past("idle", op[p])
      /\ Harmless("idle", op[p])
  BY DEF Steps, FlowOf, OwnedAt, Past, Harmless
<1>6. (dir[name[p]] # "absent" => dir'[name[p]] # "absent")
      /\ (dir[name[p]] \in Full => dir'[name[p]] \in Full)
  BY <1>3 DEF Full
<1>7. list' \subseteq Names /\ tmp' \in [All -> {"absent", "empty", "ok"}]
      /\ seen' \in [Procs -> SUBSET Names]
  BY <1>1, SkillsSame
<1> QED
  BY <1>1, <1>2, <1>3, <1>4, <1>5, <1>6, <1>7, SkillsGoes

LEMMA SkillsApply == ASSUME SkillsInv, NEW p \in Procs, Apply(p) PROVE SkillsInv'
<1>1. pc[p] = "apply" /\ Stays /\ list' = list /\ dir' = dir /\ tmp' = tmp /\ host' = host
      /\ failures' = failures /\ pc' = [pc EXCEPT ![p] = "load"]
      /\ seen' = [seen EXCEPT ![p] = list]
  BY DEF Apply, At, Go, files, NoFailure
<1>2. op[p] \in {"install", "uninstall"}
      /\ (p \notin rivalled => OwnedAt(p, "apply"))
      /\ (name[p] \in added => Harmless("apply", op[p]))
      /\ (calm /\ failures <= 1 => SkillsAt(p))
  BY <1>1, SkillsRuns DEF FlowOf
<1>3. name[p] \notin added
  BY <1>2 DEF Harmless, Edits
<1>4. "load" \in Steps /\ FlowOf("load", op[p]) /\ op' = op /\ name' = name
  BY <1>1, <1>2 DEF Steps, FlowOf, Stays
<1>5. (p \notin rivalled => OwnedAt(p, "load")') /\ ~ Past("load", op[p])
  BY <1>1, <1>2, <1>4 DEF OwnedAt, Past
<1>6. ASSUME calm, failures <= 1 PROVE SkillsAt(p)'
  <2>1. \A m \in list : dir[m] = "ok"
    BY <1>1, <1>2, <1>6 DEF SkillsAt
  <2>2. pc'[p] = "load" /\ seen'[p] = list
    BY <1>1, SkillsTyped
  <2> QED
    BY <1>1, <2>1, <2>2 DEF SkillsAt, AllLoad
<1>7. list' \subseteq Names /\ tmp' \in [All -> {"absent", "empty", "ok"}]
      /\ seen' \in [Procs -> SUBSET Names]
  BY <1>1, SkillsSame
<1>8. "load" # "idle"
  OBVIOUS
<1> QED
  BY <1>1, <1>3, <1>4, <1>5, <1>6, <1>7, <1>8, SkillsLooks

LEMMA SkillsLoad == ASSUME SkillsInv, NEW p \in Procs, Load(p) PROVE SkillsInv'
<1>1. pc[p] = "load" /\ Stays /\ list' = list /\ dir' = dir /\ tmp' = tmp /\ host' = host
  BY DEF Load, At, files
<1>2. op[p] \in {"install", "uninstall"}
      /\ (p \notin rivalled => OwnedAt(p, "load"))
      /\ (name[p] \in added => Harmless("load", op[p]))
      /\ (calm /\ failures <= 1 => SkillsAt(p))
  BY <1>1, SkillsRuns DEF FlowOf
<1>3. name[p] \notin added
  BY <1>2 DEF Harmless, Edits
<1>4. /\ failures' = failures \/ (failures < MaxFailures /\ failures' = failures + 1)
      /\ failures' <= 1 => failures <= 1
      /\ Fails => failures' >= 1
  BY SkillsFailures DEF Load
<1>5. calm /\ failures <= 1 => seen[p] = list /\ \A m \in list : dir[m] = "ok"
  BY <1>1, <1>2 DEF SkillsAt
<1>6. PICK s \in {"play", "undo", "idle"} :
        /\ pc' = [pc EXCEPT ![p] = s]
        /\ s = "play" => seen' = seen
        /\ s = "undo" => op[p] = "install" /\ (Fails \/ \E m \in seen[p] : dir[m] # "ok")
        /\ seen' \in {seen, [seen EXCEPT ![p] = {}]}
  <2>1. ASSUME NotApplied(p) PROVE \/ pc' = [pc EXCEPT ![p] = "undo"] /\ op[p] = "install" /\ seen' = seen
                                   \/ pc' = [pc EXCEPT ![p] = "idle"] /\ seen' = [seen EXCEPT ![p] = {}]
    BY <2>1 DEF NotApplied, Go, Done
  <2>2. CASE Go(p, "play") /\ seen' = seen
    BY <2>2 DEF Go
  <2>3. CASE (\E m \in seen[p] : ~ Loads(m)) /\ NotApplied(p)
    BY <2>1, <2>3 DEF Loads
  <2>4. CASE NotApplied(p) /\ Fails
    BY <2>1, <2>4
  <2>5. CASE Done(p) /\ Fails
    BY <2>5 DEF Done, Go
  <2> QED
    BY <2>2, <2>3, <2>4, <2>5 DEF Load
<1>7. s \in Steps /\ FlowOf(s, op[p]) /\ op' = op /\ name' = name
  BY <1>1, <1>2, <1>6 DEF Steps, FlowOf, Stays, Adds
<1>8. (p \notin rivalled => OwnedAt(p, s)') /\ ~ Past(s, op[p])
  BY <1>1, <1>2, <1>6, <1>7 DEF OwnedAt, Past
<1>9. ASSUME calm, failures' <= 1
      PROVE  IF s = "idle" THEN \A m \in list' : dir[m] = "ok" ELSE SkillsAt(p)'
  <2>1. seen[p] = list /\ \A m \in list : dir[m] = "ok"
    BY <1>4, <1>5, <1>9
  <2>2. pc'[p] = s /\ (s = "play" => seen'[p] = list)
    BY <1>6, <2>1, SkillsTyped
  <2>3. s = "undo" => failures' >= 1
    BY <1>4, <1>6, <2>1
  <2> QED
    BY <1>1, <1>6, <1>7, <2>1, <2>2, <2>3 DEF SkillsAt, AllLoad
<1>10. list' \subseteq Names /\ tmp' \in [All -> {"absent", "empty", "ok"}]
       /\ seen' \in [Procs -> SUBSET Names] /\ pc' = [pc EXCEPT ![p] = s]
  BY <1>1, <1>6, SkillsSame
<1>11. failures' = failures \/ (failures < MaxFailures /\ failures' = failures + 1)
  BY <1>4
<1>12. pc[p] # "idle" /\ Stays /\ dir' = dir /\ host' = host /\ \A m \in All : tmp'[m] = tmp[m]
  BY <1>1
<1> QED
  BY <1>3, <1>7, <1>8, <1>9, <1>10, <1>11, <1>12, SkillsLooks

LEMMA SkillsPlay == ASSUME SkillsInv, NEW p \in Procs, Play(p) PROVE SkillsInv'
<1>1. pc[p] = "play" /\ list' = list /\ dir' = dir /\ tmp' = tmp /\ op' = op /\ name' = name
      /\ calm' = calm /\ rivalled' = rivalled /\ commands' = commands
  BY DEF Play, At
<1>2. op[p] \in {"install", "uninstall"} /\ name[p] \in All /\ ~ applied
      /\ (p \notin rivalled => OwnedAt(p, "play"))
      /\ (name[p] \in added => Harmless("play", op[p]))
      /\ (calm /\ failures <= 1 => SkillsAt(p))
  BY <1>1, SkillsRuns DEF FlowOf
<1>3. name[p] \notin added
  BY <1>2 DEF Harmless, Edits
<1>4. /\ failures' = failures \/ (failures < MaxFailures /\ failures' = failures + 1)
      /\ failures' <= 1 => failures <= 1
      /\ Fails => failures' >= 1
  BY SkillsFailures DEF Play
<1>5. calm /\ failures <= 1 => seen[p] = list /\ \A m \in list : dir[m] = "ok"
  BY <1>1, <1>2 DEF SkillsAt
<1>6. PICK s \in {"undo", "idle"} :
        /\ pc' = [pc EXCEPT ![p] = s] /\ seen' \in {seen, [seen EXCEPT ![p] = {}]}
        /\ s = "undo" => op[p] = "install" /\ Fails
        /\ \/ s = "idle" /\ host' = seen[p] /\ (applied' <=> Running = {p}) /\ Succeeded(p)
           \/ applied' = applied /\ added' = added /\ host' \subseteq host \cup seen[p]
  <2>1. CASE host' = seen[p] /\ Done(p) /\ applied' = (Running = {p}) /\ Succeeded(p)
    BY <2>1 DEF Done, Go
  <2>2. CASE /\ \/ host' \in {h \in SUBSET host : host \cap seen[p] \subseteq h}
                \/ host' \in {h \in SUBSET seen[p] : host \cap seen[p] \subseteq h}
             /\ NotApplied(p) /\ Fails /\ applied' = applied /\ added' = added
    <3>1. host' \subseteq host \cup seen[p]
      BY <2>2
    <3>2. \/ pc' = [pc EXCEPT ![p] = "undo"] /\ op[p] = "install" /\ seen' = seen
          \/ pc' = [pc EXCEPT ![p] = "idle"] /\ seen' = [seen EXCEPT ![p] = {}]
      BY <2>2 DEF NotApplied, Go, Done
    <3> QED
      BY <2>2, <3>1, <3>2
  <2> QED
    BY <2>1, <2>2 DEF Play
<1>7. s \in Steps /\ FlowOf(s, op[p])
  BY <1>6 DEF Steps, FlowOf, Adds
<1>8. OwnedAt(p, s)' /\ ~ Past(s, op[p])
  BY <1>1, <1>2, <1>6 DEF OwnedAt, Past
<1>9. \/ added' = added
      \/ /\ added' = added \cup {name[p]} /\ s = "idle" /\ p \notin rivalled
         /\ dir'[name[p]] \in Full /\ op[p] \in Adds \cup {"catalog"}
         /\ op[p] = "add" => Past(pc[p], op[p])
  BY <1>1, <1>2, <1>6 DEF Succeeded, OwnedAt, Adds
<1>10. applied' \in BOOLEAN /\ (applied' => s = "idle" /\ Running = {p} /\ host' = seen[p])
  <2>1. CASE applied' = applied
    BY <1>2, <2>1, SkillsTyped
  <2>2. CASE s = "idle" /\ host' = seen[p] /\ (applied' <=> Running = {p})
    BY <2>2 DEF Play
  <2> QED
    BY <1>6, <2>1, <2>2
<1>11. ASSUME calm, failures' <= 1
       PROVE  IF s = "idle" THEN (\A m \in list' : dir'[m] = "ok") /\ (applied' => host' = list')
                            ELSE SkillsAt(p)'
  <2>1. seen[p] = list /\ \A m \in list : dir[m] = "ok"
    BY <1>4, <1>5, <1>11
  <2>2. pc'[p] = s
    BY <1>6, SkillsTyped
  <2>3. s = "undo" => failures' >= 1
    BY <1>4, <1>6
  <2> QED
    BY <1>1, <1>6, <1>10, <2>1, <2>2, <2>3 DEF SkillsAt, AllLoad
<1>12. host' \subseteq Names
  BY <1>6, SkillsTyped
<1>13. list' \subseteq Names /\ tmp' \in [All -> {"absent", "empty", "ok"}]
       /\ dir' \in [All -> Directories] /\ seen' \in [Procs -> SUBSET Names]
       /\ pc' = [pc EXCEPT ![p] = s]
  BY <1>1, <1>6, SkillsSame
<1>14. calm' \in BOOLEAN /\ calm' = calm
  BY <1>1, SkillsTyped
<1>15. failures' = failures \/ (failures < MaxFailures /\ failures' = failures + 1)
  BY <1>4
<1>16. /\ \A m \in All : m # name[p] => dir'[m] = dir[m] /\ tmp'[m] = tmp[m]
       /\ p \notin rivalled => OwnedAt(p, s)'
       /\ ~ (p \notin rivalled /\ Past(s, op[p]))
  BY <1>1, <1>8
<1>17. p \notin rivalled /\ op[p] \in Additive /\ ~ Past(pc[p], op[p]) =>
         /\ dir[name[p]] # "absent" => dir'[name[p]] # "absent"
         /\ dir[name[p]] \in Full => dir'[name[p]] \in Full
  BY <1>1
<1>18. calm' \in BOOLEAN /\ (calm' => calm) /\ (applied' => s = "idle" /\ Running = {p})
  BY <1>10, <1>14
<1>19. calm' /\ failures' <= 1 =>
         IF s = "idle" THEN (\A m \in list' : dir'[m] = "ok") /\ (applied' => host' = list')
                       ELSE SkillsAt(p)'
  BY <1>11, <1>14
<1>20. pc[p] # "idle" /\ op' = op /\ name' = name /\ rivalled' = rivalled
       /\ commands' = commands /\ name[p] \notin added /\ applied' \in BOOLEAN
  BY <1>1, <1>3, <1>10
<1> QED
  BY <1>7, <1>9, <1>12, <1>13, <1>15, <1>16, <1>17, <1>18, <1>19, <1>20, SkillsMoves

LEMMA SkillsDies == ASSUME SkillsInv, NEW p \in Procs, Killed(p) PROVE SkillsInv'
<1>1. pc[p] # "idle" /\ list' = list /\ dir' = dir /\ tmp' = tmp /\ host' = host
      /\ op' = op /\ name' = name /\ rivalled' = rivalled /\ added' = added /\ applied' = applied
      /\ commands' = commands /\ failures' = failures
      /\ pc' = [pc EXCEPT ![p] = "idle"] /\ seen' = [seen EXCEPT ![p] = {}]
  BY DEF Killed, At, files, Done, Go
<1>2. ~ calm'
  BY DEF Killed
<1>3. calm' \in BOOLEAN
  <2>1. calm' = FALSE
    BY DEF Killed
  <2> QED
    BY <2>1
<1>4. ~ applied' /\ applied' \in BOOLEAN /\ (name[p] \in added => dir'[name[p]] \in Full)
  BY <1>1, SkillsRuns, SkillsTyped
<1>5. "idle" \in Steps /\ FlowOf("idle", op[p]) /\ OwnedAt(p, "idle")' /\ ~ Past("idle", op[p])
      /\ Harmless("idle", op[p])
  BY DEF Steps, FlowOf, OwnedAt, Past, Harmless
<1>6. list' \subseteq Names /\ host' \subseteq Names /\ dir' \in [All -> Directories]
      /\ tmp' \in [All -> {"absent", "empty", "ok"}] /\ seen' \in [Procs -> SUBSET Names]
  BY <1>1, SkillsTyped, SkillsSame
<1> QED
  BY <1>1, <1>2, <1>3, <1>4, <1>5, <1>6, SkillsMoves

\* A command begins.  It and those it meets on its skill become rivals, if one of them takes
\* anything away, or had a rival already.
LEMMA SkillsBegins ==
  ASSUME SkillsInv, NEW p \in Procs, NEW o \in Ops, NEW n \in All, Begin(p, o, n)
  PROVE  SkillsInv'
<1> DEFINE rivals == {q \in Running : name[q] = n /\ (q \in rivalled \/ Rivals(o, op[q]))}
<1>1. pc[p] = "idle" /\ list' = list /\ dir' = dir /\ tmp' = tmp /\ host' = host
      /\ seen' = seen /\ failures' = failures /\ commands < MaxCommands
      /\ commands' = commands + 1 /\ (o = "catalog" <=> n = Catalog)
  BY DEF Begin, At, files
<1>2. pc' = [pc EXCEPT ![p] = First[o]] /\ op' = [op EXCEPT ![p] = o]
      /\ name' = [name EXCEPT ![p] = n]
  BY DEF Begin, Go
<1>3. /\ First[o] \in {"check", "editor", "read"}
      /\ First[o] = "check" <=> o \in Adds \cup {"catalog"}
      /\ First[o] = "editor" <=> o \in Edits
      /\ First[o] = "read" <=> o \in Removals
  BY DEF First, Ops, Adds, Edits, Removals
<1>4. /\ pc' \in [Procs -> Steps] /\ op' \in [Procs -> Ops] /\ name' \in [Procs -> All]
      /\ pc'[p] = First[o] /\ op'[p] = o /\ name'[p] = n
      /\ \A q \in Procs \ {p} : pc'[q] = pc[q] /\ op'[q] = op[q] /\ name'[q] = name[q]
  <2>1. First[o] \in Steps
    BY <1>3 DEF Steps
  <2> QED
    BY <1>2, <2>1, SkillsTyped
<1>5. rivalled' = (rivalled \ {p}) \cup rivals \cup {r \in {p} : rivals # {}}
  BY DEF Begin
<1>6. \A q \in Procs \ {p} : q \in rivalled' <=> q \in rivalled \/ q \in rivals
  BY <1>5
<1>7. (p \in rivalled' <=> rivals # {}) /\ rivals \subseteq Procs \ {p}
  BY <1>1, <1>5 DEF Running
<1>8. added' \subseteq added /\ (n \in added' => o \notin Removals)
  BY DEF Begin, Removals
<1>9. ~ applied' /\ applied' \in BOOLEAN
  <2>1. applied' = FALSE
    BY DEF Begin
  <2> QED
    BY <2>1
<1>10. calm' \in BOOLEAN /\ (calm' => calm /\ Running = {})
  <2>1. calm' = (calm /\ Running = {})
    BY DEF Begin
  <2> QED
    BY <2>1
<1>11. TypeOK'
  <2>1. commands' \in 0 .. MaxCommands
    BY <1>1, SkillsTyped
  <2>2. added' \subseteq All /\ rivalled' \subseteq Procs
    BY <1>5, <1>7, <1>8, SkillsTyped
  <2>3. \A q \in Procs : pc'[q] # "idle" => (op'[q] = "catalog" <=> name'[q] = Catalog)
    BY <1>1, <1>4, SkillsTyped
  <2>4. /\ list' \subseteq Names /\ host' \subseteq Names
        /\ dir' \in [All -> Directories] /\ tmp' \in [All -> {"absent", "empty", "ok"}]
        /\ seen' \in [Procs -> SUBSET Names] /\ failures' \in 0 .. MaxFailures
    BY <1>1, SkillsTyped
  <2> QED
    BY <1>4, <1>9, <1>10, <2>1, <2>2, <2>3, <2>4, SkillsTypes
<1>12. Flows'
  <2>1. FlowOf(First[o], o)
    BY <1>3 DEF FlowOf
  <2> QED
    BY <1>4, <2>1 DEF SkillsInv, Flows
\* Of those on the skill either all become rivals or none does.
<1>13. \A q, r \in Running : name[q] = n /\ name[r] = n /\ q \in rivals => r \in rivals
  <2> SUFFICES ASSUME NEW q \in Running, NEW r \in Running, name[q] = n, name[r] = n,
                      q \in rivals, q # r
               PROVE  r \in rivals
    OBVIOUS
  <2>1. pc[q] # "idle" /\ pc[r] # "idle" /\ q \in Procs /\ r \in Procs
    BY DEF Running
  <2>2. CASE r \in rivalled
    BY <2>2
  <2>3. CASE r \notin rivalled
    <3>1. q \notin rivalled /\ op[q] \in Additive /\ op[r] \in Additive
      BY <2>1, <2>3 DEF SkillsInv, Apart
    <3>2. o \notin Additive
      BY <3>1 DEF Rivals, Additive
    <3>3. Rivals(o, op[r])
      BY <3>2 DEF Rivals, Additive
    <3> QED
      BY <3>3
  <2> QED
    BY <2>2, <2>3
<1>14. \A q \in Running : name[q] = n =>
         /\ q \in rivalled' <=> p \in rivalled'
         /\ q \notin rivalled' => op[q] \in Additive /\ o \in Additive
  <2> SUFFICES ASSUME NEW q \in Running, name[q] = n
               PROVE  /\ q \in rivalled' <=> p \in rivalled'
                      /\ q \notin rivalled' => op[q] \in Additive /\ o \in Additive
    OBVIOUS
  <2>1. q \in Procs \ {p}
    BY <1>1 DEF Running
  <2>2. q \in rivalled => q \in rivals
    OBVIOUS
  <2>3. q \in rivalled' <=> q \in rivals
    BY <1>6, <2>1, <2>2
  <2>4. rivals # {} => q \in rivals
    BY <1>13
  <2>5. q \notin rivals => ~ Rivals(o, op[q])
    OBVIOUS
  <2> QED
    BY <1>7, <2>3, <2>4, <2>5 DEF Rivals, Additive
<1>15. Apart'
  <2> SUFFICES ASSUME NEW q \in Procs, NEW r \in Procs, q # r, pc'[q] # "idle", pc'[r] # "idle",
                      name'[q] = name'[r]
               PROVE  /\ q \in rivalled' <=> r \in rivalled'
                      /\ q \notin rivalled' => op'[q] \in Additive
    BY DEF Apart
  <2>1. CASE q = p
    <3>1. r \in Running /\ name[r] = n
      BY <1>4, <2>1 DEF Running
    <3> QED
      BY <1>4, <1>14, <2>1, <3>1
  <2>2. CASE r = p
    <3>1. q \in Running /\ name[q] = n
      BY <1>4, <2>2 DEF Running
    <3> QED
      BY <1>4, <1>14, <2>2, <3>1
  <2>3. CASE q # p /\ r # p
    <3>1. pc[q] # "idle" /\ pc[r] # "idle" /\ name[q] = name[r] /\ op'[q] = op[q]
      BY <1>4, <2>3
    <3>2. (q \in rivalled <=> r \in rivalled) /\ (q \notin rivalled => op[q] \in Additive)
      BY <3>1 DEF SkillsInv, Apart
    <3>3. q \in Running /\ r \in Running
      BY <3>1 DEF Running
    <3>4. q \in rivals <=> r \in rivals
      BY <1>13, <3>1, <3>3
    <3> QED
      BY <1>6, <2>3, <3>1, <3>2, <3>4
  <2> QED
    BY <2>1, <2>2, <2>3
<1>16. ~ Past(pc'[p], op'[p])
  BY <1>3, <1>4 DEF Past, Adds
<1>17. Owned'
  <2>1. \A q \in Procs : q \notin rivalled' => OwnedAt(q, pc[q])'
    <3> SUFFICES ASSUME NEW q \in Procs, q \notin rivalled' PROVE OwnedAt(q, pc[q])'
      OBVIOUS
    <3>1. CASE q = p
      BY <1>3, <1>4, <1>16, <3>1 DEF OwnedAt
    <3>2. CASE q # p
      <4>1. OwnedAt(q, pc[q])
        BY <1>6, <3>2 DEF SkillsInv, Owned
      <4> QED
        BY <1>1, <1>4, <3>2, <4>1 DEF OwnedAt
    <3> QED
      BY <3>1, <3>2
  <2>2. \A q, r \in Procs : q # r /\ name'[q] = name'[r] /\ q \notin rivalled'
                            => ~ (Past(pc'[q], op'[q]) /\ Past(pc'[r], op'[r]))
    <3> SUFFICES ASSUME NEW q \in Procs, NEW r \in Procs, q # r, name'[q] = name'[r],
                        q \notin rivalled', q # p, r # p
                 PROVE  ~ (Past(pc'[q], op'[q]) /\ Past(pc'[r], op'[r]))
      BY <1>16
    <3>1. q \notin rivalled /\ name[q] = name[r]
      BY <1>4, <1>6
    <3> QED
      BY <1>4, <3>1 DEF SkillsInv, Owned
  <2> QED
    BY <2>1, <2>2 DEF Owned
<1>18. Kept'
  <2>1. AddedStays'
    BY <1>1, <1>8 DEF SkillsInv, Kept, AddedStays
  <2>2. \A q \in Procs : name'[q] \in added' => Harmless(pc'[q], op'[q])
    <3> SUFFICES ASSUME NEW q \in Procs, name'[q] \in added' PROVE Harmless(pc'[q], op'[q])
      OBVIOUS
    <3>1. CASE q = p
      BY <1>3, <1>4, <1>8, <3>1 DEF Harmless
    <3>2. CASE q # p
      BY <1>4, <1>8, <3>2 DEF SkillsInv, Kept
    <3> QED
      BY <3>1, <3>2
  <2> QED
    BY <2>1, <2>2 DEF Kept
<1>19. calm' => \A q, r \in Running' : q = r
  BY <1>4, <1>10 DEF Running
<1>20. ASSUME calm', failures' <= 1
       PROVE  /\ \A q \in Procs : SkillsAt(q)'
              /\ Running' = {} => \A m \in list' : dir'[m] = "ok"
              /\ applied' => host' = list'
  <2>1. \A m \in list : dir[m] = "ok"
    BY <1>1, <1>10, <1>20 DEF SkillsInv
  <2>2. SkillsAt(p)'
    BY <1>1, <1>3, <1>4, <2>1 DEF SkillsAt, AllLoad, Adds, Removals, Edits
  <2>3. \A q \in Procs \ {p} : pc'[q] = "idle"
    BY <1>4, <1>10, <1>20 DEF Running
  <2>4. \A q \in Procs \ {p} : SkillsAt(q)'
    BY <2>3 DEF SkillsAt
  <2> QED
    BY <1>1, <1>9, <2>1, <2>2, <2>4
<1> QED
  BY <1>9, <1>11, <1>12, <1>15, <1>17, <1>18, <1>19, <1>20 DEF SkillsInv

LEMMA SkillsRemoveAgent == ASSUME SkillsInv, RemoveAgent PROVE SkillsInv'
<1>1. pc' = pc /\ op' = op /\ name' = name /\ seen' = seen /\ tmp' = tmp /\ host' = {}
      /\ rivalled' = rivalled \cup Running /\ added' = added \ Names
      /\ commands < MaxCommands /\ commands' = commands + 1
  BY DEF RemoveAgent
<1>2. Running' = Running
  BY <1>1 DEF Running
<1>3. ~ applied' /\ applied' \in BOOLEAN
  <2>1. applied' = FALSE
    BY DEF RemoveAgent
  <2> QED
    BY <2>1
<1>4. calm' \in BOOLEAN /\ (calm' => calm /\ Running = {})
  <2>1. calm' = (calm /\ Running = {})
    BY DEF RemoveAgent
  <2> QED
    BY <2>1
<1>5. /\ failures' = failures \/ (failures < MaxFailures /\ failures' = failures + 1)
      /\ failures' <= 1 => failures <= 1
  <2>1. NoFailure \/ Fails
    BY DEF RemoveAgent
  <2> QED
    BY <2>1, SkillsFailures
<1>6. dir' \in [All -> Directories] /\ dir'[Catalog] = dir[Catalog]
      /\ (list' = {} \/ (list' = list /\ dir' = dir))
  <2>1. CASE list' = {} /\ dir' = [m \in All |-> IF m \in Names THEN "absent" ELSE dir[m]]
    BY <2>1, SkillsTyped DEF Directories, All
  <2>2. CASE list' = list /\ dir' = dir
    BY <2>2, SkillsTyped
  <2> QED
    BY <2>1, <2>2 DEF RemoveAgent
<1>7. TypeOK'
  <2>1. commands' \in 0 .. MaxCommands /\ failures' \in 0 .. MaxFailures
    BY <1>1, <1>5, SkillsTyped
  <2>2. list' \subseteq Names /\ host' \subseteq Names /\ added' \subseteq All
        /\ rivalled' \subseteq Procs /\ tmp' \in [All -> {"absent", "empty", "ok"}]
    BY <1>1, <1>6, SkillsTyped DEF Running
  <2>3. \A p \in Procs : pc'[p] # "idle" => (op'[p] = "catalog" <=> name'[p] = Catalog)
    BY <1>1, SkillsTyped
  <2>4. pc' \in [Procs -> Steps] /\ op' \in [Procs -> Ops] /\ name' \in [Procs -> All]
        /\ seen' \in [Procs -> SUBSET Names]
    BY <1>1, SkillsTyped
  <2> QED
    BY <1>3, <1>4, <1>6, <2>1, <2>2, <2>3, <2>4, SkillsTypes
<1>8. Flows'
  BY <1>1 DEF SkillsInv, Flows
<1>9. \A p \in Procs : p \notin rivalled' => pc'[p] = "idle"
  BY <1>1 DEF Running
<1>10. Apart'
  BY <1>9 DEF Apart
<1>11. Owned'
  BY <1>9 DEF Owned, OwnedAt, Past
<1>12. Kept'
  <2>1. \A m \in added' : m = Catalog /\ m \in added
    BY <1>1, SkillsTyped DEF All
  <2>2. AddedStays'
    BY <1>6, <2>1 DEF SkillsInv, Kept, AddedStays
  <2>3. \A p \in Procs : name'[p] \in added' => Harmless(pc'[p], op'[p])
    BY <1>1 DEF SkillsInv, Kept
  <2> QED
    BY <2>2, <2>3 DEF Kept
<1>13. ASSUME calm', failures' <= 1
       PROVE  /\ \A p \in Procs : SkillsAt(p)'
              /\ Running' = {} => \A m \in list' : dir'[m] = "ok"
              /\ applied' => host' = list'
  <2>1. \A p \in Procs : pc'[p] = "idle"
    BY <1>1, <1>4, <1>13 DEF Running
  <2>2. \A p \in Procs : SkillsAt(p)'
    BY <2>1 DEF SkillsAt
  <2>3. \A m \in list : dir[m] = "ok"
    BY <1>4, <1>5, <1>13 DEF SkillsInv
  <2> QED
    BY <1>3, <1>6, <2>2, <2>3
<1>14. calm' => \A p, q \in Running' : p = q
  BY <1>2, <1>4
<1> QED
  BY <1>3, <1>7, <1>8, <1>10, <1>11, <1>12, <1>13, <1>14 DEF SkillsInv

LEMMA SkillsStutter == ASSUME SkillsInv, UNCHANGED vars PROVE SkillsInv'
<1>1. UNCHANGED <<list, dir, tmp, host, pc, op, name, seen, calm, rivalled, added, applied,
                  commands, failures>>
  BY DEF vars, files
<1>2. TypeOK'
  BY <1>1, SkillsTyped, SkillsTypes
<1>3. Flows' /\ Apart' /\ Owned' /\ Kept' /\ Running' = Running
  BY <1>1 DEF SkillsInv, Flows, Apart, Owned, OwnedAt, Kept, AddedStays, Running
<1>4. \A p \in Procs : SkillsAt(p) => SkillsAt(p)'
  BY <1>1 DEF SkillsAt, AllLoad
<1> QED
  BY <1>1, <1>2, <1>3, <1>4 DEF SkillsInv

LEMMA SkillsStep == ASSUME SkillsInv, Next PROVE SkillsInv'
BY SkillsBegins, SkillsCheck, SkillsMkdir, SkillsWrite, SkillsRead, SkillsStore, SkillsRmtree,
   SkillsPrepares, SkillsRename, SkillsUndo, SkillsUndoRead, SkillsUndoStore, SkillsEditor,
   SkillsRestore, SkillsApply, SkillsLoad, SkillsPlay, SkillsDies, SkillsRemoveAgent
   DEF Next

LEMMA SkillsStart == Init => SkillsInv
<1> SUFFICES ASSUME Init PROVE SkillsInv
  OBVIOUS
<1>1. list = {} /\ host = {} /\ dir = [n \in All |-> "absent"] /\ tmp = [n \in All |-> "absent"]
      /\ pc = [p \in Procs |-> "idle"] /\ op = [p \in Procs |-> "add"]
      /\ name \in [Procs -> Names] /\ seen = [p \in Procs |-> {}]
      /\ rivalled = {} /\ added = {} /\ commands = 0 /\ failures = 0
  BY DEF Init
<1>2. calm \in BOOLEAN /\ applied \in BOOLEAN /\ ~ applied
  BY DEF Init
<1>3. TypeOK
  <2>1. Running = {}
    BY <1>1 DEF Running
  <2>2. {calm, applied} \subseteq BOOLEAN
    BY <1>2
  <2>3. dir \in [All -> Directories] /\ tmp \in [All -> {"absent", "empty", "ok"}]
        /\ pc \in [Procs -> Steps] /\ op \in [Procs -> Ops] /\ name \in [Procs -> All]
        /\ seen \in [Procs -> SUBSET Names]
    BY <1>1 DEF Directories, Steps, Ops, All
  <2>4. commands \in 0 .. MaxCommands /\ failures \in 0 .. MaxFailures
    BY <1>1, SkillsAssumption
  <2> QED
    BY <1>1, <2>1, <2>2, <2>3, <2>4 DEF TypeOK
<1>4. \A p \in Procs : pc[p] = "idle"
  BY <1>1
<1>5. Flows /\ Apart /\ Owned /\ Kept /\ Running = {}
  BY <1>1, <1>4 DEF Flows, FlowOf, Apart, Owned, OwnedAt, Past, Kept, AddedStays, Harmless, Running
<1>6. \A p \in Procs : SkillsAt(p)
  BY <1>4 DEF SkillsAt
<1> QED
  BY <1>1, <1>2, <1>3, <1>5, <1>6 DEF SkillsInv

(***************************************************************************)
(* The composition.  Each behaviour runs one of the four parts; Skills     *)
(* keeps its invariant where it stands still.                              *)
(***************************************************************************)
WorkstationInv ==
  /\ SkillsInv
  /\ focus = "server" => ServerInv
  /\ focus = "tunnel" => TunnelInv
  /\ focus = "manifest" => ManifestInv

\* What the parts keep: the plan of a manifest, the record of the server, the file of the
\* tunnel, and the list and the directories of the skills.
THEOREM WorkstationInvariance == MCSpec => []WorkstationInv
<1>1. MCInit => WorkstationInv
  <2>1. CASE focus = "skills" /\ Init
    BY <2>1, SkillsStart DEF WorkstationInv
  <2>2. CASE focus = "server" /\ SkillsStill /\ S!Init
    BY <2>2, SkillsStart, ServerStart DEF WorkstationInv, SkillsStill
  <2>3. CASE focus = "tunnel" /\ SkillsStill /\ T!Init
    BY <2>3, SkillsStart, TunnelStart DEF WorkstationInv, SkillsStill
  <2>4. CASE focus = "manifest" /\ SkillsStill /\ M!Init
    BY <2>4, SkillsStart, ManifestStart DEF WorkstationInv, SkillsStill
  <2> QED
    BY <2>1, <2>2, <2>3, <2>4 DEF MCInit
<1>2. WorkstationInv /\ [MCNext]_all => WorkstationInv'
  <2> SUFFICES ASSUME WorkstationInv, [MCNext]_all PROVE WorkstationInv'
    OBVIOUS
  <2>1. SkillsInv
    BY DEF WorkstationInv
  <2>2. CASE focus = "skills" /\ focus' = focus /\ Next
    BY <2>1, <2>2, SkillsStep DEF WorkstationInv
  <2>3. CASE focus = "server" /\ focus' = focus /\ S!Next /\ UNCHANGED vars
    BY <2>1, <2>3, SkillsStutter, ServerStep DEF WorkstationInv
  <2>4. CASE focus = "tunnel" /\ focus' = focus /\ T!Next /\ UNCHANGED vars
    BY <2>1, <2>4, SkillsStutter, TunnelStep DEF WorkstationInv
  <2>5. CASE focus = "manifest" /\ focus' = focus /\ M!Next /\ UNCHANGED vars
    BY <2>1, <2>5, SkillsStutter, ManifestStep DEF WorkstationInv
  <2>6. CASE UNCHANGED all
    <3>1. focus' = focus /\ UNCHANGED vars /\ UNCHANGED serverVars /\ UNCHANGED tunnelVars
          /\ UNCHANGED manifestVars
      BY <2>6 DEF all
    <3> QED
      BY <2>1, <3>1, SkillsStutter, ServerStutter, TunnelStutter, ManifestStutter
      DEF WorkstationInv
  <2> QED
    BY <2>2, <2>3, <2>4, <2>5, <2>6 DEF MCNext
<1> QED
  BY <1>1, <1>2, PTL DEF MCSpec

\* Every part stays within its types.
THEOREM WorkstationTypes == MCSpec => []TypesOK
<1>1. WorkstationInv => TypesOK
  BY DEF WorkstationInv, SkillsInv, ServerInv, TunnelInv, ManifestInv, TypesOK
<1> QED
  BY <1>1, WorkstationInvariance, PTL

\* What an addition has reported stays, whoever adds the same name at the same time; and
\* commands that do not overlap, one step of which may fail, leave no name on the list
\* without a skill that loads, and after an apply the list is what the host has.
THEOREM SkillsKept == MCSpec => []SkillsAgree
<1>1. WorkstationInv => SkillsAgree
  BY DEF WorkstationInv, SkillsInv, Kept, SkillsAgree, Agrees
<1> QED
  BY <1>1, WorkstationInvariance, PTL

LEMMA ServerRecorded == ASSUME ServerInv PROVE S!ServerKnown
<1> SUFFICES ASSUME sCalm, S!Running = {} PROVE \A i \in Pids : sProc[i] \in S!Servers => sFile = i
  BY DEF S!ServerKnown
<1>1. \A p \in Procs : sPc[p] = "idle"
  BY DEF S!Running
<1> QED
  BY <1>1 DEF ServerInv, Recorded, Only

LEMMA TunnelRecorded == ASSUME TunnelInv PROVE T!TunnelKnown
<1> SUFFICES ASSUME tCalm, T!Running = {} PROVE LivesAs(tFile)
  BY DEF T!TunnelKnown, LivesAs
<1>1. \A p \in T!Callers : ~ AtWork(p)
  BY DEF T!Running, AtWork
<1> QED
  BY <1>1 DEF TunnelInv

\* After commands that ran one after the other, none of them killed, server.json names every
\* server that runs; and however many threads ask for a tunnel, with no other process beside
\* them, one tunnel lives and its file names it.
THEOREM NoneOrphaned == MCSpec => []ProcessesKnown
<1>1. WorkstationInv => ProcessesKnown
  BY ServerRecorded, TunnelRecorded DEF WorkstationInv, ProcessesKnown
<1> QED
  BY <1>1, WorkstationInvariance, PTL

\* No signal goes to a process that has inherited the number of a tunnel, nor, as long as
\* commands run one after the other and nobody else has had the port, of a server.
THEOREM SignalsMeetTheirTarget == MCSpec => []RightTarget
<1>1. WorkstationInv => RightTarget
  BY DEF WorkstationInv, ServerInv, TunnelInv, RightTarget
<1> QED
  BY <1>1, WorkstationInvariance, PTL

\* An `apply` or a `delete` of a manifest that reports no error has done what it planned.
THEOREM ManifestSettles == MCSpec => []Settles
<1>1. WorkstationInv => Settles
  BY DEF WorkstationInv, ManifestInv, Settles
<1> QED
  BY <1>1, WorkstationInvariance, PTL
=============================================================================
