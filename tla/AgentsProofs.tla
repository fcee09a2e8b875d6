----------------------------- MODULE AgentsProofs -----------------------------
(***************************************************************************)
(* Proofs about what happens to one agent: Lifecycle and Onboarding, for   *)
(* any number of processes, commands and bearers, and the properties of    *)
(* all that MCAgents runs.                                                 *)
(*                                                                         *)
(* Both keep what a process still has to do as a list.  What the lists     *)
(* have in common, whichever a process began with, is that a step comes    *)
(* after those it rests on; with what a step has done to the record and    *)
(* the host this is an invariant.                                          *)
(***************************************************************************)
EXTENDS MCAgents, CanonicalProofs, FiniteSetTheorems
(***************************************************************************)
(* Lifecycle.  A command is the rest of one of the lists its op has.       *)
(***************************************************************************)
Lists(op) ==
  CASE op = "install"          ->
         {L!InstallSteps, L!AnewSteps, L!CleanSteps, L!CleanAnewSteps}
    [] op = "start"            -> {L!StartSteps}
    [] op = "stop"             -> {L!StopSteps}
    [] op = "restart"          -> {L!StopSteps \o L!StartSteps}
    [] op = "sync"             -> {L!SyncSteps}
    [] op = "configure"        -> {L!ConfigureSteps}
    [] op \in {"secret", "skill"} -> {<<"put">>}
    [] op = "delete"           -> {L!RemoveSteps(TRUE), L!RemoveSteps(FALSE), L!ForgetSteps}
    [] OTHER                   -> {<<>>}
From(list, k) == SubSeq(list, k, Len(list))
Rests(op) == {<<>>} \cup UNION {{From(list, k) : k \in 1 .. Len(list)} : list \in Lists(op)}

\* The types of Lifecycle, and what a process still has to do.
Sessions == [op : L!Ops, todo : Seq(L!Steps), bearer : L!Bearers \cup {NoBearer},
             kept : L!Records, stale : BOOLEAN]
LifeFields ==
  /\ record \in L!Records /\ kept \subseteq {"secrets", "state"} /\ unit \in L!Daemons
  /\ fresh \subseteq Procs /\ minted \in 0 .. MaxBearers
  /\ raced \subseteq {"install", "put", "daemon", "delete"}
  /\ given_up \subseteq {"host", "local", "failed"} /\ begunCommands \in 0 .. MaxAgentCommands
LifeCommands ==
  /\ command \in [Procs -> Sessions]
  /\ \A p \in Procs : command[p].todo \in Rests(command[p].op)

\* Who is at work beside a removal is noted, and one process installs at a time.
Noted ==
  \A p, q \in L!Busy :
    p # q /\ command[p].op = "delete" => L!Class(command[q].op) \in raced
OneInstaller ==
  \A p, q \in L!Busy : command[p].op = "install" /\ command[q].op = "install" => p = q

\* The steps of a removal have been taken in their order.
HostNamed ==
  "install" \notin raced /\ "host" \notin given_up =>
    /\ "failed" \notin given_up =>
         /\ L!OnHost => record.kind # "none"
         /\ \A p \in Procs :
              L!At(p, "place") \/ L!At(p, "installed") => record.kind # "none"
    /\ \A p \in Procs :
         L!At(p, "secrets") \/ L!At(p, "state") \/ L!At(p, "record") => ~ L!OnHost
LocalNamed ==
  "put" \notin raced /\ "local" \notin given_up =>
    /\ "failed" \notin given_up =>
         /\ kept # {} => record.kind # "none"
         /\ \A p \in Procs : L!At(p, "put") => record.kind # "none"
    /\ \A p \in Procs :
         /\ L!At(p, "state") \/ L!At(p, "forget state") => "secrets" \notin kept
         /\ L!At(p, "record") \/ L!At(p, "forget record") => kept = {}

\* A bearer that somebody holds is one the daemon knows, if there is a home it could be in.
Known(bearer) == bearer # NoBearer => bearer \in unit.paired
WholeDaemon == unit.home \/ unit = L!NoDaemon
BearersKnown ==
  raced \cap {"daemon", "install"} = {} =>
    /\ unit.home => Known(record.auth)
    /\ \A p \in Procs :
         /\ L!At(p, "token") \/ L!At(p, "config") => command[p].bearer \in unit.paired
         /\ L!At(p, "place") =>
              Known(record.auth) /\ (unit.home => Known(command[p].kept.auth))
         /\ L!At(p, "installed") => Known(command[p].kept.auth)

LifeInv ==
  /\ LifeFields /\ LifeCommands /\ Noted /\ OneInstaller
  /\ HostNamed /\ LocalNamed /\ WholeDaemon /\ BearersKnown

-----------------------------------------------------------------------------
(***************************************************************************)
(* Lists of steps.                                                         *)
(***************************************************************************)
\* The steps of a command.
StepsOf(op) ==
  CASE op = "install" ->
         {"claim", "claim anew", "clean", "clean secrets", "place", "installed"}
    [] op = "delete" ->
         {"stop", "stopped", "uninstall", "secrets", "state", "record",
          "look", "forget secrets", "forget state", "forget record"}
    [] op \in {"secret", "skill"} -> {"put"}
    [] op \in {"start", "stop", "restart", "sync", "configure"} ->
         {"gate", "probe", "start", "running", "stop", "stopped", "reload", "bearer", "pair",
          "token", "config", "ready"}
    [] OTHER -> {}
\* What must have come before a step.
Follows(step, next) ==
  /\ next = "place" => step \in {"claim", "claim anew"}
  /\ next = "installed" => step = "place"
  /\ next \in {"token", "config"} => step = "pair"
  /\ next = "secrets" => step = "uninstall"
  /\ next = "state" => step = "secrets"
  /\ next = "record" => step = "state"
  /\ next = "forget state" => step = "forget secrets"
  /\ next = "forget record" => step = "forget state"
  /\ next # "put"
\* The steps the invariant speaks of.
Told == {"place", "installed", "token", "config", "secrets", "state", "record",
         "forget state", "forget record"}

\* What is left of a list.
LEMMA FromStep ==
  ASSUME NEW S, NEW list \in Seq(S), NEW k \in 1 .. Len(list)
  PROVE  /\ From(list, k) \in Seq(S) /\ From(list, k) # <<>>
         /\ Head(From(list, k)) = list[k]
         /\ Tail(From(list, k)) = IF k = Len(list) THEN <<>> ELSE From(list, k + 1)
<1>1. Head(From(list, k)) = list[k] /\ Tail(From(list, k)) = SubSeq(list, k + 1, Len(list))
  BY HeadTailOfSubSeq DEF From
<1>2. From(list, k) \in Seq(S) /\ Len(From(list, k)) = Len(list) - k + 1 BY DEF From
<1>3. From(list, k) # <<>> BY <1>2
<1>4. k = Len(list) => SubSeq(list, k + 1, Len(list)) = <<>> BY SubSeqEmpty
<1>5. QED BY <1>1, <1>2, <1>3, <1>4 DEF From

\* Two tuples, one after the other, are one tuple.
LEMMA Append4 ==
  ASSUME NEW a, NEW b, NEW c1, NEW c2, NEW c3, NEW c4
  PROVE  <<a, b>> \o <<c1, c2, c3, c4>> = <<a, b, c1, c2, c3, c4>>
<1> DEFINE S == {a, b, c1, c2, c3, c4}
<1> DEFINE s == <<a, b>>
<1> DEFINE t == <<c1, c2, c3, c4>>
<1> DEFINE u == <<a, b, c1, c2, c3, c4>>
<1>1. s \in Seq(S) /\ t \in Seq(S) /\ Len(s) = 2 /\ Len(t) = 4 OBVIOUS
<1>2. s \o t \in Seq(S) /\ Len(s \o t) = 6 BY <1>1
<1>3. (s \o t)[1] = a /\ (s \o t)[2] = b /\ (s \o t)[3] = c1 /\ (s \o t)[4] = c2 /\ (s \o t)[5] = c3 /\ (s \o t)[6] = c4
  BY <1>1
<1>4. u \in Seq(S) /\ Len(u) = 6 OBVIOUS
<1>5. u[1] = a /\ u[2] = b /\ u[3] = c1 /\ u[4] = c2 /\ u[5] = c3 /\ u[6] = c4
  OBVIOUS
<1>6. \A i \in 1 .. 6 : (s \o t)[i] = u[i]
  <2> TAKE i \in 1 .. 6
  <2>1. i = 1 \/ i = 2 \/ i = 3 \/ i = 4 \/ i = 5 \/ i = 6 OBVIOUS
  <2> HIDE DEF s, t, u
  <2>2. QED BY <2>1, <1>3, <1>5
<1> HIDE DEF S, s, t, u
<1>7. s \o t = u BY <1>2, <1>4, <1>6, SeqEqual
<1>8. QED BY <1>7 DEF s, t, u

\* The same, of a longer one.
LEMMA Append6 ==
  ASSUME NEW a, NEW b, NEW c1, NEW c2, NEW c3, NEW c4, NEW c5, NEW c6
  PROVE  <<a, b>> \o <<c1, c2, c3, c4, c5, c6>> = <<a, b, c1, c2, c3, c4, c5, c6>>
<1> DEFINE S == {a, b, c1, c2, c3, c4, c5, c6}
<1> DEFINE s == <<a, b>>
<1> DEFINE t == <<c1, c2, c3, c4, c5, c6>>
<1> DEFINE u == <<a, b, c1, c2, c3, c4, c5, c6>>
<1>1. s \in Seq(S) /\ t \in Seq(S) /\ Len(s) = 2 /\ Len(t) = 6 OBVIOUS
<1>2. s \o t \in Seq(S) /\ Len(s \o t) = 8 BY <1>1
<1>3. (s \o t)[1] = a /\ (s \o t)[2] = b /\ (s \o t)[3] = c1 /\ (s \o t)[4] = c2 /\ (s \o t)[5] = c3 /\ (s \o t)[6] = c4 /\ (s \o t)[7] = c5 /\ (s \o t)[8] = c6
  BY <1>1
<1>4. u \in Seq(S) /\ Len(u) = 8 OBVIOUS
<1>5. u[1] = a /\ u[2] = b /\ u[3] = c1 /\ u[4] = c2 /\ u[5] = c3 /\ u[6] = c4 /\ u[7] = c5 /\ u[8] = c6
  OBVIOUS
<1>6. \A i \in 1 .. 8 : (s \o t)[i] = u[i]
  <2> TAKE i \in 1 .. 8
  <2>1. i = 1 \/ i = 2 \/ i = 3 \/ i = 4 \/ i = 5 \/ i = 6 \/ i = 7 \/ i = 8 OBVIOUS
  <2> HIDE DEF s, t, u
  <2>2. QED BY <2>1, <1>3, <1>5
<1> HIDE DEF S, s, t, u
<1>7. s \o t = u BY <1>2, <1>4, <1>6, SeqEqual
<1>8. QED BY <1>7 DEF s, t, u

\* A list, step by step: each belongs to the command, and is followed as Follows says.
Ordered(op, list) ==
  /\ list \in Seq(L!Steps)
  /\ \A k \in 1 .. Len(list) :
       /\ list[k] \in StepsOf(op)
       /\ k = 1 => list[k] \notin Told
       /\ k < Len(list) => Follows(list[k], list[k + 1])

\* The lists of each op are such lists.
LEMMA ListsOrdered == ASSUME NEW op \in L!Ops, NEW list \in Lists(op) PROVE Ordered(op, list)
<1>1. ASSUME op = "install" PROVE Ordered(op, <<"claim", "place", "installed">>)
  <2> DEFINE u == <<"claim", "place", "installed">>
  <2>1. u \in Seq(L!Steps) /\ Len(u) = 3 BY DEF L!Steps
  <2>2. u[1] = "claim" /\ u[2] = "place" /\ u[3] = "installed" OBVIOUS
  <2> HIDE DEF u
  <2>3. ASSUME NEW k \in 1 .. 3 PROVE u[k] \in StepsOf(op) /\ (k = 1 => u[k] \notin Told) /\ (k < 3 => Follows(u[k], u[k + 1]))
    <3>1. k = 1 \/ k = 2 \/ k = 3 OBVIOUS
    <3>2. u[k] \in StepsOf(op) /\ (k = 1 => u[k] \notin Told)
      BY <3>1, <2>2, <1>1 DEF StepsOf, Told
    <3>3. Follows(u[1], u[2]) /\ Follows(u[2], u[3]) BY <2>2 DEF Follows
    <3>4. (k = 1 => k + 1 = 2) /\ (k = 2 => k + 1 = 3)
      OBVIOUS
    <3>5. k < 3 => Follows(u[k], u[k + 1]) BY <3>1, <3>3, <3>4
    <3>6. QED BY <3>2, <3>5
  <2>4. QED BY <2>1, <2>3 DEF Ordered, u
<1>2. ASSUME op \in {"start", "restart", "stop", "sync", "configure"} PROVE Ordered(op, <<"gate", "start", "running", "bearer", "pair", "token">>)
  <2> DEFINE u == <<"gate", "start", "running", "bearer", "pair", "token">>
  <2>1. u \in Seq(L!Steps) /\ Len(u) = 6 BY DEF L!Steps
  <2>2. u[1] = "gate" /\ u[2] = "start" /\ u[3] = "running" /\ u[4] = "bearer" /\ u[5] = "pair" /\ u[6] = "token" OBVIOUS
  <2> HIDE DEF u
  <2>3. ASSUME NEW k \in 1 .. 6 PROVE u[k] \in StepsOf(op) /\ (k = 1 => u[k] \notin Told) /\ (k < 6 => Follows(u[k], u[k + 1]))
    <3>1. k = 1 \/ k = 2 \/ k = 3 \/ k = 4 \/ k = 5 \/ k = 6 OBVIOUS
    <3>2. u[k] \in StepsOf(op) /\ (k = 1 => u[k] \notin Told)
      BY <3>1, <2>2, <1>2 DEF StepsOf, Told
    <3>3. Follows(u[1], u[2]) /\ Follows(u[2], u[3]) /\ Follows(u[3], u[4]) /\ Follows(u[4], u[5]) /\ Follows(u[5], u[6]) BY <2>2 DEF Follows
    <3>4. (k = 1 => k + 1 = 2) /\ (k = 2 => k + 1 = 3) /\ (k = 3 => k + 1 = 4) /\ (k = 4 => k + 1 = 5) /\ (k = 5 => k + 1 = 6)
      OBVIOUS
    <3>5. k < 6 => Follows(u[k], u[k + 1]) BY <3>1, <3>3, <3>4
    <3>6. QED BY <3>2, <3>5
  <2>4. QED BY <2>1, <2>3 DEF Ordered, u
<1>3. ASSUME op \in {"start", "restart", "stop", "sync", "configure"} PROVE Ordered(op, <<"stop", "stopped">>)
  <2> DEFINE u == <<"stop", "stopped">>
  <2>1. u \in Seq(L!Steps) /\ Len(u) = 2 BY DEF L!Steps
  <2>2. u[1] = "stop" /\ u[2] = "stopped" OBVIOUS
  <2> HIDE DEF u
  <2>3. ASSUME NEW k \in 1 .. 2 PROVE u[k] \in StepsOf(op) /\ (k = 1 => u[k] \notin Told) /\ (k < 2 => Follows(u[k], u[k + 1]))
    <3>1. k = 1 \/ k = 2 OBVIOUS
    <3>2. u[k] \in StepsOf(op) /\ (k = 1 => u[k] \notin Told)
      BY <3>1, <2>2, <1>3 DEF StepsOf, Told
    <3>3. Follows(u[1], u[2]) BY <2>2 DEF Follows
    <3>4. (k = 1 => k + 1 = 2)
      OBVIOUS
    <3>5. k < 2 => Follows(u[k], u[k + 1]) BY <3>1, <3>3, <3>4
    <3>6. QED BY <3>2, <3>5
  <2>4. QED BY <2>1, <2>3 DEF Ordered, u
<1>4. ASSUME op \in {"start", "restart", "stop", "sync", "configure"} PROVE Ordered(op, <<"stop", "stopped", "gate", "start", "running", "bearer", "pair", "token">>)
  <2> DEFINE u == <<"stop", "stopped", "gate", "start", "running", "bearer", "pair", "token">>
  <2>1. u \in Seq(L!Steps) /\ Len(u) = 8 BY DEF L!Steps
  <2>2. u[1] = "stop" /\ u[2] = "stopped" /\ u[3] = "gate" /\ u[4] = "start" /\ u[5] = "running" /\ u[6] = "bearer" /\ u[7] = "pair" /\ u[8] = "token" OBVIOUS
  <2> HIDE DEF u
  <2>3. ASSUME NEW k \in 1 .. 8 PROVE u[k] \in StepsOf(op) /\ (k = 1 => u[k] \notin Told) /\ (k < 8 => Follows(u[k], u[k + 1]))
    <3>1. k = 1 \/ k = 2 \/ k = 3 \/ k = 4 \/ k = 5 \/ k = 6 \/ k = 7 \/ k = 8 OBVIOUS
    <3>2. u[k] \in StepsOf(op) /\ (k = 1 => u[k] \notin Told)
      BY <3>1, <2>2, <1>4 DEF StepsOf, Told
    <3>3. Follows(u[1], u[2]) /\ Follows(u[2], u[3]) /\ Follows(u[3], u[4]) /\ Follows(u[4], u[5]) /\ Follows(u[5], u[6]) /\ Follows(u[6], u[7]) /\ Follows(u[7], u[8]) BY <2>2 DEF Follows
    <3>4. (k = 1 => k + 1 = 2) /\ (k = 2 => k + 1 = 3) /\ (k = 3 => k + 1 = 4) /\ (k = 4 => k + 1 = 5) /\ (k = 5 => k + 1 = 6) /\ (k = 6 => k + 1 = 7) /\ (k = 7 => k + 1 = 8)
      OBVIOUS
    <3>5. k < 8 => Follows(u[k], u[k + 1]) BY <3>1, <3>3, <3>4
    <3>6. QED BY <3>2, <3>5
  <2>4. QED BY <2>1, <2>3 DEF Ordered, u
<1>5. ASSUME op \in {"start", "restart", "stop", "sync", "configure"} PROVE Ordered(op, <<"probe", "reload", "bearer", "pair", "token", "ready">>)
  <2> DEFINE u == <<"probe", "reload", "bearer", "pair", "token", "ready">>
  <2>1. u \in Seq(L!Steps) /\ Len(u) = 6 BY DEF L!Steps
  <2>2. u[1] = "probe" /\ u[2] = "reload" /\ u[3] = "bearer" /\ u[4] = "pair" /\ u[5] = "token" /\ u[6] = "ready" OBVIOUS
  <2> HIDE DEF u
  <2>3. ASSUME NEW k \in 1 .. 6 PROVE u[k] \in StepsOf(op) /\ (k = 1 => u[k] \notin Told) /\ (k < 6 => Follows(u[k], u[k + 1]))
    <3>1. k = 1 \/ k = 2 \/ k = 3 \/ k = 4 \/ k = 5 \/ k = 6 OBVIOUS
    <3>2. u[k] \in StepsOf(op) /\ (k = 1 => u[k] \notin Told)
      BY <3>1, <2>2, <1>5 DEF StepsOf, Told
    <3>3. Follows(u[1], u[2]) /\ Follows(u[2], u[3]) /\ Follows(u[3], u[4]) /\ Follows(u[4], u[5]) /\ Follows(u[5], u[6]) BY <2>2 DEF Follows
    <3>4. (k = 1 => k + 1 = 2) /\ (k = 2 => k + 1 = 3) /\ (k = 3 => k + 1 = 4) /\ (k = 4 => k + 1 = 5) /\ (k = 5 => k + 1 = 6)
      OBVIOUS
    <3>5. k < 6 => Follows(u[k], u[k + 1]) BY <3>1, <3>3, <3>4
    <3>6. QED BY <3>2, <3>5
  <2>4. QED BY <2>1, <2>3 DEF Ordered, u
<1>6. ASSUME op \in {"start", "restart", "stop", "sync", "configure"} PROVE Ordered(op, <<"bearer", "probe", "reload", "pair", "config", "ready">>)
  <2> DEFINE u == <<"bearer", "probe", "reload", "pair", "config", "ready">>
  <2>1. u \in Seq(L!Steps) /\ Len(u) = 6 BY DEF L!Steps
  <2>2. u[1] = "bearer" /\ u[2] = "probe" /\ u[3] = "reload" /\ u[4] = "pair" /\ u[5] = "config" /\ u[6] = "ready" OBVIOUS
  <2> HIDE DEF u
  <2>3. ASSUME NEW k \in 1 .. 6 PROVE u[k] \in StepsOf(op) /\ (k = 1 => u[k] \notin Told) /\ (k < 6 => Follows(u[k], u[k + 1]))
    <3>1. k = 1 \/ k = 2 \/ k = 3 \/ k = 4 \/ k = 5 \/ k = 6 OBVIOUS
    <3>2. u[k] \in StepsOf(op) /\ (k = 1 => u[k] \notin Told)
      BY <3>1, <2>2, <1>6 DEF StepsOf, Told
    <3>3. Follows(u[1], u[2]) /\ Follows(u[2], u[3]) /\ Follows(u[3], u[4]) /\ Follows(u[4], u[5]) /\ Follows(u[5], u[6]) BY <2>2 DEF Follows
    <3>4. (k = 1 => k + 1 = 2) /\ (k = 2 => k + 1 = 3) /\ (k = 3 => k + 1 = 4) /\ (k = 4 => k + 1 = 5) /\ (k = 5 => k + 1 = 6)
      OBVIOUS
    <3>5. k < 6 => Follows(u[k], u[k + 1]) BY <3>1, <3>3, <3>4
    <3>6. QED BY <3>2, <3>5
  <2>4. QED BY <2>1, <2>3 DEF Ordered, u
<1>7. ASSUME op = "delete" PROVE Ordered(op, <<"stop", "stopped", "uninstall", "secrets", "state", "record">>)
  <2> DEFINE u == <<"stop", "stopped", "uninstall", "secrets", "state", "record">>
  <2>1. u \in Seq(L!Steps) /\ Len(u) = 6 BY DEF L!Steps
  <2>2. u[1] = "stop" /\ u[2] = "stopped" /\ u[3] = "uninstall" /\ u[4] = "secrets" /\ u[5] = "state" /\ u[6] = "record" OBVIOUS
  <2> HIDE DEF u
  <2>3. ASSUME NEW k \in 1 .. 6 PROVE u[k] \in StepsOf(op) /\ (k = 1 => u[k] \notin Told) /\ (k < 6 => Follows(u[k], u[k + 1]))
    <3>1. k = 1 \/ k = 2 \/ k = 3 \/ k = 4 \/ k = 5 \/ k = 6 OBVIOUS
    <3>2. u[k] \in StepsOf(op) /\ (k = 1 => u[k] \notin Told)
      BY <3>1, <2>2, <1>7 DEF StepsOf, Told
    <3>3. Follows(u[1], u[2]) /\ Follows(u[2], u[3]) /\ Follows(u[3], u[4]) /\ Follows(u[4], u[5]) /\ Follows(u[5], u[6]) BY <2>2 DEF Follows
    <3>4. (k = 1 => k + 1 = 2) /\ (k = 2 => k + 1 = 3) /\ (k = 3 => k + 1 = 4) /\ (k = 4 => k + 1 = 5) /\ (k = 5 => k + 1 = 6)
      OBVIOUS
    <3>5. k < 6 => Follows(u[k], u[k + 1]) BY <3>1, <3>3, <3>4
    <3>6. QED BY <3>2, <3>5
  <2>4. QED BY <2>1, <2>3 DEF Ordered, u
<1>8. ASSUME op = "delete" PROVE Ordered(op, <<"uninstall", "secrets", "state", "record">>)
  <2> DEFINE u == <<"uninstall", "secrets", "state", "record">>
  <2>1. u \in Seq(L!Steps) /\ Len(u) = 4 BY DEF L!Steps
  <2>2. u[1] = "uninstall" /\ u[2] = "secrets" /\ u[3] = "state" /\ u[4] = "record" OBVIOUS
  <2> HIDE DEF u
  <2>3. ASSUME NEW k \in 1 .. 4 PROVE u[k] \in StepsOf(op) /\ (k = 1 => u[k] \notin Told) /\ (k < 4 => Follows(u[k], u[k + 1]))
    <3>1. k = 1 \/ k = 2 \/ k = 3 \/ k = 4 OBVIOUS
    <3>2. u[k] \in StepsOf(op) /\ (k = 1 => u[k] \notin Told)
      BY <3>1, <2>2, <1>8 DEF StepsOf, Told
    <3>3. Follows(u[1], u[2]) /\ Follows(u[2], u[3]) /\ Follows(u[3], u[4]) BY <2>2 DEF Follows
    <3>4. (k = 1 => k + 1 = 2) /\ (k = 2 => k + 1 = 3) /\ (k = 3 => k + 1 = 4)
      OBVIOUS
    <3>5. k < 4 => Follows(u[k], u[k + 1]) BY <3>1, <3>3, <3>4
    <3>6. QED BY <3>2, <3>5
  <2>4. QED BY <2>1, <2>3 DEF Ordered, u
<1>9. ASSUME op = "delete" PROVE Ordered(op, <<"look", "forget secrets", "forget state", "forget record">>)
  <2> DEFINE u == <<"look", "forget secrets", "forget state", "forget record">>
  <2>1. u \in Seq(L!Steps) /\ Len(u) = 4 BY DEF L!Steps
  <2>2. u[1] = "look" /\ u[2] = "forget secrets" /\ u[3] = "forget state" /\ u[4] = "forget record" OBVIOUS
  <2> HIDE DEF u
  <2>3. ASSUME NEW k \in 1 .. 4 PROVE u[k] \in StepsOf(op) /\ (k = 1 => u[k] \notin Told) /\ (k < 4 => Follows(u[k], u[k + 1]))
    <3>1. k = 1 \/ k = 2 \/ k = 3 \/ k = 4 OBVIOUS
    <3>2. u[k] \in StepsOf(op) /\ (k = 1 => u[k] \notin Told)
      BY <3>1, <2>2, <1>9 DEF StepsOf, Told
    <3>3. Follows(u[1], u[2]) /\ Follows(u[2], u[3]) /\ Follows(u[3], u[4]) BY <2>2 DEF Follows
    <3>4. (k = 1 => k + 1 = 2) /\ (k = 2 => k + 1 = 3) /\ (k = 3 => k + 1 = 4)
      OBVIOUS
    <3>5. k < 4 => Follows(u[k], u[k + 1]) BY <3>1, <3>3, <3>4
    <3>6. QED BY <3>2, <3>5
  <2>4. QED BY <2>1, <2>3 DEF Ordered, u
<1>10. ASSUME op \in {"secret", "skill"} PROVE Ordered(op, <<"put">>)
  <2> DEFINE u == <<"put">>
  <2>1. u \in Seq(L!Steps) /\ Len(u) = 1 BY DEF L!Steps
  <2>2. u[1] = "put" OBVIOUS
  <2> HIDE DEF u
  <2>3. ASSUME NEW k \in 1 .. 1 PROVE u[k] \in StepsOf(op) /\ (k = 1 => u[k] \notin Told) /\ (k < 1 => Follows(u[k], u[k + 1]))
    <3>1. k = 1 OBVIOUS
    <3>2. u[k] \in StepsOf(op) /\ (k = 1 => u[k] \notin Told)
      BY <3>1, <2>2, <1>10 DEF StepsOf, Told
    <3>3. QED BY <3>1, <3>2
  <2>4. QED BY <2>1, <2>3 DEF Ordered, u
<1>24. ASSUME op = "install" PROVE Ordered(op, <<"claim anew", "place", "installed">>)
  <2> DEFINE u == <<"claim anew", "place", "installed">>
  <2>1. u \in Seq(L!Steps) /\ Len(u) = 3 BY DEF L!Steps
  <2>2. u[1] = "claim anew" /\ u[2] = "place" /\ u[3] = "installed" OBVIOUS
  <2> HIDE DEF u
  <2>3. ASSUME NEW k \in 1 .. 3 PROVE u[k] \in StepsOf(op) /\ (k = 1 => u[k] \notin Told) /\ (k < 3 => Follows(u[k], u[k + 1]))
    <3>1. k = 1 \/ k = 2 \/ k = 3 OBVIOUS
    <3>2. u[k] \in StepsOf(op) /\ (k = 1 => u[k] \notin Told)
      BY <3>1, <2>2, <1>24 DEF StepsOf, Told
    <3>3. Follows(u[1], u[2]) /\ Follows(u[2], u[3]) BY <2>2 DEF Follows
    <3>4. (k = 1 => k + 1 = 2) /\ (k = 2 => k + 1 = 3)
      OBVIOUS
    <3>5. k < 3 => Follows(u[k], u[k + 1]) BY <3>1, <3>3, <3>4
    <3>6. QED BY <3>2, <3>5
  <2>4. QED BY <2>1, <2>3 DEF Ordered, u
<1>25. ASSUME op = "install" PROVE Ordered(op, <<"clean", "clean secrets">>)
  <2> DEFINE u == <<"clean", "clean secrets">>
  <2>1. u \in Seq(L!Steps) /\ Len(u) = 2 BY DEF L!Steps
  <2>2. u[1] = "clean" /\ u[2] = "clean secrets" OBVIOUS
  <2> HIDE DEF u
  <2>3. ASSUME NEW k \in 1 .. 2 PROVE u[k] \in StepsOf(op) /\ (k = 1 => u[k] \notin Told) /\ (k < 2 => Follows(u[k], u[k + 1]))
    <3>1. k = 1 \/ k = 2 OBVIOUS
    <3>2. u[k] \in StepsOf(op) /\ (k = 1 => u[k] \notin Told)
      BY <3>1, <2>2, <1>25 DEF StepsOf, Told
    <3>3. Follows(u[1], u[2]) BY <2>2 DEF Follows
    <3>4. (k = 1 => k + 1 = 2)
      OBVIOUS
    <3>5. k < 2 => Follows(u[k], u[k + 1]) BY <3>1, <3>3, <3>4
    <3>6. QED BY <3>2, <3>5
  <2>4. QED BY <2>1, <2>3 DEF Ordered, u
<1>26. ASSUME op = "install" PROVE Ordered(op, <<"clean", "clean secrets", "claim anew", "place", "installed">>)
  <2> DEFINE u == <<"clean", "clean secrets", "claim anew", "place", "installed">>
  <2>1. u \in Seq(L!Steps) /\ Len(u) = 5 BY DEF L!Steps
  <2>2. u[1] = "clean" /\ u[2] = "clean secrets" /\ u[3] = "claim anew" /\ u[4] = "place" /\ u[5] = "installed" OBVIOUS
  <2> HIDE DEF u
  <2>3. ASSUME NEW k \in 1 .. 5 PROVE u[k] \in StepsOf(op) /\ (k = 1 => u[k] \notin Told) /\ (k < 5 => Follows(u[k], u[k + 1]))
    <3>1. k = 1 \/ k = 2 \/ k = 3 \/ k = 4 \/ k = 5 OBVIOUS
    <3>2. u[k] \in StepsOf(op) /\ (k = 1 => u[k] \notin Told)
      BY <3>1, <2>2, <1>26 DEF StepsOf, Told
    <3>3. Follows(u[1], u[2]) /\ Follows(u[2], u[3]) /\ Follows(u[3], u[4]) /\ Follows(u[4], u[5]) BY <2>2 DEF Follows
    <3>4. (k = 1 => k + 1 = 2) /\ (k = 2 => k + 1 = 3) /\ (k = 3 => k + 1 = 4) /\ (k = 4 => k + 1 = 5)
      OBVIOUS
    <3>5. k < 5 => Follows(u[k], u[k + 1]) BY <3>1, <3>3, <3>4
    <3>6. QED BY <3>2, <3>5
  <2>4. QED BY <2>1, <2>3 DEF Ordered, u
<1>11. L!StopSteps \o L!StartSteps = <<"stop", "stopped", "gate", "start", "running", "bearer", "pair", "token">>
  BY Append6 DEF L!StopSteps, L!StartSteps
<1>12. L!RemoveSteps(TRUE) = <<"stop", "stopped", "uninstall", "secrets", "state", "record">>
  BY Append4 DEF L!StopSteps, L!RemoveSteps
<1>13. L!RemoveSteps(FALSE) = <<"uninstall", "secrets", "state", "record">>
  BY DEF L!RemoveSteps
<1>14. CASE op = "none"
  <2>1. list = <<>> BY <1>14 DEF Lists
  <2>2. QED BY <2>1 DEF Ordered
<1>15. CASE op = "install"
  BY <1>15, <1>1, <1>24, <1>25, <1>26
  DEF Lists, L!InstallSteps, L!AnewSteps, L!CleanSteps, L!CleanAnewSteps
<1>16. CASE op = "start" BY <1>16, <1>2 DEF Lists, L!StartSteps
<1>17. CASE op = "stop" BY <1>17, <1>3 DEF Lists, L!StopSteps
<1>18. CASE op = "restart" BY <1>18, <1>4, <1>11 DEF Lists
<1>19. CASE op = "sync" BY <1>19, <1>5 DEF Lists, L!SyncSteps
<1>20. CASE op = "configure" BY <1>20, <1>6 DEF Lists, L!ConfigureSteps
<1>21. CASE op = "delete" BY <1>21, <1>7, <1>8, <1>9, <1>12, <1>13 DEF Lists, L!ForgetSteps
<1>22. CASE op \in {"secret", "skill"} BY <1>22, <1>10 DEF Lists
<1>23. QED BY <1>14, <1>15, <1>16, <1>17, <1>18, <1>19, <1>20, <1>21, <1>22 DEF L!Ops

\* What is left of a command: it has a next step of the command, and behind it the rest.
LEMMA RestsOrdered ==
  ASSUME NEW op \in L!Ops, NEW todo \in Rests(op), todo # <<>>
  PROVE  /\ Head(todo) \in StepsOf(op) /\ todo \in Seq(L!Steps)
         /\ Tail(todo) \in Rests(op) /\ Tail(todo) \in Seq(L!Steps)
         /\ Tail(todo) # <<>> => Follows(Head(todo), Head(Tail(todo)))
<1>0. PICK list \in Lists(op) : \E k \in 1 .. Len(list) : todo = From(list, k) BY DEF Rests
<1>1. PICK k \in 1 .. Len(list) : todo = From(list, k) BY <1>0
<1>2. Ordered(op, list) BY ListsOrdered
<1>3. list \in Seq(L!Steps) BY <1>2 DEF Ordered
<1>4. todo \in Seq(L!Steps) /\ Head(todo) = list[k]
      /\ Tail(todo) = IF k = Len(list) THEN <<>> ELSE From(list, k + 1)
  BY <1>1, <1>3, FromStep
<1>5. CASE k = Len(list)
  <2>1. Tail(todo) = <<>> BY <1>4, <1>5
  <2>2. Head(todo) \in StepsOf(op) BY <1>2, <1>4 DEF Ordered
  <2>3. QED BY <1>4, <2>1, <2>2 DEF Rests
<1>6. CASE k # Len(list)
  <2>1. k + 1 \in 1 .. Len(list) /\ k < Len(list) BY <1>3, <1>6
  <2>2. Tail(todo) = From(list, k + 1) BY <1>4, <1>6
  <2>3. Tail(todo) \in Seq(L!Steps) /\ Head(Tail(todo)) = list[k + 1] BY ZenonT(60), <2>1, <2>2, <1>3, FromStep
  <2>4. Head(todo) \in StepsOf(op) /\ Follows(Head(todo), list[k + 1])
    BY <1>2, <1>4, <2>1 DEF Ordered
  <2>5. Tail(todo) \in Rests(op) BY <2>1, <2>2 DEF Rests
  <2>6. QED BY <1>4, <2>3, <2>4, <2>5
<1>7. QED BY <1>5, <1>6

\* A whole list is a rest.
LEMMA ListsAreRests ==
  ASSUME NEW op \in L!Ops, NEW list \in Lists(op)
  PROVE  /\ list \in Rests(op) /\ list \in Seq(L!Steps)
         /\ list # <<>> => Head(list) \in StepsOf(op) \ Told
<1>0. Ordered(op, list) BY ListsOrdered
<1>1. list \in Seq(L!Steps) BY <1>0 DEF Ordered
<1>2. CASE list = <<>> BY <1>1, <1>2 DEF Rests
<1>3. CASE list # <<>>
  <2>1. 1 \in 1 .. Len(list) BY <1>1, <1>3
  <2>2. From(list, 1) = list
    <3>1. From(list, 1) \in Seq(L!Steps) /\ Len(From(list, 1)) = Len(list)
          /\ \A i \in 1 .. Len(list) : From(list, 1)[i] = list[i]
      BY <1>1, <2>1 DEF From
    <3>2. QED BY <1>1, <3>1, SeqEqual
  <2>3. list[1] \in StepsOf(op) \ Told BY <1>0, <2>1 DEF Ordered
  <2>4. list \in Rests(op) BY <2>1, <2>2 DEF Rests
  <2>5. QED BY <1>1, <2>3, <2>4
<1>4. QED BY <1>2, <1>3

-----------------------------------------------------------------------------
(***************************************************************************)
(* Steps of Lifecycle.                                                     *)
(***************************************************************************)
\* Whoever goes on goes on with its command, or is done.
Proceeds(p) ==
  /\ command' \in [Procs -> Sessions]
  /\ \A q \in Procs \ {p} : command'[q] = command[q]
  /\ command'[p].todo \in Rests(command'[p].op)
  /\ command'[p].todo # <<>> => command[p].todo # <<>> /\ command'[p].op = command[p].op
\* What comes next is not a step the invariant speaks of.
Untold(p) == \A next \in Told \cup {"put"} : ~ L!At(p, next)

LEMMA AtOthers ==
  ASSUME NEW p \in Procs, Proceeds(p), NEW q \in Procs \ {p}
  PROVE  /\ command'[q] = command[q]
         /\ \A step : L!At(q, step)' <=> L!At(q, step)
  BY DEF Proceeds, L!At

\* The step a process is at is one of its command.
LEMMA AtOp ==
  ASSUME LifeCommands, NEW p \in Procs, NEW step, L!At(p, step)
  PROVE  /\ command[p] \in Sessions /\ command[p].op \in L!Ops /\ step \in StepsOf(command[p].op)
         /\ p \in L!Busy /\ command[p].todo # <<>> /\ Head(command[p].todo) = step
<1>1. command[p] \in Sessions /\ command[p].todo \in Rests(command[p].op) BY DEF LifeCommands
<1>2. command[p].todo # <<>> /\ Head(command[p].todo) = step BY DEF L!At
<1>3. command[p].op \in L!Ops BY <1>1 DEF Sessions
<1>4. step \in StepsOf(command[p].op) BY <1>1, <1>2, <1>3, RestsOrdered
<1>5. QED BY <1>1, <1>2, <1>3, <1>4 DEF L!Busy

\* An idle process.
LEMMA IdleTyped ==
  /\ L!Idle \in Sessions /\ L!Idle.todo = <<>> /\ L!Idle.op = "none" /\ L!NoRecord \in L!Records
  /\ <<>> \in Rests("none")
<1>1. L!NoRecord \in L!Records BY DEF L!NoRecord, L!Records
<1>2. <<>> \in Seq(L!Steps) OBVIOUS
<1>3. L!Idle \in Sessions BY <1>1, <1>2 DEF L!Idle, Sessions, L!Ops
<1>4. QED BY <1>1, <1>3 DEF L!Idle, Rests

\* What is left of a command after a step.
LEMMA Onward ==
  ASSUME LifeCommands, NEW p \in Procs, command[p].todo # <<>>
  PROVE  LET on == L!On(p, Tail(command[p].todo)) IN
         /\ on \in Sessions /\ on.todo = Tail(command[p].todo) /\ on.todo \in Rests(on.op)
         /\ on.todo # <<>> => on.op = command[p].op /\ on.kept = command[p].kept
                              /\ on.bearer = command[p].bearer
         /\ on.kept \in {command[p].kept, L!NoRecord}
<1> DEFINE todo == Tail(command[p].todo)
<1>1. command[p] \in Sessions /\ command[p].op \in L!Ops
      /\ command[p].todo \in Rests(command[p].op)
  BY DEF LifeCommands, Sessions
<1>2. todo \in Rests(command[p].op) /\ todo \in Seq(L!Steps) BY <1>1, RestsOrdered
<1>3. CASE todo = <<>>
  <2>1. L!On(p, todo) = L!Idle BY <1>3 DEF L!On
  <2>2. L!Idle.kept = L!NoRecord BY DEF L!Idle
  <2>3. QED BY <2>1, <2>2, <1>3, IdleTyped
<1>4. CASE todo # <<>>
  <2>1. L!On(p, todo) = [command[p] EXCEPT !.todo = todo] BY <1>4 DEF L!On
  <2>2. QED BY <2>1, <1>1, <1>2 DEF Sessions
<1>5. QED BY <1>3, <1>4

\* Advance, with or without what the step keeps in memory.
LEMMA Advances ==
  ASSUME LifeCommands, NEW p \in Procs, NEW step, L!At(p, step),
         NEW new \in Sessions, new.todo = Tail(command[p].todo),
         new.op = L!On(p, Tail(command[p].todo)).op, command' = [command EXCEPT ![p] = new]
  PROVE  /\ Proceeds(p) /\ command'[p] = new /\ p \in L!Busy
         /\ \A next : L!At(p, next)' => Follows(step, next) /\ new.op = command[p].op
<1>1. command[p] \in Sessions /\ command \in [Procs -> Sessions] /\ command[p].op \in L!Ops
      /\ command[p].todo \in Rests(command[p].op)
  BY DEF LifeCommands, Sessions
<1>2. command[p].todo # <<>> /\ Head(command[p].todo) = step BY DEF L!At
<1>3. command' \in [Procs -> Sessions] /\ command'[p] = new
      /\ \A q \in Procs \ {p} : command'[q] = command[q]
  BY <1>1
<1>4. new.todo \in Rests(new.op) /\ (new.todo # <<>> => new.op = command[p].op)
  BY <1>2, Onward
<1>5. new.todo # <<>> => Follows(step, Head(new.todo)) BY <1>1, <1>2, RestsOrdered
<1>6. \A next : L!At(p, next)' => new.todo # <<>> /\ Head(new.todo) = next BY <1>3 DEF L!At
<1>7. QED BY <1>2, <1>3, <1>4, <1>5, <1>6 DEF Proceeds, L!Busy

\* The plain case of it.
LEMMA Advanced ==
  ASSUME LifeCommands, NEW p \in Procs, NEW step, L!At(p, step), L!Advance(p)
  PROVE  /\ Proceeds(p) /\ p \in L!Busy
         /\ \A next : L!At(p, next)' =>
              /\ Follows(step, next) /\ command'[p].op = command[p].op
              /\ command'[p].bearer = command[p].bearer /\ command'[p].kept = command[p].kept
<1> DEFINE new == L!On(p, Tail(command[p].todo))
<1>1. command[p].todo # <<>> BY DEF L!At
<1>2. new \in Sessions /\ new.todo = Tail(command[p].todo)
      /\ (new.todo # <<>> => new.kept = command[p].kept /\ new.bearer = command[p].bearer)
  BY <1>1, Onward
<1>3. command' = [command EXCEPT ![p] = new] BY DEF L!Advance
<1> HIDE DEF new
<1>4. /\ Proceeds(p) /\ command'[p] = new /\ p \in L!Busy
      /\ \A next : L!At(p, next)' => Follows(step, next) /\ new.op = command[p].op
  BY <1>2, <1>3, Advances DEF new
<1>5. \A next : L!At(p, next)' => new.todo # <<>> BY <1>4 DEF L!At
<1>6. QED BY <1>2, <1>4, <1>5

\* A process that stops in whatever way.
LEMMA Stops ==
  ASSUME LifeCommands, NEW p \in Procs, NEW new \in Sessions, new.todo = <<>>,
         command' = [command EXCEPT ![p] = new]
  PROVE  Proceeds(p) /\ Untold(p)'
<1>1. command' \in [Procs -> Sessions] /\ command'[p] = new
      /\ \A q \in Procs \ {p} : command'[q] = command[q]
  BY DEF LifeCommands
<1>2. new.todo \in Rests(new.op) BY DEF Rests
<1>3. QED BY <1>1, <1>2 DEF Proceeds, Untold, L!At

-----------------------------------------------------------------------------
\* The part of the invariant that no step of a command disturbs.
LEMMA CommandsKept ==
  ASSUME LifeInv, NEW p \in Procs, Proceeds(p), raced' = raced
  PROVE  (LifeCommands /\ Noted /\ OneInstaller)'
<1>1. \A q \in L!Busy' : q \in L!Busy /\ command'[q].op = command[q].op
  BY DEF Proceeds, L!Busy
<1>2. LifeCommands' BY DEF LifeInv, LifeCommands, Proceeds
<1>3. Noted' BY <1>1 DEF LifeInv, Noted, L!Class
<1>4. OneInstaller' BY <1>1 DEF LifeInv, OneInstaller
<1>5. QED BY <1>2, <1>3, <1>4

\* A step that the rest of the invariant hardly notices.
LEMMA PlainKeeps ==
  ASSUME LifeInv, NEW p \in Procs, Proceeds(p), Untold(p)', LifeFields', WholeDaemon',
         record.kind # "none" => record'.kind # "none", record'.auth = record.auth,
         kept' = kept, L!OnHost' => L!OnHost,
         unit'.home = unit.home, unit'.paired = unit.paired,
         raced' = raced, given_up' = given_up
  PROVE  LifeInv'
<1>1. (LifeCommands /\ Noted /\ OneInstaller)' BY CommandsKept
<1>2. \A q \in Procs, step \in Told \cup {"put"} :
        L!At(q, step)' => L!At(q, step) /\ command'[q] = command[q]
  BY AtOthers DEF Untold
<1>3. HostNamed' BY <1>2 DEF LifeInv, HostNamed, Told
<1>4. LocalNamed' BY <1>2 DEF LifeInv, LocalNamed, Told
<1>5. BearersKnown' BY <1>2 DEF LifeInv, BearersKnown, Known, Told
<1>6. QED BY <1>1, <1>3, <1>4, <1>5 DEF LifeInv

\* Most steps are not followed by one that the invariant speaks of.
Plain == L!Steps \ {"claim", "claim anew", "place", "pair", "uninstall", "secrets", "state",
                    "forget secrets", "forget state"}
LEMMA PlainAdvance ==
  ASSUME LifeCommands, NEW p \in Procs, NEW step \in Plain, L!At(p, step), L!Advance(p)
  PROVE  Proceeds(p) /\ Untold(p)'
<1>1. Proceeds(p) /\ \A next : L!At(p, next)' => Follows(step, next) BY Advanced
<1>2. \A next \in Told \cup {"put"} : ~ Follows(step, next) BY DEF Follows, Told, Plain
<1>3. QED BY <1>1, <1>2 DEF Untold

\* Steps that change neither the record nor the host nor what is kept.
LEMMA LooksKeep ==
  ASSUME LifeInv, NEW p \in Procs,
         \/ L!Gate(p) \/ L!Probe(p) \/ L!SkipReload(p) \/ L!ReadBearer(p) \/ L!Look(p)
         \/ L!PairRefused(p) \/ L!StopIgnored(p) \/ L!Stop(p)
  PROVE  LifeInv'
<1>1. LifeFields /\ LifeCommands /\ WholeDaemon BY DEF LifeInv
<1>2. command[p] \in Sessions BY <1>1 DEF LifeCommands
<1>3. LifeFields' /\ UNCHANGED <<record, kept, unit, raced, given_up>>
  BY <1>1 DEF LifeFields, L!Gate, L!Probe, L!SkipReload, L!ReadBearer, L!Look,
              L!PairRefused, L!StopIgnored, L!Stop, L!history
<1>4. Proceeds(p) /\ Untold(p)'
  <2>1. CASE L!Gate(p) BY <1>1, <2>1, PlainAdvance DEF L!Gate, Plain, L!Steps
  <2>2. CASE L!Probe(p) BY <1>1, <2>2, PlainAdvance DEF L!Probe, Plain, L!Steps
  <2>3. CASE L!SkipReload(p) BY <1>1, <2>3, PlainAdvance DEF L!SkipReload, Plain, L!Steps
  <2>4. CASE L!Look(p) BY <1>1, <2>4, PlainAdvance DEF L!Look, Plain, L!Steps
  <2>5. CASE L!ReadBearer(p)
    <3> DEFINE on == L!On(p, Tail(command[p].todo))
               new == [on EXCEPT !.bearer = record.auth]
    <3>1. L!At(p, "bearer") /\ command[p].todo # <<>> /\ record.auth \in L!Bearers \cup {NoBearer}
          /\ command' = [command EXCEPT ![p] = new]
      BY <2>5, <1>1 DEF L!ReadBearer, L!At, LifeFields, L!Records
    <3>2. on \in Sessions /\ on.todo = Tail(command[p].todo) BY <1>1, <3>1, Onward
    <3>3. new \in Sessions /\ new.todo = Tail(command[p].todo) /\ new.op = on.op
      BY <3>1, <3>2 DEF Sessions
    <3> HIDE DEF new, on
    <3>4. Proceeds(p) /\ \A next : L!At(p, next)' => Follows("bearer", next)
      BY <1>1, <3>1, <3>3, Advances DEF on
    <3>5. \A next \in Told \cup {"put"} : ~ Follows("bearer", next) BY DEF Follows, Told
    <3>6. QED BY <3>4, <3>5 DEF Untold
  <2>6. CASE L!PairRefused(p)
    <3> DEFINE new == [L!Idle EXCEPT !.op = command[p].op, !.stale = TRUE]
    <3>1. command' = [command EXCEPT ![p] = new] BY <2>6 DEF L!PairRefused
    <3>2. new \in Sessions /\ new.todo = <<>>
      <4>1. \A stale \in BOOLEAN : LET n == [L!Idle EXCEPT !.op = command[p].op, !.stale = stale] IN
              n \in Sessions /\ n.todo = <<>>
        BY <1>2, IdleTyped DEF Sessions
      <4>2. QED BY <4>1, Zenon
    <3> HIDE DEF new
    <3>3. QED BY <1>1, <3>1, <3>2, Stops
  <2>7. CASE L!StopIgnored(p)
    <3> DEFINE list == L!RemoveSteps(FALSE)
               new == L!On(p, list)
    <3>1. L!Deleting(p) /\ command[p].todo # <<>> /\ command' = [command EXCEPT ![p] = new]
      BY <2>7 DEF L!StopIgnored, L!At
    <3>2. command[p].op = "delete" /\ "delete" \in L!Ops BY <3>1 DEF L!Deleting, L!Ops
    <3>3. list \in Lists("delete") BY DEF Lists
    <3>4. list \in Rests("delete") /\ list \in Seq(L!Steps) /\ (list # <<>> => Head(list) \notin Told)
          /\ (list # <<>> => Head(list) \in StepsOf("delete"))
      BY <3>2, <3>3, ListsAreRests
    <3> HIDE DEF list
    <3>5. new \in Sessions /\ new.todo = list /\ (list # <<>> => new.op = "delete")
      BY <1>2, <3>2, <3>4, IdleTyped DEF L!On, Sessions
    <3>6. new.todo \in Rests(new.op) BY <3>4, <3>5 DEF Rests
    <3> HIDE DEF new
    <3>7. command' \in [Procs -> Sessions] /\ command'[p] = new
          /\ \A q \in Procs \ {p} : command'[q] = command[q]
      BY <1>1, <3>1, <3>5 DEF LifeCommands
    <3>8. Proceeds(p) BY <3>1, <3>2, <3>5, <3>6, <3>7 DEF Proceeds
    <3>9. "put" \notin StepsOf("delete") BY DEF StepsOf
    <3>10. Untold(p)' BY <3>4, <3>5, <3>7, <3>9 DEF Untold, L!At
    <3>11. QED BY <3>8, <3>10
  <2>8. CASE L!Stop(p) BY <1>1, <2>8, IdleTyped, Stops DEF L!Stop, L!Fail
  <2>9. QED BY <2>1, <2>2, <2>3, <2>4, <2>5, <2>6, <2>7, <2>8
<1>5. (L!OnHost' => L!OnHost) /\ WholeDaemon' BY <1>1, <1>3 DEF L!OnHost, WholeDaemon
<1>6. QED BY <1>3, <1>4, <1>5, PlainKeeps

\* The daemon is started or stopped.
LEMMA DaemonKeeps ==
  ASSUME LifeInv, NEW p \in Procs, L!StartDaemon(p) \/ L!StopDaemon(p)
  PROVE  LifeInv'
<1>1. LifeFields /\ LifeCommands /\ WholeDaemon /\ unit \in L!Daemons BY DEF LifeInv, LifeFields
<1>2. Proceeds(p) /\ Untold(p)'
  BY <1>1, PlainAdvance DEF L!StartDaemon, L!StopDaemon, Plain, L!Steps
<1>3. UNCHANGED <<record, kept, raced, given_up, fresh, minted, begunCommands>>
  BY DEF L!StartDaemon, L!StopDaemon, L!history
<1>4. \A running \in BOOLEAN : LET new == [unit EXCEPT !.running = running] IN
        /\ new \in L!Daemons /\ new.unit = unit.unit /\ new.home = unit.home
        /\ new.paired = unit.paired /\ new.running = running
  BY <1>1 DEF L!Daemons
<1>5. \/ unit.unit /\ unit.home /\ unit' = [unit EXCEPT !.running = TRUE]
      \/ unit' = [unit EXCEPT !.running = FALSE]
  BY DEF L!StartDaemon, L!StopDaemon
<1>6. unit' \in L!Daemons /\ unit'.unit = unit.unit /\ unit'.home = unit.home
      /\ unit'.paired = unit.paired /\ (unit'.running => unit.home \/ unit.running)
  BY <1>4, <1>5, Zenon
<1>7. L!OnHost' => L!OnHost BY <1>6 DEF L!OnHost
<1>8. unit = L!NoDaemon => unit' = unit
  <2>1. \A running \in BOOLEAN : unit.running = running => [unit EXCEPT !.running = running] = unit
    BY <1>1 DEF L!Daemons
  <2>2. unit = L!NoDaemon => unit.running = FALSE BY DEF L!NoDaemon
  <2>3. unit = L!NoDaemon => ~ unit.home BY DEF L!NoDaemon
  <2>4. QED BY <1>5, <2>1, <2>2, <2>3, Zenon
<1>9. WholeDaemon' BY <1>1, <1>6, <1>8 DEF WholeDaemon
<1>10. LifeFields' BY <1>1, <1>3, <1>6 DEF LifeFields
<1>11. QED BY <1>2, <1>3, <1>6, <1>7, <1>9, <1>10, PlainKeeps

\* hosts.json is written, without removing a record and without touching its bearer.
LEMMA WritesKeep ==
  ASSUME LifeInv, NEW p \in Procs,
         \/ L!WriteRuntime(p, "running", "running") \/ L!WriteRuntime(p, "stopped", "stopped")
         \/ L!InstallFails(p) \/ L!MarkReady(p)
  PROVE  LifeInv'
<1>1. LifeFields /\ LifeCommands /\ WholeDaemon /\ record \in L!Records BY DEF LifeInv, LifeFields
<1>2. Proceeds(p) /\ Untold(p)'
  <2>1. CASE L!InstallFails(p) BY <1>1, <2>1, IdleTyped, Stops DEF L!InstallFails, L!Fail
  <2>2. CASE ~ L!InstallFails(p)
    BY <1>1, <2>2, PlainAdvance DEF L!WriteRuntime, L!MarkReady, Plain, L!Steps
  <2>3. QED BY <2>1, <2>2
<1>3. UNCHANGED <<kept, unit, raced, given_up, minted, begunCommands>> /\ fresh' = {}
  BY DEF L!WriteRuntime, L!InstallFails, L!MarkReady, L!WriteRecord, L!history
<1>4. record' \in L!Records /\ record'.auth = record.auth
      /\ (record.kind # "none" => record'.kind # "none")
  <2>1. L!Haunted \in {"ghost", "bare", "installing", "failed", "installed"}
    BY <1>1 DEF L!Haunted, L!Records
  <2>2. QED
    BY <1>1, <2>1 DEF L!WriteRuntime, L!InstallFails, L!MarkReady, L!WriteRecord, L!Records
<1>5. (L!OnHost' => L!OnHost) /\ WholeDaemon' BY <1>1, <1>3 DEF L!OnHost, WholeDaemon
<1>6. LifeFields' BY <1>1, <1>3, <1>4 DEF LifeFields
<1>7. QED BY <1>2, <1>3, <1>4, <1>5, <1>6, PlainKeeps

-----------------------------------------------------------------------------
(***************************************************************************)
(* The steps it is about.                                                  *)
(***************************************************************************)
\* The op of a step.
LEMMA OpOf ==
  ASSUME LifeCommands, NEW p \in Procs, NEW step, L!At(p, step)
  PROVE  /\ step \in {"claim", "claim anew", "place", "installed"} => command[p].op = "install"
         /\ step \in {"token", "config", "pair"} => L!Class(command[p].op) = "daemon"
         /\ step = "put" => L!Class(command[p].op) = "put"
         /\ step \in {"uninstall", "secrets", "state", "record", "forget state",
                      "forget record"} => command[p].op = "delete"
<1>1. command[p].op \in L!Ops /\ step \in StepsOf(command[p].op) BY AtOp
<1>2. QED BY <1>1 DEF StepsOf, L!Ops, L!Class

\* Nobody is at a step beside a removal without being noted.
LEMMA Beside ==
  ASSUME LifeInv, NEW p \in Procs, NEW step, L!At(p, step), command[p].op = "delete",
         NEW q \in Procs \ {p}, NEW other, L!At(q, other)
  PROVE  /\ other \in {"claim", "place", "installed"} => "install" \in raced
         /\ other \in {"token", "config"} => "daemon" \in raced
         /\ other = "put" => "put" \in raced
<1>1. p \in L!Busy /\ q \in L!Busy BY DEF L!At, L!Busy
<1>2. L!Class(command[q].op) \in raced BY <1>1 DEF LifeInv, Noted
<1>3. L!Class("install") = "install" BY DEF L!Class
<1>4. QED BY <1>2, <1>3, OpOf DEF LifeInv

\* Nobody installs beside an installer, and a removal beside one is noted.
LEMMA BesideInstaller ==
  ASSUME LifeInv, NEW p \in Procs, NEW step \in {"claim", "claim anew", "place", "installed"}, L!At(p, step),
         NEW q \in Procs \ {p}
  PROVE  /\ ~ L!At(q, "place") /\ ~ L!At(q, "installed")
         /\ L!At(q, "secrets") \/ L!At(q, "state") \/ L!At(q, "record") => "install" \in raced
<1>1. LifeCommands /\ command[p].op = "install" /\ p \in L!Busy
  BY OpOf DEF LifeInv, L!At, L!Busy
<1>2. \A other : L!At(q, other) => q \in L!Busy BY DEF L!At, L!Busy
<1>3. ~ L!At(q, "place") /\ ~ L!At(q, "installed")
  BY <1>1, <1>2, OpOf DEF LifeInv, OneInstaller
<1>4. L!Class("install") = "install" BY DEF L!Class
<1>5. ASSUME L!At(q, "secrets") \/ L!At(q, "state") \/ L!At(q, "record")
      PROVE  "install" \in raced
  <2>1. command[q].op = "delete" /\ q \in L!Busy BY <1>1, <1>2, <1>5, OpOf
  <2>2. QED BY <1>1, <1>4, <2>1 DEF LifeInv, Noted
<1>6. QED BY <1>3, <1>5

LEMMA ClaimKeeps ==
  ASSUME LifeInv, NEW p \in Procs, L!Claim(p)
  PROVE  LifeInv'
<1> DEFINE on == L!On(p, Tail(command[p].todo))
           had == IF L!At(p, "claim") THEN record ELSE L!NoRecord
           new == [on EXCEPT !.kept = had]
<1>1. LifeFields /\ LifeCommands /\ WholeDaemon /\ record \in L!Records
      /\ command[p].todo # <<>> /\ command' = [command EXCEPT ![p] = new]
  BY DEF LifeInv, LifeFields, L!Claim, L!At
<1>15. PICK step \in {"claim", "claim anew"} : L!At(p, step) BY DEF L!Claim
<1>16. had \in {record, L!NoRecord} /\ had \in L!Records BY <1>1, IdleTyped
<1>2. UNCHANGED <<kept, unit, raced, minted, begunCommands>> /\ fresh' = {}
      /\ given_up' = given_up \ {"failed"}
  BY DEF L!Claim, L!WriteRecord
<1>3. on \in Sessions /\ on.todo = Tail(command[p].todo) BY <1>1, Onward
<1> HIDE DEF had
<1>4. new \in Sessions /\ new.todo = Tail(command[p].todo) /\ new.op = on.op /\ new.kept = had
  BY <1>3, <1>16 DEF Sessions
<1> HIDE DEF new, on
<1>5. Proceeds(p) /\ command'[p] = new /\ \A next : L!At(p, next)' => Follows(step, next)
  BY <1>1, <1>4, <1>15, Advances DEF on
<1>6. record' \in L!Records /\ record'.kind = "installing" /\ record'.auth = NoBearer
  BY DEF L!Claim, L!WriteRecord, L!NoRecord, L!Records
<1>7. (LifeCommands /\ Noted /\ OneInstaller)' BY <1>2, <1>5, CommandsKept
<1>8. \A next \in (Told \cup {"put"}) \ {"place"} : ~ L!At(p, next)' BY <1>5 DEF Follows, Told
<1>9. \A q \in Procs \ {p} : command'[q] = command[q] /\ ~ L!At(q, "place")
                             /\ \A other : L!At(q, other)' <=> L!At(q, other)
  BY <1>5, <1>15, AtOthers, BesideInstaller
<1>10. HostNamed' BY <1>2, <1>6, <1>8, <1>9 DEF LifeInv, HostNamed, L!OnHost, Told
<1>11. LocalNamed' BY <1>2, <1>6, <1>8, <1>9 DEF LifeInv, LocalNamed, Told
<1>12. BearersKnown'
  <2>1. Known(record'.auth) BY <1>6 DEF Known
  <2>2. ASSUME raced \cap {"daemon", "install"} = {}, unit.home PROVE Known(command'[p].kept.auth)
    <3>1. Known(record.auth) BY <2>2 DEF LifeInv, BearersKnown
    <3>2. Known(L!NoRecord.auth) BY DEF Known, L!NoRecord
    <3>3. QED BY <1>4, <1>5, <1>16, <3>1, <3>2
  <2>3. QED BY <1>2, <1>8, <1>9, <2>1, <2>2 DEF LifeInv, BearersKnown, Known, Told
<1>13. LifeFields' /\ WholeDaemon' BY <1>1, <1>2, <1>6 DEF LifeFields, WholeDaemon
<1>14. QED BY <1>7, <1>10, <1>11, <1>12, <1>13 DEF LifeInv

\* The record of what was found incomplete goes, and nothing else does.
LEMMA CleanKeeps ==
  ASSUME LifeInv, NEW p \in Procs, L!Clean(p)
  PROVE  LifeInv'
<1>1. LifeFields /\ LifeCommands /\ WholeDaemon /\ L!At(p, "clean")
  BY DEF LifeInv, L!Clean
<1>2. UNCHANGED <<kept, unit, raced, minted, begunCommands>> /\ fresh' = {}
      /\ record' = L!NoRecord /\ given_up' = given_up \cup {"failed"} /\ L!Advance(p)
  BY DEF L!Clean, L!WriteRecord
<1>3. Proceeds(p) /\ Untold(p)' BY <1>1, <1>2, PlainAdvance DEF Plain, L!Steps
<1>4. (LifeCommands /\ Noted /\ OneInstaller)' BY <1>2, <1>3, CommandsKept
<1>5. \A q \in Procs \ {p} : command'[q] = command[q]
                             /\ \A other : L!At(q, other)' <=> L!At(q, other)
  BY <1>3, AtOthers
<1>6. record' \in L!Records /\ record'.auth = NoBearer BY <1>2, IdleTyped DEF L!NoRecord
<1>7. HostNamed' BY <1>2, <1>3, <1>5 DEF LifeInv, HostNamed, L!OnHost, Untold, Told
<1>8. LocalNamed' BY <1>2, <1>3, <1>5 DEF LifeInv, LocalNamed, Untold, Told
<1>9. BearersKnown' BY <1>2, <1>3, <1>5, <1>6 DEF LifeInv, BearersKnown, Known, Untold, Told
<1>10. LifeFields' /\ WholeDaemon' BY <1>1, <1>2, <1>6 DEF LifeFields, WholeDaemon
<1>11. QED BY <1>4, <1>7, <1>8, <1>9, <1>10 DEF LifeInv

LEMMA PlaceKeeps ==
  ASSUME LifeInv, NEW p \in Procs, L!Place(p)
  PROVE  LifeInv'
<1> DEFINE on == L!On(p, Tail(command[p].todo))
<1>1. LifeFields /\ LifeCommands /\ WholeDaemon /\ unit \in L!Daemons /\ L!At(p, "place")
      /\ command[p].todo # <<>>
  BY DEF LifeInv, LifeFields, L!Place, L!At
<1>2. PICK skipped \in {FALSE, unit.home} :
        command' = [command EXCEPT ![p] = [on EXCEPT !.kept.auth = IF skipped THEN @ ELSE NoBearer]]
  BY DEF L!Place
<1> DEFINE new == [on EXCEPT !.kept.auth = IF skipped THEN @ ELSE NoBearer]
<1>3. UNCHANGED <<record, kept, fresh, raced, given_up, minted, begunCommands>>
  BY DEF L!Place, L!history
<1>4. on \in Sessions /\ on.todo = Tail(command[p].todo) /\ on.kept \in L!Records
      /\ on.kept \in {command[p].kept, L!NoRecord}
  BY <1>1, Onward DEF Sessions
<1>5. new \in Sessions /\ new.todo = Tail(command[p].todo) /\ new.op = on.op
      /\ new.kept.auth = IF skipped THEN on.kept.auth ELSE NoBearer
  BY <1>4 DEF Sessions, L!Records
<1>6. command' = [command EXCEPT ![p] = new] BY <1>2
<1> HIDE DEF new, on
<1>7. Proceeds(p) /\ command'[p] = new /\ \A next : L!At(p, next)' => Follows("place", next)
  BY <1>1, <1>5, <1>6, Advances DEF on
<1>8. unit' \in L!Daemons /\ unit'.home /\ unit'.paired = unit.paired
  <2>1. \A u, h \in BOOLEAN : LET new1 == [unit EXCEPT !.unit = u, !.home = h] IN
          new1 \in L!Daemons /\ new1.home = h /\ new1.paired = unit.paired
    BY <1>1 DEF L!Daemons
  <2>2. unit' = [unit EXCEPT !.unit = TRUE, !.home = TRUE] BY DEF L!Place
  <2>3. QED BY <2>1, <2>2, Zenon
<1>9. (LifeCommands /\ Noted /\ OneInstaller)' BY <1>3, <1>7, CommandsKept
<1>10. \A next \in (Told \cup {"put"}) \ {"installed"} : ~ L!At(p, next)'
  BY <1>7 DEF Follows, Told
<1>11. \A q \in Procs \ {p} :
         /\ command'[q] = command[q] /\ ~ L!At(q, "place") /\ ~ L!At(q, "installed")
         /\ L!At(q, "secrets") \/ L!At(q, "state") \/ L!At(q, "record") => "install" \in raced
         /\ \A step : L!At(q, step)' <=> L!At(q, step)
  BY <1>1, <1>7, AtOthers, BesideInstaller
<1>12. HostNamed' BY <1>1, <1>3, <1>10, <1>11 DEF LifeInv, HostNamed, Told
<1>13. LocalNamed' BY <1>3, <1>10, <1>11 DEF LifeInv, LocalNamed, Told
<1>14. BearersKnown'
  <2>1. ASSUME raced \cap {"daemon", "install"} = {}
        PROVE  Known(record.auth) /\ Known(command'[p].kept.auth)
    <3>1. Known(record.auth) /\ (unit.home => Known(command[p].kept.auth))
      BY <1>1, <2>1 DEF LifeInv, BearersKnown
    <3>2. L!NoRecord.auth = NoBearer BY DEF L!NoRecord
    <3>3. QED BY <1>2, <1>4, <1>5, <1>7, <3>1, <3>2 DEF Known
  <2>2. QED BY <1>3, <1>8, <1>10, <1>11, <2>1 DEF LifeInv, BearersKnown, Known, Told
<1>15. LifeFields' /\ WholeDaemon' BY <1>1, <1>3, <1>8 DEF LifeFields, WholeDaemon
<1>16. QED BY <1>9, <1>12, <1>13, <1>14, <1>15 DEF LifeInv

LEMMA InstalledKeeps ==
  ASSUME LifeInv, NEW p \in Procs, L!Installed(p)
  PROVE  LifeInv'
<1>1. LifeFields /\ LifeCommands /\ WholeDaemon /\ record \in L!Records /\ L!At(p, "installed")
      /\ command[p].kept \in L!Records
  BY DEF LifeInv, LifeFields, LifeCommands, Sessions, L!Installed
<1>2. UNCHANGED <<kept, unit, raced, given_up, minted, begunCommands>> /\ fresh' \in {{}, fresh}
  BY DEF L!Installed, L!WriteRecord, L!UnchangedRecord, L!history
<1>3. Proceeds(p) /\ Untold(p)'
  BY <1>1, PlainAdvance DEF L!Installed, Plain, L!Steps
<1>4. record' \in L!Records /\ record'.auth \in {command[p].kept.auth, record.auth}
      /\ (record.kind # "none" => record'.kind # "none")
  BY <1>1 DEF L!Installed, L!WriteRecord, L!UnchangedRecord, L!Records
<1>5. (LifeCommands /\ Noted /\ OneInstaller)' BY <1>2, <1>3, CommandsKept
<1>6. \A q \in Procs \ {p} : command'[q] = command[q] /\ ~ L!At(q, "place")
                             /\ \A step : L!At(q, step)' <=> L!At(q, step)
  BY <1>1, <1>3, AtOthers, BesideInstaller
<1>7. HostNamed' BY <1>2, <1>3, <1>4, <1>6 DEF LifeInv, HostNamed, L!OnHost, Untold, Told
<1>8. LocalNamed' BY <1>2, <1>3, <1>4, <1>6 DEF LifeInv, LocalNamed, Untold, Told
<1>9. BearersKnown'
  BY <1>1, <1>2, <1>3, <1>4, <1>6 DEF LifeInv, BearersKnown, Known, Untold, Told
<1>10. LifeFields' /\ WholeDaemon' BY <1>1, <1>2, <1>4 DEF LifeFields, WholeDaemon
<1>11. QED BY <1>5, <1>7, <1>8, <1>9, <1>10 DEF LifeInv

LEMMA PairingKeeps ==
  ASSUME LifeInv, NEW p \in Procs, L!Pair(p), L!LifecycleAssumption
  PROVE  LifeInv'
<1> DEFINE on == L!On(p, Tail(command[p].todo))
           new == [on EXCEPT !.bearer = minted']
<1>1. LifeFields /\ LifeCommands /\ WholeDaemon /\ unit \in L!Daemons /\ L!At(p, "pair")
      /\ command[p].todo # <<>> /\ command' = [command EXCEPT ![p] = new] /\ unit.running
  BY DEF LifeInv, LifeFields, L!Pair, L!At
<1>2. UNCHANGED <<record, kept, fresh, raced, given_up, begunCommands>>
  BY DEF L!Pair, L!history
<1>3. minted' \in L!Bearers /\ minted' \in 0 .. MaxBearers
  BY <1>1 DEF L!Pair, LifeFields, L!Bearers, L!LifecycleAssumption
<1>4. on \in Sessions /\ on.todo = Tail(command[p].todo) BY <1>1, Onward
<1>5. new \in Sessions /\ new.todo = Tail(command[p].todo) /\ new.op = on.op
      /\ new.bearer = minted'
  BY <1>3, <1>4 DEF Sessions
<1> HIDE DEF new, on
<1>6. Proceeds(p) /\ command'[p] = new /\ \A next : L!At(p, next)' => Follows("pair", next)
  BY <1>1, <1>5, Advances DEF on
<1>7. unit' \in L!Daemons /\ unit'.home = unit.home /\ unit'.unit = unit.unit
      /\ unit'.running = unit.running /\ unit'.paired = unit.paired \cup {minted'}
  BY <1>1, <1>3 DEF L!Pair, L!Daemons
<1>8. (LifeCommands /\ Noted /\ OneInstaller)' BY <1>2, <1>6, CommandsKept
<1>9. \A next \in (Told \cup {"put"}) \ {"token", "config"} : ~ L!At(p, next)'
  BY <1>6 DEF Follows, Told
<1>10. \A q \in Procs \ {p} : command'[q] = command[q]
                              /\ \A step : L!At(q, step)' <=> L!At(q, step)
  BY <1>6, AtOthers
<1>11. HostNamed' BY <1>2, <1>7, <1>9, <1>10 DEF LifeInv, HostNamed, L!OnHost, Told
<1>12. LocalNamed' BY <1>2, <1>9, <1>10 DEF LifeInv, LocalNamed, Told
<1>13. BearersKnown'
  BY <1>2, <1>5, <1>6, <1>7, <1>9, <1>10 DEF LifeInv, BearersKnown, Known, Told
<1>14. WholeDaemon'
  <2>1. L!NoDaemon.running = FALSE BY DEF L!NoDaemon
  <2>2. QED BY <1>1, <1>7, <2>1 DEF WholeDaemon
<1>15. LifeFields' BY <1>1, <1>2, <1>3, <1>7 DEF LifeFields
<1>16. QED BY <1>8, <1>11, <1>12, <1>13, <1>14, <1>15 DEF LifeInv

LEMMA WriteBearerKeeps ==
  ASSUME LifeInv, NEW p \in Procs, L!WriteBearer(p)
  PROVE  LifeInv'
<1>1. LifeFields /\ LifeCommands /\ WholeDaemon /\ record \in L!Records
      /\ command[p].bearer \in L!Bearers \cup {NoBearer}
  BY DEF LifeInv, LifeFields, LifeCommands, Sessions
<1>2. UNCHANGED <<kept, unit, raced, given_up, minted, begunCommands>> /\ fresh' = {}
  BY DEF L!WriteBearer, L!WriteRecord, L!history
<1>3. Proceeds(p) /\ Untold(p)'
  BY <1>1, PlainAdvance DEF L!WriteBearer, Plain, L!Steps
<1>4. record' \in L!Records /\ record'.auth = command[p].bearer /\ record'.kind # "none"
  <2>1. L!Haunted \in {"ghost", "bare", "installing", "failed", "installed"}
    BY <1>1 DEF L!Haunted, L!Records
  <2>2. QED BY <1>1, <2>1 DEF L!WriteBearer, L!WriteRecord, L!Records
<1>5. (LifeCommands /\ Noted /\ OneInstaller)' BY <1>2, <1>3, CommandsKept
<1>6. \A q \in Procs \ {p} : command'[q] = command[q]
                             /\ \A step : L!At(q, step)' <=> L!At(q, step)
  BY <1>3, AtOthers
<1>7. raced \cap {"daemon", "install"} = {} => command[p].bearer \in unit.paired
  BY DEF L!WriteBearer, LifeInv, BearersKnown
<1>8. HostNamed' BY <1>2, <1>3, <1>4, <1>6 DEF LifeInv, HostNamed, L!OnHost, Untold, Told
<1>9. LocalNamed' BY <1>2, <1>3, <1>4, <1>6 DEF LifeInv, LocalNamed, Untold, Told
<1>10. BearersKnown'
  BY <1>2, <1>3, <1>4, <1>6, <1>7 DEF LifeInv, BearersKnown, Known, Untold, Told
<1>11. LifeFields' /\ WholeDaemon' BY <1>1, <1>2, <1>4 DEF LifeFields, WholeDaemon
<1>12. QED BY <1>5, <1>8, <1>9, <1>10, <1>11 DEF LifeInv

LEMMA PutKeeps ==
  ASSUME LifeInv, NEW p \in Procs, L!Put(p)
  PROVE  LifeInv'
<1>1. LifeFields /\ LifeCommands /\ WholeDaemon /\ L!At(p, "put")
  BY DEF LifeInv, L!Put
<1>2. UNCHANGED <<record, unit, fresh, raced, given_up, minted, begunCommands>>
      /\ kept' \subseteq {"secrets", "state"}
  BY <1>1 DEF L!Put, L!history, LifeFields
<1>3. Proceeds(p) /\ Untold(p)' BY <1>1, PlainAdvance DEF L!Put, Plain, L!Steps
<1>4. (LifeCommands /\ Noted /\ OneInstaller)' BY <1>2, <1>3, CommandsKept
<1>5. \A q \in Procs \ {p} : command'[q] = command[q]
                             /\ \A step : L!At(q, step)' <=> L!At(q, step)
  BY <1>3, AtOthers
<1>6. ASSUME NEW q \in Procs \ {p}, "put" \notin raced,
             NEW step \in {"state", "record", "forget state", "forget record"}
      PROVE  ~ L!At(q, step)
  <2>1. SUFFICES ASSUME L!At(q, step) PROVE FALSE OBVIOUS
  <2>2. command[q].op = "delete" BY <1>1, <2>1, OpOf
  <2>3. QED BY <1>1, <1>6, <2>1, <2>2, Beside
<1>7. HostNamed' BY <1>2, <1>3, <1>5 DEF LifeInv, HostNamed, L!OnHost, Untold, Told
<1>8. LocalNamed' BY <1>1, <1>2, <1>3, <1>5, <1>6 DEF LifeInv, LocalNamed, Untold, Told
<1>9. BearersKnown' BY <1>2, <1>3, <1>5 DEF LifeInv, BearersKnown, Known, Untold, Told
<1>10. LifeFields' /\ WholeDaemon' BY <1>1, <1>2 DEF LifeFields, WholeDaemon
<1>11. QED BY <1>4, <1>7, <1>8, <1>9, <1>10 DEF LifeInv

LEMMA UninstallKeeps ==
  ASSUME LifeInv, NEW p \in Procs, L!Uninstall(p)
  PROVE  LifeInv'
<1>1. LifeFields /\ LifeCommands /\ L!At(p, "uninstall") /\ command[p].op = "delete"
  BY OpOf DEF LifeInv, L!Uninstall
<1>2. UNCHANGED <<record, kept, fresh, raced, given_up, minted, begunCommands>>
      /\ unit' = L!NoDaemon
  BY DEF L!Uninstall, L!history
<1>3. Proceeds(p) /\ \A next : L!At(p, next)' => Follows("uninstall", next)
  BY <1>1, Advanced DEF L!Uninstall
<1>4. (LifeCommands /\ Noted /\ OneInstaller)' BY <1>2, <1>3, CommandsKept
<1>5. \A next \in (Told \cup {"put"}) \ {"secrets"} : ~ L!At(p, next)'
  BY <1>3 DEF Follows, Told
<1>6. \A q \in Procs \ {p} :
        /\ command'[q] = command[q] /\ \A step : L!At(q, step)' <=> L!At(q, step)
        /\ L!At(q, "place") \/ L!At(q, "installed") => "install" \in raced
        /\ L!At(q, "token") \/ L!At(q, "config") => "daemon" \in raced
  BY <1>1, <1>3, AtOthers, Beside
<1>7. L!NoDaemon \in L!Daemons /\ ~ L!NoDaemon.unit /\ ~ L!NoDaemon.home /\ ~ L!NoDaemon.running
  BY DEF L!NoDaemon, L!Daemons
<1>8. ~ L!OnHost' BY <1>2, <1>7 DEF L!OnHost
<1>9. HostNamed' BY <1>2, <1>5, <1>6, <1>8 DEF LifeInv, HostNamed, Told
<1>10. LocalNamed' BY <1>2, <1>5, <1>6 DEF LifeInv, LocalNamed, Told
<1>11. BearersKnown' BY <1>2, <1>5, <1>6, <1>7 DEF BearersKnown, Told
<1>12. LifeFields' /\ WholeDaemon' BY <1>1, <1>2, <1>7 DEF LifeFields, WholeDaemon
<1>13. QED BY <1>4, <1>9, <1>10, <1>11, <1>12 DEF LifeInv

LEMMA UninstallFailsKeeps ==
  ASSUME LifeInv, NEW p \in Procs, L!UninstallFails(p)
  PROVE  LifeInv'
<1>1. LifeFields /\ LifeCommands /\ WholeDaemon /\ unit \in L!Daemons /\ L!At(p, "uninstall")
      /\ command[p].op = "delete" /\ command[p] \in Sessions /\ command[p].todo # <<>>
  BY OpOf DEF LifeInv, LifeFields, LifeCommands, L!UninstallFails, L!At
<1>2. UNCHANGED <<record, kept, fresh, raced, given_up, minted, begunCommands>>
  BY DEF L!UninstallFails, L!history
<1>3. Proceeds(p) /\ Untold(p)'
  <2>1. CASE L!Fail(p) BY <1>1, <2>1, IdleTyped, Stops DEF L!Fail
  <2>2. CASE command' = [command EXCEPT ![p] = L!On(p, L!ForgetSteps)]
    <3> DEFINE new == L!On(p, L!ForgetSteps)
    <3>1. "delete" \in L!Ops /\ L!ForgetSteps \in Lists("delete") BY DEF L!Ops, Lists
    <3>2. L!ForgetSteps \in Rests("delete") /\ L!ForgetSteps \in Seq(L!Steps)
          /\ (L!ForgetSteps # <<>> => Head(L!ForgetSteps) \in StepsOf("delete") \ Told)
      BY <3>1, ListsAreRests
    <3>3. new \in Sessions /\ new.todo = L!ForgetSteps
          /\ (L!ForgetSteps # <<>> => new.op = "delete")
      BY <1>1, <3>2, IdleTyped DEF L!On, Sessions
    <3>4. new.todo \in Rests(new.op) BY <3>2, <3>3 DEF Rests
    <3> HIDE DEF new
    <3>5. command' \in [Procs -> Sessions] /\ command'[p] = new
          /\ \A q \in Procs \ {p} : command'[q] = command[q]
      BY <1>1, <2>2, <3>3 DEF LifeCommands, new
    <3>6. "put" \notin StepsOf("delete") BY DEF StepsOf
    <3>7. Untold(p)' BY <3>2, <3>3, <3>5, <3>6 DEF Untold, L!At
    <3>8. QED BY <1>1, <3>3, <3>4, <3>5, <3>7 DEF Proceeds
  <2>3. QED BY <2>1, <2>2 DEF L!UninstallFails
<1>4. \A u, r \in BOOLEAN : LET new == [unit EXCEPT !.unit = u, !.running = r] IN
        /\ new \in L!Daemons /\ new.unit = u /\ new.home = unit.home
        /\ new.paired = unit.paired /\ new.running = r
        /\ u = unit.unit /\ r = unit.running => new = unit
  BY <1>1 DEF L!Daemons
<1>5. \/ unit' = unit
      \/ \E r \in {FALSE, unit.running} : unit' = [unit EXCEPT !.unit = FALSE, !.running = r]
  BY DEF L!UninstallFails
<1>6. unit' \in L!Daemons /\ unit'.home = unit.home /\ unit'.paired = unit.paired
      /\ (unit'.unit => unit.unit) /\ (unit'.running => unit.running)
  <2>1. CASE unit' = unit BY <1>1, <2>1
  <2>2. CASE unit' # unit
    <3>1. PICK r \in {FALSE, unit.running} : unit' = [unit EXCEPT !.unit = FALSE, !.running = r]
      BY <1>5, <2>2
    <3>2. r \in BOOLEAN /\ (r => unit.running) BY <1>1, <3>1 DEF L!Daemons
    <3>3. QED BY <1>4, <3>1, <3>2, Zenon
  <2>3. QED BY <2>1, <2>2
<1>7. L!OnHost' => L!OnHost BY <1>6 DEF L!OnHost
<1>8. WholeDaemon'
  <2>1. ASSUME unit = L!NoDaemon PROVE unit' = unit
    <3>1. unit.unit = FALSE /\ unit.running = FALSE BY <2>1 DEF L!NoDaemon
    <3>2. \A r \in {FALSE, unit.running} : [unit EXCEPT !.unit = FALSE, !.running = r] = unit
      BY <1>4, <3>1, Zenon
    <3>3. QED BY <1>5, <3>2
  <2>2. QED BY <1>1, <1>6, <2>1 DEF WholeDaemon
<1>9. LifeFields' BY <1>1, <1>2, <1>6 DEF LifeFields
<1>10. QED BY <1>2, <1>3, <1>6, <1>7, <1>8, <1>9, PlainKeeps

\* Secrets, then state, are removed, or the operator is told that they were not.
LEMMA DropKeeps ==
  ASSUME LifeInv, NEW p \in Procs, L!DropLocal(p) \/ L!DropIgnored(p)
  PROVE  LifeInv'
<1>1. LifeFields /\ LifeCommands /\ WholeDaemon BY DEF LifeInv
<1>2. PICK step \in {"secrets", "state", "forget secrets", "forget state", "clean secrets"} :
        /\ L!At(p, step)
        /\ \/ given_up' = given_up /\ step \in {"secrets", "forget secrets", "clean secrets"}
              /\ kept' = kept \ {"secrets"}
           \/ given_up' = given_up /\ step \in {"state", "forget state"}
              /\ kept' = kept \ {"state"}
           \/ given_up' = given_up \cup {"local"} /\ kept' = kept
              /\ step \in {"secrets", "state", "clean secrets"}
  BY DEF L!DropLocal, L!DropIgnored, L!history
<1>3. UNCHANGED <<record, unit, fresh, raced, minted, begunCommands>> /\ L!Advance(p)
  BY DEF L!DropLocal, L!DropIgnored, L!history
<1>4. Proceeds(p) /\ \A next : L!At(p, next)' => Follows(step, next) BY <1>1, <1>2, <1>3, Advanced
<1>5. (LifeCommands /\ Noted /\ OneInstaller)' BY <1>3, <1>4, CommandsKept
<1>6. \A q \in Procs \ {p} : command'[q] = command[q]
                             /\ \A other : L!At(q, other)' <=> L!At(q, other)
  BY <1>4, AtOthers
<1>7. kept' \subseteq kept /\ given_up \subseteq given_up' BY <1>2
<1>8. ~ L!At(p, "place")' /\ ~ L!At(p, "installed")' /\ ~ L!At(p, "put")'
      /\ ~ L!At(p, "token")' /\ ~ L!At(p, "config")' /\ ~ L!At(p, "secrets")'
  BY <1>2, <1>4 DEF Follows
<1>9. L!At(p, "state")' => step = "secrets" BY <1>4 DEF Follows
<1>10. L!At(p, "record")' => step = "state" BY <1>4 DEF Follows
<1>11. L!At(p, "forget state")' => step = "forget secrets" BY <1>4 DEF Follows
<1>12. L!At(p, "forget record")' => step = "forget state" BY <1>4 DEF Follows
<1>13. HostNamed'
  BY <1>2, <1>3, <1>6, <1>7, <1>8, <1>9, <1>10 DEF LifeInv, HostNamed, L!OnHost
<1>14. ASSUME "put" \notin raced, "local" \notin given_up'
       PROVE  /\ L!At(p, "state")' \/ L!At(p, "forget state")' => "secrets" \notin kept'
              /\ L!At(p, "record")' \/ L!At(p, "forget record")' => kept' = {}
  <2>1. "local" \notin given_up /\ given_up' = given_up BY <1>2, <1>14
  <2>2. step \in {"state", "forget state"} => "secrets" \notin kept
    BY <1>2, <1>14, <2>1 DEF LifeInv, LocalNamed
  <2>3. step \in {"state", "forget state"} => kept' = {} BY <1>1, <1>2, <1>14, <2>2 DEF LifeFields
  <2>4. step \in {"secrets", "forget secrets"} => "secrets" \notin kept' BY <1>2, <1>14
  <2>5. QED BY <1>9, <1>10, <1>11, <1>12, <2>3, <2>4
<1>15. LocalNamed' BY <1>3, <1>6, <1>7, <1>8, <1>14 DEF LifeInv, LocalNamed
<1>16. BearersKnown' BY <1>3, <1>6, <1>8 DEF LifeInv, BearersKnown, Known
<1>17. LifeFields' /\ WholeDaemon' BY <1>1, <1>2, <1>3 DEF LifeFields, WholeDaemon
<1>18. QED BY <1>5, <1>13, <1>15, <1>16, <1>17 DEF LifeInv

\* The record goes, at the end of a removal or of one that gave the host up.
LEMMA RecordKeeps ==
  ASSUME LifeInv, NEW p \in Procs, L!DropRecord(p) \/ L!ForgetRecord(p)
  PROVE  LifeInv'
<1>1. LifeFields /\ LifeCommands /\ WholeDaemon BY DEF LifeInv
<1>2. PICK step \in {"record", "forget record"} :
        L!At(p, step) /\ given_up' = IF step = "record" THEN given_up ELSE given_up \cup {"host"}
  BY DEF L!DropRecord, L!ForgetRecord, L!history
<1>3. UNCHANGED <<kept, unit, raced, minted, begunCommands>> /\ L!Advance(p) /\ fresh' = {}
      /\ record' = L!NoRecord
  BY DEF L!DropRecord, L!ForgetRecord, L!WriteRecord, L!history
<1>4. Proceeds(p) /\ Untold(p)'
  BY <1>1, <1>2, <1>3, PlainAdvance DEF Plain, L!Steps
<1>5. (LifeCommands /\ Noted /\ OneInstaller)' BY <1>3, <1>4, CommandsKept
<1>6. command[p].op = "delete" BY <1>1, <1>2, OpOf
<1>7. \A q \in Procs \ {p} :
        /\ command'[q] = command[q] /\ \A other : L!At(q, other)' <=> L!At(q, other)
        /\ L!At(q, "place") \/ L!At(q, "installed") => "install" \in raced
        /\ L!At(q, "put") => "put" \in raced
  BY <1>2, <1>4, <1>6, AtOthers, Beside
<1>8. record' \in L!Records /\ record'.auth = NoBearer BY <1>3, IdleTyped DEF L!NoRecord
<1>9. HostNamed'
  <2>1. ASSUME "install" \notin raced, "host" \notin given_up' PROVE ~ L!OnHost
    BY <1>2, <2>1 DEF LifeInv, HostNamed
  <2>2. given_up \subseteq given_up' BY <1>2
  <2>3. QED BY <1>3, <1>4, <1>7, <2>1, <2>2 DEF LifeInv, HostNamed, L!OnHost, Untold, Told
<1>10. LocalNamed'
  <2>1. "local" \in given_up <=> "local" \in given_up' BY <1>2
  <2>2. ASSUME "put" \notin raced, "local" \notin given_up' PROVE kept = {}
    BY <1>2, <2>1, <2>2 DEF LifeInv, LocalNamed
  <2>3. QED BY <1>3, <1>4, <1>7, <2>1, <2>2 DEF LifeInv, LocalNamed, Untold, Told
<1>11. BearersKnown'
  BY <1>3, <1>4, <1>7, <1>8 DEF LifeInv, BearersKnown, Known, Untold, Told
<1>12. LifeFields' /\ WholeDaemon' BY <1>1, <1>2, <1>3, <1>8 DEF LifeFields, WholeDaemon
<1>13. QED BY <1>5, <1>9, <1>10, <1>11, <1>12 DEF LifeInv

\* The daemon dies, or comes up.
LEMMA FlipKeeps == ASSUME LifeInv, L!DaemonFlips
                   PROVE  LifeInv'
<1>1. LifeFields /\ LifeCommands /\ WholeDaemon /\ unit \in L!Daemons /\ unit.home /\ unit.unit
  BY DEF LifeInv, LifeFields, L!DaemonFlips
<1>2. UNCHANGED <<record, kept, command, fresh, raced, given_up, minted, begunCommands>>
  BY DEF L!DaemonFlips, L!history
<1>3. unit' \in L!Daemons /\ unit'.home = unit.home /\ unit'.paired = unit.paired
  BY <1>1 DEF L!DaemonFlips, L!Daemons
<1>4. (LifeCommands /\ Noted /\ OneInstaller)'
  BY <1>2 DEF LifeInv, LifeCommands, Noted, OneInstaller, L!Busy, L!Class
<1>5. L!OnHost /\ \A q \in Procs : \A step : L!At(q, step)' <=> L!At(q, step)
  BY <1>1, <1>2 DEF L!OnHost, L!At
<1>6. HostNamed' BY <1>2, <1>5 DEF LifeInv, HostNamed
<1>7. LocalNamed' BY <1>2, <1>5 DEF LifeInv, LocalNamed
<1>8. BearersKnown' BY <1>2, <1>3, <1>5 DEF LifeInv, BearersKnown, Known
<1>9. LifeFields' /\ WholeDaemon' BY <1>1, <1>2, <1>3 DEF LifeFields, WholeDaemon
<1>10. QED BY <1>4, <1>6, <1>7, <1>8, <1>9 DEF LifeInv

-----------------------------------------------------------------------------
\* A command begins.
LEMMA CommandBegins ==
  ASSUME LifeInv, L!LifecycleAssumption, NEW p \in Procs, NEW op \in L!Ops, NEW todo \in Lists(op),
         L!Begin(p, op, todo),
         op = "install" => \A q \in L!Busy : command[q].op # "install",
         op \in {"secret", "skill"} => record.kind # "none"
  PROVE  LifeInv'
<1> DEFINE new == [L!Idle EXCEPT !.op = op, !.todo = todo]
<1>1. LifeFields /\ LifeCommands /\ WholeDaemon BY DEF LifeInv
<1>2. UNCHANGED <<record, kept, unit, fresh, minted, given_up>> /\ p \notin L!Busy
      /\ begunCommands < MaxAgentCommands /\ begunCommands' = begunCommands + 1
      /\ command' = [command EXCEPT ![p] = new]
  BY DEF L!Begin
<1>3. todo \in Rests(op) /\ todo \in Seq(L!Steps)
      /\ (todo # <<>> => Head(todo) \in StepsOf(op) \ Told)
  BY ListsAreRests
<1>4. new \in Sessions /\ new.todo = todo /\ new.op = op BY <1>3, IdleTyped DEF Sessions
<1> HIDE DEF new
<1>5. command' \in [Procs -> Sessions] /\ command'[p] = new
      /\ \A q \in Procs \ {p} : command'[q] = command[q]
  BY <1>1, <1>2, <1>4 DEF LifeCommands
<1>6. LifeCommands' BY <1>1, <1>3, <1>4, <1>5 DEF LifeCommands
<1>7. raced' = raced \cup (IF \E q \in L!Busy : L!Deleting(q) THEN {L!Class(op)} ELSE {})
                     \cup (IF op = "delete" THEN {L!Class(command[q].op) : q \in L!Busy} ELSE {})
  BY DEF L!Begin
<1>8. \A q \in Procs : L!Class(command[q].op) \in {"put", "install", "delete", "daemon"}
      /\ L!Class(op) \in {"put", "install", "delete", "daemon"}
  BY DEF L!Class
<1>9. raced \subseteq raced' /\ raced' \subseteq {"install", "put", "daemon", "delete"}
  <2>1. L!Busy \subseteq Procs BY DEF L!Busy
  <2>2. QED BY <1>1, <1>7, <1>8, <2>1 DEF LifeFields
<1>10. \A q \in L!Busy' : q # p => q \in L!Busy /\ command'[q].op = command[q].op
  BY <1>5 DEF L!Busy
<1>11. Noted'
  <2>1. SUFFICES ASSUME NEW a \in L!Busy', NEW b \in L!Busy', a # b, command'[a].op = "delete"
                 PROVE  L!Class(command'[b].op) \in raced'
    BY DEF Noted, L!Class
  <2>2. CASE a = p
    <3>1. op = "delete" /\ b \in L!Busy /\ command'[b].op = command[b].op
      BY <1>4, <1>5, <1>10, <2>1, <2>2
    <3>2. L!Class(command[b].op) \in raced' BY <1>7, <3>1
    <3>3. QED BY <3>1, <3>2
  <2>3. CASE b = p
    <3>1. a \in L!Busy /\ L!Deleting(a) BY <1>10, <2>1, <2>3 DEF L!Deleting
    <3>2. L!Class(op) \in raced' BY <1>7, <3>1
    <3>3. QED BY <1>4, <1>5, <2>3, <3>2
  <2>4. CASE a # p /\ b # p
    <3>1. a \in L!Busy /\ b \in L!Busy /\ command[a].op = "delete"
          /\ command'[b].op = command[b].op
      BY <1>10, <2>1, <2>4
    <3>2. L!Class(command[b].op) \in raced BY <2>1, <3>1 DEF LifeInv, Noted
    <3>3. QED BY <1>9, <3>1, <3>2
  <2>5. QED BY <2>2, <2>3, <2>4
<1>12. OneInstaller' BY <1>4, <1>5, <1>10 DEF LifeInv, OneInstaller
<1>13. \A next \in Told : ~ L!At(p, next)' BY <1>3, <1>4, <1>5 DEF L!At
<1>14. L!At(p, "put")' => op \in {"secret", "skill"}
  <2>1. ASSUME L!At(p, "put")' PROVE "put" \in StepsOf(op) BY <1>3, <1>4, <1>5, <2>1 DEF L!At
  <2>2. QED BY <2>1 DEF StepsOf, L!Ops
<1>15. \A q \in Procs \ {p} : \A step : L!At(q, step)' <=> L!At(q, step) BY <1>5 DEF L!At
<1>16. HostNamed' BY <1>2, <1>9, <1>13, <1>15 DEF LifeInv, HostNamed, L!OnHost, Told
<1>17. LocalNamed' BY <1>2, <1>9, <1>13, <1>14, <1>15 DEF LifeInv, LocalNamed, Told
<1>18. BearersKnown'
  BY <1>2, <1>5, <1>9, <1>13, <1>15 DEF LifeInv, BearersKnown, Known, Told
<1>19. LifeFields' /\ WholeDaemon'
  BY <1>1, <1>2, <1>9 DEF LifeFields, WholeDaemon, L!LifecycleAssumption
<1>20. QED BY <1>6, <1>11, <1>12, <1>16, <1>17, <1>18, <1>19 DEF LifeInv

\* Every command begins with its list.
LEMMA BeginsKeep ==
  ASSUME LifeInv, L!LifecycleAssumption, NEW p \in Procs,
         \/ L!BeginInstall(p) \/ L!BeginCleanup(p)
         \/ L!BeginStart(p) \/ L!BeginStop(p) \/ L!BeginRestart(p)
         \/ L!BeginSync(p) \/ L!BeginConfigure(p) \/ L!BeginDelete(p)
         \/ \E op \in {"secret", "skill"} : L!BeginPut(p, op)
  PROVE  LifeInv'
<1>1. \A op \in L!Ops : op # "none" =>
        op \in {"install", "start", "stop", "restart", "sync", "configure", "secret", "skill",
                "delete"}
  BY DEF L!Ops
<1>2. {"install", "start", "stop", "restart", "sync", "configure", "secret", "skill", "delete"}
        \subseteq L!Ops
  BY DEF L!Ops
<1>3. L!Typed => record.kind # "none" BY DEF L!Typed
<1>4. CASE L!BeginInstall(p)
  <2>1. L!InstallSteps \in Lists("install") BY DEF Lists
  <2>2. QED BY <1>2, <1>4, <2>1, CommandBegins DEF L!BeginInstall, L!NoneInstalling
<1>5. CASE L!BeginStart(p)
  <2>1. L!StartSteps \in Lists("start") BY DEF Lists
  <2>2. QED BY <1>2, <1>5, <2>1, CommandBegins DEF L!BeginStart
<1>6. CASE L!BeginStop(p)
  <2>1. L!StopSteps \in Lists("stop") BY DEF Lists
  <2>2. QED BY <1>2, <1>6, <2>1, CommandBegins DEF L!BeginStop
<1>7. CASE L!BeginRestart(p)
  <2>1. L!StopSteps \o L!StartSteps \in Lists("restart") BY DEF Lists
  <2>2. QED BY <1>2, <1>7, <2>1, CommandBegins DEF L!BeginRestart
<1>8. CASE L!BeginSync(p)
  <2>1. L!SyncSteps \in Lists("sync") BY DEF Lists
  <2>2. QED BY <1>2, <1>8, <2>1, CommandBegins DEF L!BeginSync
<1>9. CASE L!BeginConfigure(p)
  <2>1. L!ConfigureSteps \in Lists("configure") BY DEF Lists
  <2>2. QED BY <1>2, <1>9, <2>1, CommandBegins DEF L!BeginConfigure
<1>10. CASE L!BeginDelete(p)
  <2>1. L!RemoveSteps(record.runtime = "running") \in Lists("delete")
    <3>1. CASE record.runtime = "running" BY <3>1 DEF Lists
    <3>2. CASE record.runtime # "running" BY <3>2 DEF Lists
    <3>3. QED BY <3>1, <3>2
  <2>2. QED BY <1>2, <1>10, <2>1, CommandBegins DEF L!BeginDelete
<1>11. CASE \E op \in {"secret", "skill"} : L!BeginPut(p, op)
  <2>1. PICK op \in {"secret", "skill"} : L!BeginPut(p, op) BY <1>11
  <2>2. <<"put">> \in Lists(op) BY DEF Lists
  <2>3. QED BY <1>2, <1>3, <2>1, <2>2, CommandBegins DEF L!BeginPut
<1>12. CASE L!BeginCleanup(p)
  <2>1. PICK todo \in {L!AnewSteps, L!CleanSteps, L!CleanAnewSteps} : L!Begin(p, "install", todo)
    BY <1>12 DEF L!BeginCleanup
  <2>2. todo \in Lists("install") BY DEF Lists
  <2>3. \A q \in L!Busy : command[q].op # "install" BY <1>12 DEF L!BeginCleanup, L!NoneInstalling
  <2>4. QED BY <1>2, <2>1, <2>2, <2>3, CommandBegins
<1>13. QED BY <1>4, <1>5, <1>6, <1>7, <1>8, <1>9, <1>10, <1>11, <1>12

-----------------------------------------------------------------------------
LEMMA LifeStart == ASSUME L!Init, L!LifecycleAssumption
                   PROVE  LifeInv
<1>1. LifeFields
  BY IdleTyped DEF LifeFields, L!Init, L!NoDaemon, L!Daemons, L!LifecycleAssumption
<1>2. LifeCommands BY IdleTyped DEF LifeCommands, L!Init
<1>3. L!Busy = {} /\ \A p \in Procs : \A step : ~ L!At(p, step)
  BY IdleTyped DEF L!Busy, L!At, L!Init
<1>4. Noted /\ OneInstaller BY <1>3 DEF Noted, OneInstaller
<1>5. ~ L!OnHost /\ WholeDaemon BY DEF L!OnHost, WholeDaemon, L!Init, L!NoDaemon
<1>6. HostNamed BY <1>3, <1>5 DEF HostNamed
<1>7. LocalNamed BY <1>3 DEF LocalNamed, L!Init
<1>8. BearersKnown BY <1>3 DEF BearersKnown, Known, L!Init, L!NoRecord
<1>9. QED BY <1>1, <1>2, <1>4, <1>5, <1>6, <1>7, <1>8 DEF LifeInv

LEMMA LifeStep == ASSUME LifeInv, L!Next, L!LifecycleAssumption
                  PROVE  LifeInv'
<1>1. CASE L!DaemonFlips BY <1>1, FlipKeeps
<1>2. ASSUME NEW p \in Procs,
             \/ L!BeginInstall(p) \/ L!BeginCleanup(p)
             \/ L!BeginStart(p) \/ L!BeginStop(p) \/ L!BeginRestart(p)
             \/ L!BeginSync(p) \/ L!BeginConfigure(p) \/ L!BeginDelete(p)
             \/ \E op \in {"secret", "skill"} : L!BeginPut(p, op)
      PROVE  LifeInv'
  BY <1>2, BeginsKeep
<1>3. ASSUME NEW p \in Procs,
             \/ L!Gate(p) \/ L!Probe(p) \/ L!SkipReload(p) \/ L!ReadBearer(p) \/ L!Look(p)
             \/ L!PairRefused(p) \/ L!StopIgnored(p) \/ L!Stop(p)
      PROVE  LifeInv'
  BY <1>3, LooksKeep
<1>4. ASSUME NEW p \in Procs, L!StartDaemon(p) \/ L!StopDaemon(p) PROVE LifeInv'
  BY <1>4, DaemonKeeps
<1>5. ASSUME NEW p \in Procs,
             \/ L!WriteRuntime(p, "running", "running") \/ L!WriteRuntime(p, "stopped", "stopped")
             \/ L!InstallFails(p) \/ L!MarkReady(p)
      PROVE  LifeInv'
  BY <1>5, WritesKeep
<1>6. ASSUME NEW p \in Procs, L!Clean(p) \/ L!Claim(p) \/ L!Place(p) \/ L!Installed(p)
      PROVE  LifeInv'
  BY <1>6, CleanKeeps, ClaimKeeps, PlaceKeeps, InstalledKeeps
<1>7. ASSUME NEW p \in Procs, L!Pair(p) \/ L!WriteBearer(p) \/ L!Put(p) PROVE LifeInv'
  BY <1>7, PairingKeeps, WriteBearerKeeps, PutKeeps
<1>8. ASSUME NEW p \in Procs, L!Uninstall(p) \/ L!UninstallFails(p) PROVE LifeInv'
  BY <1>8, UninstallKeeps, UninstallFailsKeeps
<1>9. ASSUME NEW p \in Procs, L!DropLocal(p) \/ L!DropIgnored(p) PROVE LifeInv'
  BY <1>9, DropKeeps
<1>10. ASSUME NEW p \in Procs, L!DropRecord(p) \/ L!ForgetRecord(p) PROVE LifeInv'
  BY <1>10, RecordKeeps
<1>11. QED
  BY <1>1, <1>2, <1>3, <1>4, <1>5, <1>6, <1>7, <1>8, <1>9, <1>10 DEF L!Next

LEMMA LifeStutter == ASSUME LifeInv, UNCHANGED lifecycleVars
                     PROVE  LifeInv'
<1>1. UNCHANGED <<record, kept, unit, command, fresh, minted, raced, given_up, begunCommands>>
  BY DEF lifecycleVars
<1>2. (LifeFields /\ WholeDaemon)' BY <1>1 DEF LifeInv, LifeFields, WholeDaemon
<1>3. (LifeCommands /\ Noted /\ OneInstaller)'
  BY <1>1 DEF LifeInv, LifeCommands, Noted, OneInstaller, L!Busy, L!Class
<1>4. \A q \in Procs : \A step : L!At(q, step)' <=> L!At(q, step) BY <1>1 DEF L!At
<1>5. (HostNamed /\ LocalNamed /\ BearersKnown)'
  BY <1>1, <1>4 DEF LifeInv, HostNamed, LocalNamed, BearersKnown, Known, L!OnHost
<1>6. QED BY <1>2, <1>3, <1>5 DEF LifeInv

-----------------------------------------------------------------------------
(***************************************************************************)
(* Onboarding.  Whatever a process read when it began, the calls it still  *)
(* has to make are in an order in which no "go" comes before what it rests *)
(* on, unless that has been done.                                          *)
(***************************************************************************)
CallsOK == {call \in O!Calls : call.op = "go" => call.arg \in O!States}
WalkTypes == [kind : {"none", "installed", "stage", "providers", "canonical"},
          todo : Seq(CallsOK), checked : BOOLEAN, said : {"nothing", "ok"}]
\* In a list of calls, none of `later` is without one of `earlier` before it.
Preceded(todo, later, earlier) ==
  \A k \in 1 .. Len(todo) :
    todo[k] \in later => \E j \in 1 .. k - 1 : todo[j] \in earlier

GoTo(stages) == {O!Call("go", s) : s \in stages}
Pushed == {O!Call("configure", "-")}
SettleProviders == {O!Call("complete", "providers"), O!Call("patch", "providers")}
SettleIdentity == {O!Call("skip", "identity"), O!Call("refuse", "-")}
Open(s) == onboarding.stages[s] = "pending"

WalkFields ==
  /\ onboarding \in O!OnboardingRecords
  /\ provided \in BOOLEAN /\ configured \in BOOLEAN /\ reset \in BOOLEAN
  /\ overlapped \subseteq Procs /\ begunWalks \in 0 .. MaxWalkCommands
WalkCalls ==
  /\ walk \in [Procs -> WalkTypes]
  /\ \A p \in Procs : walk[p].checked =>
       walk[p].todo # <<>> /\ Head(walk[p].todo).op \in O!CheckedOps
\* What is sure of the record while nobody has wiped it under a walk.
RecordEarned ==
  /\ onboarding.state = "ready" => configured \/ O!Stages \subseteq Skippable
  /\ onboarding.state \in {"identity", "channels", "validate"} => ~ Open("providers")
  /\ onboarding.state \in {"channels", "validate"} /\ "identity" \in Manual => ~ Open("identity")
InOrder(todo) ==
  /\ ~ configured => Preceded(todo, GoTo({"ready"}), Pushed)
  /\ Open("providers") =>
       Preceded(todo, GoTo({"identity", "channels", "validate"}), SettleProviders)
  /\ Open("identity") /\ "identity" \in Manual =>
       Preceded(todo, GoTo({"channels", "validate"}), SettleIdentity)
WalkInv ==
  /\ WalkFields /\ WalkCalls
  /\ onboarding.state = "none" => onboarding = O!NoRecord
  /\ ~ reset => RecordEarned /\ \A p \in Procs : InOrder(walk[p].todo)
\* The onboarding that an installation keeps in memory was earned as well.
AsideInv ==
  LET laid == aside.onboarding IN
  /\ install \in {"installed", "installing", "failed"}
  /\ aside \in [onboarding : O!OnboardingRecords, attached : BOOLEAN]
  /\ ~ reset =>
       /\ laid.state = "ready" => configured \/ O!Stages \subseteq Skippable
       /\ laid.state \in {"identity", "channels", "validate"} => laid.stages["providers"] # "pending"
       /\ laid.state \in {"channels", "validate"} /\ "identity" \in Manual =>
            laid.stages["identity"] # "pending"

-----------------------------------------------------------------------------
(***************************************************************************)
(* Lists of calls.                                                         *)
(***************************************************************************)
Has(todo, calls) == \E k \in 1 .. Len(todo) : todo[k] \in calls

LEMMA PrecededNone ==
  ASSUME NEW S, NEW todo \in Seq(S), NEW later, NEW earlier, S \cap later = {}
  PROVE  Preceded(todo, later, earlier)
  BY DEF Preceded

LEMMA PrecededTail ==
  ASSUME NEW S, NEW todo \in Seq(S), todo # <<>>, NEW later, NEW earlier,
         Preceded(todo, later, earlier), Head(todo) \notin earlier
  PROVE  Preceded(Tail(todo), later, earlier)
<1>1. Len(Tail(todo)) = Len(todo) - 1 /\ Head(todo) = todo[1]
      /\ \A k \in 1 .. Len(Tail(todo)) : Tail(todo)[k] = todo[k + 1]
  BY HeadTailProperties
<1>2. SUFFICES ASSUME NEW k \in 1 .. Len(Tail(todo)), Tail(todo)[k] \in later
               PROVE  \E j \in 1 .. k - 1 : Tail(todo)[j] \in earlier
  BY DEF Preceded
<1>3. k + 1 \in 1 .. Len(todo) /\ todo[k + 1] \in later BY <1>1, <1>2
<1>4. PICK j \in 1 .. k + 1 - 1 : todo[j] \in earlier BY <1>3 DEF Preceded
<1>5. j # 1 BY <1>1, <1>4
<1>6. j - 1 \in 1 .. k - 1 /\ Tail(todo)[j - 1] = todo[j] BY <1>1, <1>2, <1>4, <1>5
<1>7. QED BY <1>4, <1>6

LEMMA PrecededConcat ==
  ASSUME NEW S, NEW a \in Seq(S), NEW b \in Seq(S), NEW later, NEW earlier,
         Preceded(a, later, earlier), Has(a, earlier) \/ Preceded(b, later, earlier)
  PROVE  Preceded(a \o b, later, earlier)
<1> DEFINE c == a \o b
<1>1. Len(c) = Len(a) + Len(b) /\ (\A k \in 1 .. Len(a) : c[k] = a[k])
      /\ \A k \in 1 .. Len(b) : c[Len(a) + k] = b[k]
  OBVIOUS
<1> HIDE DEF c
<1>2. SUFFICES ASSUME NEW k \in 1 .. Len(c), c[k] \in later
               PROVE  \E j \in 1 .. k - 1 : c[j] \in earlier
  BY DEF Preceded, c
<1>3. CASE k \in 1 .. Len(a)
  <2>1. PICK j \in 1 .. k - 1 : a[j] \in earlier BY <1>1, <1>2, <1>3 DEF Preceded
  <2>2. j \in 1 .. Len(a) BY <1>3, <2>1
  <2>3. QED BY <1>1, <2>1, <2>2
<1>4. CASE k \notin 1 .. Len(a)
  <2>1. k > Len(a) BY <1>1, <1>2, <1>4
  <2>2. CASE Has(a, earlier)
    <3>1. PICK j \in 1 .. Len(a) : a[j] \in earlier BY <2>2 DEF Has
    <3>2. j \in 1 .. k - 1 /\ c[j] = a[j] BY <1>1, <2>1, <3>1
    <3>3. QED BY <3>1, <3>2
  <2>3. CASE Preceded(b, later, earlier)
    <3>1. k - Len(a) \in 1 .. Len(b) /\ c[k] = b[k - Len(a)]
      <4>1. k - Len(a) \in 1 .. Len(b) BY <1>1, <1>2, <2>1
      <4>2. c[Len(a) + (k - Len(a))] = b[k - Len(a)] BY <1>1, <4>1
      <4>3. QED BY <4>1, <4>2
    <3>2. PICK j \in 1 .. k - Len(a) - 1 : b[j] \in earlier BY <1>2, <2>3, <3>1 DEF Preceded
    <3>3. Len(a) + j \in 1 .. k - 1 /\ j \in 1 .. Len(b) BY <3>1, <3>2, <2>1
    <3>4. c[Len(a) + j] = b[j] BY <1>1, <3>3
    <3>5. QED BY <3>2, <3>3, <3>4
  <2>4. QED BY <2>2, <2>3
<1>5. QED BY <1>3, <1>4

LEMMA HasConcat ==
  ASSUME NEW S, NEW a \in Seq(S), NEW b \in Seq(S), NEW calls, Has(a, calls) \/ Has(b, calls)
  PROVE  Has(a \o b, calls)
<1> DEFINE c == a \o b
<1>1. Len(c) = Len(a) + Len(b) /\ (\A k \in 1 .. Len(a) : c[k] = a[k])
      /\ \A k \in 1 .. Len(b) : c[Len(a) + k] = b[k]
  OBVIOUS
<1> HIDE DEF c
<1>2. CASE Has(a, calls)
  <2>1. PICK k \in 1 .. Len(a) : a[k] \in calls BY <1>2 DEF Has
  <2>2. k \in 1 .. Len(c) BY <1>1, <2>1
  <2>3. QED BY <1>1, <2>1, <2>2 DEF Has, c
<1>3. CASE Has(b, calls)
  <2>1. PICK k \in 1 .. Len(b) : b[k] \in calls BY <1>3 DEF Has
  <2>2. Len(a) + k \in 1 .. Len(c) /\ c[Len(a) + k] = b[k] BY <1>1, <2>1
  <2>3. QED BY <2>1, <2>2 DEF Has, c
<1>4. QED BY <1>2, <1>3

\* A call in the place of the first.
LEMMA PrecededSwap ==
  ASSUME NEW S, NEW todo \in Seq(S), todo # <<>>, NEW later, NEW earlier, NEW call \in S,
         Preceded(todo, later, earlier), call \notin later,
         Head(todo) \in earlier => call \in earlier
  PROVE  Preceded(<<call>> \o Tail(todo), later, earlier)
<1>1. <<call>> \in Seq({call}) /\ <<call>> \in Seq(S) /\ Len(<<call>>) = 1 /\ <<call>>[1] = call
  OBVIOUS
<1>2. Preceded(<<call>>, later, earlier)
  <2>1. {call} \cap later = {} OBVIOUS
  <2>2. QED BY <1>1, <2>1, PrecededNone
<1>3. Head(todo) \in earlier => Has(<<call>>, earlier) BY <1>1 DEF Has
<1>4. Tail(todo) \in Seq(S) BY HeadTailProperties
<1>5. Head(todo) \notin earlier => Preceded(Tail(todo), later, earlier) BY PrecededTail
<1> HIDE DEF Preceded, Has
<1>6. QED BY <1>1, <1>2, <1>3, <1>4, <1>5, PrecededConcat

-----------------------------------------------------------------------------
(***************************************************************************)
(* The lists that commands begin with.                                     *)
(***************************************************************************)
LEMMA CallIn ==
  ASSUME NEW op \in O!Ops, NEW arg \in O!States \cup {"-"}, op = "go" => arg \in O!States
  PROVE  O!Call(op, arg) \in CallsOK /\ O!Call(op, arg).op = op /\ O!Call(op, arg).arg = arg
  BY DEF O!Call, O!Calls, CallsOK

\* One call.
LEMMA Single ==
  ASSUME NEW S, NEW call \in S
  PROVE  <<call>> \in Seq(S) /\ Has(<<call>>, {call})
<1>1. <<call>> \in Seq(S) /\ Len(<<call>>) = 1 /\ <<call>>[1] = call OBVIOUS
<1>2. QED BY <1>1 DEF Has

LEMMA Double ==
  ASSUME NEW S, NEW a \in S, NEW b \in S, NEW later, NEW earlier
  PROVE  /\ <<a, b>> \in Seq(S) /\ Has(<<a, b>>, {a})
         /\ a \notin later /\ (a \in earlier \/ b \notin later) => Preceded(<<a, b>>, later, earlier)
<1>1. <<a, b>> \in Seq(S) /\ Len(<<a, b>>) = 2 /\ <<a, b>>[1] = a /\ <<a, b>>[2] = b OBVIOUS
<1>2. Has(<<a, b>>, {a}) BY <1>1 DEF Has
<1>3. ASSUME a \notin later, a \in earlier \/ b \notin later PROVE Preceded(<<a, b>>, later, earlier)
  <2> DEFINE u == <<a, b>>
  <2>1. Len(u) = 2 /\ u[1] = a /\ u[2] = b BY <1>1
  <2> HIDE DEF u
  <2>2. SUFFICES ASSUME NEW k \in 1 .. 2, u[k] \in later PROVE \E j \in 1 .. k - 1 : u[j] \in earlier
    BY <2>1 DEF Preceded, u
  <2>3. k = 2 BY <1>3, <2>1, <2>2
  <2>4. 1 \in 1 .. k - 1 /\ u[1] \in earlier BY <1>3, <2>1, <2>2, <2>3
  <2>5. QED BY <2>4
<1>4. QED BY <1>1, <1>2, <1>3

\* Nothing that is rested on is missing in a list without "go".
LEMMA NoGoInOrder ==
  ASSUME NEW S, NEW todo \in Seq(S), \A call \in S : call.op # "go"
  PROVE  InOrder(todo)
<1>1. \A s : O!Call("go", s).op = "go" BY DEF O!Call
<1>2. \A stages : S \cap GoTo(stages) = {} BY <1>1 DEF GoTo
<1> HIDE DEF GoTo
<1>3. \A stages, earlier : Preceded(todo, GoTo(stages), earlier) BY <1>2, PrecededNone
<1>4. QED BY <1>3 DEF InOrder

LEMMA EmptyInOrder == InOrder(<<>>)
  BY DEF InOrder, Preceded

\* The calls that are made once the playbook is to run.
LEMMA ReadyInOrder ==
  /\ O!ConfigureThenReady \in Seq(CallsOK)
  /\ InOrder(O!ConfigureThenReady)
<1> DEFINE a == O!Call("configure", "-")
           b == O!Call("go", "ready")
<1>1. a \in CallsOK /\ a.op = "configure" /\ b \in CallsOK /\ b.op = "go" /\ b.arg = "ready"
  BY CallIn DEF O!Ops, O!CheckedOps, O!States, O!Stages
<1>2. O!ConfigureThenReady = <<a, b>> /\ a \in Pushed BY DEF O!ConfigureThenReady, Pushed
<1>3. \A stages : a \notin GoTo(stages) BY <1>1 DEF GoTo, O!Call
<1>4. "ready" \notin {"identity", "channels", "validate"} /\ "ready" \notin {"channels", "validate"}
  OBVIOUS
<1>5. b \notin GoTo({"identity", "channels", "validate"}) /\ b \notin GoTo({"channels", "validate"})
  BY <1>1, <1>4 DEF GoTo, O!Call
<1> HIDE DEF a, b, GoTo, Pushed
<1>6. /\ <<a, b>> \in Seq(CallsOK)
      /\ Preceded(<<a, b>>, GoTo({"ready"}), Pushed)
      /\ Preceded(<<a, b>>, GoTo({"identity", "channels", "validate"}), SettleProviders)
      /\ Preceded(<<a, b>>, GoTo({"channels", "validate"}), SettleIdentity)
  BY <1>1, <1>2, <1>3, <1>5, Double
<1>7. QED BY <1>2, <1>6 DEF InOrder

\* How a stage is settled.
Visits(s) == {O!Call("go", s), O!Call("skip", s), O!Call("complete", s), O!Call("refuse", "-")}
LEMMA VisitCalls ==
  ASSUME NEW s \in {"identity", "channels", "validate"}, NEW seen
  PROVE  /\ O!Visit(s, seen) \in Seq(Visits(s))
         /\ s = "identity" /\ "identity" \in Manual /\ seen["identity"] = "pending" =>
              Has(O!Visit(s, seen), SettleIdentity)
<1> DEFINE go == O!Call("go", s)
           skip == O!Call("skip", s)
           complete == O!Call("complete", s)
           refuse == O!Call("refuse", "-")
           rest == IF s \in Skippable THEN <<skip>>
                   ELSE IF s \notin Manual THEN <<complete>>
                   ELSE IF seen[s] = "pending" THEN <<refuse>> ELSE <<>>
<1>1. O!Visit(s, seen) = <<go>> \o rest BY DEF O!Visit
<1>2. go \in Visits(s) /\ skip \in Visits(s) /\ complete \in Visits(s) /\ refuse \in Visits(s)
  BY DEF Visits
<1>3. s = "identity" => skip \in SettleIdentity /\ refuse \in SettleIdentity BY DEF SettleIdentity
<1> HIDE DEF go, skip, complete, refuse, Visits, SettleIdentity
<1>4. \A call \in Visits(s) : <<call>> \in Seq(Visits(s)) /\ Len(<<call>>) = 1 /\ <<call>>[1] = call
  OBVIOUS
<1>5. <<go>> \in Seq(Visits(s)) /\ rest \in Seq(Visits(s)) BY <1>2, <1>4
<1>6. ASSUME s = "identity", "identity" \in Manual, seen["identity"] = "pending"
      PROVE  Has(rest, SettleIdentity)
  <2>1. rest \in {<<skip>>, <<refuse>>} BY <1>6
  <2>2. \E call \in {skip, refuse} : rest = <<call>> BY <2>1
  <2>3. PICK call \in {skip, refuse} : rest = <<call>> BY <2>2
  <2>4. Len(rest) = 1 /\ rest[1] = call BY <1>2, <1>4, <2>3
  <2>5. 1 \in 1 .. Len(rest) /\ rest[1] \in SettleIdentity BY <1>3, <1>6, <2>3, <2>4
  <2>6. QED BY <2>5 DEF Has
<1> HIDE DEF rest
<1>7. <<go>> \o rest \in Seq(Visits(s)) BY <1>5
<1>8. Has(rest, SettleIdentity) => Has(<<go>> \o rest, SettleIdentity) BY <1>5, HasConcat
<1>9. QED BY <1>1, <1>6, <1>7, <1>8

LEMMA VisitOK ==
  ASSUME NEW s \in {"identity", "channels", "validate"}
  PROVE  /\ Visits(s) \subseteq CallsOK
         /\ Visits(s) \cap GoTo({"ready"}) = {}
         /\ s = "identity" => Visits(s) \cap GoTo({"channels", "validate"}) = {}
<1>1. /\ O!Call("go", s) \in CallsOK /\ O!Call("go", s).op = "go" /\ O!Call("go", s).arg = s
      /\ O!Call("skip", s) \in CallsOK /\ O!Call("skip", s).op = "skip"
      /\ O!Call("complete", s) \in CallsOK /\ O!Call("complete", s).op = "complete"
      /\ O!Call("refuse", "-") \in CallsOK /\ O!Call("refuse", "-").op = "refuse"
  BY CallIn DEF O!Ops, O!CheckedOps, O!States, O!Stages
<1>2. \A x : O!Call("go", x).op = "go" /\ O!Call("go", x).arg = x BY DEF O!Call
<1>3. Visits(s) \subseteq CallsOK BY <1>1 DEF Visits
<1>4. ASSUME NEW stages, s \notin stages PROVE Visits(s) \cap GoTo(stages) = {}
  BY <1>1, <1>2, <1>4 DEF Visits, GoTo
<1>5. s \notin {"ready"} /\ (s = "identity" => s \notin {"channels", "validate"}) OBVIOUS
<1>6. QED BY <1>3, <1>4, <1>5

LEMMA SeqWider == ASSUME NEW S, NEW T, S \subseteq T, NEW s \in Seq(S)
                  PROVE  s \in Seq(T)
  OBVIOUS

\* The whole walk, as sync_agent decides it on the stages it has read.
LEMMA WalkInOrder ==
  /\ O!Walk(onboarding.stages) \in Seq(CallsOK)
  /\ InOrder(O!Walk(onboarding.stages))
<1> DEFINE seen == onboarding.stages
           complete == O!Call("complete", "providers")
           go == O!Call("go", "providers")
           a == <<complete, go>>
           v == O!Visit("identity", seen)
           w == O!Visit("channels", seen)
           x == O!Visit("validate", seen)
           z == O!ConfigureThenReady
<1>1. O!Walk(seen) = a \o v \o w \o x \o z BY DEF O!Walk
<1>2. complete \in CallsOK /\ complete.op = "complete" /\ go \in CallsOK /\ go.op = "go"
      /\ go.arg = "providers"
  BY CallIn DEF O!Ops, O!CheckedOps, O!States, O!Stages
<1>3. complete \in SettleProviders BY DEF SettleProviders
<1>4. \A y : O!Call("go", y).op = "go" /\ O!Call("go", y).arg = y BY DEF O!Call
<1>5. ASSUME NEW stages, "providers" \notin stages
      PROVE  complete \notin GoTo(stages) /\ go \notin GoTo(stages)
  BY <1>2, <1>4, <1>5 DEF GoTo
<1> HIDE DEF complete, go
<1>6. a \in Seq(CallsOK) /\ Has(a, SettleProviders)
      /\ \A stages, earlier : "providers" \notin stages => Preceded(a, GoTo(stages), earlier)
  <2>1. a \in Seq(CallsOK) /\ Has(a, {complete}) BY <1>2, Double
  <2>2. Has(a, SettleProviders) BY <1>3, <2>1 DEF Has
  <2>3. ASSUME NEW stages, NEW earlier, "providers" \notin stages
        PROVE  Preceded(a, GoTo(stages), earlier)
    BY <1>2, <1>5, <2>3, Double
  <2>4. QED BY <2>1, <2>2, <2>3
<1>7. v \in Seq(Visits("identity")) /\ w \in Seq(Visits("channels")) /\ x \in Seq(Visits("validate"))
      /\ ("identity" \in Manual /\ Open("identity") => Has(v, SettleIdentity))
  BY VisitCalls DEF Open
<1>8. v \in Seq(CallsOK) /\ w \in Seq(CallsOK) /\ x \in Seq(CallsOK) /\ z \in Seq(CallsOK)
  BY <1>7, VisitOK, SeqWider, ReadyInOrder
<1> DEFINE b == a \o v
           c == b \o w
           d == c \o x
<1> HIDE DEF a, v, w, x, z
<1>9. b \in Seq(CallsOK) /\ c \in Seq(CallsOK) /\ d \in Seq(CallsOK) /\ d \o z \in Seq(CallsOK)
  BY <1>6, <1>8
<1>10. ASSUME ~ configured PROVE Preceded(d \o z, GoTo({"ready"}), Pushed)
  <2>1. Preceded(a, GoTo({"ready"}), Pushed) BY <1>6
  <2>2. Preceded(v, GoTo({"ready"}), Pushed) /\ Preceded(w, GoTo({"ready"}), Pushed)
        /\ Preceded(x, GoTo({"ready"}), Pushed)
    BY <1>7, VisitOK, PrecededNone
  <2>3. Preceded(z, GoTo({"ready"}), Pushed) BY <1>10, ReadyInOrder DEF InOrder, z
  <2> HIDE DEF b, c, d
  <2>4. Preceded(b, GoTo({"ready"}), Pushed) BY <1>6, <1>8, <2>1, <2>2, PrecededConcat DEF b
  <2>5. Preceded(c, GoTo({"ready"}), Pushed) BY <1>8, <1>9, <2>2, <2>4, PrecededConcat DEF c
  <2>6. Preceded(d, GoTo({"ready"}), Pushed) BY <1>8, <1>9, <2>2, <2>5, PrecededConcat DEF d
  <2>7. QED BY <1>8, <1>9, <2>3, <2>6, PrecededConcat
<1>11. Preceded(d \o z, GoTo({"identity", "channels", "validate"}), SettleProviders)
  <2> DEFINE later == GoTo({"identity", "channels", "validate"})
  <2>1. Preceded(a, later, SettleProviders) /\ Has(a, SettleProviders) BY <1>6
  <2> HIDE DEF b, c, d, later
  <2>2. Preceded(b, later, SettleProviders) /\ Has(b, SettleProviders)
    BY <1>6, <1>8, <2>1, PrecededConcat, HasConcat DEF b
  <2>3. Preceded(c, later, SettleProviders) /\ Has(c, SettleProviders)
    BY <1>8, <1>9, <2>2, PrecededConcat, HasConcat DEF c
  <2>4. Preceded(d, later, SettleProviders) /\ Has(d, SettleProviders)
    BY <1>8, <1>9, <2>3, PrecededConcat, HasConcat DEF d
  <2>5. Preceded(d \o z, later, SettleProviders) BY <1>8, <1>9, <2>4, PrecededConcat
  <2>6. QED BY <2>5 DEF later
<1>12. ASSUME Open("identity"), "identity" \in Manual
       PROVE  Preceded(d \o z, GoTo({"channels", "validate"}), SettleIdentity)
  <2> DEFINE later == GoTo({"channels", "validate"})
  <2>1. Preceded(a, later, SettleIdentity) BY <1>6
  <2>2. Preceded(v, later, SettleIdentity) BY <1>7, VisitOK, PrecededNone
  <2>3. Has(v, SettleIdentity) BY <1>7, <1>12
  <2> HIDE DEF b, c, d, later
  <2>4. Preceded(b, later, SettleIdentity) /\ Has(b, SettleIdentity)
    BY <1>6, <1>8, <2>1, <2>2, <2>3, PrecededConcat, HasConcat DEF b
  <2>5. Preceded(c, later, SettleIdentity) /\ Has(c, SettleIdentity)
    BY <1>8, <1>9, <2>4, PrecededConcat, HasConcat DEF c
  <2>6. Preceded(d, later, SettleIdentity) /\ Has(d, SettleIdentity)
    BY <1>8, <1>9, <2>5, PrecededConcat, HasConcat DEF d
  <2>7. Preceded(d \o z, later, SettleIdentity) BY <1>8, <1>9, <2>6, PrecededConcat
  <2>8. QED BY <2>7 DEF later
<1>13. O!Walk(seen) = d \o z BY <1>1 DEF a, v, w, x, z
<1> HIDE DEF b, c, d
<1>14. QED BY <1>9, <1>10, <1>11, <1>12, <1>13 DEF InOrder, seen

-----------------------------------------------------------------------------
(***************************************************************************)
(* Steps of Onboarding.                                                    *)
(***************************************************************************)
\* Only p goes on.
Calls(p) ==
  /\ WalkCalls' /\ \A q \in Procs \ {p} : walk'[q] = walk[q]
\* What rests on it is not taken back.
Settles ==
  /\ configured => configured'
  /\ \A s \in {"providers", "identity"} : ~ Open(s) => ~ Open(s)'

LEMMA OthersInOrder ==
  ASSUME NEW q \in Procs, walk'[q].todo = walk[q].todo, InOrder(walk[q].todo), Settles
  PROVE  InOrder(walk[q].todo)'
<1>1. (configured => configured') /\ (Open("providers")' => Open("providers"))
      /\ (Open("identity")' => Open("identity"))
  BY DEF Settles
<1> HIDE DEF Open
<1>2. QED BY <1>1 DEF InOrder, Preceded, GoTo, Pushed, SettleProviders, SettleIdentity, O!Call

\* A list of one process that is in order.
LEMMA NewInOrder ==
  ASSUME NEW p \in Procs, NEW todo, walk'[p].todo = todo, InOrder(todo), Settles
  PROVE  InOrder(walk[p].todo)'
<1>1. (configured => configured') /\ (Open("providers")' => Open("providers"))
      /\ (Open("identity")' => Open("identity"))
  BY DEF Settles
<1> HIDE DEF Open
<1>2. QED BY <1>1 DEF InOrder, Preceded, GoTo, Pushed, SettleProviders, SettleIdentity, O!Call

LEMMA InOrderKeeps ==
  ASSUME WalkInv, NEW p \in Procs, Calls(p), WalkFields',
         onboarding'.state = "none" => onboarding' = O!NoRecord,
         ~ reset' => ~ reset /\ Settles /\ RecordEarned' /\ InOrder(walk[p].todo)'
  PROVE  WalkInv'
<1>1. ASSUME ~ reset', NEW q \in Procs PROVE InOrder(walk[q].todo)'
  <2>1. CASE q = p BY <1>1, <2>1
  <2>2. CASE q # p
    <3>1. walk'[q] = walk[q] /\ Settles /\ InOrder(walk[q].todo)
      BY <1>1, <2>2 DEF Calls, WalkInv
    <3>2. QED BY <3>1, OthersInOrder
  <2>3. QED BY <2>1, <2>2
<1>2. WalkCalls' BY DEF Calls
<1>3. QED BY <1>1, <1>2 DEF WalkInv

\* A step that leaves the record, and the history, as they are.
LEMMA SameRecordKeeps ==
  ASSUME WalkInv, NEW p \in Procs, Calls(p), UNCHANGED <<onboarding, reset, begunWalks>>,
         provided' \in BOOLEAN, configured' \in BOOLEAN, configured => configured', overlapped' \subseteq Procs,
         ~ reset => InOrder(walk[p].todo)'
  PROVE  WalkInv'
<1>1. WalkFields' BY DEF WalkInv, WalkFields
<1>2. Settles BY DEF Settles, Open
<1>3. ~ reset' => RecordEarned' BY DEF WalkInv, RecordEarned, Open, O!Stages
<1>4. onboarding'.state = "none" => onboarding' = O!NoRecord
  <2>1. onboarding.state = "none" => onboarding = O!NoRecord BY DEF WalkInv
  <2>2. onboarding' = onboarding OBVIOUS
  <2>3. O!NoRecord' = O!NoRecord BY DEF O!NoRecord, O!Stages
  <2>4. QED BY <2>1, <2>2, <2>3
<1>5. QED BY <1>1, <1>2, <1>3, <1>4, InOrderKeeps

-----------------------------------------------------------------------------
LEMMA IdleWalk == O!Idle \in WalkTypes /\ O!Idle.todo = <<>> /\ O!Idle.checked = FALSE
  BY DEF O!Idle, WalkTypes

\* A process ends, however that comes.
LEMMA EndCalls ==
  ASSUME WalkInv, NEW p \in Procs, O!End(p)
  PROVE  Calls(p) /\ walk'[p].todo = <<>> /\ walk' \in [Procs -> WalkTypes]
<1>1. walk \in [Procs -> WalkTypes] /\ walk' = [walk EXCEPT ![p] = O!Idle]
  BY DEF WalkInv, WalkCalls, O!End
<1>2. walk' \in [Procs -> WalkTypes] /\ walk'[p] = O!Idle /\ \A q \in Procs \ {p} : walk'[q] = walk[q]
  BY <1>1, IdleWalk
<1>3. WalkCalls' BY <1>2, IdleWalk DEF WalkInv, WalkCalls
<1>4. QED BY <1>2, <1>3, IdleWalk DEF Calls

\* It goes on with other calls.
LEMMA ContinueCalls ==
  ASSUME WalkInv, NEW p \in Procs, NEW todo \in Seq(CallsOK), O!Continue(p, todo)
  PROVE  Calls(p) /\ walk'[p].todo = todo
<1> DEFINE said == IF todo = <<>> THEN "ok" ELSE "nothing"
<1>1. walk \in [Procs -> WalkTypes] /\ walk[p] \in WalkTypes BY DEF WalkInv, WalkCalls
<1>2. walk' = [walk EXCEPT ![p] = [walk[p] EXCEPT !.todo = todo, !.checked = FALSE, !.said = said]]
  BY <1>1 DEF O!Continue
<1>3. \A checked \in BOOLEAN :
        LET new == [walk[p] EXCEPT !.todo = todo, !.checked = checked, !.said = said] IN
        new \in WalkTypes /\ new.todo = todo /\ new.checked = checked
  BY <1>1 DEF WalkTypes
<1> DEFINE new == [walk[p] EXCEPT !.todo = todo, !.checked = FALSE, !.said = said]
<1>4. new \in WalkTypes /\ new.todo = todo /\ new.checked = FALSE BY <1>3, Zenon
<1> HIDE DEF new
<1>5. walk' \in [Procs -> WalkTypes] /\ walk'[p] = new /\ \A q \in Procs \ {p} : walk'[q] = walk[q]
  BY <1>1, <1>2, <1>4 DEF new
<1>6. WalkCalls' BY <1>4, <1>5 DEF WalkInv, WalkCalls
<1>7. QED BY <1>4, <1>5, <1>6 DEF Calls

\* The first call is behind it.
LEMMA AdvanceCalls ==
  ASSUME WalkInv, NEW p \in Procs, walk[p].todo # <<>>, O!Advance(p)
  PROVE  /\ Calls(p) /\ walk'[p].todo = Tail(walk[p].todo)
         /\ walk[p].todo \in Seq(CallsOK) /\ Tail(walk[p].todo) \in Seq(CallsOK)
         /\ Head(walk[p].todo) \in CallsOK
<1>1. walk[p].todo \in Seq(CallsOK) BY DEF WalkInv, WalkCalls, WalkTypes
<1>2. Tail(walk[p].todo) \in Seq(CallsOK) /\ Head(walk[p].todo) \in CallsOK
  BY <1>1, HeadTailProperties
<1>3. QED BY <1>1, <1>2, ContinueCalls DEF O!Advance

\* What is left is in order, if the first call has done what it is for.
LEMMA TailInOrder ==
  ASSUME WalkInv, ~ reset, NEW p \in Procs, walk[p].todo # <<>>,
         Head(walk[p].todo) \in Pushed => configured',
         Head(walk[p].todo) \in SettleProviders => ~ Open("providers")',
         Head(walk[p].todo) \in SettleIdentity => ~ Open("identity")',
         Settles, walk'[p].todo = Tail(walk[p].todo)
  PROVE  InOrder(walk[p].todo)'
<1> DEFINE todo == walk[p].todo
           rest == Tail(todo)
<1>1. todo \in Seq(CallsOK) /\ InOrder(todo) BY DEF WalkInv, WalkCalls, WalkTypes
<1>2. (configured => configured') /\ (Open("providers")' => Open("providers"))
      /\ (Open("identity")' => Open("identity"))
  BY DEF Settles
<1>3. ~ configured' => Preceded(rest, GoTo({"ready"}), Pushed)
  BY <1>1, <1>2, PrecededTail DEF InOrder
<1>4. Open("providers")' => Preceded(rest, GoTo({"identity", "channels", "validate"}), SettleProviders)
  BY <1>1, <1>2, PrecededTail DEF InOrder
<1>5. Open("identity")' /\ "identity" \in Manual =>
        Preceded(rest, GoTo({"channels", "validate"}), SettleIdentity)
  BY <1>1, <1>2, PrecededTail DEF InOrder
<1> HIDE DEF rest, Open
<1>6. walk'[p].todo = rest BY DEF rest
<1>7. QED
  BY <1>3, <1>4, <1>5, <1>6 DEF InOrder, Preceded, GoTo, Pushed, SettleProviders, SettleIdentity, O!Call

-----------------------------------------------------------------------------
\* A command begins.
LEMMA WalkBegins ==
  ASSUME WalkInv, O!OnboardingAssumption, NEW p \in Procs,
         NEW kind \in {"installed", "stage", "providers", "canonical"},
         NEW todo \in Seq(CallsOK), InOrder(todo), O!Begin(p, kind, todo)
  PROVE  WalkInv'
<1> DEFINE new == [O!Idle EXCEPT !.kind = kind, !.todo = todo]
<1>1. walk \in [Procs -> WalkTypes] /\ WalkFields BY DEF WalkInv, WalkCalls
<1>2. walk' = [walk EXCEPT ![p] = new] /\ UNCHANGED <<onboarding, provided, configured, reset>>
      /\ begunWalks < MaxWalkCommands /\ begunWalks' = begunWalks + 1
  BY DEF O!Begin, O!Command
<1>3. new \in WalkTypes /\ new.todo = todo /\ new.checked = FALSE BY DEF O!Idle, WalkTypes
<1> HIDE DEF new
<1>4. walk' \in [Procs -> WalkTypes] /\ walk'[p] = new /\ \A q \in Procs \ {p} : walk'[q] = walk[q]
  BY <1>1, <1>2, <1>3
<1>5. Calls(p) BY <1>3, <1>4 DEF WalkInv, WalkCalls, Calls
<1>6. O!Busy \subseteq Procs BY DEF O!Busy
<1>7. overlapped' \subseteq Procs BY <1>1, <1>6 DEF O!Begin, WalkFields
<1>8. WalkFields' BY <1>1, <1>2, <1>7 DEF WalkFields, O!OnboardingAssumption
<1>9. Settles BY <1>2 DEF Settles, Open
<1>10. InOrder(walk[p].todo)' BY <1>3, <1>4, <1>9, NewInOrder
<1>11. ~ reset' => ~ reset /\ RecordEarned' BY <1>2 DEF WalkInv, RecordEarned, Open, O!Stages
<1>12. onboarding'.state = "none" => onboarding' = O!NoRecord
  <2>1. O!NoRecord' = O!NoRecord BY DEF O!NoRecord, O!Stages
  <2>2. QED BY <1>2, <2>1 DEF WalkInv
<1>13. QED BY <1>5, <1>8, <1>9, <1>10, <1>11, <1>12, InOrderKeeps

LEMMA SomeInit ==
  ASSUME NEW condition \in BOOLEAN, NEW todo \in Seq({c \in CallsOK : c.op # "go"})
  PROVE  LET all1 == O!InitIf(condition) \o todo IN
         all1 \in Seq(CallsOK) /\ InOrder(all1) /\ InOrder(O!InitIf(condition))
         /\ O!InitIf(condition) \in Seq(CallsOK)
<1> DEFINE S == {c \in CallsOK : c.op # "go"}
           call == O!Call("init", "-")
<1>1. call \in S BY CallIn DEF O!Ops, O!CheckedOps
<1> HIDE DEF call
<1>2. <<call>> \in Seq(S) BY <1>1
<1>3. O!InitIf(condition) \in Seq(S)
  <2>1. <<>> \in Seq(S) OBVIOUS
  <2>2. O!InitIf(condition) = IF condition THEN <<call>> ELSE <<>> BY DEF O!InitIf, call
  <2>3. O!InitIf(condition) \in {<<call>>, <<>>} BY <2>2
  <2>4. QED BY <1>2, <2>1, <2>3
<1>4. O!InitIf(condition) \o todo \in Seq(S) BY <1>3
<1>5. S \subseteq CallsOK /\ \A c \in S : c.op # "go" OBVIOUS
<1> HIDE DEF S
<1>6. QED BY <1>3, <1>4, <1>5, SeqWider, NoGoInOrder

LEMMA WalksBegin ==
  ASSUME WalkInv, O!OnboardingAssumption, NEW p \in Procs,
         \/ O!BeginInstalled(p) \/ O!BeginProviders(p) \/ O!BeginCanonical(p)
         \/ \E s \in {"identity", "validate"} : O!BeginStage(p, s)
  PROVE  WalkInv'
<1> DEFINE S == {c \in CallsOK : c.op # "go"}
<1>1. CASE O!BeginInstalled(p)
  <2>1. <<>> \in Seq(S) OBVIOUS
  <2>2. O!InitIf(TRUE) \in Seq(CallsOK) /\ InOrder(O!InitIf(TRUE)) BY <2>1, SomeInit
  <2>3. QED BY <1>1, <2>2, WalkBegins DEF O!BeginInstalled
<1>2. CASE O!BeginProviders(p)
  <2> DEFINE a == O!Call("attach", "-")
             b == O!Call("sync", "-")
             condition == onboarding.state = "none"
  <2>1. a \in S /\ b \in S BY CallIn DEF O!Ops, O!CheckedOps
  <2> HIDE DEF a, b
  <2>2. <<a, b>> \in Seq(S) /\ condition \in BOOLEAN BY <2>1
  <2> DEFINE todo == O!InitIf(condition) \o <<a, b>>
  <2>3. todo \in Seq(CallsOK) /\ InOrder(todo) BY <2>2, SomeInit
  <2> HIDE DEF condition
  <2>4. O!Begin(p, "providers", todo) BY <1>2 DEF O!BeginProviders, a, b, condition
  <2> HIDE DEF todo
  <2>5. QED BY <2>3, <2>4, WalkBegins
<1>3. CASE \E s \in {"identity", "validate"} : O!BeginStage(p, s)
  <2>1. PICK s \in {"identity", "validate"} : O!BeginStage(p, s) BY <1>3
  <2> DEFINE a == O!StageCall(s)
             condition == onboarding.state \in {"none", "pending"}
  <2>2. a \in S BY CallIn DEF O!StageCall, O!Ops, O!CheckedOps, O!States, O!Stages
  <2> HIDE DEF a
  <2>3. <<a>> \in Seq(S) /\ condition \in BOOLEAN BY <2>2
  <2> DEFINE todo == O!InitIf(condition) \o <<a>>
  <2>4. todo \in Seq(CallsOK) /\ InOrder(todo) BY <2>3, SomeInit
  <2> HIDE DEF condition
  <2>5. O!Begin(p, "stage", todo) BY <2>1 DEF O!BeginStage, a, condition
  <2> HIDE DEF todo
  <2>6. QED BY <2>4, <2>5, WalkBegins
<1>4. CASE O!BeginCanonical(p)
  <2> DEFINE a == O!Call("render", "-")
             z == O!ConfigureThenReady
             todo == <<a>> \o z
  <2>1. a \in CallsOK /\ a.op = "render" BY CallIn DEF O!Ops, O!CheckedOps
  <2>2. a \notin Pushed /\ a \notin SettleProviders /\ a \notin SettleIdentity
        /\ \A stages : a \notin GoTo(stages)
    BY <2>1 DEF Pushed, SettleProviders, SettleIdentity, GoTo, O!Call
  <2> HIDE DEF a, GoTo
  <2>3. <<a>> \in Seq({a}) /\ <<a>> \in Seq(CallsOK) BY <2>1
  <2>4. ASSUME NEW stages, NEW earlier, Preceded(z, GoTo(stages), earlier)
        PROVE  Preceded(todo, GoTo(stages), earlier)
    <3>1. {a} \cap GoTo(stages) = {} BY <2>2
    <3>2. Preceded(<<a>>, GoTo(stages), earlier) BY <2>3, <3>1, PrecededNone
    <3>3. QED BY <2>3, <2>4, <3>2, ReadyInOrder, PrecededConcat
  <2>5. todo \in Seq(CallsOK) /\ InOrder(todo) BY <2>3, <2>4, ReadyInOrder DEF InOrder
  <2>6. O!Begin(p, "canonical", todo) BY <1>4 DEF O!BeginCanonical, a
  <2> HIDE DEF todo
  <2>7. QED BY <2>5, <2>6, WalkBegins
<1>5. QED BY <1>1, <1>2, <1>3, <1>4

-----------------------------------------------------------------------------
\* Calls that do not write the record.
LEMMA CallsKeep ==
  ASSUME WalkInv, NEW p \in Procs,
         O!Attach(p) \/ O!Render(p) \/ O!Configure(p) \/ O!Stop(p)
  PROVE  WalkInv'
<1>1. WalkFields /\ walk[p].todo # <<>> /\ UNCHANGED <<onboarding, reset, begunWalks, overlapped>>
  BY DEF WalkInv, O!Attach, O!Render, O!Configure, O!Stop, O!Doing, O!Busy
<1>2. provided' \in BOOLEAN /\ configured' \in BOOLEAN /\ (configured => configured')
      /\ overlapped' \subseteq Procs
  BY <1>1 DEF WalkFields, O!Attach, O!Render, O!Configure, O!Stop
<1>3. Settles BY <1>1, <1>2 DEF Settles, Open
<1>4. CASE O!End(p)
  <2>1. Calls(p) /\ walk'[p].todo = <<>> BY <1>4, EndCalls
  <2>2. InOrder(walk[p].todo)' BY <1>3, <2>1, EmptyInOrder, NewInOrder
  <2>3. QED BY <1>1, <1>2, <2>1, <2>2, SameRecordKeeps
<1>5. CASE O!Advance(p) /\ ~ O!Stop(p)
  <2>1. Calls(p) /\ walk'[p].todo = Tail(walk[p].todo) BY <1>1, <1>5, AdvanceCalls
  <2>2. Head(walk[p].todo).op \in {"attach", "render", "configure"}
        /\ (Head(walk[p].todo).op = "configure" => configured')
    BY <1>5 DEF O!Attach, O!Render, O!Configure, O!Doing, O!NextCall
  <2>3. Head(walk[p].todo) \in Pushed => configured'
    <3>1. \A c \in Pushed : c.op = "configure" BY DEF Pushed, O!Call
    <3>2. QED BY <2>2, <3>1
  <2>4. Head(walk[p].todo) \notin SettleProviders /\ Head(walk[p].todo) \notin SettleIdentity
    <3>1. \A c \in SettleProviders \cup SettleIdentity :
            c.op \in {"complete", "patch", "skip", "refuse"}
      BY DEF SettleProviders, SettleIdentity, O!Call
    <3>2. QED BY <2>2, <3>1
  <2>5. ~ reset => InOrder(walk[p].todo)' BY <1>1, <1>3, <2>1, <2>3, <2>4, TailInOrder
  <2>6. QED BY <1>1, <1>2, <2>1, <2>5, SameRecordKeeps
<1>6. QED BY <1>4, <1>5 DEF O!Attach, O!Render, O!Configure, O!Stop

LEMMA SyncCallKeeps ==
  ASSUME WalkInv, NEW p \in Procs, O!Sync(p)
  PROVE  WalkInv'
<1>1. WalkFields /\ UNCHANGED <<onboarding, provided, configured, reset, begunWalks, overlapped>>
  BY DEF WalkInv, O!Sync
<1>2. Settles BY <1>1 DEF Settles, Open
<1>3. provided' \in BOOLEAN /\ configured' \in BOOLEAN /\ (configured => configured')
      /\ overlapped' \subseteq Procs
  BY <1>1 DEF WalkFields
<1>4. ASSUME NEW todo \in Seq(CallsOK), InOrder(todo), O!Continue(p, todo) PROVE WalkInv'
  <2>1. Calls(p) /\ walk'[p].todo = todo BY <1>4, ContinueCalls
  <2>2. InOrder(walk[p].todo)' BY <1>2, <1>4, <2>1, NewInOrder
  <2>3. QED BY <1>1, <1>3, <2>1, <2>2, SameRecordKeeps
<1>5. ASSUME O!End(p) PROVE WalkInv'
  <2>1. Calls(p) /\ walk'[p].todo = <<>> BY <1>5, EndCalls
  <2>2. InOrder(walk[p].todo)' BY <1>2, <2>1, EmptyInOrder, NewInOrder
  <2>3. QED BY <1>1, <1>3, <2>1, <2>2, SameRecordKeeps
<1>6. \/ O!Continue(p, O!Walk(onboarding.stages)) \/ O!End(p) \/ O!Continue(p, O!ConfigureThenReady)
  BY DEF O!Sync
<1>7. QED BY <1>4, <1>5, <1>6, WalkInOrder, ReadyInOrder

-----------------------------------------------------------------------------
\* What a call says of its kind.
LEMMA Kinds1 ==
  ASSUME NEW call \in CallsOK
  PROVE  /\ call.op \in O!Ops /\ call.arg \in O!States \cup {"-"}
         /\ call.op = "go" => call.arg \in O!States
         /\ call = O!Call(call.op, call.arg)
         /\ call \in Pushed => call.op = "configure"
         /\ call \in SettleProviders => call.op \in {"complete", "patch"} /\ call.arg = "providers"
         /\ call \in SettleIdentity => call.op = "refuse" \/ (call.op = "skip" /\ call.arg = "identity")
         /\ \A stages : call \in GoTo(stages) <=> call.op = "go" /\ call.arg \in stages
  BY DEF CallsOK, O!Calls, O!Call, Pushed, SettleProviders, SettleIdentity, GoTo

LEMMA CheckKeeps ==
  ASSUME WalkInv, NEW p \in Procs, O!Check(p)
  PROVE  WalkInv'
<1> DEFINE todo == walk[p].todo
           call == Head(todo)
<1>1. WalkFields /\ UNCHANGED <<onboarding, provided, configured, reset, begunWalks, overlapped>>
  BY DEF WalkInv, O!Check
<1>2. Settles BY <1>1 DEF Settles, Open
<1>3. provided' \in BOOLEAN /\ configured' \in BOOLEAN /\ (configured => configured')
      /\ overlapped' \subseteq Procs
  BY <1>1 DEF WalkFields
<1>4. todo # <<>> /\ call.op \in O!CheckedOps BY DEF O!Check, O!NextCall
<1>5. walk \in [Procs -> WalkTypes] /\ walk[p] \in WalkTypes /\ todo \in Seq(CallsOK)
      /\ call \in CallsOK /\ Tail(todo) \in Seq(CallsOK)
  BY <1>4, HeadTailProperties DEF WalkInv, WalkCalls, WalkTypes
<1>6. CASE O!End(p)
  <2>1. Calls(p) /\ walk'[p].todo = <<>> BY <1>6, EndCalls
  <2>2. InOrder(walk[p].todo)' BY <1>2, <2>1, EmptyInOrder, NewInOrder
  <2>3. QED BY <1>1, <1>3, <2>1, <2>2, SameRecordKeeps
<1>7. CASE walk' = [walk EXCEPT ![p].checked = TRUE]
  <2>1. \A checked \in BOOLEAN : LET new == [walk[p] EXCEPT !.checked = checked] IN
          new \in WalkTypes /\ new.todo = todo
    BY <1>5 DEF WalkTypes
  <2> DEFINE new == [walk[p] EXCEPT !.checked = TRUE]
  <2>2. new \in WalkTypes /\ new.todo = todo BY <2>1, Zenon
  <2>3. walk' = [walk EXCEPT ![p] = new] BY <1>7
  <2> HIDE DEF new
  <2>4. walk' \in [Procs -> WalkTypes] /\ walk'[p] = new /\ \A q \in Procs \ {p} : walk'[q] = walk[q]
    BY <1>5, <2>2, <2>3
  <2>5. Calls(p) BY <1>4, <2>2, <2>4 DEF WalkInv, WalkCalls, Calls
  <2>6. walk'[p].todo = walk[p].todo BY <2>2, <2>4
  <2>7. ~ reset => InOrder(walk[p].todo)' BY <1>2, <2>6, OthersInOrder DEF WalkInv
  <2>8. QED BY <1>1, <1>3, <2>5, <2>7, SameRecordKeeps
<1>8. CASE ~ O!Permitted(call) /\ O!Continue(p, O!InPlaceOf(call) \o Tail(todo))
  <2>1. CASE call = O!Call("complete", "providers")
    <3> DEFINE patch == O!Call("patch", "providers")
               rest == <<patch>> \o Tail(todo)
    <3>1. O!InPlaceOf(call) = <<patch>> BY <2>1 DEF O!InPlaceOf
    <3>2. patch \in CallsOK /\ patch.op = "patch"
      BY CallIn DEF O!Ops, O!CheckedOps, O!States, O!Stages
    <3>3. call.op = "complete" BY <2>1 DEF O!Call
    <3>4. patch \in SettleProviders BY DEF SettleProviders
    <3>5. call \notin Pushed /\ call \notin SettleIdentity BY <1>5, <3>3, Kinds1
    <3>6. \A stages : patch \notin GoTo(stages) BY <3>2, Kinds1
    <3> HIDE DEF patch, call, todo
    <3>7. ASSUME NEW stages, NEW earlier \in {Pushed, SettleProviders, SettleIdentity},
                 Preceded(todo, GoTo(stages), earlier)
          PROVE  Preceded(rest, GoTo(stages), earlier)
      <4>1. Head(todo) \in earlier => patch \in earlier BY <3>4, <3>5, <3>7 DEF call
      <4>2. patch \notin GoTo(stages) BY <3>6
      <4>3. QED BY <1>4, <1>5, <3>2, <3>7, <4>1, <4>2, PrecededSwap
    <3>8. ~ reset => InOrder(rest) BY <3>7 DEF WalkInv, InOrder, todo
    <3>9. rest \in Seq(CallsOK)
      <4>1. <<patch>> \in Seq(CallsOK) BY <3>2
      <4>2. QED BY <4>1, <1>5
    <3>10. O!Continue(p, rest) BY <1>8, <3>1
    <3> HIDE DEF rest
    <3>11. Calls(p) /\ walk'[p].todo = rest BY <3>9, <3>10, ContinueCalls
    <3>12. ~ reset => InOrder(walk[p].todo)' BY <1>2, <3>8, <3>11, NewInOrder
    <3>13. QED BY <1>1, <1>3, <3>11, <3>12, SameRecordKeeps
  <2>2. CASE call # O!Call("complete", "providers")
    <3>1. O!InPlaceOf(call) = <<>> BY <2>2 DEF O!InPlaceOf
    <3>2. <<>> \o Tail(todo) = Tail(todo) BY <1>5
    <3>3. O!Continue(p, Tail(todo)) BY <1>8, <3>1, <3>2
    <3>4. Calls(p) /\ walk'[p].todo = Tail(todo) BY <1>5, <3>3, ContinueCalls
    <3>5. call.op \in {"init", "complete", "go"} BY <1>4, <1>8 DEF O!Permitted, O!CheckedOps
    <3>6. call \notin Pushed /\ call \notin SettleProviders /\ call \notin SettleIdentity
      <4>1. call.op = "complete" /\ call.arg = "providers" => FALSE BY <1>5, <2>2, Kinds1
      <4>2. QED BY <1>5, <3>5, <4>1, Kinds1
    <3>7. ~ reset => InOrder(walk[p].todo)' BY <1>2, <1>4, <3>4, <3>6, TailInOrder
    <3>8. QED BY <1>1, <1>3, <3>4, <3>7, SameRecordKeeps
  <2>3. QED BY <2>1, <2>2
<1>9. O!End(p) \/ walk' = [walk EXCEPT ![p].checked = TRUE]
      \/ (~ O!Permitted(call) /\ O!Continue(p, O!InPlaceOf(call) \o Tail(todo)))
  BY DEF O!Check, O!NextCall
<1>10. QED BY <1>6, <1>7, <1>8, <1>9

\* The record that a call writes.
LEMMA Writes ==
  ASSUME WalkInv, NEW call \in CallsOK, call.op \in O!CheckedOps, ~ O!Refused(call),
         onboarding' = O!Written(call)
  PROVE  /\ onboarding' \in O!OnboardingRecords /\ onboarding'.state # "none"
         /\ call.op = "init" =>
              onboarding'.state \in {"pending", "ready"}
              /\ (onboarding'.state = "ready" => O!Stages \subseteq Skippable)
         /\ call.op = "go" => onboarding' = [onboarding EXCEPT !.state = call.arg]
         /\ call.op \in {"complete", "skip", "patch"} => onboarding'.state = onboarding.state
         /\ call.op # "init" => \A s \in {"providers", "identity"} : ~ Open(s) => ~ Open(s)'
         /\ call.op \in {"complete", "skip", "patch"} =>
              \A s \in {"providers", "identity"} : call.arg = s => ~ Open(s)'
<1>1. onboarding \in O!OnboardingRecords /\ call.arg \in O!States \cup {"-"}
      /\ (call.op = "go" => call.arg \in O!States)
  BY Kinds1 DEF WalkInv, WalkFields
<1>2. "none" \notin O!States /\ {"providers", "identity"} \subseteq O!Stages
  BY DEF O!States, O!Stages
<1>3. CASE call.op = "init"
  <2>1. onboarding' = O!Fresh BY <1>3 DEF O!Written
  <2>2. O!Fresh \in O!OnboardingRecords BY DEF O!Fresh, O!OnboardingRecords, O!Statuses, O!States
  <2>3. O!Fresh.state \in {"pending", "ready"}
        /\ (O!Fresh.state = "ready" => O!Stages \subseteq Skippable)
    BY DEF O!Fresh
  <2>4. QED BY <1>3, <2>1, <2>2, <2>3
<1>4. CASE call.op \in {"complete", "skip"}
  <2>1. PICK status \in {"complete", "skipped"} :
          onboarding' = [onboarding EXCEPT !.stages[call.arg] = status]
    BY <1>4 DEF O!Written
  <2>2. onboarding' \in O!OnboardingRecords /\ onboarding'.state = onboarding.state
        /\ onboarding'.stages = [onboarding.stages EXCEPT ![call.arg] = status]
    BY <1>1, <2>1 DEF O!OnboardingRecords, O!Statuses
  <2>3. onboarding.state # "none" BY <1>4 DEF O!Refused
  <2>4. \A s \in {"providers", "identity"} : onboarding'.stages[s] =
          IF s = call.arg THEN status ELSE onboarding.stages[s]
    BY <1>1, <1>2, <2>2 DEF O!OnboardingRecords
  <2>5. QED BY <1>4, <2>2, <2>3, <2>4 DEF Open
<1>5. CASE call.op = "go"
  <2>1. onboarding' = [onboarding EXCEPT !.state = call.arg] BY <1>5 DEF O!Written
  <2>2. onboarding' \in O!OnboardingRecords /\ onboarding'.state = call.arg
        /\ onboarding'.stages = onboarding.stages
    BY <1>1, <1>5, <2>1 DEF O!OnboardingRecords
  <2>3. QED BY <1>1, <1>2, <1>5, <2>1, <2>2 DEF Open
<1>6. CASE call.op = "patch"
  <2>1. onboarding' = onboarding /\ onboarding.state # "none"
        /\ onboarding.stages[call.arg] = "complete"
    BY <1>6 DEF O!Written, O!Refused
  <2>2. QED BY <1>1, <1>6, <2>1 DEF Open
<1>7. QED BY <1>3, <1>4, <1>5, <1>6 DEF O!CheckedOps

LEMMA WriteKeeps ==
  ASSUME WalkInv, NEW p \in Procs, O!Write(p)
  PROVE  WalkInv'
<1> DEFINE todo == walk[p].todo
           call == Head(todo)
<1>1. WalkFields /\ UNCHANGED <<provided, configured, begunWalks, overlapped>>
      /\ todo # <<>> /\ call.op \in O!CheckedOps
  BY DEF WalkInv, WalkCalls, O!Write
<1>2. todo \in Seq(CallsOK) /\ call \in CallsOK
  BY <1>1, HeadTailProperties DEF WalkInv, WalkCalls, WalkTypes
<1>3. reset' = (reset \/ (call.op = "init" /\ onboarding.state # "none"))
  BY DEF O!Write, O!NextCall
<1>4. reset' \in BOOLEAN BY <1>3
<1>5. CASE O!End(p) /\ onboarding' = onboarding
  <2>1. Calls(p) /\ walk'[p].todo = <<>> BY <1>5, EndCalls
  <2>2. WalkFields' BY <1>1, <1>4, <1>5 DEF WalkFields
  <2>3. Settles BY <1>1, <1>5 DEF Settles, Open
  <2>4. InOrder(walk[p].todo)' BY <2>1, <2>3, EmptyInOrder, NewInOrder
  <2>5. ~ reset' => ~ reset /\ RecordEarned' BY <1>1, <1>3, <1>5 DEF WalkInv, RecordEarned, Open, O!Stages
  <2>6. onboarding'.state = "none" => onboarding' = O!NoRecord
    <3>1. O!NoRecord' = O!NoRecord BY DEF O!NoRecord, O!Stages
    <3>2. QED BY <1>5, <3>1 DEF WalkInv
  <2>7. QED BY <2>1, <2>2, <2>3, <2>4, <2>5, <2>6, InOrderKeeps
<1>6. CASE ~ O!Refused(call) /\ O!Advance(p) /\ onboarding' = O!Written(call)
  <2>1. Calls(p) /\ walk'[p].todo = Tail(todo) BY <1>1, <1>6, AdvanceCalls
  <2>2. onboarding' \in O!OnboardingRecords /\ onboarding'.state # "none" BY <1>1, <1>2, <1>6, Writes
  <2>3. WalkFields' BY <1>1, <1>4, <2>2 DEF WalkFields
  <2>4. ASSUME ~ reset'
        PROVE  ~ reset /\ Settles /\ RecordEarned' /\ InOrder(walk[p].todo)'
    <3>1. ~ reset /\ (call.op = "init" => onboarding.state = "none") BY <1>3, <2>4
    <3>2. RecordEarned /\ InOrder(todo) BY <3>1 DEF WalkInv
    <3>3. call.op = "init" => Open("providers") /\ Open("identity")
      <4>1. O!NoRecord.stages["providers"] = "pending" /\ O!NoRecord.stages["identity"] = "pending"
        BY DEF O!NoRecord, O!Stages
      <4>2. QED BY <3>1, <4>1 DEF WalkInv, Open
    <3> HIDE DEF Open
    <3>4. \A s \in {"providers", "identity"} : ~ Open(s) => ~ Open(s)'
      BY <1>1, <1>2, <1>6, <3>3, Writes
    <3>5. Settles BY <1>1, <3>4 DEF Settles
    <3>6. InOrder(walk[p].todo)'
      <4>1. call \in SettleProviders => ~ Open("providers")' BY <1>1, <1>2, <1>6, Kinds1, Writes
      <4>2. call \in SettleIdentity => ~ Open("identity")'
        <5>1. call.op # "refuse" BY <1>1 DEF O!CheckedOps
        <5>2. QED BY <1>1, <1>2, <1>6, <5>1, Kinds1, Writes
      <4>3. call \notin Pushed
        <5>1. call.op # "configure" BY <1>1 DEF O!CheckedOps
        <5>2. QED BY <1>2, <5>1, Kinds1
      <4>4. QED BY <1>1, <2>1, <3>1, <3>5, <4>1, <4>2, <4>3, TailInOrder
    <3>7. RecordEarned'
      <4>1. CASE call.op = "init"
        BY <1>1, <1>2, <1>6, <4>1, Writes DEF RecordEarned, O!Stages
      <4>2. CASE call.op = "go"
        <5>1. onboarding \in O!OnboardingRecords BY <1>1 DEF WalkFields
        <5>2. onboarding'.state = call.arg
          <6>1. onboarding' = [onboarding EXCEPT !.state = call.arg]
            BY <1>1, <1>2, <1>6, <4>2, Writes
          <6>2. QED BY <5>1, <6>1 DEF O!OnboardingRecords
        <5>3. 1 \in 1 .. Len(todo) /\ todo[1] = call BY <1>1, <1>2
        <5>4. ASSUME NEW stages, NEW earlier, call.arg \in stages,
                     Preceded(todo, GoTo(stages), earlier)
              PROVE  FALSE
          <6>1. todo[1] \in GoTo(stages) BY <1>2, <4>2, <5>3, <5>4, Kinds1
          <6>2. \E j \in 1 .. 1 - 1 : todo[j] \in earlier BY <5>3, <5>4, <6>1 DEF Preceded
          <6>3. QED BY <6>2
        <5>5. call.arg = "ready" => configured BY <3>2, <5>4 DEF InOrder
        <5>6. call.arg \in {"identity", "channels", "validate"} => ~ Open("providers")
          BY <3>2, <5>4 DEF InOrder
        <5>7. call.arg \in {"channels", "validate"} /\ "identity" \in Manual => ~ Open("identity")
          BY <3>2, <5>4 DEF InOrder
        <5>8. QED BY <1>1, <3>4, <5>2, <5>5, <5>6, <5>7 DEF RecordEarned
      <4>3. CASE call.op \in {"complete", "skip", "patch"}
        <5>1. onboarding'.state = onboarding.state BY <1>1, <1>2, <1>6, <4>3, Writes
        <5>2. QED BY <1>1, <3>2, <3>4, <5>1 DEF RecordEarned, O!Stages
      <4>4. QED BY <1>1, <4>1, <4>2, <4>3 DEF O!CheckedOps
    <3>8. QED BY <3>1, <3>5, <3>6, <3>7
  <2>5. QED BY <2>1, <2>2, <2>3, <2>4, InOrderKeeps
<1>7. QED BY <1>5, <1>6 DEF O!Write, O!NextCall

-----------------------------------------------------------------------------
LEMMA DetachKeeps ==
  ASSUME WalkInv, O!OnboardingAssumption, O!Detach
  PROVE  WalkInv'
<1>1. WalkFields /\ WalkCalls /\ UNCHANGED <<onboarding, configured, walk, reset>> BY DEF WalkInv, O!Detach
<1>2. O!Busy \subseteq Procs BY DEF O!Busy
<1>3. WalkFields'
  <2>1. provided' = FALSE /\ overlapped' = overlapped \cup O!Busy
        /\ begunWalks < MaxWalkCommands /\ begunWalks' = begunWalks + 1
    BY DEF O!Detach, O!Command
  <2>2. provided' \in BOOLEAN BY <2>1
  <2>3. QED BY <1>1, <1>2, <2>1, <2>2 DEF WalkFields, O!OnboardingAssumption
<1>4. WalkCalls' BY <1>1 DEF WalkCalls
<1>5. Settles BY <1>1 DEF Settles, Open
<1>6. ~ reset' => \A q \in Procs : InOrder(walk[q].todo)'
  BY <1>1, <1>5, OthersInOrder DEF WalkInv
<1>7. ~ reset' => RecordEarned' BY <1>1 DEF WalkInv, RecordEarned, Open, O!Stages
<1>8. onboarding'.state = "none" => onboarding' = O!NoRecord
  <2>1. O!NoRecord' = O!NoRecord BY DEF O!NoRecord, O!Stages
  <2>2. QED BY <1>1, <2>1 DEF WalkInv
<1>9. QED BY <1>3, <1>4, <1>6, <1>7, <1>8 DEF WalkInv

LEMMA NoRecordTyped == O!NoRecord \in O!OnboardingRecords /\ O!NoRecord.state = "none"
  BY DEF O!NoRecord, O!OnboardingRecords, O!Statuses

LEMMA ReinstallKeeps ==
  ASSUME WalkInv, O!OnboardingAssumption, O!Reinstall
  PROVE  WalkInv'
<1>1. WalkFields /\ WalkCalls /\ walk' = walk /\ onboarding' = O!NoRecord
  BY DEF WalkInv, O!Reinstall
<1>2. O!Busy \subseteq Procs BY DEF O!Busy
<1>3. provided' = FALSE /\ configured' = FALSE /\ reset' = (O!Busy # {})
      /\ overlapped' = overlapped \cup O!Busy
      /\ begunWalks < MaxWalkCommands /\ begunWalks' = begunWalks + 1
  BY DEF O!Reinstall, O!Command
<1>4. reset' \in BOOLEAN /\ provided' \in BOOLEAN /\ configured' \in BOOLEAN BY <1>3
<1>5. WalkFields' BY <1>1, <1>2, <1>3, <1>4, NoRecordTyped DEF WalkFields, O!OnboardingAssumption
<1>6. WalkCalls' BY <1>1 DEF WalkCalls
<1>7. ASSUME ~ reset', NEW q \in Procs PROVE InOrder(walk[q].todo)'
  <2>1. walk'[q].todo = <<>> BY <1>1, <1>3, <1>7 DEF O!Busy
  <2>2. QED BY <2>1 DEF InOrder, Preceded
<1>8. onboarding'.state = "none" /\ RecordEarned' BY <1>1, NoRecordTyped DEF RecordEarned
<1>9. onboarding' = O!NoRecord' BY <1>1 DEF O!NoRecord, O!Stages
<1>10. QED BY <1>5, <1>6, <1>7, <1>8, <1>9 DEF WalkInv

\* An installation sets the record aside, and gives it back.
LEMMA SetAsideKeeps ==
  ASSUME WalkInv, O!OnboardingAssumption, O!SetAside
  PROVE  WalkInv'
<1>1. WalkFields /\ WalkCalls /\ walk' = walk /\ onboarding' = O!NoRecord
  BY DEF WalkInv, O!SetAside
<1>2. O!Busy \subseteq Procs BY DEF O!Busy
<1>3. provided' = FALSE /\ configured' = configured /\ reset' = (reset \/ O!Busy # {})
      /\ overlapped' = overlapped \cup O!Busy
      /\ begunWalks < MaxWalkCommands /\ begunWalks' = begunWalks + 1
  BY DEF O!SetAside, O!Command
<1>4. reset' \in BOOLEAN /\ provided' \in BOOLEAN BY <1>1, <1>3 DEF WalkFields
<1>5. WalkFields' BY <1>1, <1>2, <1>3, <1>4, NoRecordTyped DEF WalkFields, O!OnboardingAssumption
<1>6. WalkCalls' BY <1>1 DEF WalkCalls
<1>7. ASSUME ~ reset', NEW q \in Procs PROVE InOrder(walk[q].todo)'
  <2>1. walk'[q].todo = <<>> BY <1>1, <1>3, <1>7 DEF O!Busy
  <2>2. QED BY <2>1 DEF InOrder, Preceded
<1>8. onboarding'.state = "none" /\ RecordEarned' BY <1>1, NoRecordTyped DEF RecordEarned
<1>9. onboarding' = O!NoRecord' BY <1>1 DEF O!NoRecord, O!Stages
<1>10. QED BY <1>5, <1>6, <1>7, <1>8, <1>9 DEF WalkInv

LEMMA InstallEndsKeep ==
  ASSUME WalkInv, AsideInv, O!InstallEnds
  PROVE  WalkInv'
<1> DEFINE earlier == aside.onboarding
<1>1. /\ WalkFields /\ WalkCalls
      /\ walk' = walk /\ configured' = configured /\ begunWalks' = begunWalks
      /\ provided' = (provided \/ aside.attached) /\ overlapped' = overlapped \cup O!Busy
      /\ earlier \in O!OnboardingRecords /\ aside.attached \in BOOLEAN
  BY DEF WalkInv, AsideInv, O!InstallEnds
<1>2. \/ onboarding' = onboarding /\ reset' = reset
      \/ /\ onboarding' = earlier /\ earlier.state # "none"
         /\ reset' = (reset \/ O!Busy # {})
  <2>1. CASE install' = "failed" /\ UNCHANGED <<onboarding, reset>> BY <2>1
  <2>2. CASE /\ onboarding' = IF earlier.state = "none" THEN onboarding ELSE earlier
             /\ reset' = (reset \/ (earlier.state # "none" /\ O!Busy # {}))
    <3>1. reset \in BOOLEAN BY <1>1 DEF WalkFields
    <3>2. QED BY <2>2, <3>1
  <2>3. QED BY <2>1, <2>2 DEF O!InstallEnds
<1>3. WalkFields'
  <2>1. O!Busy \subseteq Procs /\ provided' \in BOOLEAN /\ reset' \in BOOLEAN
    BY <1>1, <1>2 DEF O!Busy, WalkFields
  <2>2. onboarding' \in O!OnboardingRecords BY <1>1, <1>2 DEF WalkFields
  <2>3. QED BY <1>1, <2>1, <2>2 DEF WalkFields
<1>4. WalkCalls' BY <1>1 DEF WalkCalls
<1>5. onboarding'.state = "none" => onboarding' = O!NoRecord'
  <2>1. O!NoRecord' = O!NoRecord BY DEF O!NoRecord, O!Stages
  <2>2. QED BY <1>2, <2>1 DEF WalkInv
<1>6. ASSUME ~ reset' PROVE RecordEarned' /\ \A q \in Procs : InOrder(walk[q].todo)'
  <2>1. ~ reset BY <1>1, <1>2, <1>6
  <2>2. CASE onboarding' = onboarding
    <3>1. Settles BY <1>1, <2>2 DEF Settles, Open
    <3>2. \A q \in Procs : InOrder(walk[q].todo)' BY <1>1, <2>1, <3>1, OthersInOrder DEF WalkInv
    <3>3. RecordEarned' BY <1>1, <2>1, <2>2 DEF WalkInv, RecordEarned, Open, O!Stages
    <3>4. QED BY <3>2, <3>3
  <2>3. CASE onboarding' = earlier /\ O!Busy = {}
    <3>1. \A q \in Procs : walk'[q].todo = <<>> BY <1>1, <2>3 DEF O!Busy
    <3>2. \A q \in Procs : InOrder(walk[q].todo)' BY <3>1 DEF InOrder, Preceded
    <3>3. RecordEarned' BY <1>1, <2>1, <2>3 DEF AsideInv, RecordEarned, Open, O!Stages
    <3>4. QED BY <3>2, <3>3
  <2>4. QED BY <1>2, <1>6, <2>2, <2>3
<1>7. QED BY <1>3, <1>4, <1>5, <1>6 DEF WalkInv

\* What is kept in memory is what was earned when it was set aside.
LEMMA AsideStep ==
  ASSUME WalkInv, AsideInv, O!Next
  PROVE  AsideInv'
<1>1. CASE O!SetAside
  <2>1. install' = "installing" /\ aside' = [onboarding |-> onboarding, attached |-> provided]
        /\ configured' = configured /\ (reset => reset') /\ WalkFields
    BY <1>1 DEF O!SetAside, WalkInv, WalkFields
  <2>2. ~ reset' => RecordEarned BY <2>1 DEF WalkInv
  <2>3. aside' \in [onboarding : O!OnboardingRecords, attached : BOOLEAN] BY <2>1 DEF WalkFields
  <2>4. aside'.onboarding = onboarding BY <2>1
  <2>5. QED BY <2>1, <2>2, <2>3, <2>4 DEF AsideInv, RecordEarned, Open, O!Stages
<1>2. CASE O!InstallEnds \/ O!Reinstall
  <2>1. aside' = O!Nothing /\ install' \in {"installed", "failed"}
    BY <1>2 DEF O!InstallEnds, O!Reinstall
  <2>2. aside' \in [onboarding : O!OnboardingRecords, attached : BOOLEAN]
        /\ aside'.onboarding.state = "none"
    BY <2>1, NoRecordTyped DEF O!Nothing
  <2>3. QED BY <2>1, <2>2 DEF AsideInv
<1>3. CASE UNCHANGED <<install, aside>> /\ (configured => configured') /\ (reset => reset')
  BY <1>3 DEF AsideInv, O!OnboardingRecords, O!Statuses, O!States, O!Stages
<1>4. ASSUME NEW p \in Procs,
             \/ O!BeginInstalled(p) \/ O!BeginProviders(p) \/ O!BeginCanonical(p)
             \/ \E s \in {"identity", "validate"} : O!BeginStage(p, s)
      PROVE  UNCHANGED <<install, aside, configured, reset>>
  BY <1>4 DEF O!BeginInstalled, O!BeginProviders, O!BeginCanonical, O!BeginStage, O!Begin,
              O!installVars
<1>5. ASSUME NEW p \in Procs,
             \/ O!Attach(p) \/ O!Sync(p) \/ O!Render(p) \/ O!Configure(p)
             \/ O!Check(p) \/ O!Write(p) \/ O!Stop(p)
      PROVE  UNCHANGED <<install, aside>> /\ (configured => configured') /\ (reset => reset')
  <2>1. UNCHANGED <<install, aside>>
    BY <1>5 DEF O!Attach, O!Sync, O!Render, O!Configure, O!Check, O!Write, O!Stop, O!installVars
  <2>2. configured' = configured \/ configured' = TRUE
    BY <1>5 DEF O!Attach, O!Sync, O!Render, O!Configure, O!Check, O!Write, O!Stop
  <2>3. CASE O!Write(p)
    <3>1. reset' = (reset \/ (O!NextCall(p).op = "init" /\ onboarding.state # "none"))
      BY <2>3 DEF O!Write
    <3>2. reset => reset' BY <3>1, Zenon
    <3>3. QED BY <2>1, <2>2, <3>2
  <2>4. CASE ~ O!Write(p)
    <3>1. reset' = reset BY <1>5, <2>4 DEF O!Attach, O!Sync, O!Render, O!Configure, O!Check, O!Stop
    <3>2. QED BY <2>1, <2>2, <3>1
  <2>5. QED BY <2>3, <2>4
<1>6. O!Detach => UNCHANGED <<install, aside, configured, reset>> BY DEF O!Detach, O!installVars
<1>7. QED BY <1>1, <1>2, <1>3, <1>4, <1>5, <1>6 DEF O!Next

LEMMA AsideStutter == ASSUME AsideInv, UNCHANGED onboardingVars
                      PROVE  AsideInv'
  BY DEF AsideInv, onboardingVars, O!OnboardingRecords, O!Statuses, O!States, O!Stages

LEMMA WalkStart == ASSUME O!Init, O!OnboardingAssumption
                   PROVE  WalkInv /\ AsideInv
<1>1. WalkFields
  <2>1. provided = FALSE /\ configured = FALSE /\ reset = FALSE BY DEF O!Init
  <2>2. provided \in BOOLEAN /\ configured \in BOOLEAN /\ reset \in BOOLEAN BY <2>1
  <2>3. QED BY <2>2, NoRecordTyped DEF WalkFields, O!Init, O!OnboardingAssumption
<1>2. WalkCalls BY IdleWalk DEF WalkCalls, O!Init
<1>3. \A p \in Procs : InOrder(walk[p].todo) BY IdleWalk, EmptyInOrder DEF O!Init
<1>4. RecordEarned BY NoRecordTyped DEF RecordEarned, O!Init
<1>5. AsideInv
  <2>1. install = "installed" /\ aside = O!Nothing BY DEF O!Init
  <2>2. aside \in [onboarding : O!OnboardingRecords, attached : BOOLEAN]
        /\ aside.onboarding.state = "none"
    BY <2>1, NoRecordTyped DEF O!Nothing
  <2>3. QED BY <2>1, <2>2 DEF AsideInv
<1>6. QED BY <1>1, <1>2, <1>3, <1>4, <1>5 DEF WalkInv, O!Init

LEMMA WalkStep == ASSUME WalkInv, AsideInv, O!Next, O!OnboardingAssumption
                  PROVE  WalkInv'
<1>1. ASSUME NEW p \in Procs,
             \/ O!BeginInstalled(p) \/ O!BeginProviders(p) \/ O!BeginCanonical(p)
             \/ \E s \in {"identity", "validate"} : O!BeginStage(p, s)
      PROVE  WalkInv'
  BY <1>1, WalksBegin
<1>2. ASSUME NEW p \in Procs, O!Attach(p) \/ O!Render(p) \/ O!Configure(p) \/ O!Stop(p)
      PROVE  WalkInv'
  BY <1>2, CallsKeep
<1>3. ASSUME NEW p \in Procs, O!Sync(p) \/ O!Check(p) \/ O!Write(p) PROVE WalkInv'
  BY <1>3, SyncCallKeeps, CheckKeeps, WriteKeeps
<1>4. CASE O!Detach \/ O!SetAside \/ O!InstallEnds \/ O!Reinstall
  BY <1>4, DetachKeeps, SetAsideKeeps, InstallEndsKeep, ReinstallKeeps
<1>5. QED BY <1>1, <1>2, <1>3, <1>4 DEF O!Next

LEMMA WalkStutter == ASSUME WalkInv, UNCHANGED onboardingVars
                     PROVE  WalkInv'
<1>1. UNCHANGED <<onboarding, provided, configured, walk, overlapped, reset, begunWalks>>
  BY DEF onboardingVars
<1>2. (WalkFields /\ WalkCalls)' BY <1>1 DEF WalkInv, WalkFields, WalkCalls
<1>3. Settles BY <1>1 DEF Settles, Open
<1>4. ~ reset' => \A q \in Procs : InOrder(walk[q].todo)'
  BY <1>1, <1>3, OthersInOrder DEF WalkInv
<1>5. ~ reset' => RecordEarned' BY <1>1 DEF WalkInv, RecordEarned, Open, O!Stages
<1>6. onboarding'.state = "none" => onboarding' = O!NoRecord'
  <2>1. O!NoRecord' = O!NoRecord BY DEF O!NoRecord, O!Stages
  <2>2. QED BY <1>1, <2>1 DEF WalkInv
<1>7. QED BY <1>2, <1>4, <1>5, <1>6 DEF WalkInv

-----------------------------------------------------------------------------
(***************************************************************************)
(* The end of a walk.  A configure of the providers stage that is alone    *)
(* goes to every stage that the record has not come to, each once and in   *)
(* their order; so that a "go" is either permitted or has been done.       *)
(***************************************************************************)
\* How far a state is along the walk, the stages it has not come to, and those that a list of
\* calls goes to from its k-th.
Height(s) ==
  CASE s = "providers" -> 1 [] s = "identity" -> 2 [] s = "channels" -> 3
    [] s = "validate" -> 4 [] s = "ready" -> 5 [] OTHER -> 0
Rungs == {"providers", "identity", "channels", "validate", "ready"}
Above(s) == {r \in Rungs : Height(r) > Height(s)}
Ahead(todo, k) == {r \in Rungs : \E j \in k .. Len(todo) : todo[j] = O!Call("go", r)}

\* No stage is left out after one that is gone to, and none comes twice.
Climbs(todo) ==
  \A k \in 1 .. Len(todo) :
    /\ todo[k].op \notin {"init", "sync"}
    /\ todo[k].op = "go" => todo[k].arg \in Rungs /\ Ahead(todo, k + 1) = Above(todo[k].arg)

\* What a configure of the providers stage has left to do, while it is alone.
AttachThenSync == <<O!Call("attach", "-"), O!Call("sync", "-")>>
Leads(todo, given, state) ==
  \/ todo = <<O!Call("init", "-")>> \o AttachThenSync
  \/ todo = AttachThenSync
  \/ todo = <<O!Call("sync", "-")>> /\ given
  \/ Climbs(todo) /\ Above(state) \subseteq Ahead(todo, 1)
FinishInv ==
  \A p \in Procs \ overlapped : walk[p].todo # <<>> =>
    /\ \A q \in Procs \ {p} : walk[q].todo = <<>>
    /\ walk[p].kind = "providers" => Leads(walk[p].todo, provided, onboarding.state)

LEMMA Heights ==
  /\ Above("ready") = {} /\ Above("validate") = {"ready"}
  /\ Above("channels") = {"validate", "ready"}
  /\ Above("identity") = {"channels", "validate", "ready"}
  /\ Above("providers") = {"identity", "channels", "validate", "ready"}
  /\ Above("pending") = Rungs /\ Above("none") = Rungs
<1>1. /\ Height("ready") = 5 /\ Height("validate") = 4 /\ Height("channels") = 3
      /\ Height("identity") = 2 /\ Height("providers") = 1
      /\ Height("pending") = 0 /\ Height("none") = 0
  BY DEF Height
<1> HIDE DEF Height
<1>2. QED BY <1>1 DEF Above, Rungs

LEMMA NothingAhead == Climbs(<<>>) /\ Ahead(<<>>, 1) = {}
  BY DEF Climbs, Ahead

\* A call before the others.
LEMMA Prepend ==
  ASSUME NEW call \in CallsOK, NEW todo \in Seq(CallsOK), Climbs(todo),
         call.op \notin {"init", "sync"},
         call.op = "go" => call.arg \in Rungs /\ Ahead(todo, 1) = Above(call.arg)
  PROVE  /\ <<call>> \o todo \in Seq(CallsOK) /\ Climbs(<<call>> \o todo)
         /\ Ahead(<<call>> \o todo, 1) =
              IF call.op = "go" THEN Ahead(todo, 1) \cup {call.arg} ELSE Ahead(todo, 1)
<1> DEFINE c == <<call>> \o todo
<1>1. c \in Seq(CallsOK) /\ Len(c) = Len(todo) + 1 /\ c[1] = call
      /\ \A k \in 1 .. Len(todo) : c[k + 1] = todo[k]
  OBVIOUS
<1> HIDE DEF c
<1>2. ASSUME NEW k \in Nat \ {0} PROVE Ahead(c, k + 1) = Ahead(todo, k)
  <2>1. ASSUME NEW r, NEW j \in k .. Len(todo), todo[j] = O!Call("go", r)
        PROVE  \E i \in k + 1 .. Len(c) : c[i] = O!Call("go", r)
    <3>1. j + 1 \in k + 1 .. Len(c) /\ c[j + 1] = todo[j] BY <1>1
    <3>2. QED BY <2>1, <3>1
  <2>2. ASSUME NEW r, NEW i \in k + 1 .. Len(c), c[i] = O!Call("go", r)
        PROVE  \E j \in k .. Len(todo) : todo[j] = O!Call("go", r)
    <3>1. i - 1 \in k .. Len(todo) /\ i - 1 \in 1 .. Len(todo) /\ (i - 1) + 1 = i BY <1>1
    <3>2. c[(i - 1) + 1] = todo[i - 1] BY <1>1, <3>1
    <3>3. todo[i - 1] = O!Call("go", r) BY <2>2, <3>1, <3>2
    <3>4. QED BY <3>1, <3>3
  <2>3. QED BY <2>1, <2>2 DEF Ahead
<1>3. Climbs(c)
  <2>1. SUFFICES ASSUME NEW k \in 1 .. Len(c)
                 PROVE  /\ c[k].op \notin {"init", "sync"}
                        /\ c[k].op = "go" => c[k].arg \in Rungs /\ Ahead(c, k + 1) = Above(c[k].arg)
    BY DEF Climbs
  <2>2. Ahead(c, k + 1) = Ahead(todo, k) BY <1>2
  <2>3. CASE k = 1 BY <1>1, <2>2, <2>3
  <2>4. CASE k # 1
    <3>1. k - 1 \in 1 .. Len(todo) /\ (k - 1) + 1 = k BY <1>1, <2>4
    <3>2. c[(k - 1) + 1] = todo[k - 1] BY <1>1, <3>1
    <3>3. c[k] = todo[k - 1] BY <3>1, <3>2
    <3>4. /\ todo[k - 1].op \notin {"init", "sync"}
          /\ todo[k - 1].op = "go" =>
               todo[k - 1].arg \in Rungs /\ Ahead(todo, (k - 1) + 1) = Above(todo[k - 1].arg)
      BY <3>1 DEF Climbs
    <3>5. QED BY <2>2, <3>1, <3>3, <3>4
  <2>5. QED BY <2>3, <2>4
<1>4. Ahead(c, 1) = Ahead(c, 2) \cup {r \in Rungs : call = O!Call("go", r)}
  <2>1. 1 .. Len(c) = {1} \cup 2 .. Len(c) BY <1>1
  <2>2. \A r : (\E j \in 1 .. Len(c) : c[j] = O!Call("go", r)) <=>
                 call = O!Call("go", r) \/ \E j \in 2 .. Len(c) : c[j] = O!Call("go", r)
    BY <1>1, <2>1
  <2>3. QED BY <2>2 DEF Ahead
<1>5. Ahead(c, 2) = Ahead(todo, 1)
  <2>1. Ahead(c, 1 + 1) = Ahead(todo, 1) BY <1>2
  <2>2. QED BY <2>1
<1>6. \A r : call = O!Call("go", r) <=> call.op = "go" /\ call.arg = r
  BY DEF CallsOK, O!Calls, O!Call
<1>7. {r \in Rungs : call = O!Call("go", r)} = IF call.op = "go" THEN {call.arg} ELSE {}
  BY <1>6
<1>8. QED BY <1>1, <1>3, <1>4, <1>5, <1>7 DEF c

\* What is left without the first call.
LEMMA HeadAndTail ==
  ASSUME NEW todo \in Seq(CallsOK), todo # <<>>, Climbs(todo)
  PROVE  /\ Head(todo) \in CallsOK /\ Tail(todo) \in Seq(CallsOK) /\ Climbs(Tail(todo))
         /\ Head(todo).op \notin {"init", "sync"}
         /\ Head(todo).op # "go" => Ahead(todo, 1) = Ahead(Tail(todo), 1)
         /\ Head(todo).op = "go" =>
              /\ Head(todo).arg \in Rungs /\ Ahead(Tail(todo), 1) = Above(Head(todo).arg)
              /\ Ahead(todo, 1) = Above(Head(todo).arg) \cup {Head(todo).arg}
<1> DEFINE call == Head(todo)
           rest == Tail(todo)
<1>1. call \in CallsOK /\ rest \in Seq(CallsOK) /\ todo = <<call>> \o rest BY HeadTailProperties
<1>2. call = todo[1] /\ Len(rest) = Len(todo) - 1 /\ 1 \in 1 .. Len(todo)
      /\ \A k \in 1 .. Len(rest) : rest[k] = todo[k + 1]
  OBVIOUS
<1> HIDE DEF call, rest
<1>3. ASSUME NEW k \in Nat \ {0} PROVE Ahead(rest, k) = Ahead(todo, k + 1)
  <2>1. ASSUME NEW r, NEW j \in k .. Len(rest), rest[j] = O!Call("go", r)
        PROVE  \E i \in k + 1 .. Len(todo) : todo[i] = O!Call("go", r)
    <3>1. j + 1 \in k + 1 .. Len(todo) /\ rest[j] = todo[j + 1] BY <1>2
    <3>2. QED BY <2>1, <3>1
  <2>2. ASSUME NEW r, NEW i \in k + 1 .. Len(todo), todo[i] = O!Call("go", r)
        PROVE  \E j \in k .. Len(rest) : rest[j] = O!Call("go", r)
    <3>1. i - 1 \in k .. Len(rest) /\ i - 1 \in 1 .. Len(rest) /\ (i - 1) + 1 = i BY <1>2
    <3>2. rest[i - 1] = todo[(i - 1) + 1] BY <1>2, <3>1
    <3>3. rest[i - 1] = O!Call("go", r) BY <2>2, <3>1, <3>2
    <3>4. QED BY <3>1, <3>3
  <2>3. QED BY <2>1, <2>2 DEF Ahead
<1>4. Climbs(rest)
  <2>1. SUFFICES ASSUME NEW k \in 1 .. Len(rest)
                 PROVE  /\ rest[k].op \notin {"init", "sync"}
                        /\ rest[k].op = "go" =>
                             rest[k].arg \in Rungs /\ Ahead(rest, k + 1) = Above(rest[k].arg)
    BY DEF Climbs
  <2>2. k + 1 \in 1 .. Len(todo) /\ rest[k] = todo[k + 1] BY <1>2
  <2>3. Ahead(rest, k + 1) = Ahead(todo, (k + 1) + 1) BY <1>3
  <2>4. QED BY <2>2, <2>3 DEF Climbs
<1>5. call.op \notin {"init", "sync"}
      /\ (call.op = "go" => call.arg \in Rungs /\ Ahead(todo, 1 + 1) = Above(call.arg))
  BY <1>2 DEF Climbs
<1>6. Ahead(rest, 1) = Ahead(todo, 1 + 1) BY <1>3
<1>7. call.op = "go" => call.arg \in Rungs /\ Ahead(rest, 1) = Above(call.arg) BY <1>5, <1>6
<1>8. Ahead(<<call>> \o rest, 1) =
        IF call.op = "go" THEN Ahead(rest, 1) \cup {call.arg} ELSE Ahead(rest, 1)
  BY <1>1, <1>4, <1>5, <1>7, Prepend
<1>9. QED BY <1>1, <1>4, <1>5, <1>7, <1>8 DEF call, rest

\* Lists that are joined, and the laws of that.
Joined(a, b) == a \o b
JoinedWell(S) ==
  \A a, b \in Seq(S) :
    /\ Joined(a, b) \in Seq(S) /\ Len(Joined(a, b)) = Len(a) + Len(b)
    /\ \A k \in 1 .. Len(a) : Joined(a, b)[k] = a[k]
    /\ \A k \in 1 .. Len(b) : Joined(a, b)[Len(a) + k] = b[k]
    /\ \A c \in Seq(S) : Joined(Joined(a, b), c) = Joined(a, Joined(b, c))

LEMMA Joins == ASSUME NEW S PROVE JoinedWell(S)
<1>1. \A a, b, c \in Seq(S) : (a \o b) \o c = a \o (b \o c) BY ConcatAssociative
<1>2. \A a, b \in Seq(S) :
        /\ a \o b \in Seq(S) /\ Len(a \o b) = Len(a) + Len(b)
        /\ \A k \in 1 .. Len(a) : (a \o b)[k] = a[k]
        /\ \A k \in 1 .. Len(b) : (a \o b)[Len(a) + k] = b[k]
  OBVIOUS
<1>3. QED BY <1>1, <1>2 DEF Joined, JoinedWell

Regroups(a, b, c, d, e) == a \o b \o c \o d \o e = a \o (b \o (c \o (d \o e)))
LEMMA Regrouped ==
  ASSUME NEW a \in Seq(CallsOK), NEW b \in Seq(CallsOK), NEW c \in Seq(CallsOK),
         NEW d \in Seq(CallsOK), NEW e \in Seq(CallsOK)
  PROVE  Regroups(a, b, c, d, e)
<1>1. \A x, y \in Seq(CallsOK) :
        /\ Joined(x, y) \in Seq(CallsOK)
        /\ \A z \in Seq(CallsOK) : Joined(Joined(x, y), z) = Joined(x, Joined(y, z))
  BY Joins DEF JoinedWell
<1> DEFINE ab == Joined(a, b)
           abc == Joined(ab, c)
           de == Joined(d, e)
<1>2. ab \in Seq(CallsOK) /\ abc \in Seq(CallsOK) /\ de \in Seq(CallsOK) BY <1>1
<1> HIDE DEF ab, abc, de
<1>3. Joined(Joined(abc, d), e) = Joined(abc, de) BY <1>1, <1>2 DEF de
<1>4. Joined(abc, de) = Joined(ab, Joined(c, de)) BY <1>1, <1>2 DEF abc
<1>5. Joined(ab, Joined(c, de)) = Joined(a, Joined(b, Joined(c, de))) BY <1>1, <1>2 DEF ab
<1>6. QED BY <1>3, <1>4, <1>5 DEF Regroups, Joined, ab, abc, de

Twos(a, b) == <<a>> \o <<b>> = <<a, b>>
LEMMA TwoJoined ==
  ASSUME NEW a \in CallsOK, NEW b \in CallsOK
  PROVE  Twos(a, b)
<1> DEFINE x == <<a>>
           y == <<b>>
           z == <<a, b>>
           c == Joined(x, y)
<1>1. \A u, v \in Seq(CallsOK) :
        /\ Joined(u, v) \in Seq(CallsOK) /\ Len(Joined(u, v)) = Len(u) + Len(v)
        /\ \A k \in 1 .. Len(u) : Joined(u, v)[k] = u[k]
        /\ \A k \in 1 .. Len(v) : Joined(u, v)[Len(u) + k] = v[k]
  <2> HIDE DEF x, y, z, c
  <2>1. JoinedWell(CallsOK) BY Joins
  <2>2. QED BY <2>1 DEF JoinedWell
<1>2. x \in Seq(CallsOK) /\ y \in Seq(CallsOK) /\ z \in Seq(CallsOK)
      /\ Len(x) = 1 /\ Len(y) = 1 /\ Len(z) = 2
      /\ x[1] = a /\ y[1] = b /\ z[1] = a /\ z[2] = b
  OBVIOUS
<1> HIDE DEF x, y, z
<1>3. c \in Seq(CallsOK) /\ Len(c) = 2 /\ c[1] = a /\ c[2] = b
  <2>1. c \in Seq(CallsOK) /\ Len(c) = Len(x) + Len(y) /\ (\A k \in 1 .. Len(x) : c[k] = x[k])
        /\ \A k \in 1 .. Len(y) : c[Len(x) + k] = y[k]
    BY <1>1, <1>2
  <2> HIDE DEF c
  <2>2. 1 \in 1 .. Len(x) /\ 1 \in 1 .. Len(y) BY <1>2
  <2>3. c[1] = x[1] /\ c[Len(x) + 1] = y[1] BY <2>1, <2>2
  <2>4. QED BY <1>2, <2>1, <2>3
<1> HIDE DEF c
<1>4. \A k \in 1 .. Len(c) : c[k] = z[k]
  <2>1. \A k \in 1 .. 2 : k = 1 \/ k = 2 OBVIOUS
  <2>2. QED BY <1>2, <1>3, <2>1
<1>5. c = z BY <1>2, <1>3, <1>4, SeqEqual
<1>6. <<a>> \o <<b>> = <<a, b>> BY <1>5 DEF c, x, y, z, Joined
<1>7. QED BY <1>6 DEF Twos

\* The calls a walk is made of.
LEMMA WalkMade ==
  /\ \A r \in Rungs : LET c == O!Call("go", r) IN c \in CallsOK /\ c.op = "go" /\ c.arg = r
  /\ \A op \in {"complete", "skip", "patch"} : \A s \in O!Stages :
       O!Call(op, s) \in CallsOK /\ O!Call(op, s).op = op
  /\ \A op \in {"init", "attach", "sync", "configure", "refuse"} :
       O!Call(op, "-") \in CallsOK /\ O!Call(op, "-").op = op
  BY DEF O!Call, O!Calls, CallsOK, O!Ops, O!CheckedOps, O!States, O!Stages, Rungs

\* A call that goes nowhere, before the others.
LEMMA PrependPlain ==
  ASSUME NEW call \in CallsOK, call.op \notin {"init", "sync", "go"}, NEW todo \in Seq(CallsOK),
         Climbs(todo)
  PROVE  <<call>> \o todo \in Seq(CallsOK) /\ Climbs(<<call>> \o todo)
         /\ Ahead(<<call>> \o todo, 1) = Ahead(todo, 1)
  BY Prepend

\* A call that goes to the stage below those that are ahead.
LEMMA PrependGo ==
  ASSUME NEW r \in Rungs, NEW todo \in Seq(CallsOK), Climbs(todo), Ahead(todo, 1) = Above(r)
  PROVE  LET c == <<O!Call("go", r)>> \o todo IN
         c \in Seq(CallsOK) /\ Climbs(c) /\ Ahead(c, 1) = Above(r) \cup {r}
<1> DEFINE call == O!Call("go", r)
<1>1. call \in CallsOK /\ call.op = "go" /\ call.arg = r BY WalkMade
<1> HIDE DEF call
<1>2. <<call>> \o todo \in Seq(CallsOK) /\ Climbs(<<call>> \o todo)
      /\ Ahead(<<call>> \o todo, 1) = Ahead(todo, 1) \cup {r}
  BY <1>1, Prepend
<1>3. QED BY <1>2 DEF call

LEMMA ReadyClimbs ==
  /\ O!ConfigureThenReady \in Seq(CallsOK) /\ Climbs(O!ConfigureThenReady)
  /\ Ahead(O!ConfigureThenReady, 1) = {"ready"}
<1> DEFINE a == O!Call("configure", "-")
           go == O!Call("go", "ready")
<1>1. a \in CallsOK /\ a.op = "configure" /\ go \in CallsOK BY WalkMade DEF Rungs
<1>2. "ready" \in Rungs /\ <<>> \in Seq(CallsOK) /\ Ahead(<<>>, 1) = Above("ready")
  <2>1. Ahead(<<>>, 1) = Above("ready") BY NothingAhead, Heights
  <2>2. "ready" \in Rungs BY DEF Rungs
  <2>3. QED BY <2>1, <2>2
<1>3. O!ConfigureThenReady = <<a, go>> BY DEF O!ConfigureThenReady
<1> DEFINE b == <<go>> \o <<>>
<1>4. b \in Seq(CallsOK) /\ Climbs(b) /\ Ahead(b, 1) = Above("ready") \cup {"ready"}
  <2>1. Climbs(<<>>) BY NothingAhead
  <2>2. QED BY <1>2, <2>1, PrependGo
<1> HIDE DEF a, go
<1>5. b = <<go>> BY <1>1
<1> HIDE DEF b
<1>6. <<a>> \o b = <<a, go>>
  <2>1. <<a>> \o <<go>> = <<a, go>>
    <3>1. Twos(a, go) BY <1>1, TwoJoined
    <3>2. QED BY <3>1 DEF Twos
  <2>2. QED BY <1>5, <2>1
<1>7. Ahead(b, 1) = {"ready"} BY <1>4, Heights
<1>8. QED BY <1>1, <1>3, <1>4, <1>6, <1>7, PrependPlain

\* A stage that is visited before those above it.
LEMMA VisitClimbs ==
  ASSUME NEW s \in {"identity", "channels", "validate"}, NEW seen, NEW todo \in Seq(CallsOK),
         Climbs(todo), Ahead(todo, 1) = Above(s)
  PROVE  LET c == O!Visit(s, seen) \o todo IN
         c \in Seq(CallsOK) /\ Climbs(c) /\ Ahead(c, 1) = Above(s) \cup {s}
<1> DEFINE go == O!Call("go", s)
           skip == O!Call("skip", s)
           complete == O!Call("complete", s)
           refuse == O!Call("refuse", "-")
           rest == IF s \in Skippable THEN <<skip>>
                   ELSE IF s \notin Manual THEN <<complete>>
                   ELSE IF seen[s] = "pending" THEN <<refuse>> ELSE <<>>
<1>1. O!Visit(s, seen) = <<go>> \o rest BY DEF O!Visit
<1>2. s \in O!Stages /\ s \in Rungs BY DEF O!Stages, Rungs
<1>3. \A call \in {skip, complete, refuse} :
        call \in CallsOK /\ call.op \notin {"init", "sync", "go"}
  <2>1. skip \in CallsOK /\ skip.op = "skip" /\ complete \in CallsOK /\ complete.op = "complete"
        /\ refuse \in CallsOK /\ refuse.op = "refuse"
    BY <1>2, WalkMade
  <2> HIDE DEF skip, complete, refuse
  <2>2. QED BY <2>1
<1>4. rest \in {<<skip>>, <<complete>>, <<refuse>>, <<>>} OBVIOUS
<1>5. go \in CallsOK BY <1>2, WalkMade
<1> HIDE DEF go, skip, complete, refuse, rest
<1>6. rest = <<>> \/ \E call \in {skip, complete, refuse} : rest = <<call>> BY <1>4
<1>7. rest \in Seq(CallsOK) /\ rest \o todo \in Seq(CallsOK) /\ Climbs(rest \o todo)
      /\ Ahead(rest \o todo, 1) = Above(s)
  <2>1. CASE rest = <<>>
    <3>1. rest \o todo = todo /\ rest \in Seq(CallsOK) BY <2>1
    <3>2. QED BY <3>1
  <2>2. CASE \E call \in {skip, complete, refuse} : rest = <<call>>
    <3>1. PICK call \in {skip, complete, refuse} : rest = <<call>> BY <2>2
    <3>2. call \in CallsOK /\ call.op \notin {"init", "sync", "go"} BY <1>3
    <3>3. <<call>> \in Seq(CallsOK) BY <3>2
    <3>4. <<call>> \o todo \in Seq(CallsOK) /\ Climbs(<<call>> \o todo)
          /\ Ahead(<<call>> \o todo, 1) = Ahead(todo, 1)
      BY <3>2, PrependPlain
    <3>5. QED BY <3>1, <3>3, <3>4
  <2>3. QED BY <1>6, <2>1, <2>2
<1>8. <<go>> \in Seq(CallsOK) BY <1>5
<1>9. (<<go>> \o rest) \o todo = <<go>> \o (rest \o todo) BY <1>7, <1>8, ConcatAssociative
<1>10. <<go>> \o (rest \o todo) \in Seq(CallsOK) /\ Climbs(<<go>> \o (rest \o todo))
       /\ Ahead(<<go>> \o (rest \o todo), 1) = Above(s) \cup {s}
  BY <1>2, <1>7, PrependGo DEF go
<1>11. QED BY <1>1, <1>9, <1>10

\* The whole walk goes to every stage, in their order.
LEMMA WalkClimbs ==
  ASSUME NEW seen
  PROVE  O!Walk(seen) \in Seq(CallsOK) /\ Climbs(O!Walk(seen)) /\ Ahead(O!Walk(seen), 1) = Rungs
<1> DEFINE complete == O!Call("complete", "providers")
           go == O!Call("go", "providers")
           v == O!Visit("identity", seen)
           w == O!Visit("channels", seen)
           x == O!Visit("validate", seen)
           z == O!ConfigureThenReady
           xz == x \o z
           wz == w \o xz
           vz == v \o wz
<1>1. O!Walk(seen) = <<complete, go>> \o v \o w \o x \o z BY DEF O!Walk
<1>2. complete \in CallsOK /\ complete.op = "complete" /\ go \in CallsOK
  BY WalkMade DEF O!Stages, Rungs
<1>3. v \in Seq(CallsOK) /\ w \in Seq(CallsOK) /\ x \in Seq(CallsOK)
  BY VisitCalls, VisitOK, SeqWider
<1>4. z \in Seq(CallsOK) /\ Climbs(z) /\ Ahead(z, 1) = Above("validate") BY ReadyClimbs, Heights
<1>5. xz \in Seq(CallsOK) /\ Climbs(xz) /\ Ahead(xz, 1) = Above("channels")
  <2>1. Ahead(z, 1) = Above("validate") BY <1>4
  <2> HIDE DEF x, z
  <2>2. xz \in Seq(CallsOK) /\ Climbs(xz) /\ Ahead(xz, 1) = Above("validate") \cup {"validate"}
    BY <1>4, VisitClimbs DEF x
  <2>3. QED BY <2>2, Heights
<1>6. wz \in Seq(CallsOK) /\ Climbs(wz) /\ Ahead(wz, 1) = Above("identity")
  <2> HIDE DEF w, xz
  <2>1. wz \in Seq(CallsOK) /\ Climbs(wz) /\ Ahead(wz, 1) = Above("channels") \cup {"channels"}
    BY <1>5, VisitClimbs DEF w
  <2>2. QED BY <2>1, Heights
<1>7. vz \in Seq(CallsOK) /\ Climbs(vz) /\ Ahead(vz, 1) = Above("providers")
  <2> HIDE DEF v, wz
  <2>1. vz \in Seq(CallsOK) /\ Climbs(vz) /\ Ahead(vz, 1) = Above("identity") \cup {"identity"}
    BY <1>6, VisitClimbs DEF v
  <2>2. QED BY <2>1, Heights
<1> HIDE DEF v, w, x, z
<1> HIDE DEF complete, go
<1> DEFINE a == <<complete, go>>
<1>8. a \o v \o w \o x \o z = <<complete>> \o (<<go>> \o vz)
  <2>1. a \in Seq(CallsOK) /\ <<complete>> \in Seq(CallsOK) /\ <<go>> \in Seq(CallsOK) BY <1>2
  <2>2. a = <<complete>> \o <<go>>
    <3>1. Twos(complete, go) BY <1>2, TwoJoined
    <3>2. QED BY <3>1 DEF Twos
  <2> HIDE DEF a
  <2>3. a \o v \o w \o x \o z = a \o vz
    <3>1. Regroups(a, v, w, x, z) BY <1>3, <1>4, <2>1, Regrouped
    <3>2. QED BY <3>1 DEF Regroups
  <2> HIDE DEF vz
  <2>4. a \o vz = <<complete>> \o (<<go>> \o vz) BY <1>7, <2>1, <2>2, ConcatAssociative
  <2>5. QED BY <2>3, <2>4
<1> HIDE DEF vz
<1> USE DEF go
<1>9. /\ <<go>> \o vz \in Seq(CallsOK) /\ Climbs(<<go>> \o vz)
      /\ Ahead(<<go>> \o vz, 1) = Above("providers") \cup {"providers"}
  BY <1>7, PrependGo DEF Rungs
<1>10. Ahead(<<go>> \o vz, 1) = Rungs BY <1>9, Heights DEF Rungs
<1> HIDE DEF go
<1>11. QED BY <1>1, <1>2, <1>8, <1>9, <1>10, PrependPlain

-----------------------------------------------------------------------------
(***************************************************************************)
(* A walk that is alone.                                                   *)
(***************************************************************************)
\* What a step leaves p to do still leads to the end, or p has been ended.
LeadsOn(p) ==
  \/ Leads(walk'[p].todo, provided', onboarding'.state)
  \/ walk'[p].todo = <<>> /\ walk'[p].said = "nothing"

LEMMA SaidThen ==
  ASSUME WalkInv, NEW p \in Procs
  PROVE  /\ O!End(p) => walk'[p].todo = <<>> /\ walk'[p].said = "nothing"
         /\ \A todo \in Seq(CallsOK) : O!Continue(p, todo) =>
              /\ walk'[p].todo = todo /\ walk'[p].kind = walk[p].kind
              /\ walk'[p].said = "ok" => todo = <<>>
              /\ \A q \in Procs \ {p} : walk'[q] = walk[q]
<1>1. walk \in [Procs -> WalkTypes] /\ walk[p] \in WalkTypes BY DEF WalkInv, WalkCalls
<1>2. ASSUME O!End(p) PROVE walk'[p].todo = <<>> /\ walk'[p].said = "nothing"
  <2>1. walk'[p] = O!Idle BY <1>1, <1>2 DEF O!End
  <2>2. QED BY <2>1 DEF O!Idle
<1>3. ASSUME NEW todo \in Seq(CallsOK), O!Continue(p, todo)
      PROVE  /\ walk'[p].todo = todo /\ walk'[p].kind = walk[p].kind
             /\ walk'[p].said = "ok" => todo = <<>>
             /\ \A q \in Procs \ {p} : walk'[q] = walk[q]
  <2> DEFINE said == IF todo = <<>> THEN "ok" ELSE "nothing"
             new == [walk[p] EXCEPT !.todo = todo, !.checked = FALSE, !.said = said]
  <2>1. walk' = [walk EXCEPT ![p] = new] BY <1>1, <1>3 DEF O!Continue
  <2>2. \A text :
          LET n == [walk[p] EXCEPT !.todo = todo, !.checked = FALSE, !.said = text] IN
          n.todo = todo /\ n.kind = walk[p].kind /\ n.said = text
    BY <1>1 DEF WalkTypes
  <2>3. new.todo = todo /\ new.kind = walk[p].kind /\ new.said = said BY <2>2, Zenon
  <2>4. said = "ok" => todo = <<>> OBVIOUS
  <2> HIDE DEF new, said
  <2>5. walk'[p] = new /\ \A q \in Procs \ {p} : walk'[q] = walk[q] BY <1>1, <2>1
  <2>6. QED BY <2>3, <2>4, <2>5
<1>4. QED BY <1>2, <1>3

\* A climb goes on behind its first call.
LEMMA ClimbsOn ==
  ASSUME WalkInv, NEW p \in Procs, walk[p].todo # <<>>, O!Advance(p),
         Climbs(walk[p].todo), Above(onboarding.state) \subseteq Ahead(walk[p].todo, 1),
         IF Head(walk[p].todo).op = "go" THEN onboarding'.state = Head(walk[p].todo).arg
                                         ELSE onboarding'.state = onboarding.state
  PROVE  LeadsOn(p)
<1> DEFINE todo == walk[p].todo
<1>1. todo \in Seq(CallsOK) BY DEF WalkInv, WalkCalls, WalkTypes
<1>2. /\ Tail(todo) \in Seq(CallsOK) /\ Climbs(Tail(todo))
      /\ Head(todo).op # "go" => Ahead(todo, 1) = Ahead(Tail(todo), 1)
      /\ Head(todo).op = "go" => Ahead(Tail(todo), 1) = Above(Head(todo).arg)
  BY <1>1, HeadAndTail
<1>3. walk'[p].todo = Tail(todo) BY <1>2, SaidThen DEF O!Advance
<1>4. Above(onboarding'.state) \subseteq Ahead(Tail(todo), 1)
  <2>1. CASE Head(todo).op = "go" BY <1>2, <2>1
  <2>2. CASE Head(todo).op # "go" BY <1>2, <2>2
  <2>3. QED BY <2>1, <2>2
<1>5. QED BY <1>2, <1>3, <1>4 DEF LeadsOn, Leads

\* It goes on if its first call is not permitted: that has been done.
LEMMA ClimbsPast ==
  ASSUME WalkInv, NEW p \in Procs, walk[p].todo # <<>>, O!NextCall(p).op \in O!CheckedOps,
         Climbs(walk[p].todo), Above(onboarding.state) \subseteq Ahead(walk[p].todo, 1),
         onboarding.state # "none", ~ O!Permitted(O!NextCall(p)), UNCHANGED <<provided, onboarding>>,
         O!Continue(p, O!InPlaceOf(O!NextCall(p)) \o Tail(walk[p].todo))
  PROVE  LeadsOn(p)
<1> DEFINE todo == walk[p].todo
           call == Head(todo)
           rest == Tail(todo)
           patch == O!Call("patch", "providers")
           new == O!InPlaceOf(call) \o rest
<1>1. todo \in Seq(CallsOK) BY DEF WalkInv, WalkCalls, WalkTypes
<1>2. /\ call \in CallsOK /\ rest \in Seq(CallsOK) /\ Climbs(rest)
      /\ call.op \notin {"init", "sync"}
      /\ call.op # "go" => Ahead(todo, 1) = Ahead(rest, 1)
      /\ call.op = "go" =>
           /\ call.arg \in Rungs /\ Ahead(rest, 1) = Above(call.arg)
           /\ Ahead(todo, 1) = Above(call.arg) \cup {call.arg}
  BY <1>1, HeadAndTail
<1>3. patch \in CallsOK /\ patch.op = "patch" BY WalkMade DEF O!Stages
<1>4. onboarding \in O!OnboardingRecords /\ onboarding.state \in O!States \cup {"none"}
  BY DEF WalkInv, WalkFields, O!OnboardingRecords
<1>5. O!NextCall(p) = call BY DEF O!NextCall
<1>6. O!InPlaceOf(call) \in {<<patch>>, <<>>} BY DEF O!InPlaceOf
<1>7. call.op = "go" => Above(onboarding.state) \subseteq Above(call.arg)
  <2>1. SUFFICES ASSUME call.op = "go" PROVE Above(onboarding.state) \subseteq Above(call.arg)
    OBVIOUS
  <2>2. call.arg \notin O!TRANSITIONS[onboarding.state] BY <1>5, <2>1 DEF O!Permitted
  <2>3. call.arg \in Rungs
        /\ Above(onboarding.state) \subseteq Above(call.arg) \cup {call.arg}
    BY <1>2, <2>1
  <2>4. ASSUME NEW r \in Rungs, NEW s \in O!States, r \in Above(s),
               Above(s) \subseteq Above(r) \cup {r}
        PROVE  r \in O!TRANSITIONS[s]
    <3>1. CASE s = "pending"
      <4>1. O!TRANSITIONS[s] = {"providers", "ready"} BY <3>1 DEF O!TRANSITIONS
      <4>2. "providers" \in Above(r) \cup {r} BY <2>4, <3>1, Heights DEF Rungs
      <4>3. r = "providers" BY <4>2, Heights DEF Rungs
      <4>4. QED BY <4>1, <4>3
    <3>2. CASE s = "providers"
      <4>1. O!TRANSITIONS[s] = {"identity"} BY <3>2 DEF O!TRANSITIONS
      <4>2. "identity" \in Above(r) \cup {r} /\ r # "providers" BY <2>4, <3>2, Heights
      <4>3. r = "identity" BY <4>2, Heights DEF Rungs
      <4>4. QED BY <4>1, <4>3
    <3>3. CASE s = "identity"
      <4>1. O!TRANSITIONS[s] = {"channels"} BY <3>3 DEF O!TRANSITIONS
      <4>2. "channels" \in Above(r) \cup {r} /\ r \in {"channels", "validate", "ready"}
        BY <2>4, <3>3, Heights
      <4>3. r = "channels" BY <4>2, Heights
      <4>4. QED BY <4>1, <4>3
    <3>4. CASE s = "channels"
      <4>1. O!TRANSITIONS[s] = {"validate"} BY <3>4 DEF O!TRANSITIONS
      <4>2. "validate" \in Above(r) \cup {r} /\ r \in {"validate", "ready"}
        BY <2>4, <3>4, Heights
      <4>3. r = "validate" BY <4>2, Heights
      <4>4. QED BY <4>1, <4>3
    <3>5. CASE s = "validate"
      <4>1. O!TRANSITIONS[s] = {"ready", "channels"} BY <3>5 DEF O!TRANSITIONS
      <4>2. r = "ready" BY <2>4, <3>5, Heights
      <4>3. QED BY <4>1, <4>2
    <3>6. CASE s = "ready" BY <2>4, <3>6, Heights
    <3>7. QED BY <3>1, <3>2, <3>3, <3>4, <3>5, <3>6 DEF O!States, O!Stages
  <2>5. call.arg \notin Above(onboarding.state) BY <1>4, <2>2, <2>3, <2>4
  <2>6. QED BY <2>3, <2>5
<1>8. new \in Seq(CallsOK) /\ Climbs(new) /\ Ahead(new, 1) = Ahead(rest, 1)
  <2> HIDE DEF call, rest, patch
  <2>1. CASE O!InPlaceOf(call) = <<>> BY <1>2, <2>1
  <2>2. CASE O!InPlaceOf(call) = <<patch>>
    <3>1. <<patch>> \o rest \in Seq(CallsOK) /\ Climbs(<<patch>> \o rest)
          /\ Ahead(<<patch>> \o rest, 1) = Ahead(rest, 1)
      BY <1>2, <1>3, PrependPlain
    <3>2. QED BY <2>2, <3>1
  <2>3. QED BY <1>6, <2>1, <2>2
<1>9. Above(onboarding.state) \subseteq Ahead(new, 1)
  <2>1. CASE call.op = "go" BY <1>2, <1>7, <1>8, <2>1
  <2>2. CASE call.op # "go" BY <1>2, <1>8, <2>2
  <2>3. QED BY <2>1, <2>2
<1> HIDE DEF new
<1>10. walk'[p].todo = new BY <1>5, <1>8, SaidThen DEF new
<1>11. QED BY <1>8, <1>9, <1>10 DEF LeadsOn, Leads

LEMMA OneMore ==
  ASSUME NEW call \in CallsOK, NEW todo \in Seq(CallsOK)
  PROVE  LET c == <<call>> \o todo IN
         c \in Seq(CallsOK) /\ c # <<>> /\ Head(c) = call /\ Tail(c) = todo
<1> DEFINE c == <<call>> \o todo
<1>1. c \in Seq(CallsOK) /\ Len(c) = Len(todo) + 1 /\ c[1] = call
      /\ \A k \in 1 .. Len(todo) : c[k + 1] = todo[k]
  OBVIOUS
<1> HIDE DEF c
<1>2. c # <<>> /\ Head(c) = call BY <1>1
<1>3. Tail(c) \in Seq(CallsOK) /\ Len(Tail(c)) = Len(todo)
      /\ \A k \in 1 .. Len(Tail(c)) : Tail(c)[k] = c[k + 1]
  BY <1>1, <1>2
<1>4. \A k \in 1 .. Len(Tail(c)) : Tail(c)[k] = todo[k] BY <1>1, <1>3
<1>5. Tail(c) = todo BY <1>3, <1>4, SeqEqual
<1>6. QED BY <1>1, <1>2, <1>5 DEF c

\* The calls of a configure before its walk.
LEMMA BeforeWalk ==
  LET attach == O!Call("attach", "-")
      sync1 == O!Call("sync", "-")
      initialize == O!Call("init", "-")
      all3 == <<initialize>> \o AttachThenSync IN
  /\ all3 \in Seq(CallsOK) /\ Head(all3) = initialize /\ Tail(all3) = AttachThenSync
  /\ AttachThenSync \in Seq(CallsOK) /\ Head(AttachThenSync) = attach
  /\ Tail(AttachThenSync) = <<sync1>>
  /\ <<sync1>> \in Seq(CallsOK) /\ Head(<<sync1>>) = sync1
  /\ initialize.op = "init" /\ attach.op = "attach" /\ sync1.op = "sync"
<1> DEFINE attach == O!Call("attach", "-")
           sync1 == O!Call("sync", "-")
           initialize == O!Call("init", "-")
<1>1. attach \in CallsOK /\ sync1 \in CallsOK /\ initialize \in CallsOK
      /\ initialize.op = "init" /\ attach.op = "attach" /\ sync1.op = "sync"
  BY WalkMade
<1>2. AttachThenSync = <<attach, sync1>> BY DEF AttachThenSync
<1> HIDE DEF attach, sync1, initialize
<1>3. <<sync1>> \in Seq(CallsOK) /\ Head(<<sync1>>) = sync1 BY <1>1
<1>4. AttachThenSync = <<attach>> \o <<sync1>>
  <2>1. Twos(attach, sync1) BY <1>1, TwoJoined
  <2>2. QED BY <1>2, <2>1 DEF Twos
<1>5. AttachThenSync \in Seq(CallsOK) /\ Head(AttachThenSync) = attach
      /\ Tail(AttachThenSync) = <<sync1>>
  BY <1>1, <1>3, <1>4, OneMore
<1>6. <<initialize>> \o AttachThenSync \in Seq(CallsOK)
      /\ Head(<<initialize>> \o AttachThenSync) = initialize
      /\ Tail(<<initialize>> \o AttachThenSync) = AttachThenSync
  BY <1>1, <1>5, OneMore
<1>7. QED BY <1>1, <1>3, <1>5, <1>6 DEF attach, sync1, initialize

\* Which of its lists a process is in follows from the call that is next.
LEMMA Phases ==
  ASSUME NEW todo \in Seq(CallsOK), todo # <<>>, Leads(todo, provided, onboarding.state)
  PROVE  LET op == Head(todo).op
             climbs == Climbs(todo) /\ Above(onboarding.state) \subseteq Ahead(todo, 1) IN
         /\ op = "init" => Head(todo) = O!Call("init", "-") /\ Tail(todo) = AttachThenSync
         /\ op = "attach" => Tail(todo) = <<O!Call("sync", "-")>> \/ climbs
         /\ op = "sync" => provided
         /\ op \notin {"init", "attach", "sync"} => climbs
<1>1. CASE todo = <<O!Call("init", "-")>> \o AttachThenSync BY <1>1, BeforeWalk
<1>2. CASE todo = AttachThenSync BY <1>2, BeforeWalk
<1>3. CASE todo = <<O!Call("sync", "-")>> /\ provided BY <1>3, BeforeWalk
<1>4. CASE Climbs(todo) /\ Above(onboarding.state) \subseteq Ahead(todo, 1)
  <2>1. Head(todo).op \notin {"init", "sync"} BY <1>4, HeadAndTail
  <2>2. QED BY <1>4, <2>1
<1>5. QED BY <1>1, <1>2, <1>3, <1>4 DEF Leads

\* A configure that is alone goes on along its walk.
LEMMA AloneGoesOn ==
  ASSUME WalkInv, NEW p \in Procs, walk[p].todo # <<>>,
         Leads(walk[p].todo, provided, onboarding.state),
         \/ O!Attach(p) \/ O!Sync(p) \/ O!Render(p) \/ O!Configure(p)
         \/ O!Check(p) \/ O!Write(p) \/ O!Stop(p)
  PROVE  LeadsOn(p)
<1> DEFINE todo == walk[p].todo
           call == Head(todo)
<1>1. todo \in Seq(CallsOK) /\ todo # <<>> /\ call \in CallsOK /\ Tail(todo) \in Seq(CallsOK)
  BY HeadTailProperties DEF WalkInv, WalkCalls, WalkTypes
<1>2. /\ call.op = "init" => call = O!Call("init", "-") /\ Tail(todo) = AttachThenSync
      /\ call.op = "attach" =>
           \/ Tail(todo) = <<O!Call("sync", "-")>>
           \/ Climbs(todo) /\ Above(onboarding.state) \subseteq Ahead(todo, 1)
      /\ call.op = "sync" => provided
      /\ call.op \notin {"init", "attach", "sync"} =>
           Climbs(todo) /\ Above(onboarding.state) \subseteq Ahead(todo, 1)
  BY <1>1, Phases
<1>3. O!End(p) => LeadsOn(p) BY SaidThen DEF LeadsOn
<1>4. O!Advance(p) => walk'[p].todo = Tail(todo) BY <1>1, SaidThen DEF O!Advance
<1>5. O!NextCall(p) = call BY DEF O!NextCall
<1>6. ASSUME O!Advance(p), call.op # "go", onboarding'.state = onboarding.state,
             Climbs(todo), Above(onboarding.state) \subseteq Ahead(todo, 1)
      PROVE  LeadsOn(p)
  BY <1>1, <1>6, ClimbsOn
<1>7. CASE O!Attach(p)
  <2>1. call.op = "attach" /\ O!Advance(p) /\ provided' = TRUE /\ onboarding' = onboarding
    BY <1>5, <1>7 DEF O!Attach, O!Doing
  <2>2. CASE Tail(todo) = <<O!Call("sync", "-")>> BY <1>4, <2>1, <2>2 DEF LeadsOn, Leads
  <2>3. CASE Climbs(todo) /\ Above(onboarding.state) \subseteq Ahead(todo, 1)
    BY <1>6, <2>1, <2>3
  <2>4. QED BY <1>2, <2>1, <2>2, <2>3
<1>8. CASE O!Sync(p)
  <2>1. call.op = "sync" /\ UNCHANGED <<onboarding, provided>>
    BY <1>5, <1>8 DEF O!Sync, O!Doing
  <2>2. provided BY <1>2, <2>1
  <2>3. CASE O!Continue(p, O!Walk(onboarding.stages))
    <3>1. O!Walk(onboarding.stages) \in Seq(CallsOK) /\ Climbs(O!Walk(onboarding.stages))
          /\ Ahead(O!Walk(onboarding.stages), 1) = Rungs
      BY WalkClimbs
    <3>2. walk'[p].todo = O!Walk(onboarding.stages) BY <2>3, <3>1, SaidThen
    <3>3. Above(onboarding'.state) \subseteq Rungs BY DEF Above
    <3>4. QED BY <3>1, <3>2, <3>3 DEF LeadsOn, Leads
  <2>4. CASE O!Continue(p, O!ConfigureThenReady) /\ onboarding.state = "ready"
    <3>1. walk'[p].todo = O!ConfigureThenReady BY <2>4, ReadyClimbs, SaidThen
    <3>2. Above(onboarding'.state) = {} BY <2>1, <2>4, Heights
    <3>3. QED BY <3>1, <3>2, ReadyClimbs DEF LeadsOn, Leads
  <2>5. \/ O!Continue(p, O!Walk(onboarding.stages))
        \/ O!Continue(p, O!ConfigureThenReady) /\ onboarding.state = "ready"
    BY <1>8, <2>2 DEF O!Sync
  <2>6. QED BY <2>3, <2>4, <2>5
<1>9. CASE O!Render(p) \/ O!Configure(p)
  <2>1. call.op \in {"render", "configure"} /\ (O!Advance(p) \/ O!End(p)) /\ onboarding' = onboarding
    BY <1>5, <1>9 DEF O!Render, O!Configure, O!Doing
  <2>2. QED BY <1>2, <1>3, <1>6, <2>1
<1>10. CASE O!Check(p)
  <2>1. call.op \in O!CheckedOps /\ UNCHANGED <<onboarding, provided>>
    BY <1>5, <1>10 DEF O!Check
  <2>2. \/ O!End(p)
        \/ walk' = [walk EXCEPT ![p].checked = TRUE]
        \/ /\ O!Continue(p, O!InPlaceOf(call) \o Tail(todo)) /\ ~ O!Permitted(call)
           /\ onboarding.state # "none" \/ call.op = "init"
    BY <1>5, <1>10 DEF O!Check
  <2>3. CASE walk' = [walk EXCEPT ![p].checked = TRUE]
    <3>1. walk \in [Procs -> WalkTypes] BY DEF WalkInv, WalkCalls
    <3>2. walk'[p].todo = todo BY <2>3, <3>1 DEF WalkTypes
    <3>3. QED BY <2>1, <3>2 DEF LeadsOn
  <2>4. CASE /\ O!Continue(p, O!InPlaceOf(call) \o Tail(todo)) /\ ~ O!Permitted(call)
             /\ onboarding.state # "none" \/ call.op = "init"
    <3>1. CASE call.op = "init"
      <4>1. O!Call("init", "-") # O!Call("complete", "providers") BY DEF O!Call
      <4>2. O!InPlaceOf(call) = <<>> BY <1>2, <3>1, <4>1 DEF O!InPlaceOf
      <4>3. O!InPlaceOf(call) \o Tail(todo) = Tail(todo)
        <5>1. \A t \in Seq(CallsOK) : <<>> \o t = t OBVIOUS
        <5>2. <<>> \o Tail(todo) = Tail(todo) BY <1>1, <5>1, Zenon
        <5>3. QED BY <4>2, <5>2, Zenon
      <4>4. walk'[p].todo = AttachThenSync BY <1>1, <1>2, <2>4, <3>1, <4>3, SaidThen
      <4>5. QED BY <4>4 DEF LeadsOn, Leads
    <3>2. CASE call.op # "init"
      <4>1. call.op \notin {"init", "attach", "sync"} BY <2>1, <3>2 DEF O!CheckedOps
      <4>2. QED BY <1>1, <1>2, <1>5, <2>1, <2>4, <3>2, <4>1, ClimbsPast
    <3>3. QED BY <3>1, <3>2
  <2>5. QED BY <1>3, <2>2, <2>3, <2>4
<1>11. CASE O!Write(p)
  <2>1. call.op \in O!CheckedOps /\ UNCHANGED provided
    BY <1>11 DEF WalkInv, WalkCalls, O!Write
  <2>2. O!End(p) \/ (O!Advance(p) /\ onboarding' = O!Written(call))
    BY <1>5, <1>11 DEF O!Write
  <2>3. CASE O!Advance(p) /\ onboarding' = O!Written(call)
    <3>1. CASE call.op = "init" BY <1>2, <1>4, <2>3, <3>1 DEF LeadsOn, Leads
    <3>2. CASE call.op # "init"
      <4>1. Climbs(todo) /\ Above(onboarding.state) \subseteq Ahead(todo, 1)
        BY <1>2, <2>1, <3>2 DEF O!CheckedOps
      <4>2. onboarding \in [state : O!States \cup {"none"}, stages : [O!Stages -> O!Statuses]]
        BY DEF WalkInv, WalkFields, O!OnboardingRecords
      <4>3. IF call.op = "go" THEN onboarding'.state = call.arg
                              ELSE onboarding'.state = onboarding.state
        BY <2>3, <3>2, <4>2 DEF O!Written
      <4>4. QED BY <1>1, <2>3, <4>1, <4>3, ClimbsOn
    <3>3. QED BY <3>1, <3>2
  <2>4. QED BY <1>3, <2>2, <2>3
<1>12. CASE O!Stop(p) BY <1>3, <1>12 DEF O!Stop
<1>13. QED BY <1>7, <1>8, <1>9, <1>10, <1>11, <1>12

\* Leads of the state after a step.
LEMMA LeadsThen ==
  ASSUME NEW p \in Procs
  PROVE  Leads(walk[p].todo, provided, onboarding.state)'
           <=> Leads(walk'[p].todo, provided', onboarding'.state)
  BY DEF Leads, Climbs, Ahead, Above, Height, Rungs, AttachThenSync, O!Call

LEMMA FinishCalls ==
  ASSUME WalkInv, FinishInv, NEW p \in Procs,
         \/ O!Attach(p) \/ O!Sync(p) \/ O!Render(p) \/ O!Configure(p)
         \/ O!Check(p) \/ O!Write(p) \/ O!Stop(p)
  PROVE  FinishInv' /\ O!WalkEnds
<1>1. walk \in [Procs -> WalkTypes] /\ walk[p].todo # <<>> /\ walk[p].todo \in Seq(CallsOK)
  BY DEF WalkInv, WalkCalls, WalkTypes, O!Attach, O!Sync, O!Render, O!Configure, O!Check,
         O!Write, O!Stop, O!Doing, O!Busy
<1>2. overlapped' = overlapped
  BY DEF O!Attach, O!Sync, O!Render, O!Configure, O!Check, O!Write, O!Stop
<1>3. /\ \A q \in Procs \ {p} : walk'[q] = walk[q]
      /\ walk'[p].todo # <<>> => walk'[p].kind = walk[p].kind
      /\ walk[p].said = "nothing" /\ walk'[p].said = "ok" => walk'[p].todo = <<>>
  <2> DEFINE Goal == /\ \A q \in Procs \ {p} : walk'[q] = walk[q]
                     /\ walk'[p].todo # <<>> => walk'[p].kind = walk[p].kind
                     /\ walk[p].said = "nothing" /\ walk'[p].said = "ok" => walk'[p].todo = <<>>
  <2>1. CASE O!End(p)
    <3>1. \A q \in Procs \ {p} : walk'[q] = walk[q] BY <2>1, EndCalls DEF Calls
    <3>2. QED BY <2>1, <3>1, SaidThen
  <2>2. ASSUME NEW todo \in Seq(CallsOK), O!Continue(p, todo) PROVE Goal
    BY <2>2, SaidThen
  <2>3. CASE O!Advance(p)
    <3>1. Tail(walk[p].todo) \in Seq(CallsOK) BY <1>1, HeadTailProperties
    <3>2. QED BY <2>2, <2>3, <3>1 DEF O!Advance
  <2>4. CASE walk' = [walk EXCEPT ![p].checked = TRUE] BY <1>1, <2>4 DEF WalkTypes
  <2>5. CASE O!Sync(p)
    <3>1. O!Walk(onboarding.stages) \in Seq(CallsOK) /\ O!ConfigureThenReady \in Seq(CallsOK)
      BY WalkClimbs, ReadyClimbs
    <3>2. O!Continue(p, O!Walk(onboarding.stages)) \/ O!Continue(p, O!ConfigureThenReady) \/ O!End(p)
      BY <2>5 DEF O!Sync
    <3>3. QED BY <2>1, <2>2, <3>1, <3>2
  <2>6. CASE O!Check(p)
    <3> DEFINE call == Head(walk[p].todo)
               new == O!InPlaceOf(call) \o Tail(walk[p].todo)
    <3>1. O!End(p) \/ walk' = [walk EXCEPT ![p].checked = TRUE] \/ O!Continue(p, new)
      BY <2>6 DEF O!Check, O!NextCall
    <3>2. Tail(walk[p].todo) \in Seq(CallsOK) BY <1>1, HeadTailProperties
    <3>3. O!InPlaceOf(call) \in Seq(CallsOK)
      <4>1. O!Call("patch", "providers") \in CallsOK BY WalkMade DEF O!Stages
      <4>2. QED BY <4>1 DEF O!InPlaceOf
    <3>4. new \in Seq(CallsOK) BY <3>2, <3>3
    <3>5. QED BY <2>1, <2>2, <2>4, <3>1, <3>4
  <2>7. QED BY <2>1, <2>3, <2>5, <2>6 DEF O!Attach, O!Render, O!Configure, O!Write, O!Stop
<1>4. ASSUME p \notin overlapped
      PROVE  /\ \A q \in Procs \ {p} : walk[q].todo = <<>>
             /\ walk[p].kind = "providers" => LeadsOn(p)
  BY <1>1, <1>4, AloneGoesOn DEF FinishInv
<1>5. ASSUME NEW r \in Procs, r \notin overlapped', walk'[r].todo # <<>>
      PROVE  /\ \A q \in Procs \ {r} : walk'[q].todo = <<>>
             /\ walk'[r].kind = "providers" => Leads(walk'[r].todo, provided', onboarding'.state)
  <2>1. CASE r = p BY <1>2, <1>3, <1>4, <1>5, <2>1 DEF LeadsOn
  <2>2. CASE r # p
    <3>1. walk[r].todo # <<>> /\ r \notin overlapped BY <1>2, <1>3, <1>5, <2>2
    <3>2. QED BY <1>1, <2>2, <3>1 DEF FinishInv
  <2>3. QED BY <2>1, <2>2
<1>6. FinishInv' BY <1>5, LeadsThen DEF FinishInv
<1>7. ASSUME NEW r \in Procs \ overlapped, walk[r].kind = "providers", walk[r].said = "nothing",
             walk'[r].said = "ok"
      PROVE  onboarding'.state = "ready"
  <2>1. r = p BY <1>3, <1>7
  <2>2. LeadsOn(p) /\ walk'[p].todo = <<>> BY <1>3, <1>4, <1>7, <2>1
  <2>3. Leads(<<>>, provided', onboarding'.state) BY <1>7, <2>1, <2>2 DEF LeadsOn
  <2>4. <<O!Call("init", "-")>> \o AttachThenSync # <<>> /\ AttachThenSync # <<>>
    <3>1. O!Call("init", "-") \in CallsOK BY WalkMade
    <3>2. <<O!Call("init", "-")>> \o AttachThenSync # <<>> BY <3>1, BeforeWalk, OneMore
    <3>3. QED BY <3>2 DEF AttachThenSync
  <2>5. Above(onboarding'.state) \subseteq {} BY <2>3, <2>4, NothingAhead DEF Leads
  <2>6. "ready" \notin Above(onboarding'.state) BY <2>5
  <2>7. Height(onboarding'.state) >= 5 BY <2>6 DEF Above, Rungs, Height
  <2>8. QED BY <2>7 DEF Height
<1>8. QED BY <1>6, <1>7 DEF O!WalkEnds

LEMMA FinishBegins ==
  ASSUME WalkInv, FinishInv, NEW p \in Procs, NEW kind, NEW todo,
         kind = "providers" => Leads(todo, provided, onboarding.state), O!Begin(p, kind, todo)
  PROVE  FinishInv' /\ O!WalkEnds
<1> DEFINE new == [O!Idle EXCEPT !.kind = kind, !.todo = todo]
<1>1. /\ walk \in [Procs -> WalkTypes] /\ walk' = [walk EXCEPT ![p] = new]
      /\ UNCHANGED <<onboarding, provided>> /\ p \notin O!Busy
      /\ overlapped' = IF O!Busy = {} THEN overlapped \ {p} ELSE overlapped \cup O!Busy \cup {p}
  BY DEF WalkInv, WalkCalls, O!Begin
<1>2. new.todo = todo /\ new.kind = kind /\ new.said = "nothing" BY DEF O!Idle
<1> HIDE DEF new
<1>3. walk'[p] = new /\ \A q \in Procs \ {p} : walk'[q] = walk[q] BY <1>1
<1>4. ASSUME NEW r \in Procs, r \notin overlapped', walk'[r].todo # <<>>
      PROVE  /\ \A q \in Procs \ {r} : walk'[q].todo = <<>>
             /\ walk'[r].kind = "providers" => Leads(walk'[r].todo, provided', onboarding'.state)
  <2>1. r # p => r \in O!Busy BY <1>3, <1>4 DEF O!Busy
  <2>2. O!Busy = {} BY <1>1, <1>4, <2>1
  <2>3. r = p BY <2>1, <2>2
  <2>4. \A q \in Procs : walk[q].todo = <<>> BY <2>2 DEF O!Busy
  <2>5. QED BY <1>1, <1>2, <1>3, <2>3, <2>4
<1>5. FinishInv' BY <1>4, LeadsThen DEF FinishInv
<1>6. O!WalkEnds BY <1>2, <1>3 DEF O!WalkEnds
<1>7. QED BY <1>5, <1>6

LEMMA FinishNext ==
  ASSUME WalkInv, FinishInv, O!Next
  PROVE  FinishInv' /\ O!WalkEnds
<1>1. ASSUME NEW p \in Procs, O!BeginProviders(p) PROVE FinishInv' /\ O!WalkEnds
  <2> DEFINE todo == O!InitIf(onboarding.state = "none") \o AttachThenSync
  <2>1. O!Begin(p, "providers", todo) BY <1>1 DEF O!BeginProviders, AttachThenSync
  <2>2. todo = <<O!Call("init", "-")>> \o AttachThenSync \/ todo = AttachThenSync
    <3>1. \A t \in Seq(CallsOK) : <<>> \o t = t OBVIOUS
    <3>2. <<>> \o AttachThenSync = AttachThenSync BY <3>1, BeforeWalk
    <3>3. QED BY <3>2 DEF O!InitIf
  <2>3. Leads(todo, provided, onboarding.state) BY <2>2 DEF Leads
  <2> HIDE DEF todo
  <2>4. QED BY <2>1, <2>3, FinishBegins
<1>2. ASSUME NEW p \in Procs,
             \/ O!BeginInstalled(p) \/ O!BeginCanonical(p)
             \/ \E s \in {"identity", "validate"} : O!BeginStage(p, s)
      PROVE  FinishInv' /\ O!WalkEnds
  <2>1. PICK kind \in {"installed", "canonical", "stage"} : \E todo : O!Begin(p, kind, todo)
    BY <1>2 DEF O!BeginInstalled, O!BeginCanonical, O!BeginStage
  <2>2. QED BY <2>1, FinishBegins
<1>3. ASSUME O!Detach \/ O!SetAside \/ O!InstallEnds \/ O!Reinstall
      PROVE  FinishInv' /\ O!WalkEnds
  <2>1. walk' = walk /\ overlapped' = overlapped \cup O!Busy
    BY <1>3 DEF O!Detach, O!SetAside, O!InstallEnds, O!Reinstall
  <2>2. \A p \in Procs \ overlapped' : walk'[p].todo = <<>> BY <2>1 DEF O!Busy
  <2>3. QED BY <2>1, <2>2 DEF FinishInv, O!WalkEnds
<1>4. QED BY <1>1, <1>2, <1>3, FinishCalls DEF O!Next

LEMMA FinishStutter == ASSUME FinishInv, UNCHANGED onboardingVars
                       PROVE  FinishInv' /\ O!WalkEnds
<1>1. UNCHANGED <<onboarding, provided, walk, overlapped>> BY DEF onboardingVars
<1>2. FinishInv' BY <1>1, LeadsThen DEF FinishInv
<1>3. O!WalkEnds BY <1>1 DEF O!WalkEnds
<1>4. QED BY <1>2, <1>3

-----------------------------------------------------------------------------
(***************************************************************************)
(* All that MCAgents runs.                                                 *)
(***************************************************************************)
AgentsInv ==
  /\ PartsInv
  /\ focus = "lifecycle" => LifeInv
  /\ focus = "onboarding" => WalkInv /\ AsideInv

LEMMA AgentsStart == ASSUME AgentsInit, AgentsAssumption, ClaudeAssumption PROVE AgentsInv
<1>1. CASE MCInit
  <2>1. focus \in {"sync", "render", "claude"} BY <1>1 DEF MCInit
  <2>2. QED BY <1>1, <2>1, PartsStart DEF AgentsInv
<1>2. CASE focus = "lifecycle" /\ L!Init /\ CanonicalStill
  <2>1. PartsInv BY <1>2, StillSound DEF PartsInv, CanonicalStill
  <2>2. LifeInv BY <1>2, LifeStart DEF AgentsAssumption
  <2>3. QED BY <1>2, <2>1, <2>2 DEF AgentsInv
<1>3. CASE focus = "onboarding" /\ O!Init /\ CanonicalStill
  <2>1. PartsInv BY <1>3, StillSound DEF PartsInv, CanonicalStill
  <2>2. WalkInv /\ AsideInv BY <1>3, WalkStart DEF AgentsAssumption
  <2>3. QED BY <1>3, <2>1, <2>2 DEF AgentsInv
<1>4. QED BY <1>1, <1>2, <1>3 DEF AgentsInit

LEMMA AgentsStep ==
  ASSUME AgentsInv, AgentsNext, AgentsAssumption, ClaudeAssumption
  PROVE  AgentsInv'
<1>1. CASE MCNext /\ UNCHANGED <<lifecycleVars, onboardingVars>>
  <2>1. focus' = focus /\ focus \in {"sync", "render", "claude"} BY <1>1 DEF MCNext
  <2>2. PartsInv' BY <1>1, PartsStep DEF AgentsInv
  <2>3. QED BY <2>1, <2>2 DEF AgentsInv
<1>2. CASE focus = "lifecycle" /\ L!Next /\ UNCHANGED <<focus, canonicalVars, onboardingVars>>
  <2>1. PartsInv' BY <1>2, PartsStutter DEF AgentsInv, canonicalVars
  <2>2. LifeInv' BY <1>2, LifeStep DEF AgentsInv, AgentsAssumption
  <2>3. QED BY <1>2, <2>1, <2>2 DEF AgentsInv
<1>3. CASE focus = "onboarding" /\ O!Next /\ UNCHANGED <<focus, canonicalVars, lifecycleVars>>
  <2>1. PartsInv' BY <1>3, PartsStutter DEF AgentsInv, canonicalVars
  <2>2. WalkInv' /\ AsideInv' BY <1>3, WalkStep, AsideStep DEF AgentsInv, AgentsAssumption
  <2>3. QED BY <1>3, <2>1, <2>2 DEF AgentsInv
<1>4. QED BY <1>1, <1>2, <1>3 DEF AgentsNext

LEMMA AgentsStutter ==
  ASSUME AgentsInv, UNCHANGED <<all, lifecycleVars, onboardingVars>>
  PROVE  AgentsInv'
<1>1. UNCHANGED <<focus, vars, renderVars, claudeVars, lifecycleVars, onboardingVars>> BY DEF all
<1>2. PartsInv' BY <1>1, PartsStutter DEF AgentsInv
<1>3. focus = "lifecycle" => LifeInv' BY <1>1, LifeStutter DEF AgentsInv
<1>4. focus = "onboarding" => WalkInv' /\ AsideInv'
  BY <1>1, WalkStutter, AsideStutter DEF AgentsInv
<1>5. QED BY <1>1, <1>2, <1>3, <1>4 DEF AgentsInv

\* AgentsInv is invariant: a process's list of steps, and what its steps have left, agree.
THEOREM AgentsInvariance == AgentsSpec => []AgentsInv
<1>1. AgentsInit => AgentsInv BY AgentsStart, AgentsAssumption, ClaudeAssumption
<1>2. AgentsInv /\ [AgentsNext]_<<all, lifecycleVars, onboardingVars>> => AgentsInv'
  BY AgentsStep, AgentsStutter, AgentsAssumption, ClaudeAssumption
<1>3. QED BY <1>1, <1>2, PTL DEF AgentsSpec

-----------------------------------------------------------------------------
LEMMA LifeTyped == ASSUME LifeInv PROVE L!TypeOK
<1>1. LifeFields /\ LifeCommands BY DEF LifeInv
<1>2. ASSUME NEW p \in Procs
      PROVE  /\ command[p].op \in L!Ops /\ command[p].kept \in L!Records
             /\ command[p].bearer \in L!Bearers \cup {NoBearer} /\ command[p].stale \in BOOLEAN
             /\ \A i \in DOMAIN command[p].todo : command[p].todo[i] \in L!Steps
  <2>1. command[p] \in Sessions BY <1>1 DEF LifeCommands
  <2>2. command[p].todo \in Seq(L!Steps) BY <2>1 DEF Sessions
  <2>3. QED BY <2>1, <2>2 DEF Sessions
<1>3. QED BY <1>1, <1>2 DEF LifeFields, L!TypeOK

LEMMA WalkTyped == ASSUME WalkInv, AsideInv PROVE O!TypeOK
<1>1. WalkFields /\ WalkCalls BY DEF WalkInv
<1>2. ASSUME NEW p \in Procs
      PROVE  /\ walk[p].kind \in {"none", "installed", "stage", "providers", "canonical"}
             /\ \A i \in DOMAIN walk[p].todo : walk[p].todo[i] \in O!Calls
             /\ walk[p].checked => walk[p].todo # <<>> /\ O!NextCall(p).op \in O!CheckedOps
             /\ walk[p].said \in {"nothing", "ok"}
  <2>1. walk[p] \in WalkTypes BY <1>1 DEF WalkCalls
  <2>2. walk[p].todo \in Seq(CallsOK) BY <2>1 DEF WalkTypes
  <2>3. \A i \in DOMAIN walk[p].todo : walk[p].todo[i] \in O!Calls BY <2>2 DEF CallsOK
  <2>4. QED BY <1>1, <2>1, <2>3 DEF WalkTypes, WalkCalls, O!NextCall
<1>3. QED BY <1>1, <1>2 DEF WalkFields, AsideInv, O!TypeOK

\* The types of all the parts.
THEOREM AgentsTyped == AgentsSpec => []TypesHold
<1>1. AgentsInv => TypesHold
  BY PartsTyped, LifeTyped, WalkTyped DEF AgentsInv, TypesHold
<1>2. QED BY AgentsInvariance, <1>1, PTL

\* Whatever is attached to an agent, and however activations of claude overlap: what is meant
\* under a name is what its daemon reads there.
THEOREM CredentialsRead == AgentsSpec => []OneCredential
<1>1. AgentsInv => OneCredential BY PartsShown DEF AgentsInv
<1>2. QED BY AgentsInvariance, <1>1, PTL

\* However installs, removals and the commands of other processes interleave, and wherever
\* one dies: an agent of which something is left on its host, or on this machine, is in
\* hosts.json, unless an install or a write of secrets ran beside the removal, the removal
\* gave up on one of the two, or a clean-up dropped the record of an installation that had
\* not ended and nobody has installed the agent since.
THEOREM NothingLeft == AgentsSpec => []NothingUnrecorded
<1>1. LifeInv => L!DaemonRecorded /\ L!LeftoversRecorded
  BY DEF LifeInv, HostNamed, LocalNamed, L!DaemonRecorded, L!LeftoversRecorded, L!OnHost
<1>2. AgentsInv => NothingUnrecorded BY <1>1 DEF AgentsInv, NothingUnrecorded
<1>3. QED BY AgentsInvariance, <1>2, PTL

\* In whatever order pairings end and their tokens are written, the bearer of the record is one
\* the daemon has paired, unless a command on the daemon or an install ran beside a removal.
THEOREM BearersAccepted == AgentsSpec => []BearerKnown
<1>1. LifeInv => L!BearerKnown
  BY DEF LifeInv, LifeFields, BearersKnown, Known, L!BearerKnown
<1>2. AgentsInv => BearerKnown BY <1>1 DEF AgentsInv, BearerKnown
<1>3. QED BY AgentsInvariance, <1>2, PTL

\* READY is earned by a configure, and a state by the stages behind it, whatever walks
\* interleave and however stale what they decide on.
THEOREM ReadyEarned == AgentsSpec => []ReadyIsEarned
<1>1. WalkInv => O!ReadyMeansConfigured BY DEF WalkInv, RecordEarned, O!ReadyMeansConfigured
<1>2. WalkInv => O!StagesBehind
  <2> SUFFICES ASSUME WalkInv, ~ reset, NEW s \in O!Behind(onboarding.state)
               PROVE  ~ Open(s)
    BY DEF O!StagesBehind, Open
  <2>1. RecordEarned BY DEF WalkInv
  <2>2. Manual \subseteq {"identity"} BY AgentsAssumption DEF AgentsAssumption, O!OnboardingAssumption
  <2>3. CASE onboarding.state = "identity" BY <2>1, <2>3 DEF O!Behind, RecordEarned
  <2>4. CASE onboarding.state \in {"channels", "validate"}
    <3>1. s = "providers" \/ (s = "identity" /\ "identity" \in Manual)
      BY <2>2, <2>4 DEF O!Behind
    <3>2. QED BY <2>1, <2>4, <3>1 DEF RecordEarned
  <2>5. CASE onboarding.state \notin {"identity", "channels", "validate"}
    BY <2>5 DEF O!Behind
  <2>6. QED BY <2>3, <2>4, <2>5
<1>3. AgentsInv => ReadyIsEarned BY <1>1, <1>2 DEF AgentsInv, ReadyIsEarned
<1>4. QED BY AgentsInvariance, <1>3, PTL

\* A configure of the providers stage that was alone and reports success leaves the agent
\* READY, wherever an earlier one that failed had left it.
THEOREM WalksFinish == AgentsSpec => WalkFinishes
<1> DEFINE AllInv == AgentsInv /\ (focus = "onboarding" => FinishInv)
           Goal == [focus = "onboarding" => O!WalkEnds]_onboardingVars
<1>1. AgentsInit => AllInv
  <2>1. AgentsInit => AgentsInv BY AgentsStart, AgentsAssumption, ClaudeAssumption
  <2>2. ASSUME AgentsInit, focus = "onboarding" PROVE FinishInv
    <3>1. O!Init BY <2>2 DEF AgentsInit, MCInit
    <3>2. \A p \in Procs : walk[p].todo = <<>> BY <3>1 DEF O!Init, O!Idle
    <3>3. QED BY <3>2 DEF FinishInv
  <2>3. QED BY <2>1, <2>2
<1>2. ASSUME AllInv, AgentsNext PROVE AllInv' /\ Goal
  <2>1. AgentsInv' BY <1>2, AgentsStep, AgentsAssumption, ClaudeAssumption
  <2>2. CASE MCNext /\ UNCHANGED <<lifecycleVars, onboardingVars>>
    <3>1. focus' = focus /\ focus \in {"sync", "render", "claude"} BY <2>2 DEF MCNext
    <3>2. QED BY <2>1, <3>1
  <2>3. CASE focus = "lifecycle" /\ L!Next /\ UNCHANGED <<focus, canonicalVars, onboardingVars>>
    BY <2>1, <2>3
  <2>4. CASE focus = "onboarding" /\ O!Next /\ UNCHANGED <<focus, canonicalVars, lifecycleVars>>
    <3>1. FinishInv' /\ O!WalkEnds BY <1>2, <2>4, FinishNext DEF AgentsInv
    <3>2. QED BY <2>1, <3>1
  <2>5. QED BY <1>2, <2>2, <2>3, <2>4 DEF AgentsNext
<1>3. ASSUME AllInv, UNCHANGED <<all, lifecycleVars, onboardingVars>> PROVE AllInv' /\ Goal
  <2>1. AgentsInv' BY <1>3, AgentsStutter
  <2>2. focus' = focus /\ UNCHANGED onboardingVars BY <1>3 DEF all
  <2>3. focus = "onboarding" => FinishInv' BY <1>3, <2>2, FinishStutter
  <2>4. QED BY <2>1, <2>2, <2>3
<1> HIDE DEF AllInv
<1>4. AllInv /\ [AgentsNext]_<<all, lifecycleVars, onboardingVars>> => AllInv' /\ Goal BY <1>2, <1>3
<1>5. QED BY <1>1, <1>4, PTL DEF AgentsSpec, WalkFinishes
=============================================================================
